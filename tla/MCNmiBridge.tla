---------------------------- MODULE MCNmiBridge ----------------------------
(***************************************************************************)
(* Small instances of NmiBridge: a reset and an NMI routine and one more,  *)
(* each in a bank of its own.  Accumulator values are only moved around and *)
(* compared, so permuting them changes nothing.                            *)
(***************************************************************************)
EXTENDS NmiBridge, TLC

CONSTANTS reset, nmi, sub, far,\* routines
          bankReset, bankNmi, bankSub, bankFar,
          FarCap   \* bound of the exploration on the far LIFO

MCRoutine == {reset, nmi, sub, far}
MCBank == {bankReset, bankNmi, bankSub, bankFar}
MCHome == (reset :> bankReset) @@ (nmi :> bankNmi) @@ (sub :> bankSub) @@ (far :> bankFar)
MCAccSymmetry == Permutations(Acc)

\* Nothing in the code limits the far LIFO: TLC looks no further than this.
FarBound == farPtr <= FarCap
=============================================================================
