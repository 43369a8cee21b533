------------------------------ MODULE MCCrates ------------------------------
(***************************************************************************)
(* Three parts of the crates that share no state, checked in one run: the  *)
(* discovery of code, the lowering of its flags, and the interrupt counter *)
(* of the MMC3 board model.  A behaviour is a behaviour of one of them.    *)
(***************************************************************************)
EXTENDS Discovery, FlagPrograms

CONSTANTS MaxLatch, Plain, Jumps, Lowered, MaxDepth

VARIABLES latch, counter, reload, enabled, pending, a12High, lowEdges, gap, beat,
          code, frames, stale, z80F, nzInA, aLost,
          part      \* which of the three the behaviour is of

boardVars ==
    <<latch, counter, reload, enabled, pending, a12High, lowEdges, gap, beat>>
flagVars == <<code, frames, stale, z80F, nzInA, aLost>>
cratesVars == <<part, boardVars, flagVars, vars>>

Board == INSTANCE Mmc3Irq
Flags == INSTANCE FlagLowering_proofs WITH Programs <- Lowered, Routine <- MCRoutine, Main <- "m"

ASSUME CratesAssumption == Board!Widths /\ Sizes /\ Programs /\ Flags!Supported

\* Programs whose last address returns and whose others are free, except that
\* an inline table stands behind the call that uses it, and nowhere else.  A
\* jump may also leave the window.
Last == Size - 1
Is(o) == [op |-> o, to |-> Size]
Cells ==
    {Is(o) : o \in Plain} \cup [op : Jumps, to : 0 .. Last - 1]
        \cup [op : Jumps \ {"br"}, to : {Size}]
Starts == {c \in Cells : c.op \notin {"data", "table", "jam", "rts"}}
TableBehindCall(i) ==
    \A a \in 1 .. Last : i[a].op = "table" <=> i[a - 1].op = "engine"
MCImages ==
    {i \in [0 .. Last -> Cells] : i[Last] = Is("rts") /\ i[0] \in Starts /\ TableBehindCall(i)}
MCVectors == {{0}}

\* A function of seven addresses that branches over a function it calls, which
\* returns or branches behind the label: where the branches and the call lead
\* is free.
To(o, t) == [op |-> o, to |-> t]
Around(x, y, z) ==
    <<To("br", x), To("jsr", y), Is("rts"), To("br", z), Is("rts"), Is("nop"), Is("rts")>>
MCEmbedded ==
    {[a \in 0 .. Last |-> Around(x, y, z)[a + 1]] : x, y, z \in 0 .. Last}

\* Each part needs only one program of the others.
Idle == [a \in Addr |-> IF a = Last THEN Is("rts") ELSE Is("nop")]

CratesInit ==
    /\ part \in {"board", "discovery", "lowering"}
    /\ part # "lowering" => code = CHOOSE p \in Lowered : TRUE
    /\ Flags!Init
    /\ Board!Init
    /\ part # "discovery" => image = Idle /\ dynamic = FALSE
    /\ Init

\* A lowered program stops at its end, or at the bound on calls.
Stopped == part = "lowering" /\ (frames = <<>> \/ Len(frames) = MaxDepth)

CratesNext ==
    \/ part = "board" /\ Board!Next /\ UNCHANGED <<part, flagVars, vars>>
    \/ part = "discovery" /\ Next /\ UNCHANGED <<part, boardVars, flagVars>>
    \/ part = "lowering" /\ Flags!Next /\ UNCHANGED <<part, boardVars, vars>>
    \/ Stopped /\ UNCHANGED cratesVars

CratesSpec == CratesInit /\ [][CratesNext]_cratesVars
-----------------------------------------------------------------------------
\* The board's registers keep their ranges (crates/nes_rom/src/mmc3.rs), the
\* functions, roots, labels and ranges of the analysis and the lift theirs
\* (analysis/src/lib.rs), and the lowered program its flags and call depth.
TypesOK ==
    CASE part = "board" -> Board!TypeOK
      [] part = "discovery" -> TypeOK
      [] part = "lowering" -> Flags!TypeOK

\* Whatever reads a flag, from shadow P or from the Z80's own flags, finds the
\* 6502's: ShadowExact and NativeExact of the instance (lower_routine,
\* crates/lower/src/lib.rs).
ShadowExact == Flags!ShadowExact
NativeExact == Flags!NativeExact

\* The clocks of the board's counter are spaced, and its registers and counter
\* are a countdown: Spaced and TimerSpec of the instance (mmc3.rs).
Spaced == Board!Spaced
TimerSpec == Board!TimerSpec
=============================================================================
