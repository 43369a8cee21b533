------------------------ MODULE FlagLowering_proofs ------------------------
(***************************************************************************)
(* The elisions of lower_routine are right for every program, of any       *)
(* length, whose branches and calls stay inside what the scans look at     *)
(* (JoinsCovered, TailsCounted, ComputedReturnsLast).                      *)
(*                                                                         *)
(* A stale flag is always settled: whoever left it stale proved that it is *)
(* overwritten before it is read, and execution has not left the ground    *)
(* that proof covers.  There are four such proofs, one per elision, and a  *)
(* fifth for a callee entered with a flag its caller left stale.           *)
(***************************************************************************)
EXTENDS FlagLowering, TLAPS

Operation == {o \in [op : STRING, arg : STRING, target : STRING] : IsBranch(o) => o.arg \in Cond}

Supported ==
    /\ Main \in Routine /\ MaxDepth \in Nat \ {0}
    /\ \A p \in Programs :
        /\ DOMAIN p = Routine /\ \A r \in Routine : p[r] \in Seq(Operation)
        /\ JoinsCovered(p) /\ TailsCounted(p) /\ ComputedReturnsLast(p)

\* Before i: an N/Z scan from some m held the write of m to be dead, and m is
\* still the last to have written N and Z.
NzSettled(p, r, i) ==
    \E m \in 1 .. i - 1 :
        /\ m \in DOMAIN p[r]
        /\ FlagsWritten(p[r][m]) \cap NZ # {} /\ Keeps(p, r, m) = "nowhere"
        /\ \A n \in m + 1 .. i - 1 : FlagsWritten(p[r][n]) \cap NZ = {}
        /\ IF p[r][m].op \in AResult THEN ShadowDead(p, r, m) ELSE PlainDead(p, r, m)

\* i is a branch fused to m.
RunSettled(p, r, i, f) ==
    \E m \in 1 .. i - 1 :
        /\ m \in DOMAIN p[r]
        /\ FusesHere(p, r, m) /\ f \in FlagsWritten(p[r][m]) /\ Follows(p[r], m, i, Native(p[r][m]))

ChainSettled(p, r, i, f) == Chained(p[r], i - 1) /\ f \in {"N", "Z", "C"}

Settled(p, r, i, f) ==
    \/ Dead(p, r, i - 1, f)
    \/ f \in NZ /\ NzSettled(p, r, i)
    \/ RunSettled(p, r, i, f)
    \/ ChainSettled(p, r, i, f)

\* From i on, routine r does not read f before it has written it.
Quiet(p, r, i, f) ==
    \A j \in DOMAIN p[r] : f \in MayRead(p[r][j]) =>
        \E k \in 1 .. j - 1 : Credits(p[r], k, f) /\ i <= k

Caller == frames[Len(frames) - 1]

Accounted ==
    Running => \A f \in stale :
        \/ Settled(code, Top.r, Top.i, f)
        \/ /\ Len(frames) > 1
           /\ Quiet(code, Top.r, Top.i, f)
           /\ Settled(code, Caller.r, Caller.i, f)

\* Where execution is.
Position == [r : Routine, i : Nat \ {0}]
Frames ==
    /\ code \in Programs
    /\ frames \in Seq(Position) /\ Len(frames) <= MaxDepth
    /\ \A d \in 2 .. Len(frames) : frames[d].r \in Called(code)
    /\ \A d \in 1 .. Len(frames) - 1 :
          /\ frames[d].i - 1 \in DOMAIN code[frames[d].r]
          /\ code[frames[d].r][frames[d].i - 1].op \in DirectCalls
    /\ stale \subseteq Flag /\ z80F \subseteq Flag /\ nzInA \in BOOLEAN /\ aLost \in BOOLEAN

\* What is in the Z80 when execution gets to an operation that uses it.
ReadyAt(p, r, i, inA, native) ==
    /\ i \in DOMAIN p[r] /\ p[r][i].op # "Label" /\ AHoldsNz(p[r], i) => inA
    /\ \A m \in DOMAIN p[r] :
          FusesHere(p, r, m) /\ Follows(p[r], m, i, Native(p[r][m])) =>
              {CondFlag[c] : c \in Native(p[r][m])} \subseteq native
    /\ Chained(p[r], i - 1) => "C" \in native
Ready == Running => ReadyAt(code, Top.r, Top.i, nzInA, z80F)

IInv == Frames /\ Accounted /\ Ready

-----------------------------------------------------------------------------
(***************************************************************************)
(* Facts about single operations.                                          *)
(***************************************************************************)
\* Every operation writes N and Z together or neither.
LEMMA NzTogether ==
    ASSUME NEW o
    PROVE  /\ FlagsWritten(o) \subseteq Flag
           /\ FlagsWritten(o) \cap NZ = {} \/ NZ \subseteq FlagsWritten(o)
BY DEF FlagsWritten, NZ, Flag

\* A transfer of control writes no flag.
LEMMA TransfersWriteNothing ==
    ASSUME NEW o, o.op \in Transfers \cup {"Label"}
    PROVE  FlagsWritten(o) = {}
BY DEF FlagsWritten, Transfers, Calls, DirectCalls, ResultOnly, Bitwise3, StepsXY, StepsMem,
       HardwareReads, Adds, Subtracts, Compares, ShiftsA, ShiftsMem

\* An operation that leaves its result in A writes N and Z.
LEMMA ResultsWriteNz ==
    ASSUME NEW o, o.op \in AResult \cup Fusable
    PROVE  NZ \subseteq FlagsWritten(o)
BY DEF FlagsWritten, AResult, Fusable, ResultOnly, Bitwise3, StepsXY, StepsMem,
       HardwareReads, Adds, Subtracts, Compares, ShiftsA, ShiftsMem, NZ, Flag

\* What a plan calls kept N and Z is an operation that writes neither.
LEMMA KeptIsKept ==
    ASSUME NEW o, o.op \in NzKept
    PROVE  FlagsWritten(o) \cap NZ = {} /\ ~ LosesA(o) /\ o.op \notin AResult
BY DEF FlagsWritten, NzKept, AResult, ResultOnly, Bitwise3, StepsXY, StepsMem, LosesA,
       HardwareReads, HardwareWrites, Adds, Subtracts, Compares, ShiftsA, ShiftsMem, NZ, Flag

\* Shifts write N, Z and C.
LEMMA ShiftsWriteNzc ==
    ASSUME NEW o, o.op \in ShiftsA
    PROVE  FlagsWritten(o) = {"N", "Z", "C"}
BY DEF FlagsWritten, ResultOnly, Bitwise3, StepsXY, StepsMem,
       HardwareReads, Adds, Subtracts, Compares, ShiftsA, ShiftsMem

\* A fused producer leaves in the Z80 the flags its branches look at.
LEMMA ProducersWrite ==
    ASSUME NEW p, NEW r, NEW i, FusesHere(p, r, i)
    PROVE  /\ {CondFlag[c] : c \in Native(p[r][i])} \subseteq FlagsWritten(p[r][i]) \ {"V"}
           /\ ~ IsBranch(p[r][i])
           /\ p[r][i].op # "Label"
           /\ p[r][i].op \notin Transfers
           /\ \E which : FlagsWritten(p[r][i]) \subseteq which
                         /\ Fuses(p, r, i, Native(p[r][i]), which)
<1> DEFINE o == p[r][i]
<1>1. CASE o.op \in Fusable
  <2>1. FlagsWritten(o) = NZ
    BY <1>1 DEF FlagsWritten, Fusable, ResultOnly, Bitwise3, StepsXY, StepsMem, HardwareReads, Adds,
                Subtracts, Compares, ShiftsA, ShiftsMem
  <2>2. Fuses(p, r, i, NzConds, NZ)
    BY <1>1 DEF FusesHere, Fusable, Bitwise3, StepsXY, StepsMem, Compares, ShiftsA, ShiftsMem,
                Adds, Subtracts
  <2>3. Native(o) = NzConds
    BY <1>1 DEF Native
  <2> QED
    BY <1>1, <2>1, <2>2, <2>3
    DEF NzConds, NZ, CondFlag, IsBranch, Fusable, Bitwise3, StepsXY, StepsMem, Transfers, Calls,
        DirectCalls, Cond
<1>2. CASE o.op \in Compares \cup ShiftsA \cup ShiftsMem
  <2>1. FlagsWritten(o) = {"N", "Z", "C"}
    BY <1>2 DEF FlagsWritten, ResultOnly, Bitwise3, StepsXY, StepsMem, HardwareReads, Adds,
                Subtracts, Compares, ShiftsA, ShiftsMem
  <2>2. Fuses(p, r, i, AluConds, {"N", "Z", "C"})
    BY <1>2 DEF FusesHere, Fusable, Bitwise3, StepsXY, StepsMem, Compares, ShiftsA, ShiftsMem,
                Adds, Subtracts
  <2>3. Native(o) = AluConds
    BY <1>2 DEF Native, Fusable, Bitwise3, StepsXY, StepsMem, Compares, ShiftsA, ShiftsMem
  <2> QED
    BY <1>2, <2>1, <2>2, <2>3
    DEF AluConds, CondFlag, IsBranch, Compares, ShiftsA, ShiftsMem, Transfers, Calls,
        DirectCalls, Cond
<1>3. CASE o.op \in Adds \cup Subtracts
  <2>1. FlagsWritten(o) = Flag
    BY <1>3 DEF FlagsWritten, ResultOnly, Bitwise3, StepsXY, StepsMem, HardwareReads, Adds,
                Subtracts, Compares, ShiftsA, ShiftsMem
  <2>2. Fuses(p, r, i, AluConds, Flag)
    BY <1>3 DEF FusesHere, Fusable, Bitwise3, StepsXY, StepsMem, Compares, ShiftsA, ShiftsMem,
                Adds, Subtracts
  <2>3. Native(o) = AluConds
    BY <1>3 DEF Native, Fusable, Bitwise3, StepsXY, StepsMem, Adds, Subtracts
  <2> QED
    BY <1>3, <2>1, <2>2, <2>3
    DEF AluConds, CondFlag, IsBranch, Adds, Subtracts, Transfers, Calls, DirectCalls, Cond, Flag
<1> QED
  BY <1>1, <1>2, <1>3 DEF FusesHere

-----------------------------------------------------------------------------
(***************************************************************************)
(* Facts about the scans.  Positions are those of one routine.             *)
(***************************************************************************)
\* What a dead flag meets first does not need it, and it stays dead.
LEMMA DeadStep ==
    ASSUME NEW p, NEW r, NEW f, NEW i \in Nat \ {0}, Len(p[r]) \in Nat, Dead(p, r, i - 1, f)
    PROVE  /\ ~ Demands(p, p[r][i], f)
           /\ f \notin FlagsWritten(p[r][i]) => Dead(p, r, i, f)
<1>1. PICK k \in (i - 1) + 1 .. Len(p[r]) :
              /\ f \in FlagsWritten(p[r][k])
              /\ \A j \in (i - 1) + 1 .. k : ~ Demands(p, p[r][j], f)
  BY DEF Dead
<1>2. i \in (i - 1) + 1 .. k /\ k \in Nat
  BY <1>1
<1>3. CASE f \notin FlagsWritten(p[r][i])
  <2>1. k \in i + 1 .. Len(p[r])
    BY <1>1, <1>2, <1>3
  <2>2. \A j \in i + 1 .. k : ~ Demands(p, p[r][j], f)
    BY <1>1, <1>2
  <2> QED
    BY <1>1, <1>2, <2>1, <2>2 DEF Dead
<1> QED
  BY <1>1, <1>2, <1>3

\* A label in front does not disturb a dead flag.
LEMMA DeadAtLabel ==
    ASSUME NEW p, NEW r, NEW f, NEW t \in DOMAIN p[r], DOMAIN p[r] = 1 .. Len(p[r]),
           Len(p[r]) \in Nat, p[r][t].op = "Label", Dead(p, r, t, f)
    PROVE  Dead(p, r, t - 1, f)
<1>1. PICK k \in t + 1 .. Len(p[r]) :
              /\ f \in FlagsWritten(p[r][k])
              /\ \A j \in t + 1 .. k : ~ Demands(p, p[r][j], f)
  BY DEF Dead
<1>2. ~ Demands(p, p[r][t], f)
  BY DEF Demands, FlagsRead, IsBranch, IsFlagBoundary, Adds, Subtracts, Rotates, DirectCalls, Calls
<1>3. k \in (t - 1) + 1 .. Len(p[r]) /\ \A j \in (t - 1) + 1 .. k : j = t \/ j \in t + 1 .. k
  BY <1>1
<1> QED
  BY <1>1, <1>2, <1>3 DEF Dead

\* A dead pair N, Z stays dead past an operation that does not need it.
LEMMA NzStep ==
    ASSUME NEW p, NEW r, NEW i \in Nat \ {0}, NzSettled(p, r, i), FlagsWritten(p[r][i]) \cap NZ = {}
    PROVE  NzSettled(p, r, i + 1)
<1>1. \A m \in 1 .. i - 1 : m \in 1 .. (i + 1) - 1
  OBVIOUS
<1>2. \A m \in 1 .. i - 1 : \A n \in m + 1 .. (i + 1) - 1 : n \in m + 1 .. i - 1 \/ n = i
  OBVIOUS
<1> QED
  BY <1>1, <1>2 DEF NzSettled

\* What settles N and Z lies ahead in the same routine.
LEMMA NzIsPending ==
    ASSUME NEW p, NEW r, NEW i, NzSettled(p, r, i)
    PROVE  NzPending(p, r, i)
BY DEF NzSettled, NzPending

\* The operation under a settled N or Z does not read it from shadow P, and is
\* no boundary; if it calls, the callee does not read it.
LEMMA NzUnread ==
    ASSUME NEW p, NEW r, NEW i \in DOMAIN p[r], DOMAIN p[r] = 1 .. Len(p[r]), Len(p[r]) \in Nat,
           NzSettled(p, r, i)
    PROVE  /\ p[r][i].op \notin DirectCalls => ~ IsFlagBoundary(p[r][i])
           /\ p[r][i].op \in DirectCalls => CalleeReads(p, p[r][i].target) \cap NZ = {}
           /\ IsNzBranch(p[r][i]) => AHoldsNz(p[r], i)
<1>1. PICK m \in 1 .. i - 1 :
        /\ m \in DOMAIN p[r]
        /\ \A n \in m + 1 .. i - 1 : FlagsWritten(p[r][n]) \cap NZ = {}
        /\ IF p[r][m].op \in AResult THEN ShadowDead(p, r, m) ELSE PlainDead(p, r, m)
  BY DEF NzSettled
<1>2. CASE p[r][m].op \in AResult
  <2>1. PICK k \in m + 1 .. Len(p[r]) :
          /\ FlagsWritten(p[r][k]) \cap NZ # {}
          /\ \A j \in m + 1 .. k : ~ ShadowStop(p, r, m, j)
    BY <1>1, <1>2 DEF ShadowDead
  <2>2. i \in m + 1 .. k
    BY <1>1, <2>1
  <2>3. ~ ShadowStop(p, r, m, i)
    BY <2>1, <2>2
  <2>4. ASSUME IsNzBranch(p[r][i]) PROVE AHoldsNz(p[r], i)
    <3>1. Clean(p[r], m, i)
      BY <2>3, <2>4 DEF ShadowStop
    <3>2. \A n \in m + 1 .. i - 1 : p[r][n].op \in NzKept
      <4> TAKE n \in m + 1 .. i - 1
      <4>1. p[r][n].op \in AResult \cup NzKept /\ FlagsWritten(p[r][n]) \cap NZ = {}
        BY <1>1, <3>1 DEF Clean
      <4>2. p[r][n].op \in AResult => NZ \subseteq FlagsWritten(p[r][n])
        BY ResultsWriteNz
      <4> QED
        BY <4>1, <4>2 DEF NZ
    <3> QED
      BY <1>1, <1>2, <3>2 DEF AHoldsNz
  <2> QED
    BY <2>3, <2>4 DEF ShadowStop
<1>3. CASE p[r][m].op \notin AResult
  <2>1. PICK k \in m + 1 .. Len(p[r]) :
          /\ FlagsWritten(p[r][k]) \cap NZ # {}
          /\ \A j \in m + 1 .. k : ~ PlainStop(p[r][j])
    BY <1>1, <1>3 DEF PlainDead
  <2>2. i \in m + 1 .. k
    BY <1>1, <2>1
  <2>3. ~ PlainStop(p[r][i])
    BY <2>1, <2>2
  <2> QED
    BY <2>3 DEF PlainStop, IsFlagBoundary, DirectCalls, Calls
<1> QED
  BY <1>2, <1>3

-----------------------------------------------------------------------------
(***************************************************************************)
(* How a step moves settled and quiet flags.  Ops(p, r) says that p[r] is  *)
(* a sequence.                                                             *)
(***************************************************************************)
Ops(p, r) == DOMAIN p[r] = 1 .. Len(p[r]) /\ Len(p[r]) \in Nat

\* A flag that a producer did not write down is settled after it.
LEMMA WrittenSettled ==
    ASSUME NEW p, NEW r, NEW i \in DOMAIN p[r], Ops(p, r), Keeps(p, r, i) # "shadow",
           NEW f \in FlagsWritten(p[r][i])
    PROVE  Settled(p, r, i + 1, f)
<1> DEFINE o == p[r][i]
<1>0. i \in Nat \ {0} /\ (i + 1) - 1 = i
  BY DEF Ops
<1>1. CASE Chained(p[r], i)
  <2>1. o.op \in ShiftsA
    BY <1>1 DEF Chained, InShiftRun, IsShift
  <2>2. f \in {"N", "Z", "C"}
    BY <2>1, ShiftsWriteNzc
  <2> QED
    BY <1>0, <1>1, <2>2 DEF Settled, ChainSettled
<1>2. CASE FusesHere(p, r, i)
  <2>1. Follows(p[r], i, i + 1, Native(o))
    BY <1>2, ProducersWrite DEF Fuses
  <2> QED
    BY <1>0, <1>2, <2>1 DEF Settled, RunSettled
<1>3. CASE ~ Chained(p[r], i) /\ ~ FusesHere(p, r, i)
  <2>1. Keeps(p, r, i) = "nowhere"
    BY <1>3 DEF Keeps
  <2>2. \/ ~ LiveAfter(p, r, i, FlagsWritten(o))
        \/ o.op \in ByNz /\ ~ NzLive(p, r, i)
    BY <1>3 DEF Keeps
  <2>3. CASE ~ LiveAfter(p, r, i, FlagsWritten(o))
    BY <1>0, <2>3 DEF LiveAfter, Settled
  <2>4. CASE o.op \in ByNz /\ ~ NzLive(p, r, i)
    <3>1. FlagsWritten(o) = NZ
      BY <2>4 DEF FlagsWritten, ByNz, ResultOnly, Bitwise3, StepsXY, StepsMem, HardwareReads, Adds,
                  Subtracts, Compares, ShiftsA, ShiftsMem
    <3>2. IF o.op \in AResult THEN ShadowDead(p, r, i) ELSE PlainDead(p, r, i)
      BY <2>4 DEF NzLive
    <3>3. FlagsWritten(o) \cap NZ # {} /\ i \in 1 .. (i + 1) - 1
      BY <1>0, <3>1 DEF NZ
    <3>4. \A n \in i + 1 .. (i + 1) - 1 : FlagsWritten(p[r][n]) \cap NZ = {}
      BY <1>0
    <3>5. NzSettled(p, r, i + 1)
      BY <2>1, <3>2, <3>3, <3>4 DEF NzSettled
    <3> QED
      BY <3>1, <3>5 DEF Settled
  <2> QED
    BY <2>2, <2>3, <2>4
<1> QED
  BY <1>1, <1>2, <1>3

\* A settled flag that an operation leaves alone is settled after it.
LEMMA StepSettled ==
    ASSUME NEW p, NEW r, NEW i \in DOMAIN p[r], Ops(p, r), NEW f \in Flag,
           Settled(p, r, i, f), f \notin FlagsWritten(p[r][i]), ~ IsBranch(p[r][i])
    PROVE  Settled(p, r, i + 1, f)
<1>0. i \in Nat \ {0} /\ (i + 1) - 1 = i
  BY DEF Ops
<1>1. CASE Dead(p, r, i - 1, f)
  BY <1>0, <1>1, DeadStep DEF Settled, Ops
<1>2. CASE f \in NZ /\ NzSettled(p, r, i)
  <2>1. FlagsWritten(p[r][i]) \cap NZ = {}
    BY <1>2, NzTogether
  <2> QED
    BY <1>0, <1>2, <2>1, NzStep DEF Settled
<1>3. ~ RunSettled(p, r, i, f)
  BY <1>0 DEF RunSettled, Follows
<1>4. ~ ChainSettled(p, r, i, f)
  <2>1. SUFFICES ASSUME ChainSettled(p, r, i, f) PROVE FALSE
    OBVIOUS
  <2>2. p[r][i].op \in ShiftsA
    BY <1>0, <2>1 DEF ChainSettled, Chained, IsShift
  <2> QED
    BY <2>1, <2>2, ShiftsWriteNzc DEF ChainSettled
<1> QED
  BY <1>1, <1>2, <1>3, <1>4 DEF Settled

\* A settled flag is settled on both ways out of a branch.
LEMMA BranchSettled ==
    ASSUME NEW p, JoinsCovered(p), NEW r \in Routine, NEW i \in DOMAIN p[r], Ops(p, r),
           NEW f \in Flag, Settled(p, r, i, f), IsBranch(p[r][i])
    PROVE  /\ Settled(p, r, i + 1, f)
           /\ LabelAt(p[r], p[r][i].target) # {}
           /\ \A t \in LabelAt(p[r], p[r][i].target) : Settled(p, r, t, f)
<1> DEFINE labels == LabelAt(p[r], p[r][i].target)
<1>0. i \in Nat \ {0} /\ (i + 1) - 1 = i
  BY DEF Ops
<1>a. ASSUME NEW t \in labels, Dead(p, r, t, f) PROVE Settled(p, r, t, f)
  <2>1. t \in DOMAIN p[r] /\ p[r][t].op = "Label"
    BY DEF LabelAt
  <2> QED
    BY <1>a, <2>1, DeadAtLabel DEF Settled, Ops
<1>1. ~ Dead(p, r, i - 1, f)
  <2>1. Demands(p, p[r][i], f)
    BY DEF Demands, IsBranch, DirectCalls
  <2> QED
    BY <1>0, <2>1, DeadStep DEF Ops
<1>2. CASE f \in NZ /\ NzSettled(p, r, i)
  <2>1. labels # {} /\ \A t \in labels : ~ LiveAfter(p, r, t, NZ)
    BY <1>2, NzIsPending DEF JoinsCovered
  <2>2. FlagsWritten(p[r][i]) = {}
    BY TransfersWriteNothing DEF IsBranch, Transfers
  <2>3. Settled(p, r, i + 1, f)
    BY <1>0, <1>2, <2>2, NzStep DEF Settled
  <2> QED
    BY <1>2, <1>a, <2>1, <2>3 DEF LiveAfter
<1>3. CASE RunSettled(p, r, i, f)
  <2>1. PICK m \in 1 .. i - 1 :
          /\ m \in DOMAIN p[r]
          /\ FusesHere(p, r, m) /\ f \in FlagsWritten(p[r][m]) /\ Follows(p[r], m, i, Native(p[r][m]))
    BY <1>3 DEF RunSettled
  <2>2. PICK which : FlagsWritten(p[r][m]) \subseteq which /\ Fuses(p, r, m, Native(p[r][m]), which)
    BY <2>1, ProducersWrite
  <2>3. i \in m + 1 .. Len(p[r])
    BY <2>1 DEF Ops
  <2>4. /\ labels # {}
        /\ \A t \in labels : ~ LiveAfter(p, r, t, which)
        /\ Follows(p[r], m, i + 1, Native(p[r][m])) \/ ~ LiveAfter(p, r, i, which)
    BY <2>1, <2>2, <2>3 DEF Fuses
  <2>5. f \in which
    BY <2>1, <2>2
  <2>6. CASE Follows(p[r], m, i + 1, Native(p[r][m]))
    <3>1. m \in 1 .. (i + 1) - 1
      BY <1>0
    <3>2. RunSettled(p, r, i + 1, f)
      BY <2>1, <2>6, <3>1 DEF RunSettled
    <3> QED
      BY <1>a, <2>4, <2>5, <3>2 DEF LiveAfter, Settled
  <2>7. CASE ~ LiveAfter(p, r, i, which)
    BY <1>0, <1>a, <2>4, <2>5, <2>7 DEF LiveAfter, Settled
  <2> QED
    BY <2>4, <2>6, <2>7
<1>4. ~ ChainSettled(p, r, i, f)
  BY <1>0 DEF ChainSettled, Chained, IsShift, ShiftsA, IsBranch
<1> QED
  BY <1>1, <1>2, <1>3, <1>4 DEF Settled

\* Where control leaves the routine nothing is left settled.
LEMMA BoundaryUnsettled ==
    ASSUME NEW p, NEW r, NEW i \in DOMAIN p[r], Ops(p, r), NEW f \in Flag, Settled(p, r, i, f)
    PROVE  p[r][i].op \notin DirectCalls => ~ IsFlagBoundary(p[r][i])
<1>0. i \in Nat \ {0}
  BY DEF Ops
<1>1. CASE Dead(p, r, i - 1, f)
  BY <1>0, <1>1, DeadStep DEF Demands, Ops
<1>2. CASE NzSettled(p, r, i)
  BY <1>2, NzUnread DEF Ops
<1>3. CASE RunSettled(p, r, i, f)
  <2>1. IsBranch(p[r][i])
    BY <1>0, <1>3 DEF RunSettled, Follows
  <2> QED
    BY <2>1 DEF IsBranch, IsFlagBoundary, Calls, DirectCalls
<1>4. CASE ChainSettled(p, r, i, f)
  <2>1. p[r][i].op \in ShiftsA
    BY <1>0, <1>4 DEF ChainSettled, Chained, IsShift
  <2> QED
    BY <2>1 DEF ShiftsA, IsFlagBoundary, Calls, DirectCalls
<1> QED
  BY <1>1, <1>2, <1>3, <1>4 DEF Settled

\* Nor at the end of a routine.
LEMMA LastUnsettled ==
    ASSUME NEW p, NEW r, NEW i \in DOMAIN p[r], Ops(p, r), NEW f \in Flag, Settled(p, r, i, f),
           p[r][i].op = "RtsDispatch"
    PROVE  i # Len(p[r])
<1>0. i \in Nat \ {0} /\ FlagsWritten(p[r][i]) = {}
  BY TransfersWriteNothing DEF Ops, Transfers
<1>1. SUFFICES ASSUME i = Len(p[r]) PROVE FALSE
  OBVIOUS
<1>2. ~ Dead(p, r, i - 1, f)
  BY <1>0, <1>1 DEF Dead
<1>3. ~ NzSettled(p, r, i)
  <2>1. SUFFICES ASSUME NEW m \in 1 .. i - 1,
                        \A n \in m + 1 .. i - 1 : FlagsWritten(p[r][n]) \cap NZ = {},
                        NEW k \in m + 1 .. Len(p[r]), FlagsWritten(p[r][k]) \cap NZ # {}
                 PROVE  FALSE
    BY DEF NzSettled, ShadowDead, PlainDead
  <2>2. k = i \/ k \in m + 1 .. i - 1
    BY <1>0, <1>1
  <2> QED
    BY <1>0, <2>1, <2>2
<1>4. ~ RunSettled(p, r, i, f) /\ ~ ChainSettled(p, r, i, f)
  BY <1>0 DEF RunSettled, Follows, IsBranch, ChainSettled, Chained, IsShift, ShiftsA
<1> QED
  BY <1>2, <1>3, <1>4 DEF Settled

\* A call hands a settled flag to a callee that is quiet about it.
LEMMA CallSettled ==
    ASSUME NEW p, NEW r, NEW i \in DOMAIN p[r], Ops(p, r), NEW f \in Flag, Settled(p, r, i, f),
           p[r][i].op \in DirectCalls, p[r][i].target \in Routine, Ops(p, p[r][i].target)
    PROVE  Quiet(p, p[r][i].target, 1, f) /\ Settled(p, r, i + 1, f)
<1>0. i \in Nat \ {0}
  BY DEF Ops
<1>1. FlagsWritten(p[r][i]) = {} /\ ~ IsBranch(p[r][i])
  BY TransfersWriteNothing DEF Transfers, Calls, DirectCalls, IsBranch
<1>2. Settled(p, r, i + 1, f)
  BY <1>1, StepSettled
<1>3. f \notin CalleeReads(p, p[r][i].target)
  <2>1. CASE Dead(p, r, i - 1, f)
    BY <1>0, <2>1, DeadStep DEF Demands, Ops
  <2>2. CASE f \in NZ /\ NzSettled(p, r, i)
    BY <2>2, NzUnread DEF Ops
  <2>3. ~ RunSettled(p, r, i, f)
    BY <1>0, <1>1 DEF RunSettled, Follows
  <2>4. ~ ChainSettled(p, r, i, f)
    BY <1>0 DEF ChainSettled, Chained, IsShift, ShiftsA, DirectCalls
  <2> QED
    BY <2>1, <2>2, <2>3, <2>4 DEF Settled
<1>4. f \notin IncomingReads(p[p[r][i].target])
  BY <1>3 DEF CalleeReads
<1> QED
  BY <1>2, <1>4 DEF IncomingReads, Quiet, Ops

\* An operation does not read a flag its routine is quiet about.
LEMMA QuietUnread ==
    ASSUME NEW p, NEW r, NEW i \in DOMAIN p[r], Ops(p, r), NEW f, Quiet(p, r, i, f)
    PROVE  f \notin MayRead(p[r][i])
BY DEF Quiet, Ops

\* A routine quiet about a flag stays so past an operation.
LEMMA QuietStep ==
    ASSUME NEW p, NEW r, NEW i \in DOMAIN p[r], Ops(p, r), NEW f, Quiet(p, r, i, f),
           f \notin FlagsWritten(p[r][i])
    PROVE  Quiet(p, r, i + 1, f)
BY DEF Quiet, Ops, Credits

\* A routine that is quiet at a jump is quiet wherever the jump goes in it.
LEMMA QuietJump ==
    ASSUME NEW p, NEW r, NEW i \in DOMAIN p[r], Ops(p, r), NEW f, Quiet(p, r, i, f),
           p[r][i].op \in Diverts, NEW t
    PROVE  Quiet(p, r, t, f)
<1>1. FlagsWritten(p[r][i]) = {}
  BY TransfersWriteNothing DEF Diverts, Transfers, Calls
<1>2. ASSUME NEW j \in DOMAIN p[r], f \in MayRead(p[r][j]) PROVE FALSE
  <2>1. PICK k \in 1 .. j - 1 : Credits(p[r], k, f) /\ i <= k
    BY <1>2 DEF Quiet
  <2>2. k = i \/ i \in 1 .. k - 1
    BY <2>1 DEF Ops
  <2> QED
    BY <1>1, <2>1, <2>2 DEF Credits
<1> QED
  BY <1>2 DEF Quiet

-----------------------------------------------------------------------------
(***************************************************************************)
(* What is in the Z80 where control arrives.                               *)
(***************************************************************************)
\* Nothing is expected at the entry of a routine, at a label, or after a call.
LEMMA ReadyAtEntry ==
    ASSUME NEW p, NEW r, Ops(p, r), NEW inA, NEW native
    PROVE  ReadyAt(p, r, 1, inA, native)
BY DEF ReadyAt, Ops, AHoldsNz, Follows, Chained, InShiftRun, IsShift

\* Nothing is expected of the Z80 at a label.
LEMMA ReadyAtLabel ==
    ASSUME NEW p, NEW r, Ops(p, r), NEW t \in DOMAIN p[r], p[r][t].op = "Label", NEW inA, NEW native
    PROVE  ReadyAt(p, r, t, inA, native)
<1>0. t \in Nat \ {0} /\ (t - 1) + 1 = t
  BY DEF Ops
<1>1. \A m \in DOMAIN p[r] : ~ Follows(p[r], m, t, Native(p[r][m]))
  BY <1>0 DEF Follows, IsBranch, Ops
<1>2. ~ Chained(p[r], t - 1)
  BY <1>0 DEF Chained, IsShift, ShiftsA
<1> QED
  BY <1>1, <1>2 DEF ReadyAt

\* Nothing is expected of the Z80 after a call.
LEMMA ReadyAfterCall ==
    ASSUME NEW p, NEW r, Ops(p, r), NEW i \in Nat \ {0}, i - 1 \in DOMAIN p[r],
           p[r][i - 1].op \in DirectCalls, NEW inA, NEW native
    PROVE  ReadyAt(p, r, i, inA, native)
<1>1. ~ AHoldsNz(p[r], i)
  <2>1. SUFFICES ASSUME NEW m \in 1 .. i - 1, p[r][m].op \in AResult,
                        \A n \in m + 1 .. i - 1 : p[r][n].op \in NzKept
                 PROVE  FALSE
    BY DEF AHoldsNz
  <2>2. m = i - 1 \/ i - 1 \in m + 1 .. i - 1
    OBVIOUS
  <2>3. p[r][i - 1].op \notin AResult /\ p[r][i - 1].op \notin NzKept
    BY DEF DirectCalls, AResult, NzKept, Bitwise3, Adds, Subtracts, ShiftsA
  <2> QED
    BY <2>1, <2>2, <2>3
<1>2. \A m \in DOMAIN p[r] : ~ (FusesHere(p, r, m) /\ Follows(p[r], m, i, Native(p[r][m])))
  <2>1. SUFFICES ASSUME NEW m \in DOMAIN p[r], FusesHere(p, r, m), Follows(p[r], m, i, Native(p[r][m]))
                 PROVE  FALSE
    OBVIOUS
  <2>2. m = i - 1 \/ i - 1 \in m + 1 .. i
    BY <2>1 DEF Follows, Ops
  <2>3. m # i - 1
    BY <2>1, ProducersWrite DEF Transfers, Calls
  <2>4. IsBranch(p[r][i - 1])
    BY <2>1, <2>2, <2>3 DEF Follows
  <2> QED
    BY <2>4 DEF IsBranch, DirectCalls
<1>3. ~ Chained(p[r], i - 1)
  BY DEF Chained, InShiftRun, IsShift, ShiftsA, DirectCalls
<1> QED
  BY <1>1, <1>2, <1>3 DEF ReadyAt

\* What the next operation expects of A and the Z80 flags is what this one left.
LEMMA ReadyStep ==
    ASSUME NEW p, NEW r, Ops(p, r), NEW i \in DOMAIN p[r], p[r][i].op \notin Transfers,
           NEW inA, NEW native, ReadyAt(p, r, i, inA, native),
           NEW inA1, inA1 = (IF FlagsWritten(p[r][i]) \cap NZ # {}
                             THEN p[r][i].op \in AResult \cup HardwareReads
                             ELSE inA /\ ~ LosesA(p[r][i])),
           NEW native1, native1 = (IF Keeps(p, r, i) # "native" THEN {}
                                   ELSE IF Chained(p[r], i) THEN {"C"}
                                   ELSE FlagsWritten(p[r][i]) \ {"V"})
    PROVE  ReadyAt(p, r, i + 1, inA1, native1)
<1>0. i \in Nat \ {0} /\ (i + 1) - 1 = i
  BY DEF Ops
<1>1. ASSUME AHoldsNz(p[r], i + 1) PROVE inA1
  <2>1. PICK m \in 1 .. i : p[r][m].op \in AResult /\ \A n \in m + 1 .. i : p[r][n].op \in NzKept
    BY <1>0, <1>1 DEF AHoldsNz
  <2>2. CASE m = i
    <3>1. FlagsWritten(p[r][i]) \cap NZ # {}
      BY <2>1, <2>2, ResultsWriteNz DEF NZ
    <3> QED
      BY <2>1, <2>2, <3>1
  <2>3. CASE m # i
    <3>1. m \in 1 .. i - 1 /\ i \in m + 1 .. i /\ \A n \in m + 1 .. i - 1 : n \in m + 1 .. i
      BY <1>0, <2>3
    <3>2. AHoldsNz(p[r], i) /\ p[r][i].op \in NzKept
      BY <2>1, <3>1 DEF AHoldsNz
    <3>3. p[r][i].op # "Label"
      BY <3>2 DEF NzKept
    <3>4. inA
      BY <3>2, <3>3 DEF ReadyAt
    <3> QED
      BY <3>2, <3>4, KeptIsKept
  <2> QED
    BY <2>2, <2>3
<1>2. ASSUME NEW m \in DOMAIN p[r], FusesHere(p, r, m), Follows(p[r], m, i + 1, Native(p[r][m]))
      PROVE  {CondFlag[c] : c \in Native(p[r][m])} \subseteq native1
  <2>1. m \in Nat /\ (m = i \/ i \in m + 1 .. i + 1)
    BY <1>0, <1>2 DEF Follows, Ops
  <2>2. m = i
    BY <1>2, <2>1 DEF Follows, IsBranch, Transfers
  <2>3. IsBranch(p[r][i + 1])
    BY <1>0, <1>2, <2>2 DEF Follows
  <2>4. ~ Chained(p[r], i)
    BY <2>3 DEF Chained, IsShift, IsBranch, ShiftsA
  <2>5. Keeps(p, r, i) = "native"
    BY <1>2, <2>2 DEF Keeps
  <2> QED
    BY <1>2, <2>2, <2>4, <2>5, ProducersWrite
<1>3. ASSUME Chained(p[r], i) PROVE "C" \in native1
  BY <1>3 DEF Keeps
<1> QED
  BY <1>0, <1>1, <1>2, <1>3 DEF ReadyAt

\* A branch that is not taken leaves the next one what it found.
LEMMA ReadyPastBranch ==
    ASSUME NEW p, NEW r, Ops(p, r), NEW i \in DOMAIN p[r], IsBranch(p[r][i]),
           NEW inA, NEW native, ReadyAt(p, r, i, inA, native),
           NEW native1, native1 = (IF Decides(p, r, i) = "native" THEN native ELSE {})
    PROVE  ReadyAt(p, r, i + 1, inA, native1)
<1>0. i \in Nat \ {0} /\ (i + 1) - 1 = i
  BY DEF Ops
<1>1. ASSUME AHoldsNz(p[r], i + 1) PROVE inA
  <2>1. PICK m \in 1 .. i : p[r][m].op \in AResult /\ \A n \in m + 1 .. i : p[r][n].op \in NzKept
    BY <1>0, <1>1 DEF AHoldsNz
  <2>2. m # i
    BY <2>1 DEF IsBranch, AResult, Bitwise3, Adds, Subtracts, ShiftsA
  <2>3. m \in 1 .. i - 1 /\ \A n \in m + 1 .. i - 1 : n \in m + 1 .. i
    BY <1>0, <2>2
  <2>4. AHoldsNz(p[r], i)
    BY <2>1, <2>3 DEF AHoldsNz
  <2> QED
    BY <2>4 DEF ReadyAt, IsBranch
<1>2. ASSUME NEW m \in DOMAIN p[r], FusesHere(p, r, m), Follows(p[r], m, i + 1, Native(p[r][m]))
      PROVE  {CondFlag[c] : c \in Native(p[r][m])} \subseteq native1
  <2>1. m # i
    BY <1>2, ProducersWrite
  <2>2. m \in 1 .. i - 1 /\ \A n \in m + 1 .. i : n \in m + 1 .. i + 1
    BY <1>0, <1>2, <2>1 DEF Follows, Ops
  <2>3. Follows(p[r], m, i, Native(p[r][m]))
    BY <1>0, <1>2, <2>2 DEF Follows
  <2>4. Decides(p, r, i) = "native"
    BY <1>2, <2>2, <2>3 DEF Decides, InRun
  <2> QED
    BY <1>2, <2>3, <2>4 DEF ReadyAt
<1>3. ~ Chained(p[r], i)
  BY DEF Chained, InShiftRun, IsShift, IsBranch, ShiftsA
<1> QED
  BY <1>0, <1>1, <1>2, <1>3 DEF ReadyAt

-----------------------------------------------------------------------------
(***************************************************************************)
(* The invariant.                                                          *)
(***************************************************************************)
\* Where the program stands is inside a routine it was given.
LEMMA Standing ==
    ASSUME Supported, Frames, Running
    PROVE  /\ Len(frames) \in Nat \ {0} /\ DOMAIN frames = 1 .. Len(frames)
           /\ Top \in Position /\ Top.r \in Routine /\ Top.i \in Nat \ {0}
           /\ JoinsCovered(code) /\ TailsCounted(code) /\ ComputedReturnsLast(code)
           /\ \A r \in Routine : Ops(code, r)
           /\ Top.i \in DOMAIN Here /\ IsBranch(Op) => Op.arg \in Cond
           /\ Len(frames) > 1 => Top.r \in Called(code) /\ Caller \in Position
<1>1. Len(frames) \in Nat \ {0} /\ DOMAIN frames = 1 .. Len(frames)
  BY DEF Running, Frames
<1>2. Top \in Position
  BY <1>1 DEF Top, Frames
<1>3. Top.r \in Routine /\ Top.i \in Nat \ {0}
  BY <1>2 DEF Position
<1>4. \A r \in Routine : code[r] \in Seq(Operation)
  BY DEF Supported, Frames
<1>5. ASSUME NEW r \in Routine PROVE Ops(code, r)
  <2>1. code[r] \in Seq(Operation)
    BY <1>4
  <2> QED
    BY <2>1 DEF Ops
<1>6. Top.i \in DOMAIN Here /\ IsBranch(Op) => Op.arg \in Cond
  <2>1. Here \in Seq(Operation)
    BY <1>3, <1>4 DEF Here
  <2>2. Top.i \in DOMAIN Here => Here[Top.i] \in Operation
    BY <2>1
  <2> QED
    BY <2>2 DEF Op, Operation
<1>7. Len(frames) > 1 => Top.r \in Called(code) /\ Caller \in Position
  BY <1>1 DEF Frames, Top, Caller
<1> QED
  BY <1>1, <1>2, <1>3, <1>5, <1>6, <1>7 DEF Supported, Frames

\* The indices of frames: the top one, and those below it.
LEMMA Below ==
    ASSUME NEW n \in Nat \ {0}
    PROVE  /\ n \in 1 .. n
           /\ \A d \in 1 .. n - 1 : d \in 1 .. n /\ d # n
           /\ \A d \in 2 .. n : d = n \/ d \in 1 .. n - 1
           /\ n > 1 \/ n = 1
           /\ n > 1 => n # 1
           /\ \A d \in 2 .. n + 1 : d = n + 1 \/ (d = n /\ n > 1) \/ (d \in 2 .. n /\ d \in 1 .. n - 1)
           /\ \A d \in 1 .. (n + 1) - 1 : d = n \/ d \in 1 .. n - 1
<1>1. n \in 1 .. n /\ (\A d \in 1 .. n - 1 : d \in 1 .. n /\ d # n) /\ (n > 1 \/ n = 1) /\ (n > 1 => n # 1)
  OBVIOUS
<1>2. \A d \in 2 .. n : d = n \/ d \in 1 .. n - 1
  OBVIOUS
<1>3. \A d \in 2 .. n + 1 : d = n + 1 \/ (d = n /\ n > 1) \/ (d \in 2 .. n /\ d \in 1 .. n - 1)
  OBVIOUS
<1>4. \A d \in 1 .. (n + 1) - 1 : d = n \/ d \in 1 .. n - 1
  OBVIOUS
<1> QED
  BY <1>1, <1>2, <1>3, <1>4

\* Moving on within a frame.
LEMMA Moving ==
    ASSUME Supported, Frames, Running, NEW to \in Position, Advance(to), code' = code,
           Len(frames) > 1 => to.r = Top.r
    PROVE  /\ Len(frames') = Len(frames) /\ Top' = to
           /\ Len(frames) > 1 => Caller' = Caller
           /\ frames' \in Seq(Position)
           /\ \A d \in 2 .. Len(frames') : frames'[d].r \in Called(code)
           /\ \A d \in 1 .. Len(frames') - 1 : frames'[d] = frames[d]
<1>1. Len(frames) \in Nat \ {0} /\ DOMAIN frames = 1 .. Len(frames)
  BY Standing
<1>2. frames' = [frames EXCEPT ![Len(frames)] = to] /\ frames \in Seq(Position)
  BY DEF Advance, Frames
<1>3. Len(frames') = Len(frames) /\ frames' \in Seq(Position)
  BY <1>1, <1>2
<1>4. frames'[Len(frames)] = to /\ \A d \in 1 .. Len(frames) - 1 : frames'[d] = frames[d]
  <2>1. Len(frames) \in DOMAIN frames
    BY <1>1
  <2>2. \A d \in 1 .. Len(frames) - 1 : d \in DOMAIN frames /\ d # Len(frames)
    BY <1>1, Below, Zenon
  <2> QED
    BY <1>2, <2>1, <2>2
<1>5. Top' = to /\ (Len(frames) > 1 => Caller' = Caller)
  BY <1>1, <1>3, <1>4 DEF Top, Caller
<1>6. ASSUME NEW d \in 2 .. Len(frames) PROVE frames'[d].r \in Called(code)
  <2>1. CASE d = Len(frames)
    BY <1>1, <1>4, <2>1 DEF Frames, Top
  <2>2. CASE d # Len(frames)
    <3>1. d \in 1 .. Len(frames) - 1
      BY <1>1, <2>2, Below, Zenon
    <3> QED
      BY <1>4, <3>1 DEF Frames
  <2> QED
    BY <2>1, <2>2
<1> QED
  BY <1>3, <1>4, <1>5, <1>6

\* The invariant holds at the entry of the first routine.
LEMMA InitInv ==
    ASSUME Supported PROVE Init => IInv
<1> SUFFICES ASSUME Init PROVE IInv
  OBVIOUS
<1>1. frames = <<At(Main, 1)>> /\ At(Main, 1) \in Position /\ Main \in Routine /\ MaxDepth \in Nat \ {0}
  BY DEF Supported, Init, At, Position
<1>2. Frames
  <2>1. frames \in Seq(Position) /\ Len(frames) = 1
    BY <1>1
  <2>2. Len(frames) <= MaxDepth /\ 2 .. Len(frames) = {} /\ 1 .. Len(frames) - 1 = {}
    BY <1>1, <2>1
  <2> QED
    BY <2>1, <2>2 DEF Frames, Init
<1>3. Top.r = Main /\ Top.i = 1
  BY <1>1 DEF Top, At
<1>4. Accounted
  BY DEF Accounted, Init
<1>5. Ops(code, Main)
  BY <1>1, <1>2 DEF Supported, Frames, Ops
<1>6. Ready
  BY <1>3, <1>5, ReadyAtEntry DEF Ready
<1> QED
  BY <1>2, <1>4, <1>6 DEF IInv

\* Operations that stay in line preserve the invariant.
LEMMA ComputeInv ==
    ASSUME Supported, IInv, Compute PROVE IInv'
<1> DEFINE r == Top.r
           i == Top.i
<1>0. Running /\ Top.i \in DOMAIN Here /\ Op.op \notin Transfers /\ code' = code
  BY DEF Compute
<1>1. /\ Len(frames) \in Nat \ {0}
      /\ r \in Routine /\ i \in Nat \ {0} /\ Ops(code, r)
      /\ Len(frames) > 1 => r \in Called(code)
  BY <1>0, Standing DEF IInv
<1>2. i \in DOMAIN code[r] /\ Op = code[r][i] /\ Here = code[r]
  BY <1>0 DEF Here, Op
<1>3. At(r, i + 1) \in Position /\ At(r, i + 1).r = r /\ At(r, i + 1).i = i + 1
  BY <1>1 DEF At, Position
<1>4. Advance(At(r, i + 1))
  BY DEF Compute
<1>5. /\ Len(frames') = Len(frames) /\ Top' = At(r, i + 1)
      /\ Len(frames) > 1 => Caller' = Caller
      /\ frames' \in Seq(Position)
      /\ \A d \in 2 .. Len(frames') : frames'[d].r \in Called(code)
      /\ \A d \in 1 .. Len(frames') - 1 : frames'[d] = frames[d]
  BY <1>0, <1>1, <1>3, <1>4, Moving DEF IInv
<1>6. Frames'
  <2>1. stale' \subseteq Flag /\ z80F' \subseteq Flag
    BY NzTogether DEF Compute, IInv, Frames, Flag
  <2>2. aLost' \in BOOLEAN
    BY Zenon DEF Compute
  <2>a. nzInA' \in BOOLEAN
    <3> DEFINE written == FlagsWritten(Op)
    <3>1. nzInA' = IF written \cap NZ # {} THEN Op.op \in AResult \cup HardwareReads
                   ELSE nzInA /\ ~ LosesA(Op)
      BY DEF Compute
    <3>2. CASE written \cap NZ # {}
      <4>1. nzInA' = (Op.op \in AResult \cup HardwareReads)
        BY <3>1, <3>2, Zenon
      <4> QED
        BY <4>1
    <3>3. CASE written \cap NZ = {}
      <4>1. nzInA' = (nzInA /\ ~ LosesA(Op))
        BY <3>1, <3>3, Zenon
      <4> QED
        BY <4>1, Zenon
    <3> QED
      BY <3>2, <3>3
  <2>3. \A d \in 1 .. Len(frames') - 1 :
          /\ frames'[d].i - 1 \in DOMAIN code[frames'[d].r]
          /\ code[frames'[d].r][frames'[d].i - 1].op \in DirectCalls
    BY <1>5 DEF IInv, Frames
  <2> QED
    BY <1>0, <1>5, <2>1, <2>2, <2>a, <2>3 DEF IInv, Frames
<1>7. Accounted'
  <2>1. SUFFICES ASSUME NEW f \in stale'
                 PROVE  \/ Settled(code, r, i + 1, f)
                        \/ /\ Len(frames) > 1
                           /\ Quiet(code, r, i + 1, f)
                           /\ Settled(code, Caller.r, Caller.i, f)
    BY <1>0, <1>3, <1>5 DEF Accounted
  <2>2. f \in Flag
    BY <1>6 DEF Frames
  <2>3. CASE f \in FlagsWritten(Op)
    <3>1. Keeps(code, r, i) # "shadow"
      BY <2>1, <2>3 DEF Compute
    <3> QED
      BY <1>1, <1>2, <2>3, <3>1, WrittenSettled
  <2>4. CASE f \notin FlagsWritten(Op)
    <3>1. f \in stale
      BY <2>1, <2>4 DEF Compute
    <3>2. ~ IsBranch(code[r][i])
      BY <1>0, <1>2 DEF IsBranch, Transfers
    <3>3. CASE Settled(code, r, i, f)
      BY <1>1, <1>2, <2>2, <2>4, <3>2, <3>3, StepSettled
    <3>4. CASE /\ Len(frames) > 1
               /\ Quiet(code, r, i, f)
               /\ Settled(code, Caller.r, Caller.i, f)
      BY <1>1, <1>2, <2>4, <3>4, QuietStep
    <3> QED
      BY <1>0, <3>1, <3>3, <3>4 DEF IInv, Accounted
  <2> QED
    BY <2>3, <2>4
<1>8. Ready'
  <2>1. ReadyAt(code, r, i, nzInA, z80F)
    BY <1>0 DEF IInv, Ready
  <2>2. nzInA' = (IF FlagsWritten(code[r][i]) \cap NZ # {}
                  THEN code[r][i].op \in AResult \cup HardwareReads
                  ELSE nzInA /\ ~ LosesA(code[r][i]))
    BY <1>2 DEF Compute
  <2>3. z80F' = (IF Keeps(code, r, i) # "native" THEN {}
                 ELSE IF Chained(code[r], i) THEN {"C"}
                 ELSE FlagsWritten(code[r][i]) \ {"V"})
    BY <1>2 DEF Compute
  <2>4. ReadyAt(code, r, i + 1, nzInA', z80F')
    BY <1>0, <1>1, <1>2, <2>1, <2>2, <2>3, ReadyStep
  <2> QED
    BY <1>0, <1>3, <1>5, <2>4 DEF Ready
<1> QED
  BY <1>6, <1>7, <1>8 DEF IInv

\* Going to a label, or from the bottom frame to the entry of a routine.
LEMMA GoingInv ==
    ASSUME Supported, IInv, Running, Top.i \in DOMAIN Here, Op.op \in {"BranchIf", "Jmp"},
           NEW to, to \in {At(Top.r, t) : t \in LabelAt(Here, Op.target)} \cup {At(s, 1) : s \in Routine},
           Destination(Op, to), Advance(to), z80F' \subseteq Flag,
           UNCHANGED <<code, stale, nzInA, aLost>>
    PROVE  IInv'
<1> DEFINE r == Top.r
           i == Top.i
           labels == LabelAt(Here, Op.target)
<1>1. /\ Len(frames) \in Nat \ {0}
      /\ r \in Routine /\ i \in Nat \ {0} /\ Ops(code, r)
      /\ \A s \in Routine : Ops(code, s)
      /\ JoinsCovered(code) /\ TailsCounted(code)
      /\ Len(frames) > 1 => r \in Called(code)
  BY Standing DEF IInv
<1>2. i \in DOMAIN code[r] /\ Op = code[r][i] /\ Here = code[r]
  BY DEF Here, Op
<1>3. Len(frames) > 1 => labels # {}
  BY <1>1, <1>2 DEF TailsCounted
<1>4. CASE labels # {}
  <2>1. PICK t \in labels : to = At(r, t)
    BY <1>4 DEF Destination
  <2>2. t \in DOMAIN code[r] /\ code[r][t].op = "Label" /\ t \in Nat \ {0}
    BY <1>1, <1>2 DEF LabelAt, Ops
  <2>3. to \in Position /\ to.r = r /\ to.i = t
    BY <1>1, <2>1, <2>2 DEF At, Position
  <2>4. /\ Len(frames') = Len(frames) /\ Top' = to
        /\ Len(frames) > 1 => Caller' = Caller
        /\ frames' \in Seq(Position)
        /\ \A d \in 2 .. Len(frames') : frames'[d].r \in Called(code)
        /\ \A d \in 1 .. Len(frames') - 1 : frames'[d] = frames[d]
    BY <2>3, Moving DEF IInv
  <2>5. Frames'
    <3>1. \A d \in 1 .. Len(frames') - 1 :
            /\ frames'[d].i - 1 \in DOMAIN code[frames'[d].r]
            /\ code[frames'[d].r][frames'[d].i - 1].op \in DirectCalls
      BY <2>4 DEF IInv, Frames
    <3> QED
      BY <2>4, <3>1 DEF IInv, Frames
  <2>6. Accounted'
    <3>1. SUFFICES ASSUME NEW f \in stale
                   PROVE  \/ Settled(code, r, t, f)
                          \/ /\ Len(frames) > 1
                             /\ Quiet(code, r, t, f)
                             /\ Settled(code, Caller.r, Caller.i, f)
      BY <2>3, <2>4 DEF Accounted
    <3>2. f \in Flag
      BY DEF IInv, Frames
    <3>3. CASE Settled(code, r, i, f)
      <4>1. Op.op # "Jmp"
        BY <1>1, <1>2, <3>2, <3>3, BoundaryUnsettled DEF IsFlagBoundary, DirectCalls
      <4>2. IsBranch(code[r][i])
        BY <1>2, <4>1 DEF IsBranch
      <4> QED
        BY <1>1, <1>2, <3>2, <3>3, <4>2, BranchSettled
    <3>4. CASE /\ Len(frames) > 1
               /\ Quiet(code, r, i, f)
               /\ Settled(code, Caller.r, Caller.i, f)
      <4>1. code[r][i].op \in Diverts
        BY <1>2 DEF Diverts
      <4> QED
        BY <1>1, <1>2, <3>4, <4>1, QuietJump
    <3> QED
      BY <3>3, <3>4 DEF IInv, Accounted
  <2>7. Ready'
    BY <1>1, <2>2, <2>3, <2>4, ReadyAtLabel DEF Ready
  <2> QED
    BY <2>5, <2>6, <2>7 DEF IInv
<1>5. CASE labels = {}
  <2>1. PICK s \in Routine : to = At(s, 1)
    BY <1>5 DEF Destination
  <2>2. Len(frames) = 1
    <3>1. ~ (Len(frames) > 1)
      BY <1>3, <1>5
    <3> QED
      BY <1>1, <3>1, Below, Zenon
  <2>3. to \in Position /\ to.r = s /\ to.i = 1
    BY <2>1 DEF At, Position
  <2>4. /\ Len(frames') = 1 /\ Top' = to
        /\ frames' \in Seq(Position)
    BY <2>2, <2>3, Moving DEF IInv
  <2>5. Frames'
    BY <2>2, <2>4 DEF IInv, Frames
  <2>6. stale = {}
    <3>1. SUFFICES ASSUME NEW f \in stale PROVE FALSE
      OBVIOUS
    <3>2. f \in Flag /\ Settled(code, r, i, f)
      BY <2>2 DEF IInv, Accounted, Frames
    <3>3. Op.op # "Jmp"
      BY <1>1, <1>2, <3>2, BoundaryUnsettled DEF IsFlagBoundary, DirectCalls
    <3>4. IsBranch(code[r][i])
      BY <1>2, <3>3 DEF IsBranch
    <3> QED
      BY <1>1, <1>2, <1>5, <3>2, <3>4, BranchSettled
  <2>7. Accounted'
    BY <2>6 DEF Accounted
  <2>8. Ready'
    BY <1>1, <2>3, <2>4, ReadyAtEntry DEF Ready
  <2> QED
    BY <2>5, <2>7, <2>8 DEF IInv
<1> QED
  BY <1>4, <1>5

\* Branches preserve the invariant.
LEMMA BranchInv ==
    ASSUME Supported, IInv, NEW taken \in BOOLEAN, Branch(taken) PROVE IInv'
<1> DEFINE r == Top.r
           i == Top.i
<1>0. /\ Running /\ i \in DOMAIN Here /\ IsBranch(Op) /\ UNCHANGED <<code, stale, nzInA, aLost>>
      /\ z80F' = IF Decides(code, r, i) = "native" THEN z80F ELSE {}
  BY DEF Branch
<1>1. z80F' \subseteq Flag
  BY <1>0 DEF IInv, Frames
<1>2. CASE taken
  <2>1. PICK to \in {At(r, t) : t \in LabelAt(Here, Op.target)} \cup {At(s, 1) : s \in Routine} :
          Destination(Op, to) /\ Advance(to)
    BY <1>2 DEF Branch
  <2> QED
    BY <1>0, <1>1, <2>1, GoingInv DEF IsBranch
<1>3. CASE ~ taken
  <2>1. /\ Len(frames) \in Nat \ {0}
        /\ r \in Routine /\ i \in Nat \ {0} /\ Ops(code, r) /\ JoinsCovered(code)
    BY <1>0, Standing DEF IInv
  <2>2. i \in DOMAIN code[r] /\ Op = code[r][i]
    BY <1>0 DEF Here, Op
  <2>3. At(r, i + 1) \in Position /\ At(r, i + 1).r = r /\ At(r, i + 1).i = i + 1
    BY <2>1 DEF At, Position
  <2>4. Advance(At(r, i + 1))
    BY <1>3 DEF Branch
  <2>5. /\ Len(frames') = Len(frames) /\ Top' = At(r, i + 1)
        /\ Len(frames) > 1 => Caller' = Caller
        /\ frames' \in Seq(Position)
        /\ \A d \in 2 .. Len(frames') : frames'[d].r \in Called(code)
        /\ \A d \in 1 .. Len(frames') - 1 : frames'[d] = frames[d]
    BY <1>0, <2>3, <2>4, Moving DEF IInv
  <2>6. Frames'
    <3>1. \A d \in 1 .. Len(frames') - 1 :
            /\ frames'[d].i - 1 \in DOMAIN code[frames'[d].r]
            /\ code[frames'[d].r][frames'[d].i - 1].op \in DirectCalls
      BY <2>5 DEF IInv, Frames
    <3> QED
      BY <1>0, <1>1, <2>5, <3>1 DEF IInv, Frames
  <2>7. Accounted'
    <3>1. SUFFICES ASSUME NEW f \in stale
                   PROVE  \/ Settled(code, r, i + 1, f)
                          \/ /\ Len(frames) > 1
                             /\ Quiet(code, r, i + 1, f)
                             /\ Settled(code, Caller.r, Caller.i, f)
      BY <1>0, <2>3, <2>5 DEF Accounted
    <3>2. f \in Flag /\ f \notin FlagsWritten(code[r][i])
      BY <1>0, <2>2, TransfersWriteNothing DEF IInv, Frames, IsBranch, Transfers
    <3>3. CASE Settled(code, r, i, f)
      BY <1>0, <2>1, <2>2, <3>2, <3>3, BranchSettled
    <3>4. CASE /\ Len(frames) > 1
               /\ Quiet(code, r, i, f)
               /\ Settled(code, Caller.r, Caller.i, f)
      BY <2>1, <2>2, <3>2, <3>4, QuietStep
    <3> QED
      BY <1>0, <3>3, <3>4 DEF IInv, Accounted
  <2>8. Ready'
    <3>1. ReadyAt(code, r, i, nzInA, z80F)
      BY <1>0 DEF IInv, Ready
    <3>2. ReadyAt(code, r, i + 1, nzInA, z80F')
      BY <1>0, <2>1, <2>2, <3>1, ReadyPastBranch
    <3> QED
      BY <1>0, <2>3, <2>5, <3>2 DEF Ready
  <2> QED
    BY <2>6, <2>7, <2>8 DEF IInv
<1> QED
  BY <1>2, <1>3

\* Jumps preserve the invariant.
LEMMA JmpInv ==
    ASSUME Supported, IInv, Jmp PROVE IInv'
<1>1. PICK to \in {At(Top.r, t) : t \in LabelAt(Here, Op.target)} \cup {At(s, 1) : s \in Routine} :
        Destination(Op, to) /\ Advance(to)
  BY DEF Jmp
<1>2. /\ Running /\ Top.i \in DOMAIN Here /\ Op.op = "Jmp" /\ z80F' \subseteq Flag
      /\ UNCHANGED <<code, stale, nzInA, aLost>>
  BY DEF Jmp
<1> QED
  BY <1>1, <1>2, GoingInv

\* Calls preserve the invariant.
LEMMA JsrInv ==
    ASSUME Supported, IInv, Jsr PROVE IInv'
<1> DEFINE r == Top.r
           i == Top.i
           s == Op.target
           n == Len(frames)
<1>0. /\ Running /\ i \in DOMAIN Here /\ Op.op \in DirectCalls /\ s \in Routine /\ n < MaxDepth
      /\ z80F' = {} /\ UNCHANGED <<code, stale, nzInA, aLost>>
  BY DEF Jsr
<1>1. /\ n \in Nat \ {0} /\ DOMAIN frames = 1 .. n
      /\ Top \in Position /\ r \in Routine /\ i \in Nat \ {0}
      /\ \A q \in Routine : Ops(code, q)
  BY <1>0, Standing DEF IInv
<1>2. i \in DOMAIN code[r] /\ Op = code[r][i]
  BY <1>0 DEF Here, Op
<1>3. At(s, 1) \in Position /\ At(s, 1).r = s /\ At(s, 1).i = 1
  BY <1>0 DEF At, Position
<1>4. frames' = Append([frames EXCEPT ![n].i = i + 1], At(s, 1))
  BY DEF Jsr, Top
<1>5. /\ frames' \in Seq(Position) /\ Len(frames') = n + 1
      /\ frames'[n + 1] = At(s, 1)
      /\ frames'[n] = [Top EXCEPT !.i = i + 1]
      /\ \A d \in 1 .. n - 1 : frames'[d] = frames[d]
  <2> DEFINE g == [frames EXCEPT ![n].i = i + 1]
  <2>1. frames \in Seq(Position) /\ frames[n] = Top
    BY DEF IInv, Frames, Top
  <2>2. [Top EXCEPT !.i = i + 1] \in Position
    BY <1>1 DEF Position
  <2>3. g = [frames EXCEPT ![n] = [Top EXCEPT !.i = i + 1]]
    BY <2>1
  <2>4. g \in Seq(Position) /\ Len(g) = n
    BY <1>1, <2>1, <2>2, <2>3
  <2>5. g[n] = [Top EXCEPT !.i = i + 1] /\ \A d \in 1 .. n - 1 : g[d] = frames[d]
    <3>1. n \in DOMAIN frames /\ \A d \in 1 .. n - 1 : d \in DOMAIN frames /\ d # n
      BY <1>1, Below, Zenon
    <3> QED
      BY <2>3, <3>1
  <2> HIDE DEF g
  <2>6. Append(g, At(s, 1)) \in Seq(Position) /\ Len(Append(g, At(s, 1))) = n + 1
    BY <1>1, <1>3, <2>4
  <2>7. Append(g, At(s, 1))[n + 1] = At(s, 1) /\ \A d \in 1 .. n : Append(g, At(s, 1))[d] = g[d]
    BY <1>1, <1>3, <2>4
  <2>8. n \in 1 .. n /\ \A d \in 1 .. n - 1 : d \in 1 .. n
    BY <1>1, Below, Zenon
  <2> QED
    BY <1>4, <2>5, <2>6, <2>7, <2>8 DEF g
<1>6. frames'[n].r = r /\ frames'[n].i = i + 1
  BY <1>1, <1>5 DEF Position
<1>7. (n + 1) - 1 = n /\ n + 1 > 1 /\ (i + 1) - 1 = i
  BY <1>1
<1>8. Top'.r = s /\ Top'.i = 1 /\ Caller' = frames'[n]
  BY <1>3, <1>5, <1>7 DEF Top, Caller
<1>9. Frames'
  <2>1. s \in Called(code)
    BY <1>0, <1>1, <1>2 DEF Called
  <2>2. ASSUME NEW d \in 2 .. n + 1 PROVE frames'[d].r \in Called(code)
    <3>1. d = n + 1 \/ (d = n /\ n > 1) \/ (d \in 2 .. n /\ d \in 1 .. n - 1)
      BY <1>1, Below, Zenon
    <3>2. n > 1 => r \in Called(code)
      BY <1>0, Standing DEF IInv
    <3> QED
      BY <1>3, <1>5, <1>6, <2>1, <3>1, <3>2 DEF IInv, Frames
  <2>3. ASSUME NEW d \in 1 .. (n + 1) - 1
        PROVE  /\ frames'[d].i - 1 \in DOMAIN code[frames'[d].r]
               /\ code[frames'[d].r][frames'[d].i - 1].op \in DirectCalls
    <3>1. d = n \/ d \in 1 .. n - 1
      BY <1>1, Below, Zenon
    <3> QED
      BY <1>0, <1>2, <1>5, <1>6, <1>7, <3>1 DEF IInv, Frames
  <2>4. n + 1 <= MaxDepth
    BY <1>0, <1>1 DEF Supported
  <2> QED
    BY <1>0, <1>5, <2>2, <2>3, <2>4 DEF IInv, Frames
<1>10. Accounted'
  <2>1. SUFFICES ASSUME NEW f \in stale
                 PROVE  Quiet(code, s, 1, f) /\ Settled(code, r, i + 1, f)
    BY <1>0, <1>5, <1>6, <1>7, <1>8 DEF Accounted
  <2>2. f \in Flag
    BY DEF IInv, Frames
  <2>3. CASE Settled(code, r, i, f)
    BY <1>0, <1>1, <1>2, <2>2, <2>3, CallSettled
  <2>4. CASE Quiet(code, r, i, f)
    BY <1>0, <1>1, <1>2, <2>2, <2>4, QuietUnread DEF MayRead, Calls
  <2> QED
    BY <1>0, <2>3, <2>4 DEF IInv, Accounted
<1>11. Ready'
  BY <1>0, <1>1, <1>8, ReadyAtEntry DEF Ready
<1> QED
  BY <1>9, <1>10, <1>11 DEF IInv

\* Returns preserve the invariant.
LEMMA LeaveInv ==
    ASSUME Supported, IInv, Leave PROVE IInv'
<1> DEFINE r == Top.r
           i == Top.i
           n == Len(frames)
<1>0. /\ Running /\ i \in DOMAIN Here
      /\ z80F' = {} /\ UNCHANGED <<code, stale, nzInA, aLost>>
  BY DEF Leave
<1>1. n \in Nat \ {0} /\ r \in Routine /\ \A q \in Routine : Ops(code, q)
  BY <1>0, Standing DEF IInv
<1>2. i \in DOMAIN code[r] /\ Op = code[r][i]
  BY <1>0 DEF Here, Op
<1>3. CASE frames' = <<>>
  <2>1. Frames'
    BY <1>0, <1>3 DEF IInv, Frames, Supported
  <2>2. ~ Running'
    BY <1>3 DEF Running
  <2> QED
    BY <2>1, <2>2 DEF IInv, Accounted, Ready
<1>4. CASE n > 1 /\ Op.op = "Rts" /\ frames' = SubSeq(frames, 1, n - 1)
  <2>1. /\ frames' \in Seq(Position) /\ Len(frames') = n - 1
        /\ \A d \in 1 .. n - 1 : frames'[d] = frames[d]
    <3>1. frames \in Seq(Position) /\ n - 1 \in 1 .. n
      BY <1>1, <1>4 DEF IInv, Frames
    <3> HIDE DEF n
    <3> DEFINE m == n - 1
    <3>2. m \in Nat /\ m <= Len(frames)
      BY <1>1, <1>4, <3>1 DEF n
    <3>3. SubSeq(frames, 1, m) \in Seq(Position) /\ Len(SubSeq(frames, 1, m)) = m
      BY <3>1, <3>2
    <3>4. \A d \in 1 .. m : SubSeq(frames, 1, m)[d] = frames[d]
      BY <3>1, <3>2
    <3> QED
      BY <1>4, <3>3, <3>4
  <2>2. Top' = Caller /\ n - 1 \in 1 .. n - 1
    BY <1>1, <1>4, <2>1 DEF Top, Caller
  <2>3. Caller \in Position /\ Caller.i - 1 \in DOMAIN code[Caller.r]
        /\ code[Caller.r][Caller.i - 1].op \in DirectCalls
    BY <1>0, <1>4, <2>2, Standing DEF IInv, Frames, Caller
  <2>4. Caller.r \in Routine /\ Caller.i \in Nat \ {0}
    BY <2>3 DEF Position
  <2>5. Frames'
    <3>1. (\A d \in 2 .. n - 1 : d \in 2 .. n /\ d \in 1 .. n - 1)
          /\ (\A d \in 1 .. (n - 1) - 1 : d \in 1 .. n - 1) /\ n - 1 <= MaxDepth
      BY <1>1 DEF IInv, Frames, Supported
    <3> QED
      BY <1>0, <2>1, <3>1 DEF IInv, Frames
  <2>6. Accounted'
    <3>1. SUFFICES ASSUME NEW f \in stale PROVE Settled(code, Caller.r, Caller.i, f)
      BY <1>0, <2>2 DEF Accounted
    <3>2. f \in Flag
      BY DEF IInv, Frames
    <3>3. ~ Settled(code, r, i, f)
      BY <1>1, <1>2, <1>4, <3>2, BoundaryUnsettled DEF IsFlagBoundary, DirectCalls
    <3> QED
      BY <1>0, <3>3 DEF IInv, Accounted
  <2>7. Ready'
    BY <1>0, <1>1, <2>2, <2>3, <2>4, ReadyAfterCall DEF Ready
  <2> QED
    BY <2>5, <2>6, <2>7 DEF IInv
<1>5. n = 1 => SubSeq(frames, 1, n - 1) = <<>>
  BY DEF IInv, Frames
<1>6. n = 1 \/ n > 1
  BY <1>1, Below, Zenon
<1> QED
  BY <1>3, <1>4, <1>5, <1>6 DEF Leave

\* Every step preserves the invariant.
LEMMA InvStep ==
    ASSUME Supported, IInv, [Next]_vars PROVE IInv'
<1>1. CASE UNCHANGED vars
  BY <1>1 DEF vars, IInv, Frames, Accounted, Ready, Running, Top, Caller, Here, Op
<1> QED
  BY <1>1, ComputeInv, BranchInv, JmpInv, JsrInv, LeaveInv DEF Next

\* The invariant holds in every reachable state of a supported program: every
\* stale flag is settled ahead or its routine is quiet about it.
THEOREM Invariance ==
    ASSUME Supported PROVE Spec => []IInv
BY InitInv, InvStep, PTL DEF Spec

\* For every supported program, state and flags stay of their types, and the
\* translated call stack within its bound.
THEOREM TypeCorrect ==
    ASSUME Supported PROVE Spec => []TypeOK
<1>1. IInv => TypeOK
  <2> SUFFICES ASSUME IInv PROVE TypeOK
    OBVIOUS
  <2>1. DOMAIN code = Routine
    BY DEF IInv, Frames, Supported
  <2>2. ASSUME NEW d \in DOMAIN frames PROVE frames[d].r \in Routine
    <3>1. frames \in Seq(Position)
      BY DEF IInv, Frames
    <3>2. frames[d] \in Position
      BY <3>1
    <3> QED
      BY <3>2 DEF Position
  <2> QED
    BY <2>1, <2>2 DEF IInv, Frames, TypeOK
<1> QED
  BY <1>1, Invariance, PTL

\* For every supported program, nothing ever reads from shadow P a flag that an
\* elided write left stale: the liveness scans, and the summaries of callees
\* they use at calls, are right about every execution.
THEOREM ShadowIsExact ==
    ASSUME Supported PROVE Spec => []ShadowExact
<1>1. IInv => ShadowExact
  <2> DEFINE r == Top.r
             i == Top.i
  <2> SUFFICES ASSUME IInv, AtOperation, NEW f \in ShadowReads, f \in stale PROVE FALSE
    BY DEF ShadowExact
  <2>0. Running /\ i \in DOMAIN code[r] /\ Op = code[r][i] /\ Here = code[r]
    BY DEF AtOperation, Op, Here
  <2>1. /\ Len(frames) \in Nat \ {0} /\ r \in Routine /\ i \in Nat \ {0} /\ Ops(code, r)
        /\ TailsCounted(code) /\ ComputedReturnsLast(code)
        /\ IsBranch(Op) => Op.arg \in Cond
        /\ Len(frames) > 1 => r \in Called(code)
    BY <2>0, Standing DEF IInv
  <2>2. f \in Flag
    BY DEF IInv, Frames
  <2>3. CASE Settled(code, r, i, f)
    <3>1. CASE IsBranch(Op)
      <4>1. Decides(code, r, i) = "shadow" /\ f = CondFlag[Op.arg] /\ f \in FlagsRead(Op)
        BY <3>1 DEF ShadowReads, FlagsRead
      <4>2. ~ Dead(code, r, i - 1, f)
        BY <2>0, <2>1, <4>1, DeadStep DEF Demands, Ops
      <4>3. ~ (f \in NZ /\ NzSettled(code, r, i))
        <5>1. SUFFICES ASSUME f \in NZ, NzSettled(code, r, i) PROVE FALSE
          OBVIOUS
        <5>2. IsNzBranch(Op)
          BY <2>1, <3>1, <4>1, <5>1 DEF IsNzBranch, NzConds
        <5>3. AHoldsNz(code[r], i)
          BY <2>0, <2>1, <5>1, <5>2, NzUnread DEF Ops
        <5> QED
          BY <2>0, <4>1, <5>2, <5>3 DEF Decides, IsNzBranch
      <4>4. ~ RunSettled(code, r, i, f)
        BY <4>1 DEF RunSettled, Decides, InRun
      <4>5. ~ ChainSettled(code, r, i, f)
        BY <2>0, <2>1, <3>1 DEF ChainSettled, Chained, IsShift, ShiftsA, IsBranch
      <4> QED
        BY <2>3, <4>2, <4>3, <4>4, <4>5 DEF Settled
    <3>2. CASE ~ IsBranch(Op)
      <4>1. ~ Chained(code[r], i - 1)
        BY <2>0, <3>2 DEF ShadowReads
      <4>2. Op.op \in DirectCalls \/ ~ IsFlagBoundary(Op)
        BY <2>0, <2>1, <2>2, <2>3, BoundaryUnsettled
      <4>a. Op.op # "RtsDispatch"
        BY <2>0, <2>1, <2>2, <2>3, LastUnsettled DEF ComputedReturnsLast
      <4>3. f \in FlagsRead(Op)
        BY <2>0, <3>2, <4>1, <4>2, <4>a DEF ShadowReads, Leaves, IsFlagBoundary, DirectCalls, Calls
      <4>4. f = "C"
        BY <3>2, <4>2, <4>3 DEF FlagsRead, IsFlagBoundary, DirectCalls
      <4>5. ~ Dead(code, r, i - 1, f)
        BY <2>0, <2>1, <4>3, DeadStep DEF Demands, Ops
      <4>6. ~ RunSettled(code, r, i, f)
        BY <2>0, <2>1, <3>2 DEF RunSettled, Follows
      <4> QED
        BY <2>3, <4>1, <4>4, <4>5, <4>6 DEF Settled, NZ, ChainSettled
    <3> QED
      BY <3>1, <3>2
  <2>4. CASE Len(frames) > 1 /\ Quiet(code, r, i, f)
    <3>1. f \notin MayRead(Op)
      BY <2>0, <2>1, <2>4, QuietUnread
    <3>2. f \notin FlagsRead(Op)
      BY <2>2, <3>1 DEF MayRead
    <3>3. Leaves(Op)
      <4>1. Len(frames) # 1
        BY <2>1, <2>4, Below, Zenon
      <4> QED
        BY <3>2, <4>1 DEF ShadowReads
    <3>4. Op.op \notin {"Brk", "ReturnEscape", "RtsDispatch"}
      BY <2>0, <2>1, <2>4 DEF TailsCounted
    <3> QED
      BY <2>2, <3>1, <3>3, <3>4 DEF MayRead, Leaves, Calls
  <2> QED
    BY <2>0, <2>3, <2>4 DEF IInv, Accounted
<1> QED
  BY <1>1, Invariance, PTL

\* For every supported program, a branch decided by the Z80 flags or by A, and
\* a rotate inside a run of shifts, finds the flag it looks at there: no jump
\* from elsewhere comes between the producer and its user.
THEOREM NativeIsExact ==
    ASSUME Supported PROVE Spec => []NativeExact
<1>1. IInv => NativeExact
  <2> DEFINE r == Top.r
             i == Top.i
  <2> SUFFICES ASSUME IInv, AtOperation
               PROVE  /\ IsBranch(Op) /\ Decides(code, r, i) = "native" => CondFlag[Op.arg] \in z80F
                      /\ IsBranch(Op) /\ Decides(code, r, i) = "accumulator" => nzInA
                      /\ Chained(Here, i - 1) => "C" \in z80F
    BY DEF NativeExact
  <2>0. Running /\ i \in DOMAIN code[r] /\ Op = code[r][i] /\ Here = code[r]
    BY DEF AtOperation, Op, Here
  <2>1. r \in Routine /\ i \in Nat \ {0} /\ Ops(code, r)
    BY <2>0, Standing DEF IInv
  <2>2. ReadyAt(code, r, i, nzInA, z80F)
    BY <2>0 DEF IInv, Ready
  <2>3. ASSUME IsBranch(Op), Decides(code, r, i) = "native" PROVE CondFlag[Op.arg] \in z80F
    <3>1. PICK m \in 1 .. i - 1 : FusesHere(code, r, m) /\ Follows(code[r], m, i, Native(code[r][m]))
      BY <2>3 DEF Decides, InRun
    <3>2. m \in DOMAIN code[r]
      BY <2>0, <2>1, <3>1 DEF Ops
    <3>3. Op.arg \in Native(code[r][m])
      BY <2>0, <2>1, <3>1 DEF Follows
    <3> QED
      BY <2>2, <3>1, <3>2, <3>3 DEF ReadyAt
  <2>4. ASSUME IsBranch(Op), Decides(code, r, i) = "accumulator" PROVE nzInA
    <3>1. AHoldsNz(code[r], i) /\ Op.op # "Label"
      BY <2>4 DEF Decides, IsBranch
    <3> QED
      BY <2>0, <2>2, <3>1 DEF ReadyAt
  <2> QED
    BY <2>0, <2>2, <2>3, <2>4 DEF ReadyAt
<1> QED
  BY <1>1, Invariance, PTL
=============================================================================
