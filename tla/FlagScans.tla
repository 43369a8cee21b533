------------------------------ MODULE FlagScans ------------------------------
(***************************************************************************)
(* How crates/lower decides which 6502 flags of translated code to write   *)
(* to shadow P, the byte of RAM that holds them.                           *)
(*                                                                         *)
(* Writing it costs more than most instructions, so lower_routine writes   *)
(* it only when somebody may read it: linear scans decide whether N, Z, C  *)
(* or V are live after an operation, a producer followed by branches       *)
(* leaves them in the Z80's own flag register ("fused"), and a branch on N *)
(* or Z tests the accumulator itself when it still holds the value they    *)
(* came from.                                                              *)
(*                                                                         *)
(* Operations have the names of ir::Op.  Source markers emit nothing here  *)
(* and every scan steps over them, so programs have none.  The lifted      *)
(* idioms (copy and fill loops, 16-bit add) and the full-bus builds, which *)
(* switch all of this off, are left out.  A program is a function from     *)
(* Routine to sequences of operations.                                     *)
(***************************************************************************)
EXTENDS Naturals, Sequences

CONSTANT Routine    \* names of routines

Flag == {"N", "Z", "C", "V"}
NZ == {"N", "Z"}

-----------------------------------------------------------------------------
(***************************************************************************)
(* Operations: [op, arg, target]; arg is the condition of a branch or the  *)
(* source of a hardware write, target a label or a routine.                *)
(***************************************************************************)
Bitwise3 == {"AndImm", "AndMem", "OraImm", "OraMem", "EorImm", "EorMem"}
Adds == {"AdcImm", "AdcMem"}
Subtracts == {"SbcImm", "SbcMem"}
Compares == {"CmpImm", "CmpMem", "CpxImm", "CpxMem", "CpyImm", "CpyMem"}
ShiftsA == {"AslA", "LsrA", "RolA", "RorA"}
ShiftsMem == {"AslMem", "LsrMem", "RolMem", "RorMem"}
Rotates == {"RolA", "RolMem", "RorA", "RorMem"}
StepsXY == {"Inx", "Iny", "Dex", "Dey"}
StepsMem == {"IncMem", "DecMem"}
HardwareReads == {"PpuRead", "ApuRead", "ControllerRead"}
HardwareWrites == {"PpuWrite", "ApuWrite", "OamDmaWrite", "MapperWrite"}
DirectCalls == {"Jsr", "MaterializedJsr"}

CondFlag == [Carry |-> "C", NoCarry |-> "C", Zero |-> "Z", NotZero |-> "Z",
             Negative |-> "N", Positive |-> "N", Overflow |-> "V", NoOverflow |-> "V"]
Cond == DOMAIN CondFlag

\* Conditions a compare, a sum or a shift leaves in the Z80 flags
\* (cmp_cond_to_z80, direct_cond_to_z80), and those of a plain result
\* (nz_cond_to_z80).
AluConds == {c \in Cond : CondFlag[c] # "V"}
NzConds == {c \in Cond : CondFlag[c] \in NZ}

IsBranch(o) == o.op = "BranchIf"
IsNzBranch(o) == IsBranch(o) /\ o.arg \in NzConds

FlagsRead(o) ==
    IF IsBranch(o) THEN {CondFlag[o.arg]}
    ELSE IF o.op \in Adds \cup Subtracts \cup Rotates THEN {"C"}
    ELSE IF o.op = "Php" THEN Flag ELSE {}

ResultOnly == {"LdaImm", "LdaMem", "LdxImm", "LdxMem", "LdyImm", "LdyMem",
               "Tax", "Tay", "Txa", "Tya", "Tsx", "Pla"}
              \cup Bitwise3 \cup StepsXY \cup StepsMem \cup HardwareReads

FlagsWritten(o) ==
    CASE o.op \in ResultOnly -> NZ
      [] o.op \in Adds \cup Subtracts \cup {"Plp"} -> Flag
      [] o.op \in Compares \cup ShiftsA \cup ShiftsMem -> {"N", "Z", "C"}
      [] o.op = "BitMem" -> {"N", "Z", "V"}
      [] o.op \in {"Sec", "Clc"} -> {"C"}
      [] o.op = "Clv" -> {"V"}
      [] OTHER -> {}

Calls == DirectCalls \cup {"JsrUnknown", "JumpEngineCall"}
IsFlagBoundary(o) ==
    o.op \in Calls \cup {"Rts", "Rti", "Jmp", "ReturnEscape", "JmpIndirect", "Brk",
                         "Php", "Unsupported", "Jam"}

\* What an operation does to the claim "A holds the value of N and Z".
AResult == {"LdaImm", "LdaMem", "Txa", "Tya", "Pla"}
           \cup Bitwise3 \cup Adds \cup Subtracts \cup ShiftsA
NzKeptOverJoins == {"StaMem", "StxMem", "StyMem", "SaxMem", "Clc", "Sec", "Nop", "BranchIf", "Label"}
NzKept == {"StaMem", "StxMem", "StyMem", "SaxMem", "Clc", "Sec", "Cli", "Sei", "Clv",
           "Cld", "Sed", "Txs", "Pha", "Php", "Nop", "BranchIf"}

-----------------------------------------------------------------------------
(***************************************************************************)
(* The scans.                                                              *)
(***************************************************************************)
\* routine_incoming_flag_reads: what a routine may read of its caller's
\* flags.  A write counts only on the straight line from the entry.
Diverts == Calls \cup {"Label", "BranchIf", "Jmp", "ReturnEscape", "JmpIndirect", "Rts", "Rti"}
Credits(ops, k, f) ==
    f \in FlagsWritten(ops[k]) /\ \A m \in 1 .. k - 1 : ops[m].op \notin Diverts
MayRead(o) ==
    IF o.op \in Calls \cup {"JmpIndirect", "Php"} THEN Flag ELSE FlagsRead(o)
IncomingReads(ops) ==
    {f \in Flag : \E j \in DOMAIN ops :
        f \in MayRead(ops[j]) /\ ~ \E k \in 1 .. j - 1 : Credits(ops, k, f)}
CalleeReads(p, target) == IF target \in Routine THEN IncomingReads(p[target]) ELSE Flag

\* flags_live_after, for one flag: the scan meets an operation that may need
\* it, or the end, before one that overwrites it.
DemandsPastBranches(p, o, f) ==
    \/ f \in FlagsRead(o)
    \/ o.op \in DirectCalls /\ f \in CalleeReads(p, o.target)
    \/ o.op \notin DirectCalls /\ IsFlagBoundary(o)
Demands(p, o, f) ==
    \/ f \in FlagsRead(o)
    \/ o.op \in DirectCalls /\ f \in CalleeReads(p, o.target)
    \/ o.op \notin DirectCalls /\ (IsBranch(o) \/ IsFlagBoundary(o))
Dead(p, r, i, f) ==
    \E k \in i + 1 .. Len(p[r]) :
        /\ f \in FlagsWritten(p[r][k])
        /\ \A j \in i + 1 .. k : ~ Demands(p, p[r][j], f)
LiveAfter(p, r, i, which) == \E f \in which : ~ Dead(p, r, i, f)

\* nz_flags_live_after: for N and Z that come from X, Y or memory.
PlainStop(o) == IsNzBranch(o) \/ IsFlagBoundary(o)
PlainDead(p, r, i) ==
    \E k \in i + 1 .. Len(p[r]) :
        /\ FlagsWritten(p[r][k]) \cap NZ # {}
        /\ \A j \in i + 1 .. k : ~ PlainStop(p[r][j])

\* nz_shadow_live_after: for results in A, where a branch may test A instead.
Clean(ops, i, j) == \A m \in i + 1 .. j - 1 : ops[m].op \in AResult \cup NzKept
ShadowStop(p, r, i, j) ==
    LET o == p[r][j] IN
    \/ IsNzBranch(o) /\ ~ Clean(p[r], i, j)
    \/ o.op \in DirectCalls /\ CalleeReads(p, o.target) \cap NZ # {}
    \/ o.op \notin DirectCalls /\ IsFlagBoundary(o)
ShadowDead(p, r, i) ==
    \E k \in i + 1 .. Len(p[r]) :
        /\ FlagsWritten(p[r][k]) \cap NZ # {}
        /\ \A j \in i + 1 .. k : ~ ShadowStop(p, r, i, j)

NzLive(p, r, i) ==
    IF p[r][i].op \in AResult THEN ~ ShadowDead(p, r, i) ELSE ~ PlainDead(p, r, i)

-----------------------------------------------------------------------------
(***************************************************************************)
(* The plan: fused runs of branches, runs of shifts.                       *)
(***************************************************************************)
LabelAt(ops, target) == {i \in DOMAIN ops : ops[i].op = "Label" /\ ops[i].target = target}

\* j is one of the branches right after i that native flags can decide.
Follows(ops, i, j, conds) ==
    /\ j \in DOMAIN ops /\ i < j
    /\ \A n \in i + 1 .. j : IsBranch(ops[n]) /\ ops[n].arg \in conds

\* scan_run: there are such branches, and the flags are dead where each of
\* them goes and after the last.
Fuses(p, r, i, conds, which) ==
    LET ops == p[r] IN
    /\ Follows(ops, i, i + 1, conds)
    /\ \A j \in i + 1 .. Len(ops) : Follows(ops, i, j, conds) =>
          /\ LabelAt(ops, ops[j].target) # {}
          /\ \A t \in LabelAt(ops, ops[j].target) : ~ LiveAfter(p, r, t, which)
          /\ Follows(ops, i, j + 1, conds) \/ ~ LiveAfter(p, r, j, which)

IsShift(ops, i) == i \in DOMAIN ops /\ ops[i].op \in ShiftsA
\* A lone ASL or LSR keeps a path of its own.
InShiftRun(ops, i) ==
    IsShift(ops, i) /\ (ops[i].op \in Rotates \/ IsShift(ops, i - 1) \/ IsShift(ops, i + 1))
Chained(ops, i) == InShiftRun(ops, i) /\ IsShift(ops, i + 1)

Fusable == {"LdaImm", "LdaMem"} \cup Bitwise3 \cup StepsXY \cup StepsMem
\* The conditions the Z80 flags can decide after it.
Native(o) == IF o.op \in Fusable THEN NzConds ELSE AluConds
FusesHere(p, r, i) ==
    LET o == p[r][i] IN
    \/ o.op \in Compares \cup ShiftsA \cup ShiftsMem /\ Fuses(p, r, i, AluConds, {"N", "Z", "C"})
    \/ o.op \in Adds \cup Subtracts /\ Fuses(p, r, i, AluConds, Flag)
    \/ o.op \in Fusable /\ Fuses(p, r, i, NzConds, NZ)

\* Operations that write shadow P only when flags_live_after says so, and
\* those that consult the N/Z scans.
ByFlags == Adds \cup Subtracts \cup ShiftsA \cup ShiftsMem \cup StepsMem \cup {"CmpImm"}
ByNz == ResultOnly \ (StepsMem \cup {"LdxMem", "LdyMem"})

\* Where operation i leaves the flags it sets: in the Z80 flags for the rest
\* of its run, nowhere, or in shadow P.
Keeps(p, r, i) ==
    LET o == p[r][i] IN
    IF Chained(p[r], i) \/ FusesHere(p, r, i) THEN "native"
    ELSE IF \/ o.op \in ByFlags /\ ~ LiveAfter(p, r, i, FlagsWritten(o))
            \/ o.op \in ByNz /\ ~ NzLive(p, r, i)
         THEN "nowhere"
         ELSE "shadow"

\* The tracker a_holds_nz on arrival at i.
AHoldsNz(ops, i) ==
    \E m \in 1 .. i - 1 :
        ops[m].op \in AResult /\ \A n \in m + 1 .. i - 1 : ops[n].op \in NzKept

\* How a branch is decided: by the run it belongs to, by A, by shadow P.
InRun(p, r, i) ==
    \E m \in 1 .. i - 1 :
        FusesHere(p, r, m) /\ Follows(p[r], m, i, Native(p[r][m]))
Decides(p, r, i) ==
    IF InRun(p, r, i) THEN "native"
    ELSE IF AHoldsNz(p[r], i) /\ p[r][i].arg \in NzConds THEN "accumulator"
    ELSE "shadow"

-----------------------------------------------------------------------------
(***************************************************************************)
(* What the scans do not look at.                                          *)
(***************************************************************************)
\* A producer before i was not written down and i is still before the write
\* that made its N and Z dead.
NzPending(p, r, i) ==
    \E m \in 1 .. i - 1 :
        /\ FlagsWritten(p[r][m]) \cap NZ # {} /\ Keeps(p, r, m) = "nowhere"
        /\ \A n \in m + 1 .. i - 1 : FlagsWritten(p[r][n]) \cap NZ = {}

\* Neither N/Z scan follows a branch to where it goes.  It does no harm when
\* N and Z are dead there too.
JoinsCovered(p) ==
    \A r \in Routine : \A i \in DOMAIN p[r] :
        IsBranch(p[r][i]) /\ NzPending(p, r, i) =>
            /\ LabelAt(p[r], p[r][i].target) # {}
            /\ \A t \in LabelAt(p[r], p[r][i].target) : ~ LiveAfter(p, r, t, NZ)

\* The summary of a callee does not count what is read after it jumps away.
Called(p) == {s \in Routine : \E r \in Routine : \E i \in DOMAIN p[r] :
                                p[r][i].op \in DirectCalls /\ p[r][i].target = s}
TailsCounted(p) ==
    \A r \in Called(p) : \A i \in DOMAIN p[r] :
        /\ p[r][i].op \notin {"Brk", "ReturnEscape", "RtsDispatch"}
        /\ p[r][i].op \in {"BranchIf", "Jmp"} => LabelAt(p[r], p[r][i].target) # {}

\* A computed return is no boundary to the scans; they end with the routine.
ComputedReturnsLast(p) ==
    \A r \in Routine : \A i \in DOMAIN p[r] : p[r][i].op = "RtsDispatch" => i = Len(p[r])
==============================================================================
