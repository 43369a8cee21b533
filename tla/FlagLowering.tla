---------------------------- MODULE FlagLowering ----------------------------
(***************************************************************************)
(* Execution of code lowered by the rules of FlagScans.                    *)
(*                                                                         *)
(* The scans are static, over one routine; what they must be right about   *)
(* is every execution, through taken branches, joins, loops and calls.     *)
(* This module runs the lowered program and keeps, instead of values,      *)
(* which flags the shadow byte is stale in.  N and Z of one result are     *)
(* always written together, but read apart.                                *)
(***************************************************************************)
EXTENDS FlagScans

CONSTANTS
    Main,       \* the routine execution starts in
    Programs,   \* functions from Routine to sequences of operations
    MaxDepth    \* bound on nested calls

VARIABLES
    code,     \* the program, as operations
    frames,   \* where each routine on the call stack goes on; the last one runs
    stale,    \* flags whose bit in shadow P is not the 6502's
    z80F,     \* 6502 flags that the Z80 flag register holds
    nzInA,    \* the 6502's N and Z are those of Z80 A
    aLost     \* Z80 A is not the 6502 accumulator

vars == <<code, frames, stale, z80F, nzInA, aLost>>

-----------------------------------------------------------------------------
(***************************************************************************)
(* Execution of the lowered program.                                       *)
(***************************************************************************)
Running == frames # <<>>
Top == frames[Len(frames)]
Here == code[Top.r]
Op == Here[Top.i]
AtOperation == Running /\ Top.i \in DOMAIN Here
At(r, i) == [r |-> r, i |-> i]
Advance(to) == frames' = [frames EXCEPT ![Len(frames)] = to]

\* Flags the operation takes from shadow P.  A rotate inside a run takes C
\* from the Z80; whatever the program leaves to may read all of them.
Leaves(o) == o.op \in {"JsrUnknown", "JumpEngineCall", "JmpIndirect", "Brk", "ReturnEscape", "RtsDispatch"}
ShadowReads ==
    IF IsBranch(Op)
    THEN IF Decides(code, Top.r, Top.i) = "shadow" THEN FlagsRead(Op) ELSE {}
    ELSE IF Chained(Here, Top.i - 1) THEN {}
    ELSE IF Leaves(Op) \/ (Op.op = "Rts" /\ Len(frames) = 1) THEN Flag
    ELSE FlagsRead(Op)

UsesA(o) ==
    \/ o.op \in {"StaMem", "SaxMem", "Pha", "Tax", "Tay", "CmpImm", "CmpMem", "BitMem"}
                 \cup Bitwise3 \cup Adds \cup Subtracts \cup ShiftsA
    \/ o.op \in HardwareWrites /\ o.arg = "A"
SetsA(o) == o.op \in {"LdaImm", "LdaMem", "Txa", "Tya", "Pla"} \cup HardwareReads
\* emit_value_src_to_a and TSX load A and do not restore it.
LosesA(o) == o.op = "Tsx" \/ (o.op \in HardwareWrites /\ o.arg # "A")

Transfers == Calls \cup {"BranchIf", "Jmp", "JmpIndirect", "ReturnEscape", "Brk", "Rts", "Rti", "RtsDispatch"}

\* Everything that only computes.
Compute ==
    /\ Running /\ Top.i \in DOMAIN Here /\ Op.op \notin Transfers
    /\ LET written == FlagsWritten(Op)
           keeps == Keeps(code, Top.r, Top.i) IN
       /\ stale' = IF keeps = "shadow" THEN stale \ written ELSE stale \cup written
       /\ z80F' = IF keeps # "native" THEN {}
                  ELSE IF Chained(Here, Top.i) THEN {"C"}
                  ELSE written \ {"V"}
       /\ nzInA' = IF written \cap NZ # {}
                   THEN Op.op \in AResult \cup HardwareReads
                   ELSE nzInA /\ ~ LosesA(Op)
    /\ aLost' = ((aLost \/ LosesA(Op)) /\ ~ SetsA(Op))
    /\ Advance(At(Top.r, Top.i + 1))
    /\ UNCHANGED code

\* A label of the routine, or the entry of another routine.
Destination(o, to) ==
    IF LabelAt(Here, o.target) # {}
    THEN \E t \in LabelAt(Here, o.target) : to = At(Top.r, t)
    ELSE o.target \in Routine /\ to = At(o.target, 1)

Branch(taken) ==
    /\ Running /\ Top.i \in DOMAIN Here /\ IsBranch(Op)
    /\ IF taken THEN \E to \in {At(Top.r, t) : t \in LabelAt(Here, Op.target)}
                                \cup {At(s, 1) : s \in Routine} :
                        Destination(Op, to) /\ Advance(to)
       ELSE Advance(At(Top.r, Top.i + 1))
    /\ z80F' = IF Decides(code, Top.r, Top.i) = "native" THEN z80F ELSE {}
    /\ UNCHANGED <<code, stale, nzInA, aLost>>

Jmp ==
    /\ Running /\ Top.i \in DOMAIN Here /\ Op.op = "Jmp"
    /\ \E to \in {At(Top.r, t) : t \in LabelAt(Here, Op.target)}
                 \cup {At(s, 1) : s \in Routine} :
          Destination(Op, to) /\ Advance(to)
    /\ z80F' = {}
    /\ UNCHANGED <<code, stale, nzInA, aLost>>

Jsr ==
    /\ Running /\ Top.i \in DOMAIN Here
    /\ Op.op \in DirectCalls /\ Op.target \in Routine /\ Len(frames) < MaxDepth
    /\ frames' = Append([frames EXCEPT ![Len(frames)].i = @ + 1], At(Op.target, 1))
    /\ z80F' = {}
    /\ UNCHANGED <<code, stale, nzInA, aLost>>

\* RTS, or a transfer to code that is not in the program.
Leave ==
    /\ Running /\ Top.i \in DOMAIN Here
    /\ \/ Op.op = "Rts" /\ frames' = SubSeq(frames, 1, Len(frames) - 1)
       \/ (Leaves(Op) \/ Op.op = "Rti") /\ frames' = <<>>
    /\ z80F' = {}
    /\ UNCHANGED <<code, stale, nzInA, aLost>>

Init ==
    /\ code \in Programs
    /\ frames = <<At(Main, 1)>>
    /\ stale = {} /\ z80F = {}
    /\ nzInA = FALSE /\ aLost = FALSE

Next == Compute \/ (\E taken \in BOOLEAN : Branch(taken)) \/ Jmp \/ Jsr \/ Leave

Spec == Init /\ [][Next]_vars

-----------------------------------------------------------------------------
(***************************************************************************)
(* Correctness.                                                            *)
(***************************************************************************)
TypeOK ==
    /\ DOMAIN code = Routine
    /\ Len(frames) <= MaxDepth
    /\ \A d \in DOMAIN frames : frames[d].r \in Routine
    /\ stale \subseteq Flag /\ z80F \subseteq Flag
    /\ nzInA \in BOOLEAN /\ aLost \in BOOLEAN

\* Whatever reads a flag from shadow P - a branch that is not native, a carry
\* in, PHP, the caller after the last RTS - finds the 6502's.  All the
\* elisions of lower_routine rest on it.
ShadowExact == AtOperation => ShadowReads \cap stale = {}

\* Whatever uses a flag of the Z80 instead - a fused branch, a rotate inside a
\* run, a branch that tests A - finds the 6502's there, however control came.
NativeExact ==
    AtOperation =>
        /\ IsBranch(Op) => CASE Decides(code, Top.r, Top.i) = "native" -> CondFlag[Op.arg] \in z80F
                             [] Decides(code, Top.r, Top.i) = "accumulator" -> nzInA
                             [] OTHER -> TRUE
        /\ Op.op \in Rotates /\ Chained(Here, Top.i - 1) => "C" \in z80F

\* An operation that uses the accumulator finds the 6502's in Z80 A.
AccumulatorExact == AtOperation /\ UsesA(Op) => ~ aLost

=============================================================================
