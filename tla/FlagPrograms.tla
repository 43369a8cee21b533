---------------------------- MODULE FlagPrograms ----------------------------
(***************************************************************************)
(* Programs for FlagLowering: every body of Length operations over an      *)
(* alphabet, with one label, and a callee out of a few.                    *)
(***************************************************************************)
EXTENDS Naturals, Sequences, FiniteSets

CONSTANTS Alphabet, Callees, Length

O(op) == [op |-> op, arg |-> "-", target |-> "-"]
BranchOn(c) == [op |-> "BranchIf", arg |-> c, target |-> "l"]
Named(a) ==
    CASE a = "Bne" -> BranchOn("NotZero")
      [] a = "Bcs" -> BranchOn("Carry")
      [] a = "Bvs" -> BranchOn("Overflow")
      [] a = "Label" -> [O("Label") EXCEPT !.target = "l"]
      [] a = "Jsr" -> [O("Jsr") EXCEPT !.target = "s"]
      [] a = "JmpLabel" -> [O("Jmp") EXCEPT !.target = "l"]
      [] a = "JmpTail" -> [O("Jmp") EXCEPT !.target = "t"]
      [] a = "StxPpu" -> [O("PpuWrite") EXCEPT !.arg = "X"]
      [] OTHER -> O(a)
Body(s) ==
    LET ops == [i \in DOMAIN s |-> Named(s[i])] IN
    IF s # <<>> /\ s[Len(s)] = "RtsDispatch" THEN ops ELSE Append(ops, O("Rts"))

\* A body with a label has it once; one without has no branch.
Proper(s) ==
    LET places(a) == {i \in DOMAIN s : s[i] = a} IN
    /\ Cardinality(places("Label")) <= 1
    /\ (\E i \in DOMAIN s : s[i] \in {"Bne", "Bcs", "Bvs", "JmpLabel"}) => places("Label") # {}
Bodies == {s \in [1 .. Length -> Alphabet] : Proper(s)}

Build(main, callee) ==
    [r \in {"m", "s", "t"} |->
        IF r = "m" THEN Body(main) ELSE IF r = "s" THEN Body(callee) ELSE Body(<<"RolA">>)]

MCRoutine == {"m", "s", "t"}
CallsCallee(s) == \E i \in DOMAIN s : s[i] = "Jsr"
AllPrograms ==
    {Build(x[1], x[2]) : x \in {x \in Bodies \X (Callees \cup {<<>>}) : CallsCallee(x[1]) <=> x[2] # <<>>}}

\* Those that keep to what the scans look at.
Scans == INSTANCE FlagScans WITH Routine <- MCRoutine
SoundPrograms ==
    {p \in AllPrograms : Scans!JoinsCovered(p) /\ Scans!TailsCounted(p) /\ Scans!ComputedReturnsLast(p)}

MixedAlphabet == {"LdaImm", "Inx", "LdxImm", "AdcImm", "CmpImm", "RolA", "Clc", "Php",
                  "StaMem", "IncMem", "AslA", "Label", "Bne", "Bcs", "Bvs", "Jsr", "JmpLabel", "JmpTail",
                  "RtsDispatch"}
JoinAlphabet == {"LdaImm", "LdxImm", "StaMem", "Label", "Bne"}
XAlphabet == {"LdaImm", "StaMem", "Tsx", "StxPpu"}
MixedCallees == {<<"Clc">>, <<"RolA">>, <<"Clc", "RolA">>, <<"LdaImm">>, <<"Jsr", "Clc">>}
=============================================================================
