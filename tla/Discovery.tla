------------------------------- MODULE Discovery -------------------------------
(***************************************************************************)
(* How the translator finds the code of a program: analyze_in_window       *)
(* walks functions from the roots it knows (crates/analysis/src/lib.rs),   *)
(* analyze_with_continuation_roots repeats that until every label has an   *)
(* owner, and lift_range translates the range of each function             *)
(* (crates/cli/src/pipeline.rs, crates/ir/src/lib.rs).                     *)
(*                                                                         *)
(* The window is a few addresses, each one instruction, a byte of data or  *)
(* a byte of an inline jump table: instructions do not overlap, and data   *)
(* that lift_range scans is never taken for a jump.  Far is an address     *)
(* outside the window.                                                     *)
(***************************************************************************)
EXTENDS Naturals, Sequences, FiniteSets, Functions

CONSTANTS
    Size,      \* addresses of the window
    Images,    \* programs: what each address holds, [op, to]
    Vectors,   \* sets of addresses the interrupt vectors may name
    MaxBytes   \* MAX_FUNCTION_BYTES

VARIABLES
    image,     \* the program
    dynamic,   \* prof.dynamic_cpu_bus()
    vectors,   \* vector roots
    profile,   \* prof.functions
    phase,     \* "discover", "walk", "lift" or "done"
    queue,     \* roots to process
    roots,     \* keys of root_kinds
    found,     \* discovered functions, by entry
    walk,      \* the function being walked
    routines   \* lifted routines, by entry

program == <<image, dynamic, vectors>>
vars == <<program, profile, phase, queue, roots, found, walk, routines>>

Far == Size
Addr == 0 .. Size - 1

Sizes == Size \in Nat \ {0} /\ MaxBytes \in Nat \ {0}
Ops == {"nop", "br", "jsr", "jmp", "rts", "engine", "jam", "data", "table"}
Programs ==
    /\ Images \subseteq [Addr -> [op : Ops, to : Addr \cup {Far}]]
    /\ Vectors \subseteq SUBSET Addr

Least(S) == CHOOSE x \in S : \A y \in S : x <= y
Empty == [x \in {} |-> x]
With(f, x, v) == [y \in DOMAIN f \cup {x} |-> IF y = x THEN v ELSE f[y]]

\* The addresses in range that a scan comes to: the least set that has where it
\* starts and with each address the next ones.
Reached(range, start, next(_)) ==
    LET closed == {C \in SUBSET range :
                    start \subseteq C /\ \A c \in C : next(c) \cap range \subseteq C}
    IN  {a \in range : \A C \in closed : a \in C}

-----------------------------------------------------------------------------
(***************************************************************************)
(* Decoding.                                                               *)
(***************************************************************************)
Op(pc) == image[pc].op
Target(pc) == image[pc].to
\* is_data_byte_in_bank: a declared data region or an inline table.
IsData(pc) == pc \in Addr /\ Op(pc) \in {"data", "table"}
Terminates(pc) == Op(pc) \in {"rts", "jmp", "engine", "jam"}

-----------------------------------------------------------------------------
(***************************************************************************)
(* walk_function, an instruction at a time.                                *)
(***************************************************************************)
Started(entry) ==
    [entry |-> entry, pc |-> entry, known |-> roots, targets |-> {entry},
     labels |-> {}, refs |-> {}, calls |-> <<>>, code |-> {}]

Upper(entry) == entry + MaxBytes

\* is_internal_target
IsInternal(w, t) ==
    /\ w.entry <= t /\ t < Upper(w.entry)
    /\ t \in w.known => t = w.entry
    /\ ~ IsData(t)
    /\ t \in Addr

Internal(w, t) ==
    [w EXCEPT !.targets = @ \cup {t}, !.labels = IF t = w.entry THEN @ ELSE @ \cup {t}]

External(w, t) == [w EXCEPT !.refs = @ \cup {t}]

\* A plausible slip: a callee outside the window becomes a root.
RootAnywhere(w, t) ==
    [External(w, t) EXCEPT !.calls =
        IF t \notin Range(@) \cup DOMAIN found THEN Append(@, t) ELSE @]

\* push_unique_root: the kinds of a root only name it.  A function that is
\* found is a root already, and analyze_in_window does not queue it again.
Root(w, t) ==
    [External(w, t) EXCEPT !.calls =
        IF t \in Addr \ (Range(@) \cup DOMAIN found) THEN Append(@, t) ELSE @]

\* A JMP back into what was walked is a loop of the function.
IsLoop(w, t) == w.entry <= t /\ t < w.pc + 1 /\ t \notin w.known

\* What an instruction adds to the walk.
Noted(w) ==
    LET t == Target(w.pc)
        v == [w EXCEPT !.code = @ \cup {w.pc}]
    IN  CASE Op(w.pc) = "br" -> IF IsInternal(w, t) THEN Internal(v, t) ELSE External(v, t)
          [] Op(w.pc) = "jsr" -> Root(v, t)
          [] Op(w.pc) = "jmp" -> IF IsLoop(w, t) THEN Internal(v, t) ELSE Root(v, t)
          [] OTHER -> v

\* A plausible slip: a label right behind the terminator is overlooked.
PendingBeyond(w) == {t \in w.targets : t > w.pc + 1 /\ ~ IsData(t)}

\* Labels the walk has yet to come to.
Pending(w) == {t \in w.targets : t >= w.pc + 1 /\ ~ IsData(t)}

\* Whether the walk goes on: inside the window, the function and code.
GoesOn(w) ==
    /\ w.pc \in Addr
    /\ w.pc < Upper(w.entry)
    /\ ~ IsData(w.pc)
    /\ Op(w.pc) # "jam"

Function(w, end) ==
    [end |-> end, labels |-> {a \in w.labels : a < end}, refs |-> w.refs, code |-> w.code,
     cut |-> end \in Addr /\ walk.pc >= Upper(w.entry)]

\* The function is complete: its callees become roots.
Discovered(w, end) ==
    /\ found' = With(found, w.entry, Function(w, end))
    /\ roots' = roots \cup Range(w.calls)
    /\ queue' = queue \o w.calls
    /\ phase' = "discover"
    /\ walk' = Started(w.entry)
    /\ UNCHANGED <<program, profile, routines>>

Step ==
    /\ phase = "walk" /\ GoesOn(walk)
    /\ LET w == Noted(walk) IN
       IF Terminates(walk.pc) /\ Pending(w) = {}
       THEN Discovered(w, walk.pc + 1)
       ELSE /\ walk' = [w EXCEPT !.pc =
                  IF Terminates(walk.pc) THEN Least(Pending(w)) ELSE walk.pc + 1]
            /\ UNCHANGED <<program, profile, phase, queue, roots, found, routines>>

Stop ==
    /\ phase = "walk" /\ ~ GoesOn(walk)
    /\ Discovered(walk, walk.pc)

-----------------------------------------------------------------------------
(***************************************************************************)
(* analyze_in_window: the roots in order, each function once.              *)
(***************************************************************************)
\* The keys of a BTreeMap: each has as many before it as it is preceded by.
Sorted(S) ==
    [i \in 1 .. Cardinality(S) |->
        CHOOSE a \in S : Cardinality({b \in S : b < a}) = i - 1]

Analyze(rs) ==
    /\ roots' = rs /\ queue' = Sorted(rs) /\ found' = Empty
    /\ phase' = "discover"

Take ==
    /\ phase = "discover" /\ queue # <<>>
    /\ queue' = Tail(queue)
    /\ IF Head(queue) \in DOMAIN found
       THEN UNCHANGED <<phase, walk>>
       ELSE phase' = "walk" /\ walk' = Started(Head(queue))
    /\ UNCHANGED <<program, profile, roots, found, routines>>

-----------------------------------------------------------------------------
(***************************************************************************)
(* analyze_with_continuation_roots.                                        *)
(***************************************************************************)
\* The range of a function ends where the next one begins.
Trimmed(e) ==
    LET later == {f \in DOMAIN found : f > e /\ f < found[e].end} IN
    IF later = {} THEN found[e].end ELSE Least(later)

Owners == {e \in DOMAIN found : Trimmed(e) > e}
Owned(a) == \E e \in Owners : e <= a /\ a < Trimmed(e)

\* Labels that must have an owner: in builds with a dynamic CPU bus the external
\* references are among them.
Labels == UNION {found[e].labels \cup (IF dynamic THEN found[e].refs ELSE {}) : e \in DOMAIN found}

\* Plausible slips: ownership by the ranges as walked, and no look at the
\* functions the profile already has.
ContinuationsUntrimmed ==
    {a \in Labels : a \in Addr /\ ~ IsData(a) /\
        ~ \E e \in DOMAIN found : e <= a /\ a < found[e].end} \ profile
ContinuationsAgain == {a \in Labels : a \in Addr /\ ~ Owned(a) /\ ~ IsData(a)}

Continuations == {a \in Labels : a \in Addr /\ ~ Owned(a) /\ ~ IsData(a)} \ profile

Continue ==
    /\ phase = "discover" /\ queue = <<>> /\ Continuations # {}
    /\ profile' = profile \cup Continuations
    /\ Analyze(vectors \cup profile')
    /\ UNCHANGED <<program, walk, routines>>

Analyzed ==
    /\ phase = "discover" /\ queue = <<>> /\ Continuations = {}
    /\ phase' = "lift"
    /\ UNCHANGED <<program, profile, queue, roots, found, walk, routines>>

-----------------------------------------------------------------------------
(***************************************************************************)
(* lift_range over the range of each function.                             *)
(***************************************************************************)
\* The data regions lift_range is given.
LiftData(pc) == dynamic /\ pc \in Addr /\ Op(pc) = "data"
TableByte(pc) == LiftData(pc) \/ (pc \in Addr /\ Op(pc) = "table")
TableEnd(pc) == Least({a \in pc + 1 .. Size : a = Size \/ Op(a) # "table"})

\* Where the linear scan goes on behind an instruction: past an inline table.
ScanNext(pc) == IF Op(pc) = "engine" THEN TableEnd(pc) ELSE pc + 1

\* The linear scan: where it finds instructions, and the targets they give.
Scanned(lo, hi) ==
    {pc \in Reached(lo .. hi - 1, {lo}, LAMBDA p : {ScanNext(p)}) : ~ LiftData(pc)}

Targets(lo, hi) ==
    {t \in {Target(pc) : pc \in {p \in Scanned(lo, hi) : Op(p) \in {"br", "jmp"}}} :
        lo <= t /\ t < hi /\ ~ TableByte(t)}

\* Where the translation goes on: behind a terminator or data with the next
\* target in T, if there is one.
LiftNext(pc, T) ==
    LET later == {t \in T : t >= ScanNext(pc)} IN
    IF ~ LiftData(pc) /\ ~ Terminates(pc) THEN {pc + 1}
    ELSE IF later = {} THEN {} ELSE {Least(later)}

\* The instructions it translates.
Lifted(lo, hi) ==
    LET T == Targets(lo, hi) IN
    {pc \in Reached(lo .. hi - 1, {lo}, LAMBDA p : LiftNext(p, T)) : ~ LiftData(pc)}

Lift ==
    /\ phase = "lift"
    /\ routines' = [e \in Owners |-> Lifted(e, Trimmed(e))]
    /\ phase' = "done"
    /\ UNCHANGED <<program, profile, queue, roots, found, walk>>

-----------------------------------------------------------------------------
Init ==
    /\ image \in Images /\ dynamic \in BOOLEAN
    /\ vectors \in Vectors
    /\ profile = {}
    /\ phase = "discover"
    /\ roots = vectors /\ queue = Sorted(vectors) /\ found = Empty
    /\ walk = Started(0)
    /\ routines = Empty

Done == phase = "done" /\ UNCHANGED vars

Next == Step \/ Stop \/ Take \/ Continue \/ Analyzed \/ Lift \/ Done

Spec == Init /\ [][Next]_vars
-----------------------------------------------------------------------------
TypeOK ==
    /\ phase \in {"discover", "walk", "lift", "done"}
    /\ profile \subseteq Addr /\ roots \subseteq Addr /\ queue \in Seq(Addr)
    /\ DOMAIN found \subseteq Addr
    /\ \A e \in DOMAIN found :
        /\ found[e].end \in e .. Size
        /\ found[e].labels \cup found[e].code \subseteq e .. found[e].end - 1
        /\ found[e].refs \subseteq Addr \cup {Far}
    /\ walk.entry \in Addr /\ walk.pc \in walk.entry .. Size
    /\ walk.targets \subseteq walk.entry .. Upper(walk.entry) - 1
    /\ \A e \in DOMAIN routines : routines[e] \subseteq e .. Trimmed(e) - 1

\* "until every decoded internal branch label is owned by a non-overlapping
\* routine range": however functions are embedded in one another, and however
\* the ranges are trimmed, analyze_with_continuation_roots leaves no label
\* without an owner, unless the label is data.  (A label that holds an illegal
\* opcode is a function of no length.)
LabelsOwned ==
    phase \in {"lift", "done"} =>
        \A e \in DOMAIN found : \A a \in found[e].labels :
            Owned(a) \/ IsData(a) \/ (a \in DOMAIN found /\ found[a].end = a)

\* analyze_with_continuation_roots comes to an end: its loops are bounded by
\* nothing but what is left to find.  Each step adds to the profile, or at least
\* a function, or at least takes a root or comes closer to the end of a walk;
\* only the first starts over with the functions.
Grows(S, T) == S \subseteq T /\ S # T
Onward ==
    \/ phase = "discover" /\ phase' \in {"discover", "walk"} /\ Len(queue') < Len(queue)
    \/ phase = "walk" /\ phase' = "walk" /\ walk.pc < walk'.pc
    \/ <<phase, phase'>> \in {<<"discover", "lift">>, <<"lift", "done">>}
Advances ==
    [][\/ Grows(profile, profile')
       \/ profile' = profile /\ Grows(DOMAIN found, DOMAIN found')
       \/ UNCHANGED <<profile, found>> /\ Onward]_vars

\* What the program can execute, from the vectors on.
IsCode(a) == a \in Addr /\ ~ IsData(a) /\ Op(a) # "jam"
Successors(a) ==
    (IF Op(a) \in {"br", "jmp", "jsr"} THEN {Target(a)} ELSE {})
        \cup (IF Terminates(a) THEN {} ELSE {a + 1})
Executed ==
    Reached(Addr, {v \in vectors : IsCode(v)}, LAMBDA a : {b \in Successors(a) : IsCode(b)})

\* Programs the translator is meant for, X being what they execute: they do not
\* run or jump into data or illegal opcodes, their functions are not cut off at
\* MAX_FUNCTION_BYTES, ...
Continues(X) ==
    \A a \in X :
        /\ ~ Terminates(a) => IsCode(a + 1)
        /\ Op(a) \in {"br", "jmp", "jsr"} /\ Target(a) \in Addr => IsCode(Target(a))
Uncut == \A e \in DOMAIN found : ~ found[e].cut
\* ... without a dynamic CPU bus, a branch out of a function lands in another,
RefsOwned(X) == dynamic \/ \A e \in DOMAIN found : \A a \in found[e].refs \cap X : Owned(a)
\* and no branch leads into a gap that the walk of its owner has passed over.
LabelsVisited(X) ==
    \A e \in DOMAIN found : \A a \in (found[e].labels \cup found[e].refs) \cap X :
        \A o \in Owners : o <= a /\ a < Trimmed(o) => a \in found[o].code
Meant(X) == Continues(X) /\ Uncut /\ RefsOwned(X) /\ LabelsVisited(X)

Translated == UNION {routines[e] : e \in DOMAIN routines}

\* Every instruction such a program can execute is in some routine: discovery,
\* trimming and the second scan of lift_range lose none between them.
ReachableTranslated ==
    phase = "done" => LET X == Executed IN Meant(X) => X \subseteq Translated

\* "a branch around the embedded routine can otherwise leave its continuation
\* with no translated owner" (pipeline.rs): every label that is code, in a
\* program that only runs code, has a translation once it has an owner.
LabelsTranslated ==
    phase = "done" => LET X == Executed IN Continues(X) =>
        \A e \in DOMAIN found : found[e].labels \cap X \subseteq Translated
=============================================================================
