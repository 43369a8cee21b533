----------------------------- MODULE Crates_proofs -----------------------------
(***************************************************************************)
(* For every window, program and bound: the ranges of discovery own every  *)
(* label, the routines translate what a program executes, lowered code     *)
(* finds the flags it reads, and the MMC3 board's counter is a countdown.  *)
(*                                                                         *)
(* The argument about discovery is one about how a walk comes to an        *)
(* address (Came) and what it leaves noticed (Noticed): a function ends    *)
(* behind an instruction that ends the flow or is blocked, so what its     *)
(* code leads to is in its range, a label or a reference.  The second scan *)
(* of lift_range is then followed from the first address it would lose.    *)
(***************************************************************************)
EXTENDS MCCrates, FiniteSetTheorems, TLAPS

-----------------------------------------------------------------------------
(***************************************************************************)
(* Least and greatest addresses.                                           *)
(***************************************************************************)
\* A set of addresses that is not empty has a least one, which Least names, ...
LEMMA LeastIs ==
    ASSUME NEW S \in SUBSET Nat, S # {}
    PROVE  Least(S) \in S /\ \A y \in S : Least(S) <= y
<1>1. PICK x \in S : \A y \in S : ~ (<<y, x>> \in OpToRel(<, Nat))
  BY NatLessThanWellFounded, WFMin
<1>2. \A y \in S : ~ (y < x)
  BY <1>1 DEF OpToRel
<1>3. \A y \in S : x <= y
  BY <1>2
<1> QED
  BY <1>3, Zenon DEF Least

\* ... and a greatest one if it is bounded.
LEMMA GreatestExists ==
    ASSUME NEW S \in SUBSET Nat, S # {}, NEW n \in Nat, \A x \in S : x <= n
    PROVE  \E x \in S : \A y \in S : y <= x
<1> DEFINE D == {n - x : x \in S}
<1>1. D \in SUBSET Nat /\ D # {}
  OBVIOUS
<1>2. Least(D) \in D /\ \A y \in D : Least(D) <= y
  BY <1>1, LeastIs
<1>3. PICK x \in S : Least(D) = n - x
  BY <1>2
<1>4. \A y \in S : n - x <= n - y
  BY <1>2, <1>3
<1> QED
  BY <1>4

-----------------------------------------------------------------------------
(***************************************************************************)
(* The two scans of lift_range.                                            *)
(***************************************************************************)
Decodes ==
    /\ Size \in Nat \ {0}
    /\ image \in [Addr -> [op : Ops, to : Addr \cup {Far}]]

\* The table behind an instruction ends inside the window, and holds table bytes only.
LEMMA TableEndIs ==
    ASSUME Decodes, NEW pc \in Addr
    PROVE  /\ TableEnd(pc) \in pc + 1 .. Size
           /\ \A a \in pc + 1 .. TableEnd(pc) - 1 : Op(a) = "table"
<1> USE DEF Decodes, Addr
<1> DEFINE S == {a \in pc + 1 .. Size : a = Size \/ Op(a) # "table"}
<1>1. S \in SUBSET Nat /\ Size \in S
  OBVIOUS
<1>2. Least(S) \in S /\ \A y \in S : Least(S) <= y
  BY <1>1, LeastIs
<1>3. TableEnd(pc) = Least(S)
  BY DEF TableEnd
<1> DEFINE l == Least(S)
<1>4. l \in S /\ \A y \in S : l <= y
  BY <1>2
<1>5. l \in pc + 1 .. Size /\ \A a \in pc + 1 .. l - 1 : Op(a) = "table"
  <2> HIDE DEF l
  <2> QED BY <1>4
<1> QED
  BY <1>3, <1>5

\* The linear scan goes on behind the instruction, past table bytes only.
LEMMA ScanNextIs ==
    ASSUME Decodes, NEW pc \in Addr
    PROVE  /\ ScanNext(pc) \in pc + 1 .. Size
           /\ \A a \in pc + 1 .. ScanNext(pc) - 1 : Op(a) = "table"
  BY TableEndIs DEF ScanNext, Decodes, Addr

\* Every address that is not the byte of a table is found by the linear scan.
LEMMA ScannedIs ==
    ASSUME Decodes, NEW lo \in Addr, NEW hi \in lo + 1 .. Size,
           NEW a \in lo .. hi - 1, ~ TableByte(a)
    PROVE  a \in Scanned(lo, hi)
<1> USE DEF Decodes, Addr
<1> DEFINE next(p) == {ScanNext(p)}
<1>1. ASSUME NEW C \in SUBSET (lo .. hi - 1), lo \in C,
             \A c \in C : next(c) \cap (lo .. hi - 1) \subseteq C, a \notin C
      PROVE  FALSE
  <2> DEFINE B == {c \in C : c <= a}
  <2>0. C \subseteq lo .. hi - 1 /\ lo \in C
    BY <1>1
  <2>1. B \in SUBSET Nat /\ B # {} /\ a \in Nat /\ \A c \in B : c <= a
    <3>1. a \in Nat /\ lo <= a
      OBVIOUS
    <3>2. lo \in B
      BY <2>0, <3>1
    <3>3. \A x \in lo .. hi - 1 : x \in Nat
      OBVIOUS
    <3>4. B \in SUBSET Nat
      BY <2>0, <3>3, Zenon
    <3> QED BY <3>1, <3>2, <3>4
  <2>2. PICK c \in B : \A d \in B : d <= c
    <3> HIDE DEF B
    <3> QED BY <2>1, GreatestExists
  <2>3. c \in Addr /\ c < a
    BY <1>1, <2>2
  <2>4. ScanNext(c) \in c + 1 .. Size /\ \A d \in c + 1 .. ScanNext(c) - 1 : Op(d) = "table"
    BY <2>3, ScanNextIs
  <2>5. ScanNext(c) > a
    BY <1>1, <2>2, <2>3, <2>4
  <2>6. Op(a) = "table"
    BY <2>3, <2>4, <2>5
  <2> QED
    BY <2>6 DEF TableByte
<1>2. a \in Reached(lo .. hi - 1, {lo}, next)
  BY <1>1 DEF Reached
<1>3. ~ LiftData(a)
  BY DEF TableByte
<1> QED
  BY <1>2, <1>3 DEF Scanned

\* The translation covers where it starts, ...
LEMMA LiftedStarts ==
    ASSUME Decodes, NEW lo \in Addr, NEW hi \in lo + 1 .. Size, ~ LiftData(lo)
    PROVE  lo \in Lifted(lo, hi)
  BY DEF Lifted, Reached, Decodes, Addr

\* ... the targets it has found, ...
LEMMA LiftedTargets ==
    ASSUME Decodes, NEW lo \in Addr, NEW hi \in lo + 1 .. Size, NEW t \in Targets(lo, hi)
    PROVE  t \in Lifted(lo, hi)
<1> USE DEF Decodes, Addr
<1> DEFINE T == Targets(lo, hi)
           next(p) == LiftNext(p, T)
<1>0. T \subseteq lo .. hi - 1 /\ \A x \in T : ~ TableByte(x)
  <2>1. \A p \in Scanned(lo, hi) : p \in Addr
    BY DEF Scanned, Reached
  <2>2. \A p \in Addr : Target(p) \in Nat
    BY DEF Target, Far
  <2>3. \A x \in T : /\ \E p \in Scanned(lo, hi) : x = Target(p)
                     /\ lo <= x /\ x < hi /\ ~ TableByte(x)
    BY DEF Targets
  <2>4. \A x \in T : x \in Nat
    BY <2>1, <2>2, <2>3
  <2>5. \A x \in T : x \in lo .. hi - 1
    BY <2>3, <2>4
  <2> QED BY <2>3, <2>5
<1>1. ASSUME NEW C \in SUBSET (lo .. hi - 1), lo \in C,
             \A c \in C : next(c) \cap (lo .. hi - 1) \subseteq C, t \notin C
      PROVE  FALSE
  <2> DEFINE B == {c \in C : c <= t}
  <2>0. C \subseteq lo .. hi - 1 /\ lo \in C /\ t \in lo .. hi - 1
    BY <1>0, <1>1
  <2>1. B \in SUBSET Nat /\ B # {} /\ t \in Nat /\ \A c \in B : c <= t
    <3>1. t \in Nat /\ lo <= t
      BY <2>0
    <3>2. lo \in B
      BY <2>0, <3>1
    <3>3. \A x \in lo .. hi - 1 : x \in Nat
      OBVIOUS
    <3>4. B \in SUBSET Nat
      BY <2>0, <3>3, Zenon
    <3> QED BY <3>1, <3>2, <3>4
  <2>2. PICK c \in B : \A d \in B : d <= c
    <3> HIDE DEF B
    <3> QED BY <2>1, GreatestExists
  <2>3. c \in Addr /\ c < t /\ c \in C
    BY <1>1, <2>0, <2>2
  <2>4. ScanNext(c) \in c + 1 .. Size /\ \A d \in c + 1 .. ScanNext(c) - 1 : Op(d) = "table"
    BY <2>3, ScanNextIs
  <2>5. ScanNext(c) <= t
    <3>1. Op(t) # "table"
      BY <1>0, <2>0 DEF TableByte
    <3> QED BY <2>0, <2>3, <2>4, <3>1
  <2>6. \A d \in C : d <= c \/ d > t
    BY <2>0, <2>2
  <2> DEFINE later == {x \in T : x >= ScanNext(c)}
  <2>7. CASE ~ LiftData(c) /\ ~ Terminates(c)
    <3>1. c + 1 \in next(c)
      BY <2>7 DEF LiftNext
    <3>2. c + 1 \in C
      BY <1>1, <2>0, <2>3, <3>1
    <3> QED BY <2>6, <2>0, <2>3, <3>2, <1>1
  <2>8. CASE LiftData(c) \/ Terminates(c)
    <3>1. later \in SUBSET Nat /\ t \in later
      BY <1>0, <2>5, <2>0
    <3>2. Least(later) \in later /\ \A y \in later : Least(later) <= y
      <4> HIDE DEF later
      <4> QED BY <3>1, LeastIs
    <3>3. Least(later) \in next(c)
      BY <2>8, <3>1 DEF LiftNext
    <3>4. Least(later) \in C
      BY <1>0, <1>1, <2>3, <3>2, <3>3
    <3>5. Least(later) <= t /\ Least(later) >= ScanNext(c) /\ Least(later) \in lo .. hi - 1
      BY <1>0, <3>1, <3>2
    <3> DEFINE l == Least(later)
    <3> HIDE DEF l, later, T, next
    <3>6. l \in C /\ l <= t /\ l >= ScanNext(c) /\ l \in lo .. hi - 1
      BY <3>4, <3>5 DEF l
    <3>7. l > c
      BY <3>6, <2>4, <2>3
    <3>8. l = t
      BY <3>6, <3>7, <2>6, <2>3, <2>0
    <3> QED BY <3>6, <3>8, <1>1
  <2> QED BY <2>7, <2>8
<1>2. t \in Reached(lo .. hi - 1, {lo}, next)
  <2> HIDE DEF T
  <2> QED BY <1>0, <1>1 DEF Reached, T
<1>3. ~ LiftData(t)
  BY <1>0 DEF TableByte
<1> QED
  BY <1>2, <1>3 DEF Lifted

\* ... and what follows an instruction that does not end the flow.
LEMMA LiftedOnward ==
    ASSUME Decodes, NEW lo \in Addr, NEW hi \in lo + 1 .. Size,
           NEW b \in Lifted(lo, hi), ~ Terminates(b), b + 1 < hi, ~ LiftData(b + 1)
    PROVE  b + 1 \in Lifted(lo, hi)
<1> USE DEF Decodes, Addr
<1> DEFINE T == Targets(lo, hi)
           R == Reached(lo .. hi - 1, {lo}, LAMBDA p : LiftNext(p, T))
<1>1. b \in R /\ ~ LiftData(b) /\ b \in lo .. hi - 1
  BY DEF Lifted, Reached
<1>2. b + 1 \in LiftNext(b, T)
  BY <1>1 DEF LiftNext
<1>3. b + 1 \in lo .. hi - 1
  BY <1>1
<1>4. b + 1 \in R
  BY <1>1, <1>2, <1>3 DEF Reached
<1> QED
  BY <1>4 DEF Lifted

-----------------------------------------------------------------------------
(***************************************************************************)
(* The queue a pass starts with holds its roots.                           *)
(***************************************************************************)
\* Each root has a place of its own: the number of the roots below it.
LEMMA SortedIs ==
    ASSUME Size \in Nat \ {0}, NEW S \in SUBSET Addr
    PROVE  Sorted(S) \in Seq(Addr) /\ Range(Sorted(S)) = S
<1> USE DEF Addr
<1> DEFINE n == Cardinality(S)
           Below(a) == {b \in S : b < a}
           rank == [a \in S |-> Cardinality(Below(a))]
<1>0. \A x \in S : x \in Nat
  OBVIOUS
<1>1. IsFiniteSet(Addr)
  BY FS_Interval
<1>2. IsFiniteSet(S) /\ n \in Nat
  BY <1>1, FS_Subset, FS_CardinalityType
<1>3. \A a \in S : IsFiniteSet(Below(a)) /\ Cardinality(Below(a)) \in Nat
  <2> TAKE a \in S
  <2>1. Below(a) \in SUBSET S
    OBVIOUS
  <2> QED BY <1>2, <2>1, FS_Subset, FS_CardinalityType
<1>4. \A a \in S : Cardinality(Below(a)) \in 0 .. n - 1
  <2> TAKE a \in S
  <2>1. IsFiniteSet(S \ {a}) /\ Cardinality(S \ {a}) = n - 1
    BY <1>2, FS_RemoveElement
  <2>2. Below(a) \in SUBSET (S \ {a})
    OBVIOUS
  <2>3. Cardinality(Below(a)) <= n - 1
    BY <2>1, <2>2, FS_Subset
  <2> HIDE DEF n, Below
  <2> QED BY <1>2, <1>3, <2>3
<1>5. \A a, b \in S : a < b => Cardinality(Below(a)) < Cardinality(Below(b))
  <2> TAKE a, b \in S
  <2> SUFFICES ASSUME a < b PROVE Cardinality(Below(a)) < Cardinality(Below(b))
    OBVIOUS
  <2>1. Cardinality(Below(a) \cup {a}) = Cardinality(Below(a)) + 1
    <3>1. a \notin Below(a)
      OBVIOUS
    <3> QED BY <1>3, <3>1, FS_AddElement
  <2>2. Below(a) \cup {a} \in SUBSET Below(b)
    <3>1. \A c \in S : c < a => c < b
      BY <1>0
    <3> QED BY <3>1
  <2>3. Cardinality(Below(a) \cup {a}) <= Cardinality(Below(b))
    BY <1>3, <2>2, FS_Subset
  <2> HIDE DEF Below
  <2> QED BY <1>3, <2>1, <2>3
<1>6. rank \in Surjection(S, 0 .. n - 1)
  <2>1. rank \in Injection(S, 0 .. n - 1)
    <3>1. rank \in [S -> 0 .. n - 1]
      BY <1>4
    <3>2. \A a, b \in S : a # b => rank[a] # rank[b]
      <4> TAKE a, b \in S
      <4>1. a < b \/ b < a \/ a = b
        OBVIOUS
      <4> HIDE DEF Below
      <4>2. rank[a] = Cardinality(Below(a)) /\ rank[b] = Cardinality(Below(b))
        OBVIOUS
      <4> QED BY <4>1, <4>2, <1>3, <1>5
    <3> HIDE DEF rank, n
    <3> QED BY <3>1, <3>2 DEF Injection, IsInjective
  <2>2. IsFiniteSet(0 .. n - 1) /\ Cardinality(0 .. n - 1) = n
    <3> HIDE DEF n
    <3>1. IsFiniteSet(0 .. n - 1) /\ Cardinality(0 .. n - 1) = IF 0 > n - 1 THEN 0 ELSE n - 1 - 0 + 1
      BY <1>2, FS_Interval
    <3> QED BY <1>2, <3>1
  <2> QED
    BY <2>1, <2>2, FS_Injection
<1>7. \A i \in 1 .. n : \E a \in S : Cardinality(Below(a)) = i - 1
  <2> TAKE i \in 1 .. n
  <2>1. i - 1 \in 0 .. n - 1
    <3> HIDE DEF n
    <3> QED BY <1>2
  <2>2. \E a \in S : rank[a] = i - 1
    <3> HIDE DEF n, rank
    <3> QED BY <1>6, <2>1 DEF Surjection
  <2> QED BY <2>2
<1> DEFINE s == [i \in 1 .. n |-> CHOOSE a \in S : Cardinality(Below(a)) = i - 1]
<1>8. Sorted(S) = s
  BY DEF Sorted
<1>9. \A i \in 1 .. n : s[i] \in S /\ Cardinality(Below(s[i])) = i - 1
  <2> TAKE i \in 1 .. n
  <2>1. s[i] = CHOOSE a \in S : Cardinality(Below(a)) = i - 1
    OBVIOUS
  <2> HIDE DEF s, Below, n
  <2> QED BY <1>7, <2>1, Zenon
<1>10. \A a \in S : \E i \in 1 .. n : s[i] = a
  <2> TAKE a \in S
  <2> DEFINE i == Cardinality(Below(a)) + 1
  <2>1. i \in 1 .. n /\ i - 1 = Cardinality(Below(a))
    <3> HIDE DEF n, Below
    <3> QED BY <1>2, <1>4
  <2>2. s[i] \in S /\ Cardinality(Below(s[i])) = Cardinality(Below(a))
    <3> HIDE DEF s, n, i, Below
    <3> QED BY <1>9, <2>1
  <2>3. s[i] = a
    <3> HIDE DEF s, i
    <3>0. \A x, y \in S : x < y \/ y < x \/ x = y
      BY <1>0
    <3>1. s[i] < a \/ a < s[i] \/ s[i] = a
      BY <2>2, <3>0, Zenon
    <3> DEFINE c(x) == Cardinality(Below(x))
    <3>2. c(s[i]) = c(a) /\ c(a) \in Nat
      BY <1>3, <2>2
    <3>3. s[i] < a => c(s[i]) < c(a)
      BY <1>5, <2>2
    <3>4. a < s[i] => c(a) < c(s[i])
      BY <1>5, <2>2
    <3> HIDE DEF c
    <3> QED BY <3>1, <3>2, <3>3, <3>4
  <2> HIDE DEF s, i, n
  <2> QED BY <2>1, <2>3
<1>11. s \in Seq(Addr) /\ DOMAIN s = 1 .. n
  <2>1. \A i \in 1 .. n : s[i] \in Addr
    <3> HIDE DEF s, n
    <3> QED BY <1>9
  <2>2. s = [i \in 1 .. n |-> s[i]]
    BY SMTT(30)
  <2> HIDE DEF s, n
  <2> QED BY <1>2, <2>1, <2>2
<1> HIDE DEF s, n
<1> QED
  BY <1>8, <1>9, <1>10, <1>11 DEF Range

-----------------------------------------------------------------------------
(***************************************************************************)
(* The invariant of discovery.  A walk or a function is a set of addresses *)
(* C of the program im, from the entry e on.                               *)
(***************************************************************************)
CodeIn(im, a) == a \in Addr /\ im[a].op \notin {"data", "table", "jam"}
EndsIn(im, a) == im[a].op \in {"rts", "jmp", "engine", "jam"}
Jumping == {"br", "jmp", "jsr"}

\* What the instructions of C lead to, and what they branch ahead to.
Leads(im, C, a) == \E b \in C : im[b].op \in Jumping /\ im[b].to = a
Ahead(im, C, a) ==
    a \in Addr /\ \E b \in C : b < a /\ im[b].op \in {"br", "jmp"} /\ im[b].to = a

\* How a walk comes to an address.
Came(im, e, C, a) == a = e \/ (a - 1 \in C /\ ~ EndsIn(im, a - 1)) \/ Ahead(im, C, a)

\* An instruction of C whose target is among the labels T, or among the references,
\* and then among the roots R unless it is that of a branch.
Noticed(im, T, refs, R, c) ==
    im[c].op \in Jumping =>
        \/ im[c].to \in T
        \/ im[c].to \in refs /\ (im[c].op # "br" /\ im[c].to \in Addr => im[c].to \in R)

\* A walk from e that has covered C up to the address n.
Covers(im, e, C, n) ==
    /\ C \subseteq e .. n - 1 /\ \A c \in C : CodeIn(im, c)
    /\ n > e => e \in C
    /\ \A c \in C : EndsIn(im, c) \/ c + 1 \in C \/ c + 1 = n
    /\ \A c \in C : Came(im, e, C, c)

Walks ==
    [entry : Addr, pc : 0 .. Size, known : SUBSET Addr, targets : SUBSET Addr,
     labels : SUBSET Addr, refs : SUBSET (Addr \cup {Far}), calls : Seq(Addr), code : SUBSET Addr]

\* What a walk has noticed, up to the address n.
WalkedTo(im, w, R, n) ==
    /\ Covers(im, w.entry, w.code, n)
    /\ w.targets = {w.entry} \cup w.labels
    /\ w.targets \subseteq w.entry .. w.entry + MaxBytes - 1
    /\ \A a \in w.labels \cup w.refs \cup Range(w.calls) : Leads(im, w.code, a)
    /\ \A a \in w.labels : \E b \in w.code : im[b].op \in {"br", "jmp"} /\ im[b].to = a
    /\ \A c \in w.code : Noticed(im, w.targets, w.refs, R \cup Range(w.calls), c)

WalkOK(im, w, R) ==
    /\ w \in Walks /\ w.pc >= w.entry
    /\ WalkedTo(im, w, R, w.pc)
    /\ Came(im, w.entry, w.code, w.pc)

\* A function that ends behind an instruction that ends the flow, and one that
\* ends where its walk could not go on.
Complete(im, f) == f.end - 1 \in f.code /\ EndsIn(im, f.end - 1)
Blocked(im, e, f) == (~ CodeIn(im, f.end) \/ f.cut) /\ Came(im, e, f.code, f.end)

FunctionOK(im, e, f, R) ==
    /\ f.end \in e .. Size /\ f.labels \subseteq e .. f.end - 1
    /\ f.refs \subseteq Addr \cup {Far} /\ f.code \subseteq Addr
    /\ Covers(im, e, f.code, f.end)
    /\ CodeIn(im, e) <=> f.end > e
    /\ \A a \in f.labels \cup f.refs : Leads(im, f.code, a)
    /\ \A c \in f.code :
        Noticed(im, {e} \cup f.labels, f.refs, R, c) \/ ~ CodeIn(im, im[c].to) \/ Blocked(im, e, f)
    /\ Complete(im, f) \/ Blocked(im, e, f)

Program ==
    /\ Decodes /\ MaxBytes \in Nat \ {0}
    /\ vectors \in SUBSET Addr /\ dynamic \in BOOLEAN

\* Every root is in the queue, in hand or found.
Roots ==
    /\ vectors \cup profile \subseteq roots /\ roots \subseteq Addr
    /\ DOMAIN found \subseteq roots
    /\ queue \in Seq(Addr) /\ Range(queue) \subseteq roots
    /\ roots \subseteq Range(queue) \cup DOMAIN found \cup (IF phase = "walk" THEN {walk.entry} ELSE {})
    /\ phase = "walk" => walk.entry \in roots

Walked ==
    /\ WalkOK(image, walk, roots)
    /\ phase # "walk" => walk.code = {}
    /\ \A e \in DOMAIN found : FunctionOK(image, e, found[e], roots)

\* Only what the program executes is walked as code.
Runs ==
    /\ \A a \in roots : CodeIn(image, a) => a \in Executed
    /\ walk.code \subseteq Executed
    /\ \A e \in DOMAIN found : found[e].code \subseteq Executed

Lifting == [e \in Owners |-> Lifted(e, Trimmed(e))]
Phases ==
    /\ phase \in {"discover", "walk", "lift", "done"}
    /\ phase \in {"lift", "done"} => queue = <<>> /\ Continuations = {}
    /\ routines = IF phase = "done" THEN Lifting ELSE Empty

IInv == Program /\ Roots /\ Walked /\ Runs /\ Phases
-----------------------------------------------------------------------------
(***************************************************************************)
(* Sequences and the elements they hold.                                   *)
(***************************************************************************)
\* What Append holds.
LEMMA RangeOfAppend ==
    ASSUME NEW S, NEW s \in Seq(S), NEW t \in S
    PROVE  Append(s, t) \in Seq(S) /\ Range(Append(s, t)) = Range(s) \cup {t}
<1>1. Append(s, t) \in Seq(S) /\ Len(Append(s, t)) = Len(s) + 1
  OBVIOUS
<1>2. /\ \A i \in 1 .. Len(s) : Append(s, t)[i] = s[i]
      /\ Append(s, t)[Len(s) + 1] = t
  OBVIOUS
<1>3. DOMAIN s = 1 .. Len(s) /\ DOMAIN Append(s, t) = 1 .. Len(s) + 1 /\ Len(s) \in Nat
  BY <1>1
<1>4. 1 .. Len(s) + 1 = 1 .. Len(s) \cup {Len(s) + 1}
  BY <1>3
<1>5. \A x \in Range(Append(s, t)) : x \in Range(s) \cup {t}
  BY <1>2, <1>3, <1>4 DEF Range
<1>6. \A x \in Range(s) \cup {t} : x \in Range(Append(s, t))
  BY <1>2, <1>3, <1>4 DEF Range
<1> QED
  BY <1>1, <1>5, <1>6

\* What a concatenation holds.
LEMMA RangeOfConcat ==
    ASSUME NEW S, NEW s \in Seq(S), NEW t \in Seq(S)
    PROVE  s \o t \in Seq(S) /\ Range(s \o t) = Range(s) \cup Range(t)
<1>1. /\ s \o t \in Seq(S) /\ Len(s \o t) = Len(s) + Len(t)
      /\ Len(s) \in Nat /\ Len(t) \in Nat
  OBVIOUS
<1>2. /\ DOMAIN s = 1 .. Len(s) /\ DOMAIN t = 1 .. Len(t)
      /\ DOMAIN (s \o t) = 1 .. Len(s) + Len(t)
  BY <1>1
<1>3. /\ \A i \in 1 .. Len(s) : (s \o t)[i] = s[i]
      /\ \A i \in 1 .. Len(s) + Len(t) : i > Len(s) => (s \o t)[i] = t[i - Len(s)]
  BY <1>1
<1>4. ASSUME NEW x \in Range(s \o t) PROVE x \in Range(s) \cup Range(t)
  <2>1. PICK i \in 1 .. Len(s) + Len(t) : x = (s \o t)[i]
    BY <1>2 DEF Range
  <2>2. CASE i <= Len(s)
    BY <2>1, <2>2, <1>1, <1>2, <1>3 DEF Range
  <2>3. CASE i > Len(s)
    <3>1. i - Len(s) \in 1 .. Len(t) /\ x = t[i - Len(s)]
      BY <2>1, <2>3, <1>1, <1>3
    <3> QED BY <3>1, <1>2 DEF Range
  <2> QED BY <2>2, <2>3, <2>1, <1>1
<1>5. ASSUME NEW x \in Range(s) PROVE x \in Range(s \o t)
  <2>1. PICK i \in 1 .. Len(s) : x = s[i]
    BY <1>2, <1>5 DEF Range
  <2>2. i \in 1 .. Len(s) + Len(t) /\ x = (s \o t)[i]
    BY <2>1, <1>1, <1>3
  <2> QED BY <2>2, <1>2 DEF Range
<1>6. ASSUME NEW x \in Range(t) PROVE x \in Range(s \o t)
  <2>1. PICK i \in 1 .. Len(t) : x = t[i]
    BY <1>2, <1>6 DEF Range
  <2> DEFINE j == i + Len(s)
  <2>2. j \in 1 .. Len(s) + Len(t) /\ j > Len(s) /\ j - Len(s) = i
    BY <2>1, <1>1
  <2> HIDE DEF j
  <2>3. x = (s \o t)[j]
    BY <2>1, <2>2, <1>3
  <2> QED BY <2>2, <2>3, <1>2 DEF Range
<1> QED
  BY <1>1, <1>4, <1>5, <1>6

\* A queue holds its head and what its tail holds.
LEMMA RangeOfTail ==
    ASSUME NEW S, NEW s \in Seq(S), s # <<>>
    PROVE  /\ Head(s) \in S /\ Tail(s) \in Seq(S)
           /\ Range(s) = {Head(s)} \cup Range(Tail(s))
<1>1. /\ Head(s) \in S /\ Tail(s) \in Seq(S) /\ Len(s) \in Nat /\ Len(s) >= 1
      /\ Head(s) = s[1] /\ Len(Tail(s)) = Len(s) - 1
  OBVIOUS
<1>2. \A i \in 1 .. Len(s) - 1 : Tail(s)[i] = s[i + 1]
  OBVIOUS
<1>3. DOMAIN s = 1 .. Len(s) /\ DOMAIN Tail(s) = 1 .. Len(s) - 1
  BY <1>1
<1>4. ASSUME NEW x \in Range(s) PROVE x \in {Head(s)} \cup Range(Tail(s))
  <2>1. PICK i \in 1 .. Len(s) : x = s[i]
    BY <1>3 DEF Range
  <2>2. CASE i = 1
    BY <2>1, <2>2, <1>1
  <2>3. CASE i # 1
    <3>1. i - 1 \in 1 .. Len(s) - 1 /\ x = Tail(s)[i - 1]
      BY <2>1, <2>3, <1>1, <1>2
    <3> QED BY <3>1, <1>3 DEF Range
  <2> QED BY <2>2, <2>3
<1>5. Head(s) \in Range(s)
  BY <1>1, <1>3 DEF Range
<1>6. ASSUME NEW x \in Range(Tail(s)) PROVE x \in Range(s)
  <2>1. PICK i \in 1 .. Len(s) - 1 : x = Tail(s)[i]
    BY <1>3, <1>6 DEF Range
  <2>2. i + 1 \in 1 .. Len(s) /\ x = s[i + 1]
    BY <2>1, <1>1, <1>2
  <2> QED BY <2>2, <1>3 DEF Range
<1> QED
  BY <1>1, <1>4, <1>5, <1>6

-----------------------------------------------------------------------------
(***************************************************************************)
(* An instruction of a walk.                                               *)
(***************************************************************************)
\* What an address holds, by the program itself.
LEMMA Text ==
    ASSUME Program
    PROVE  \A a : /\ IsCode(a) <=> CodeIn(image, a)
                  /\ Terminates(a) <=> EndsIn(image, a)
                  /\ Op(a) = image[a].op /\ Target(a) = image[a].to
  BY DEF IsCode, CodeIn, IsData, Terminates, EndsIn, Op, Target

\* Each address holds an instruction or data.
LEMMA Cell ==
    ASSUME Program, NEW a \in Addr
    PROVE  image[a].op \in Ops /\ image[a].to \in Addr \cup {Far}
  BY DEF Program, Decodes

\* What the instruction w is at adds to it, to make it v: a label, a reference or
\* nothing.
Adds(w, t, v) ==
    /\ v \in Walks /\ v.entry = w.entry /\ v.pc = w.pc
    /\ v.code = w.code \cup {w.pc}
    /\ \/ /\ Op(w.pc) \in {"br", "jmp"}
          /\ t \in w.entry .. w.entry + MaxBytes - 1 /\ t \in Addr
          /\ v.targets = w.targets \cup {t}
          /\ v.labels = w.labels \cup ({t} \ {w.entry})
          /\ v.refs = w.refs /\ v.calls = w.calls
       \/ /\ Op(w.pc) \in Jumping
          /\ v.targets = w.targets /\ v.labels = w.labels
          /\ v.refs = w.refs \cup {t}
          /\ Range(v.calls) \subseteq Range(w.calls) \cup {t}
          /\ Range(w.calls) \subseteq Range(v.calls)
          /\ Op(w.pc) # "br" /\ t \in Addr => t \in Range(v.calls) \cup DOMAIN found
       \/ /\ Op(w.pc) \notin Jumping
          /\ v.targets = w.targets /\ v.labels = w.labels
          /\ v.refs = w.refs /\ v.calls = w.calls

\* walk_function adds a label, or a reference that may be a root, or nothing.
LEMMA NotedIs ==
    ASSUME Program, NEW w \in Walks, w.pc >= w.entry, GoesOn(w)
    PROVE  Adds(w, Target(w.pc), Noted(w))
<1> DEFINE pc == w.pc
           t == Target(pc)
           u == [w EXCEPT !.code = @ \cup {pc}]
<1>1. /\ w.entry \in Addr /\ pc \in Addr /\ pc < w.entry + MaxBytes
      /\ w.targets \subseteq Addr /\ w.labels \subseteq Addr /\ w.refs \subseteq Addr \cup {Far}
      /\ w.calls \in Seq(Addr) /\ w.code \subseteq Addr
      /\ Size \in Nat \ {0} /\ MaxBytes \in Nat \ {0}
  BY DEF Walks, GoesOn, Upper, Program, Decodes
<1>2. t \in Addr \cup {Far} /\ Op(pc) = image[pc].op /\ t = image[pc].to
  BY <1>1, Cell, Text
<1>3. u \in Walks /\ u = [w EXCEPT !.code = w.code \cup {pc}]
  BY <1>1 DEF Walks
<1> DEFINE calls == IF t \in Addr \ (Range(w.calls) \cup DOMAIN found) THEN Append(w.calls, t) ELSE w.calls
<1> DEFINE T == w.targets \cup {t}
           L == w.labels \cup ({t} \ {w.entry})
<1>4. Internal(u, t) = [u EXCEPT !.targets = T, !.labels = L]
  <2>1. (IF t = w.entry THEN w.labels ELSE w.labels \cup {t}) = L
    OBVIOUS
  <2>2. u.targets = w.targets /\ u.labels = w.labels /\ u.entry = w.entry
    BY <1>3 DEF Walks
  <2>3. Internal(u, t) = [u EXCEPT !.targets = u.targets \cup {t},
                                   !.labels = IF t = u.entry THEN u.labels ELSE u.labels \cup {t}]
    BY DEF Internal
  <2> HIDE DEF u
  <2> QED BY <2>1, <2>2, <2>3
<1>5. External(u, t) = [u EXCEPT !.refs = w.refs \cup {t}]
  BY <1>3 DEF External, Walks
<1>6. Root(u, t) = [u EXCEPT !.refs = w.refs \cup {t}, !.calls = calls]
  BY <1>3, <1>5 DEF Root, Walks
<1>7. /\ calls \in Seq(Addr) /\ Range(calls) \subseteq Range(w.calls) \cup {t}
      /\ Range(w.calls) \subseteq Range(calls)
      /\ t \in Addr => t \in Range(calls) \cup DOMAIN found
  <2>1. CASE t \in Addr \ (Range(w.calls) \cup DOMAIN found)
    BY <1>1, <2>1, RangeOfAppend
  <2>2. CASE t \notin Addr \ (Range(w.calls) \cup DOMAIN found)
    BY <1>1, <2>2
  <2> QED BY <2>1, <2>2
<1> HIDE DEF calls
<1>8. CASE Op(pc) \in {"br", "jmp"} /\ Noted(w) = Internal(u, t)
           /\ t \in w.entry .. w.entry + MaxBytes - 1 /\ t \in Addr
  <2> DEFINE v == Noted(w)
  <2>0. T \in SUBSET Addr /\ L \in SUBSET Addr
    BY <1>1, <1>8
  <2>1. v = [entry |-> w.entry, pc |-> w.pc, known |-> w.known, targets |-> T, labels |-> L,
             refs |-> w.refs, calls |-> w.calls, code |-> w.code \cup {pc}]
    <3> HIDE DEF T, L
    <3> QED BY <1>3, <1>4, <1>8 DEF Walks
  <2>2. v \in Walks
    <3> HIDE DEF T, L, v
    <3>1. w.code \cup {pc} \in SUBSET Addr /\ w \in Walks
      BY <1>1
    <3> QED BY <2>0, <2>1, <3>1 DEF Walks
  <2>3. /\ v.entry = w.entry /\ v.pc = w.pc /\ v.refs = w.refs /\ v.calls = w.calls
        /\ v.targets = T /\ v.labels = L /\ v.code = w.code \cup {pc}
    <3> HIDE DEF v, T, L
    <3> QED BY <2>1
  <2> HIDE DEF v
  <2> QED BY <1>8, <2>2, <2>3, Zenon DEF v, Adds
<1>9. CASE Op(pc) = "br" /\ Noted(w) = External(u, t)
  <2> DEFINE v == Noted(w)
  <2>1. /\ v.entry = w.entry /\ v.pc = w.pc /\ v.known = w.known /\ v.refs = w.refs \cup {t}
        /\ v.calls = w.calls /\ v.code = w.code \cup {pc}
        /\ v.targets = w.targets /\ v.labels = w.labels
    BY <1>3, <1>5, <1>9 DEF Walks
  <2>2. v \in Walks
    <3>1. w.refs \cup {t} \subseteq Addr \cup {Far}
      BY <1>1, <1>2
    <3> QED BY <3>1, <1>3, <1>5, <1>9 DEF Walks
  <2> HIDE DEF v
  <2> QED BY <1>9, <2>1, <2>2 DEF v, Jumping, Adds
<1>10. CASE Op(pc) \in {"jmp", "jsr"} /\ Noted(w) = Root(u, t)
  <2> DEFINE v == Noted(w)
  <2>1. v = [entry |-> w.entry, pc |-> w.pc, known |-> w.known, targets |-> w.targets,
             labels |-> w.labels, refs |-> w.refs \cup {t}, calls |-> calls,
             code |-> w.code \cup {pc}]
    BY <1>3, <1>6, <1>10 DEF Walks
  <2>2. v \in Walks
    <3>1. w.refs \cup {t} \subseteq Addr \cup {Far}
      BY <1>1, <1>2
    <3>2. w.code \cup {pc} \in SUBSET Addr /\ w \in Walks
      BY <1>1
    <3> HIDE DEF v
    <3> QED BY <2>1, <3>1, <3>2, <1>7 DEF Walks
  <2>3. /\ v.entry = w.entry /\ v.pc = w.pc /\ v.refs = w.refs \cup {t} /\ v.calls = calls
        /\ v.targets = w.targets /\ v.labels = w.labels /\ v.code = w.code \cup {pc}
    <3> HIDE DEF v
    <3> QED BY <2>1
  <2>4. Op(pc) \in Jumping
    BY <1>10 DEF Jumping
  <2> HIDE DEF v
  <2> QED BY <1>7, <2>2, <2>3, <2>4, Zenon DEF v, Adds
<1>11. CASE Op(pc) \notin Jumping /\ Noted(w) = u
  BY <1>1, <1>2, <1>3, <1>11 DEF Walks, Jumping, Adds
<1>12. \/ Op(pc) = "br" /\ Noted(w) = IF IsInternal(w, t) THEN Internal(u, t) ELSE External(u, t)
       \/ Op(pc) = "jsr" /\ Noted(w) = Root(u, t)
       \/ Op(pc) = "jmp" /\ Noted(w) = IF IsLoop(w, t) THEN Internal(u, t) ELSE Root(u, t)
       \/ Op(pc) \notin Jumping /\ Noted(w) = u
  BY DEF Noted, Jumping
<1>13. IsInternal(w, t) => t \in w.entry .. w.entry + MaxBytes - 1 /\ t \in Addr
  BY <1>1 DEF IsInternal, Upper, Addr
<1>14. IsLoop(w, t) => t \in w.entry .. w.entry + MaxBytes - 1 /\ t \in Addr
  BY <1>1, <1>2, SMTT(30) DEF IsLoop, Addr, Far
<1> QED
  BY <1>8, <1>9, <1>10, <1>11, <1>12, <1>13, <1>14

\* What a walk has covered, with the instruction it is at, ...
LEMMA CoversOneMore ==
    ASSUME Program, NEW im, NEW C \in SUBSET Addr, NEW e \in Addr, NEW n \in Addr, e <= n,
           Covers(im, e, C, n), Came(im, e, C, n), CodeIn(im, n)
    PROVE  Covers(im, e, C \cup {n}, n + 1)
<1> DEFINE D == C \cup {n}
<1>0. Size \in Nat /\ e \in Nat /\ n \in Nat /\ \A c \in C : c \in Nat
  BY DEF Program, Decodes, Addr
<1>1. D \subseteq e .. n /\ \A c \in D : CodeIn(im, c)
  BY <1>0 DEF Covers
<1>2. e \in D
  BY <1>0 DEF Covers
<1>3. \A c \in D : EndsIn(im, c) \/ c + 1 \in D \/ c + 1 = n + 1
  BY <1>0 DEF Covers
<1>4. \A a : Came(im, e, C, a) => Came(im, e, D, a)
  BY DEF Came, Ahead
<1>5. \A c \in D : Came(im, e, D, c)
  BY <1>4 DEF Covers
<1>6. e .. n = e .. (n + 1) - 1
  BY <1>0
<1> QED
  BY <1>1, <1>2, <1>3, <1>5, <1>6 DEF Covers

\* ... and up to where it goes on behind the end of the flow.
LEMMA CoversUpTo ==
    ASSUME NEW im, NEW C \in SUBSET Nat, NEW e \in Nat, NEW n \in Nat, NEW m \in Nat, n <= m, e < n,
           Covers(im, e, C, n), \A c \in C : c + 1 = n => EndsIn(im, c)
    PROVE  Covers(im, e, C, m)
<1>1. C \subseteq e .. m - 1
  BY DEF Covers
<1> QED
  BY <1>1 DEF Covers

\* Noting the instruction of a walk keeps the walk right.
LEMMA NotedWalked ==
    ASSUME Program, NEW w, NEW R, WalkOK(image, w, R), GoesOn(w), DOMAIN found \subseteq R
    PROVE  /\ Noted(w) \in Walks /\ Noted(w).entry = w.entry /\ Noted(w).pc = w.pc
           /\ CodeIn(image, w.pc) /\ w.pc \in Noted(w).code
           /\ WalkedTo(image, Noted(w), R, w.pc + 1)
<1> DEFINE v == Noted(w)
           t == Target(w.pc)
<1>1. /\ w \in Walks /\ w.pc >= w.entry /\ w.pc \in Addr /\ w.entry \in Addr
      /\ w.code \in SUBSET Addr /\ WalkedTo(image, w, R, w.pc)
      /\ Came(image, w.entry, w.code, w.pc)
  BY DEF WalkOK, Walks, GoesOn
<1>2. CodeIn(image, w.pc)
  BY <1>1, Text DEF GoesOn, IsCode
<1>3. /\ Op(w.pc) = image[w.pc].op /\ t = image[w.pc].to
      /\ w.entry \in w.entry .. w.entry + MaxBytes - 1
  BY <1>1, Text DEF Program, Addr, Decodes
<1>4. Adds(w, t, v)
  BY <1>1, NotedIs
<1> USE DEF Adds
<1> HIDE DEF v
<1>5. Covers(image, v.entry, v.code, w.pc + 1)
  BY <1>1, <1>2, <1>4, CoversOneMore DEF WalkedTo
<1>6. v.targets = {v.entry} \cup v.labels
  BY <1>1, <1>4 DEF WalkedTo
<1>7. v.targets \subseteq v.entry .. v.entry + MaxBytes - 1
  BY <1>1, <1>4 DEF WalkedTo
<1>8. \A a \in v.labels \cup v.refs \cup Range(v.calls) : Leads(image, v.code, a)
  <2>1. \A a : Leads(image, w.code, a) => Leads(image, v.code, a)
    BY <1>4 DEF Leads
  <2>2. Op(w.pc) \in Jumping => Leads(image, v.code, t)
    BY <1>3, <1>4 DEF Leads
  <2>3. {"br", "jmp"} \subseteq Jumping
    BY DEF Jumping
  <2> HIDE DEF t
  <2> QED BY <1>1, <1>4, <2>1, <2>2, <2>3 DEF WalkedTo
<1>9. \A a \in v.labels : \E b \in v.code : image[b].op \in {"br", "jmp"} /\ image[b].to = a
  BY <1>1, <1>3, <1>4 DEF WalkedTo
<1>10. \A c \in v.code : Noticed(image, v.targets, v.refs, R \cup Range(v.calls), c)
  <2>1. \A c \in w.code : Noticed(image, v.targets, v.refs, R \cup Range(v.calls), c)
    <3>1. /\ w.targets \subseteq v.targets /\ w.refs \subseteq v.refs
          /\ Range(w.calls) \subseteq Range(v.calls)
      BY <1>4
    <3> QED BY <1>1, <3>1 DEF WalkedTo, Noticed
  <2>2. Noticed(image, v.targets, v.refs, R \cup Range(v.calls), w.pc)
    BY <1>3, <1>4 DEF Noticed
  <2> QED BY <1>4, <2>1, <2>2
<1> QED
  BY <1>2, <1>4, <1>5, <1>6, <1>7, <1>8, <1>9, <1>10 DEF WalkedTo, v

\* What a walk leaves when it ends behind an instruction, ...
LEMMA FunctionComplete ==
    ASSUME Program, NEW v \in Walks, NEW R, WalkedTo(image, v, R, v.pc + 1),
           v.pc \in v.code, EndsIn(image, v.pc), Pending(v) = {}
    PROVE  FunctionOK(image, v.entry, Function(v, v.pc + 1), R \cup Range(v.calls))
<1> DEFINE n == v.pc + 1
           e == v.entry
           f == Function(v, n)
<1>1. /\ f.end = n /\ f.labels = {a \in v.labels : a < n} /\ f.refs = v.refs /\ f.code = v.code
  BY DEF Function
<1>2. /\ Covers(image, e, v.code, n) /\ v.targets = {e} \cup v.labels
      /\ v.targets \subseteq e .. e + MaxBytes - 1
      /\ v.pc \in Addr /\ e \in Addr /\ v.refs \subseteq Addr \cup {Far} /\ v.code \subseteq Addr
      /\ v.labels \subseteq Addr
      /\ v.pc >= e
  BY DEF WalkedTo, Walks, Covers
<1>3. n \in e + 1 .. Size /\ Addr = 0 .. Size - 1 /\ Size \in Nat
  BY <1>2 DEF Addr, Program, Decodes
<1>4. f.end \in e .. Size /\ f.labels \subseteq e .. f.end - 1
  <2>1. \A a \in v.labels : a >= e /\ a \in Nat
    BY <1>2, <1>3
  <2> HIDE DEF f, n, e
  <2> QED BY <1>1, <1>2, <1>3, <2>1
<1> HIDE DEF f
<1>5. CodeIn(image, e) /\ f.end > e
  BY <1>1, <1>2, <1>3 DEF Covers
<1>6. Complete(image, f)
  BY <1>1, <1>2, <1>3 DEF Complete, Addr
<1>7. \A a \in f.labels \cup f.refs : Leads(image, f.code, a)
  BY <1>1 DEF WalkedTo
<1>8. ASSUME NEW c \in f.code, ~ Noticed(image, {e} \cup f.labels, f.refs, R \cup Range(v.calls), c)
      PROVE  ~ CodeIn(image, image[c].to)
  <2>1. Noticed(image, v.targets, v.refs, R \cup Range(v.calls), c)
    BY <1>1, <1>8 DEF WalkedTo
  <2> DEFINE t == image[c].to
  <2>2. t \in v.targets /\ t \notin {e} \cup f.labels
    BY <1>1, <1>8, <2>1 DEF Noticed
  <2>3. t >= n
    BY <1>1, <1>2, <1>3, <2>2
  <2>4. IsData(t)
    BY <2>2, <2>3 DEF Pending
  <2> QED
    BY <2>4, Text DEF IsCode
<1> QED
  BY <1>1, <1>2, <1>4, <1>5, <1>6, <1>7, <1>8 DEF FunctionOK, f

\* ... and when it cannot go on.
LEMMA FunctionBlocked ==
    ASSUME Program, NEW R, WalkOK(image, walk, R), ~ GoesOn(walk)
    PROVE  FunctionOK(image, walk.entry, Function(walk, walk.pc), R \cup Range(walk.calls))
<1> DEFINE n == walk.pc
           e == walk.entry
           f == Function(walk, n)
<1>1. /\ f.end = n /\ f.labels = {a \in walk.labels : a < n} /\ f.refs = walk.refs
      /\ f.code = walk.code /\ f.cut = (n \in Addr /\ n >= Upper(e))
  BY DEF Function
<1>2. /\ Covers(image, e, walk.code, n) /\ walk.targets = {e} \cup walk.labels
      /\ walk.targets \subseteq e .. e + MaxBytes - 1
      /\ n \in e .. Size /\ e \in Addr /\ walk.refs \subseteq Addr \cup {Far} /\ walk.code \subseteq Addr
      /\ walk.labels \subseteq Addr /\ Came(image, e, walk.code, n)
      /\ Size \in Nat /\ MaxBytes \in Nat \ {0} /\ Addr = 0 .. Size - 1
  BY DEF WalkOK, WalkedTo, Walks, Covers, Program, Decodes, Addr
<1>3. f.end \in e .. Size /\ f.labels \subseteq e .. f.end - 1
  <2>1. \A a \in walk.labels : a >= e /\ a \in Nat
    BY <1>2
  <2> HIDE DEF f, n, e
  <2> QED BY <1>1, <1>2, <2>1
<1> HIDE DEF f
<1>4. Blocked(image, e, f)
  <2>1. CodeIn(image, n) => n \in Addr /\ ~ (n < Upper(e))
    <3>1. CodeIn(image, n) => n \in Addr /\ ~ IsData(n) /\ Op(n) # "jam"
      BY Text, Zenon DEF IsCode
    <3> QED BY <3>1, Zenon DEF GoesOn
  <2>2. n < Upper(e) \/ n >= Upper(e)
    BY <1>2 DEF Upper
  <2> QED BY <1>1, <1>2, <2>1, <2>2 DEF Blocked
<1>5. CodeIn(image, e) <=> f.end > e
  <2>1. CASE n > e
    BY <1>1, <1>2, <2>1 DEF Covers
  <2>2. CASE n = e
    <3>1. n < Upper(e) /\ n \in Addr
      BY <1>2, <2>2 DEF Upper
    <3>2. ~ CodeIn(image, e)
      BY <2>2, <3>1, Text DEF GoesOn, IsCode
    <3> QED BY <1>1, <1>2, <2>2, <3>2
  <2> QED BY <1>2, <2>1, <2>2
<1>6. \A a \in f.labels \cup f.refs : Leads(image, f.code, a)
  BY <1>1 DEF WalkOK, WalkedTo
<1> QED
  BY <1>1, <1>2, <1>3, <1>4, <1>5, <1>6 DEF FunctionOK, f

-----------------------------------------------------------------------------
(***************************************************************************)
(* What the program executes.                                              *)
(***************************************************************************)
\* a may be the next instruction after b.
Follows(im, b, a) ==
    CodeIn(im, a) /\ ((im[b].op \in Jumping /\ im[b].to = a) \/ (~ EndsIn(im, b) /\ a = b + 1))

\* The instructions that can follow one another.
LEMMA SuccessorsAre ==
    ASSUME Program
    PROVE  \A b, a : (a \in Successors(b) /\ IsCode(a)) <=> Follows(image, b, a)
  BY Text DEF Successors, Follows, Jumping

\* What is executed: the vectors that are code, and what follows what is executed, ...
LEMMA ExecutedIs ==
    ASSUME Program
    PROVE  /\ \A v \in vectors : CodeIn(image, v) => v \in Executed
           /\ \A b \in Executed : CodeIn(image, b)
           /\ \A b \in Executed : \A a : Follows(image, b, a) => a \in Executed
<1> DEFINE start == {v \in vectors : IsCode(v)}
           next(b) == {a \in Successors(b) : IsCode(a)}
<1>1. Executed = Reached(Addr, start, next)
  BY DEF Executed
<1>2. start \subseteq Addr /\ \A a : CodeIn(image, a) => a \in Addr
  BY DEF Program, CodeIn
<1>3. \A b, a : a \in next(b) <=> Follows(image, b, a)
  BY SuccessorsAre
<1>4. \A v : v \in start <=> v \in vectors /\ CodeIn(image, v)
  BY Text
<1> HIDE DEF start, next
<1>5. \A v \in start : v \in Executed
  BY <1>1, <1>2 DEF Reached
<1>6. \A b \in Executed : \A a \in next(b) \cap Addr : a \in Executed
  BY <1>1 DEF Reached
<1>7. \A b \in Executed : CodeIn(image, b)
  <2> DEFINE C == {a \in Addr : CodeIn(image, a)}
  <2>1. C \in SUBSET Addr /\ start \subseteq C
    BY <1>2, <1>4
  <2>2. \A c \in C : next(c) \cap Addr \subseteq C
    BY <1>3 DEF Follows
  <2> HIDE DEF C
  <2>3. Executed \subseteq C
    BY <1>1, <2>1, <2>2 DEF Reached
  <2> QED BY <2>3 DEF C
<1> QED
  BY <1>2, <1>3, <1>4, <1>5, <1>6, <1>7 DEF Follows

\* ... and nothing else.
LEMMA ExecutedLeast ==
    ASSUME Program, NEW C \in SUBSET Addr,
           \A v \in vectors : CodeIn(image, v) => v \in C,
           \A b \in C : \A a : Follows(image, b, a) => a \in C
    PROVE  Executed \subseteq C
<1> DEFINE start == {v \in vectors : IsCode(v)}
           next(b) == {a \in Successors(b) : IsCode(a)}
<1>1. Executed = Reached(Addr, start, next)
  BY DEF Executed
<1>2. \A b, a : a \in next(b) <=> Follows(image, b, a)
  BY SuccessorsAre
<1>3. start \subseteq C
  BY Text
<1> HIDE DEF start, next
<1>4. \A c \in C : next(c) \cap Addr \subseteq C
  BY <1>2
<1> QED
  BY <1>1, <1>3, <1>4 DEF Reached

\* What is walked is executed if the entry is.
LEMMA CameToRun ==
    ASSUME Program, NEW e, NEW C \in SUBSET Executed, NEW a, Came(image, e, C, a),
           CodeIn(image, e) => e \in Executed, CodeIn(image, a)
    PROVE  a \in Executed
<1>1. CASE a = e
  BY <1>1
<1>2. CASE a - 1 \in C /\ ~ EndsIn(image, a - 1)
  <2>1. a = (a - 1) + 1
    BY DEF CodeIn, Addr, Program, Decodes
  <2>2. Follows(image, a - 1, a)
    BY <1>2, <2>1 DEF Follows
  <2> QED BY <1>2, <2>2, ExecutedIs
<1>3. CASE Ahead(image, C, a)
  <2>1. PICK b \in C : Follows(image, b, a)
    BY <1>3 DEF Ahead, Follows, Jumping
  <2> QED BY <2>1, ExecutedIs
<1> QED
  BY <1>1, <1>2, <1>3 DEF Came

\* What executed code leads to is executed.
LEMMA LedToRun ==
    ASSUME Program, NEW C \in SUBSET Executed, NEW a, Leads(image, C, a), CodeIn(image, a)
    PROVE  a \in Executed
<1>1. PICK b \in C : Follows(image, b, a)
  BY DEF Leads, Follows
<1> QED
  BY <1>1, ExecutedIs

\* Passes do not change the program, nor what it executes.
LEMMA Kept ==
    ASSUME UNCHANGED program
    PROVE  /\ Executed' = Executed /\ Program' = Program
           /\ image' = image /\ vectors' = vectors /\ dynamic' = dynamic
<1>1. image' = image /\ vectors' = vectors /\ dynamic' = dynamic
  BY DEF program
<1>2. Executed' = Executed
  BY <1>1 DEF Executed, Reached, IsCode, IsData, Op, Successors, Target, Terminates
<1>3. Program' = Program
  BY <1>1 DEF Program, Decodes
<1> QED
  BY <1>1, <1>2, <1>3

\* The ranges and what they ask for depend on the functions found only.
LEMMA RangesKept ==
    ASSUME UNCHANGED <<program, found>>
    PROVE  Lifting' = Lifting /\ (profile' = profile => Continuations' = Continuations)
<1>1. image' = image /\ dynamic' = dynamic /\ found' = found
  BY DEF program
<1>2. Lifting' = Lifting
  BY <1>1 DEF Lifting, Owners, Trimmed, Lifted, LiftNext, ScanNext, TableEnd, LiftData, Targets,
              Scanned, TableByte, Reached, Op, Target, Terminates
<1>3. profile' = profile => Continuations' = Continuations
  BY <1>1 DEF Continuations, Labels, Owned, Owners, Trimmed, IsData, Op
<1> QED
  BY <1>2, <1>3

-----------------------------------------------------------------------------
(***************************************************************************)
(* The invariant is kept.                                                  *)
(***************************************************************************)
\* A function is still right with more roots.
LEMMA MoreRoots ==
    ASSUME NEW im, NEW e, NEW f, NEW R, NEW Q, R \subseteq Q, FunctionOK(im, e, f, R)
    PROVE  FunctionOK(im, e, f, Q)
<1>1. \A T, refs, c : Noticed(im, T, refs, R, c) => Noticed(im, T, refs, Q, c)
  BY DEF Noticed
<1> QED
  BY <1>1 DEF FunctionOK

\* A walk that has not begun.
LEMMA StartedOK ==
    ASSUME Program, roots \subseteq Addr, NEW e \in Addr, NEW R
    PROVE  WalkOK(image, Started(e), R) /\ Started(e).entry = e /\ Started(e).code = {}
<1> DEFINE w == Started(e)
<1>0. e \in 0 .. Size /\ e <= e /\ e \in e .. e + MaxBytes - 1 /\ e \in Nat
  BY DEF Program, Decodes, Addr
<1>1. /\ w.entry = e /\ w.pc = e /\ w.known = roots /\ w.targets = {e} /\ w.labels = {}
      /\ w.refs = {} /\ w.calls = <<>> /\ w.code = {}
  BY DEF Started
<1>2. w \in Walks
  BY <1>0 DEF Started, Walks
<1>3. Range(<<>>) = {}
  BY DEF Range
<1> HIDE DEF w
<1>4. Covers(image, e, {}, e)
  BY <1>0 DEF Covers
<1>5. Came(image, e, {}, e)
  BY DEF Came
<1>6. WalkedTo(image, w, R, e)
  BY <1>0, <1>1, <1>3, <1>4 DEF WalkedTo
<1>7. WalkOK(image, w, R)
  BY <1>0, <1>1, <1>2, <1>5, <1>6 DEF WalkOK
<1> QED
  BY <1>1, <1>7 DEF w

\* A function is found.
LEMMA FoundKeeps ==
    ASSUME IInv, phase = "walk", NEW w \in Walks, w.entry = walk.entry, NEW n,
           FunctionOK(image, w.entry, Function(w, n), roots \cup Range(w.calls)),
           w.code \subseteq Executed,
           \A a \in Range(w.calls) : Leads(image, w.code, a),
           Discovered(w, n)
    PROVE  IInv'
<1> DEFINE e == w.entry
           f == Function(w, n)
           R == roots \cup Range(w.calls)
<1>1. /\ found' = With(found, e, f) /\ roots' = R /\ queue' = queue \o w.calls
      /\ phase' = "discover" /\ walk' = Started(e) /\ UNCHANGED <<program, profile, routines>>
  BY DEF Discovered
<1>2. /\ Program /\ e \in Addr /\ e \in roots /\ w.calls \in Seq(Addr)
      /\ roots \subseteq Addr /\ queue \in Seq(Addr) /\ phase # "done"
  BY DEF IInv, Roots, Walks
<1>3. Executed' = Executed /\ Program' /\ image' = image /\ vectors' = vectors
  BY <1>1, <1>2, Kept
<1>4. Range(w.calls) \subseteq Addr
  BY <1>2 DEF Range
<1>5. queue' \in Seq(Addr) /\ Range(queue') = Range(queue) \cup Range(w.calls)
  BY <1>1, <1>2, RangeOfConcat
<1>6. DOMAIN found' = DOMAIN found \cup {e} /\ found'[e] = f
      /\ \A x \in DOMAIN found \ {e} : found'[x] = found[x]
  BY <1>1 DEF With
<1> HIDE DEF e, f, R
<1>7. Roots'
  BY <1>1, <1>2, <1>3, <1>4, <1>5, <1>6 DEF IInv, Roots, R, e
<1>8. Walked'
  <2>1. WalkOK(image, walk', roots') /\ walk'.code = {}
    BY <1>1, <1>2, StartedOK
  <2>2. \A x \in DOMAIN found' : FunctionOK(image, x, found'[x], roots')
    <3>1. \A x \in DOMAIN found : FunctionOK(image, x, found[x], R)
      BY MoreRoots DEF IInv, Walked, R
    <3>2. FunctionOK(image, e, f, R)
      BY DEF e, f, R
    <3> QED BY <1>1, <1>6, <3>1, <3>2
  <2> QED BY <1>3, <2>1, <2>2 DEF Walked
<1>9. Runs'
  <2>1. \A a \in roots' : CodeIn(image, a) => a \in Executed
    <3>1. \A a \in Range(w.calls) : CodeIn(image, a) => a \in Executed
      BY <1>2, LedToRun
    <3> QED BY <1>1, <3>1 DEF R, IInv, Runs
  <2>2. walk'.code = {}
    BY <1>1, <1>2, StartedOK
  <2>3. f.code = w.code
    BY DEF f, Function
  <2> QED BY <1>3, <1>6, <2>1, <2>2, <2>3 DEF IInv, Runs
<1>10. Phases'
  BY <1>1 DEF IInv, Phases
<1> QED
  BY <1>3, <1>7, <1>8, <1>9, <1>10 DEF IInv

\* An instruction is walked.
LEMMA StepKeeps == IInv /\ Step => IInv'
<1> SUFFICES ASSUME IInv, Step PROVE IInv'
  OBVIOUS
<1> DEFINE v == Noted(walk)
           n == walk.pc + 1
<1>1. /\ phase = "walk" /\ GoesOn(walk) /\ Program /\ WalkOK(image, walk, roots)
      /\ DOMAIN found \subseteq roots /\ walk.code \subseteq Executed /\ walk.entry \in roots
      /\ roots \subseteq Addr
  BY DEF Step, IInv, Roots, Walked, Runs
<1>2. /\ v \in Walks /\ v.entry = walk.entry /\ v.pc = walk.pc
      /\ CodeIn(image, walk.pc) /\ walk.pc \in v.code
      /\ WalkedTo(image, v, roots, n)
      /\ v.code = walk.code \cup {walk.pc}
  <2>1. walk \in Walks /\ walk.pc >= walk.entry
    BY <1>1 DEF WalkOK
  <2> QED BY <1>1, <2>1, NotedWalked, NotedIs DEF Adds
<1> HIDE DEF v
<1>3. v.code \subseteq Executed
  <2>1. Came(image, walk.entry, walk.code, walk.pc)
    BY <1>1 DEF WalkOK
  <2>2. CodeIn(image, walk.entry) => walk.entry \in Executed
    BY <1>1 DEF IInv, Runs
  <2>3. walk.pc \in Executed
    BY <1>1, <1>2, <2>1, <2>2, CameToRun
  <2> QED BY <1>1, <1>2, <2>3
<1>4. Terminates(walk.pc) <=> EndsIn(image, walk.pc)
  BY <1>1, Text
<1>5. CASE Terminates(walk.pc) /\ Pending(v) = {}
  <2>1. Discovered(v, n)
    BY <1>5 DEF Step, v
  <2>2. FunctionOK(image, v.entry, Function(v, n), roots \cup Range(v.calls))
    BY <1>1, <1>2, <1>4, <1>5, FunctionComplete
  <2>3. \A a \in Range(v.calls) : Leads(image, v.code, a)
    BY <1>2 DEF WalkedTo
  <2> QED BY <1>1, <1>2, <1>3, <2>1, <2>2, <2>3, FoundKeeps
<1>6. CASE ~ (Terminates(walk.pc) /\ Pending(v) = {})
  <2> DEFINE m == IF Terminates(walk.pc) THEN Least(Pending(v)) ELSE n
  <2>1. /\ walk' = [v EXCEPT !.pc = m]
        /\ UNCHANGED <<program, profile, phase, queue, roots, found, routines>>
    BY <1>6 DEF Step, v
  <2>2. /\ Executed' = Executed /\ Program' /\ image' = image /\ vectors' = vectors
        /\ Continuations' = Continuations /\ Lifting' = Lifting
    BY <1>1, <2>1, Kept, RangesKept
  <2>3. /\ walk.pc \in Addr /\ walk.entry \in Addr /\ walk.pc >= walk.entry
        /\ n \in Nat /\ n <= Size /\ Addr = 0 .. Size - 1 /\ Size \in Nat /\ walk.entry < n
    <3>1. walk.pc \in Addr /\ walk.entry \in Addr /\ walk.pc >= walk.entry
      BY <1>1 DEF WalkOK, Walks, GoesOn
    <3> QED BY <1>1, <3>1 DEF Addr, Program, Decodes
  <2>4. /\ m \in n .. Size
        /\ Came(image, v.entry, v.code, m)
        /\ \A c \in v.code : c + 1 = n /\ m # n => EndsIn(image, c)
    <3>1. CASE ~ Terminates(walk.pc)
      <4>1. m = n /\ walk.pc = n - 1
        BY <2>3, <3>1
      <4>2. Came(image, v.entry, v.code, n)
        BY <1>2, <1>4, <3>1, <4>1 DEF Came
      <4> QED BY <2>3, <4>1, <4>2
    <3>2. CASE Terminates(walk.pc)
      <4> DEFINE P == Pending(v)
      <4>1. P # {} /\ m = Least(P)
        BY <1>6, <3>2
      <4>2. /\ v.targets = {v.entry} \cup v.labels /\ v.targets \subseteq Addr
            /\ v.code \subseteq walk.entry .. walk.pc
        BY <1>2, <2>3 DEF WalkedTo, Walks, Covers
      <4>3. P \subseteq v.targets /\ \A t \in P : t >= n
        BY <1>2 DEF Pending
      <4> HIDE DEF P, m
      <4>4. P \in SUBSET Nat
        BY <2>3, <4>2, <4>3
      <4>5. m \in P
        BY <4>1, <4>4, LeastIs
      <4>6. m \in Addr /\ m >= n /\ m \in v.labels
        BY <1>2, <2>3, <4>2, <4>3, <4>5
      <4>7. PICK b \in v.code : image[b].op \in {"br", "jmp"} /\ image[b].to = m
        BY <1>2, <4>6 DEF WalkedTo
      <4>8. b < m
        BY <2>3, <4>2, <4>6, <4>7
      <4>9. Came(image, v.entry, v.code, m)
        BY <4>6, <4>7, <4>8 DEF Came, Ahead
      <4>10. \A c \in v.code : c + 1 = n => c = walk.pc
        BY <2>3, <4>2
      <4> QED BY <2>3, <3>2, <1>4, <4>6, <4>9, <4>10
    <3> QED BY <3>1, <3>2
  <2> HIDE DEF m
  <2>5. /\ walk' \in Walks /\ walk'.entry = v.entry /\ walk'.pc = m /\ walk'.code = v.code
        /\ walk'.targets = v.targets /\ walk'.labels = v.labels /\ walk'.refs = v.refs
        /\ walk'.calls = v.calls
    <3>1. m \in 0 .. Size
      BY <2>3, <2>4
    <3> QED BY <1>2, <2>1, <3>1 DEF Walks
  <2>6. WalkOK(image, walk', roots)
    <3>1. Covers(image, v.entry, v.code, m)
      <4>1. Covers(image, v.entry, v.code, n)
        BY <1>2 DEF WalkedTo
      <4>2. v.code \in SUBSET Nat /\ v.entry \in Nat /\ v.entry < n /\ m \in Nat /\ n <= m
        BY <1>2, <2>3, <2>4 DEF Walks
      <4>3. CASE m = n
        BY <4>1, <4>3
      <4>4. CASE m # n
        BY <2>3, <2>4, <4>1, <4>2, <4>4, CoversUpTo
      <4> QED BY <4>3, <4>4
    <3>2. WalkedTo(image, walk', roots, m)
      BY <1>2, <2>5, <3>1 DEF WalkedTo
    <3>3. m >= v.entry
      BY <1>2, <2>3, <2>4
    <3> QED BY <2>4, <2>5, <3>2, <3>3 DEF WalkOK
  <2>7. Roots'
    BY <1>2, <2>1, <2>2, <2>5 DEF IInv, Roots
  <2>8. Walked'
    BY <1>1, <2>1, <2>2, <2>6 DEF IInv, Walked
  <2>9. Runs'
    BY <1>3, <2>1, <2>2, <2>5 DEF IInv, Runs
  <2>10. Phases'
    BY <2>1, <2>2 DEF IInv, Phases
  <2> QED BY <2>2, <2>7, <2>8, <2>9, <2>10 DEF IInv
<1> QED
  BY <1>5, <1>6

\* A walk cannot go on.
LEMMA StopKeeps == IInv /\ Stop => IInv'
<1> SUFFICES ASSUME IInv, Stop PROVE IInv'
  OBVIOUS
<1>1. /\ phase = "walk" /\ ~ GoesOn(walk) /\ Discovered(walk, walk.pc) /\ Program
      /\ WalkOK(image, walk, roots) /\ walk.code \subseteq Executed
  BY DEF Stop, IInv, Walked, Runs
<1>2. walk \in Walks /\ \A a \in Range(walk.calls) : Leads(image, walk.code, a)
  BY <1>1 DEF WalkOK, WalkedTo
<1>3. FunctionOK(image, walk.entry, Function(walk, walk.pc), roots \cup Range(walk.calls))
  BY <1>1, FunctionBlocked
<1> QED
  BY <1>1, <1>2, <1>3, FoundKeeps

\* A root is taken.
LEMMA TakeKeeps == IInv /\ Take => IInv'
<1> SUFFICES ASSUME IInv, Take PROVE IInv'
  OBVIOUS
<1>1. /\ phase = "discover" /\ queue # <<>> /\ queue' = Tail(queue)
      /\ UNCHANGED <<program, profile, roots, found, routines>>
      /\ IF Head(queue) \in DOMAIN found
         THEN UNCHANGED <<phase, walk>>
         ELSE phase' = "walk" /\ walk' = Started(Head(queue))
  BY DEF Take
<1>2. /\ Program /\ roots \subseteq Addr /\ queue \in Seq(Addr) /\ Range(queue) \subseteq roots
  BY DEF IInv, Roots
<1>3. /\ Head(queue) \in Addr /\ Tail(queue) \in Seq(Addr)
      /\ Range(queue) = {Head(queue)} \cup Range(Tail(queue))
  BY <1>1, <1>2, RangeOfTail
<1>4. Executed' = Executed /\ Program' /\ image' = image /\ vectors' = vectors
  BY <1>1, <1>2, Kept
<1>5. CASE Head(queue) \in DOMAIN found
  <2>1. Roots'
    BY <1>1, <1>2, <1>3, <1>4, <1>5 DEF IInv, Roots
  <2>2. Walked' /\ Runs' /\ Phases'
    BY <1>1, <1>4, <1>5 DEF IInv, Walked, Runs, Phases
  <2> QED BY <1>4, <2>1, <2>2 DEF IInv
<1>6. CASE Head(queue) \notin DOMAIN found
  <2>1. phase' = "walk" /\ walk' = Started(Head(queue))
    BY <1>1, <1>6
  <2>2. /\ WalkOK(image, walk', roots) /\ walk'.entry = Head(queue) /\ walk'.code = {}
    BY <1>2, <1>3, <2>1, StartedOK
  <2>3. Roots'
    BY <1>1, <1>2, <1>3, <1>4, <2>1, <2>2 DEF IInv, Roots
  <2>4. Walked' /\ Runs' /\ Phases'
    BY <1>1, <1>4, <2>1, <2>2 DEF IInv, Walked, Runs, Phases
  <2> QED BY <1>4, <2>3, <2>4 DEF IInv
<1> QED
  BY <1>5, <1>6

\* The labels without an owner become roots of another pass.
LEMMA ContinueKeeps == IInv /\ Continue => IInv'
<1> SUFFICES ASSUME IInv, Continue PROVE IInv'
  OBVIOUS
<1> DEFINE R == vectors \cup profile'
<1>1. /\ phase = "discover" /\ profile' = profile \cup Continuations
      /\ roots' = R /\ queue' = Sorted(R) /\ found' = Empty /\ phase' = "discover"
      /\ UNCHANGED <<program, walk, routines>>
  BY DEF Continue, Analyze
<1>2. /\ Program /\ roots \subseteq Addr /\ vectors \cup profile \subseteq roots
      /\ walk.code = {} /\ WalkOK(image, walk, roots)
  BY <1>1 DEF IInv, Roots, Walked
<1>3. Executed' = Executed /\ Program' /\ image' = image /\ vectors' = vectors
  BY <1>1, <1>2, Kept
<1>4. \A a \in Continuations :
        a \in Addr /\ \E e \in DOMAIN found : a \in found[e].labels \cup found[e].refs
  BY DEF Continuations, Labels
<1>5. \A a \in R : CodeIn(image, a) => a \in Executed
  <2>1. ASSUME NEW a \in Continuations, CodeIn(image, a) PROVE a \in Executed
    <3>1. PICK e \in DOMAIN found : a \in found[e].labels \cup found[e].refs
      BY <1>4
    <3>2. Leads(image, found[e].code, a) /\ found[e].code \subseteq Executed
      BY <3>1 DEF IInv, Walked, FunctionOK, Runs
    <3> QED BY <1>2, <2>1, <3>2, LedToRun
  <2> QED BY <1>1, <1>2, <2>1 DEF IInv, Runs
<1>6. R \in SUBSET Addr
  BY <1>1, <1>2, <1>4
<1> HIDE DEF R
<1>7. queue' \in Seq(Addr) /\ Range(queue') = R
  BY <1>1, <1>2, <1>6, SortedIs DEF Program, Decodes
<1>8. DOMAIN found' = {}
  BY <1>1 DEF Empty
<1>9. Roots'
  BY <1>1, <1>3, <1>6, <1>7, <1>8 DEF Roots, R
<1>10. Walked'
  <2>1. WalkOK(image, walk, R)
    BY <1>2 DEF WalkOK, WalkedTo
  <2> QED BY <1>1, <1>2, <1>3, <1>8, <2>1 DEF Walked
<1>11. Runs'
  BY <1>1, <1>2, <1>3, <1>5, <1>8 DEF Runs
<1>12. Phases'
  BY <1>1 DEF IInv, Phases
<1> QED
  BY <1>3, <1>9, <1>10, <1>11, <1>12 DEF IInv

\* Every label has an owner.
LEMMA AnalyzedKeeps == IInv /\ Analyzed => IInv'
<1> SUFFICES ASSUME IInv, Analyzed PROVE IInv'
  OBVIOUS
<1>1. /\ phase = "discover" /\ queue = <<>> /\ Continuations = {} /\ phase' = "lift"
      /\ UNCHANGED <<program, profile, queue, roots, found, walk, routines>>
  BY DEF Analyzed
<1>2. /\ Executed' = Executed /\ Program' /\ image' = image /\ vectors' = vectors
      /\ Continuations' = Continuations
  BY <1>1, Kept, RangesKept DEF IInv
<1>3. Roots' /\ Walked' /\ Runs' /\ Phases'
  BY <1>1, <1>2 DEF IInv, Roots, Walked, Runs, Phases
<1> QED
  BY <1>2, <1>3 DEF IInv

\* The ranges are translated.
LEMMA LiftKeeps == IInv /\ Lift => IInv'
<1> SUFFICES ASSUME IInv, Lift PROVE IInv'
  OBVIOUS
<1>1. /\ phase = "lift" /\ routines' = Lifting /\ phase' = "done"
      /\ UNCHANGED <<program, profile, queue, roots, found, walk>>
  BY DEF Lift, Lifting
<1>2. /\ Executed' = Executed /\ Program' /\ image' = image /\ vectors' = vectors
      /\ Continuations' = Continuations /\ Lifting' = Lifting
  BY <1>1, Kept, RangesKept DEF IInv
<1>3. Roots' /\ Walked' /\ Runs'
  BY <1>1, <1>2 DEF IInv, Roots, Walked, Runs
<1>4. Phases'
  BY <1>1, <1>2 DEF IInv, Phases
<1> QED
  BY <1>2, <1>3, <1>4 DEF IInv

\* Nothing changes.
LEMMA StandsStill == IInv /\ UNCHANGED vars => IInv'
<1> SUFFICES ASSUME IInv, UNCHANGED vars PROVE IInv'
  OBVIOUS
<1>1. UNCHANGED <<program, profile, phase, queue, roots, found, walk, routines>>
  BY DEF vars
<1>2. /\ Executed' = Executed /\ Program' /\ image' = image /\ vectors' = vectors
      /\ Continuations' = Continuations /\ Lifting' = Lifting
  BY <1>1, Kept, RangesKept DEF IInv
<1>3. Roots' /\ Walked' /\ Runs' /\ Phases'
  BY <1>1, <1>2 DEF IInv, Roots, Walked, Runs, Phases
<1> QED
  BY <1>2, <1>3 DEF IInv

\* Every step keeps the invariant, ...
LEMMA InvariantStep == IInv /\ [Next]_vars => IInv'
  BY StepKeeps, StopKeeps, TakeKeeps, ContinueKeeps, AnalyzedKeeps, LiftKeeps, StandsStill
     DEF Next, Done

\* ... which the start establishes.
LEMMA InvariantInit == Sizes /\ Programs /\ Init => IInv
<1> SUFFICES ASSUME Sizes, Programs, Init PROVE IInv
  OBVIOUS
<1>1. /\ profile = {} /\ phase = "discover" /\ roots = vectors /\ queue = Sorted(vectors)
      /\ found = Empty /\ walk = Started(0) /\ routines = Empty
  BY DEF Init
<1>2. Program
  BY DEF Init, Sizes, Programs, Program, Decodes
<1>3. vectors \in SUBSET Addr /\ 0 \in Addr
  BY <1>2 DEF Program, Decodes, Addr
<1>4. queue \in Seq(Addr) /\ Range(queue) = vectors
  BY <1>1, <1>2, <1>3, SortedIs DEF Program, Decodes
<1>5. WalkOK(image, walk, roots) /\ walk.code = {}
  BY <1>1, <1>2, <1>3, StartedOK
<1>6. DOMAIN found = {}
  BY <1>1 DEF Empty
<1>7. Roots
  BY <1>1, <1>3, <1>4, <1>6 DEF Roots
<1>8. Walked
  BY <1>5, <1>6 DEF Walked
<1>9. Runs
  BY <1>1, <1>2, <1>5, <1>6, ExecutedIs DEF Runs
<1>10. Phases
  BY <1>1 DEF Phases
<1> QED
  BY <1>2, <1>7, <1>8, <1>9, <1>10 DEF IInv

-----------------------------------------------------------------------------
(***************************************************************************)
(* What the invariant gives.                                               *)
(***************************************************************************)
\* Functions, roots, labels, ranges and routines have their types.
LEMMA TypesFollow == IInv => TypeOK
<1> SUFFICES ASSUME IInv PROVE TypeOK
  OBVIOUS
<1>1. /\ Program /\ roots \subseteq Addr /\ WalkOK(image, walk, roots)
      /\ \A e \in DOMAIN found : e \in Addr /\ FunctionOK(image, e, found[e], roots)
  BY DEF IInv, Roots, Walked
<1>2. \A e \in DOMAIN found :
        /\ found[e].end \in e .. Size
        /\ found[e].labels \cup found[e].code \subseteq e .. found[e].end - 1
        /\ found[e].refs \subseteq Addr \cup {Far}
  BY <1>1 DEF FunctionOK, Covers
<1>3. /\ walk.entry \in Addr /\ walk.pc \in walk.entry .. Size
      /\ walk.targets \subseteq walk.entry .. Upper(walk.entry) - 1
  <2>1. /\ walk.entry \in Addr /\ walk.pc \in 0 .. Size /\ walk.pc >= walk.entry
        /\ walk.targets \subseteq walk.entry .. walk.entry + MaxBytes - 1
    BY <1>1 DEF WalkOK, WalkedTo, Walks
  <2> QED BY <1>1, <2>1 DEF Upper, Addr, Program, Decodes
<1>4. \A e \in DOMAIN routines : routines[e] \subseteq e .. Trimmed(e) - 1
  <2>1. CASE phase = "done"
    BY <2>1 DEF IInv, Phases, Lifting, Lifted, Reached
  <2>2. CASE phase # "done"
    BY <2>2 DEF IInv, Phases, Empty
  <2> QED BY <2>1, <2>2
<1> QED
  BY <1>2, <1>3, <1>4 DEF TypeOK, IInv, Phases, Roots

\* Where the range of a function ends: at the next one, or where it was walked to.
LEMMA TrimmedIs ==
    ASSUME IInv, NEW e \in DOMAIN found
    PROVE  /\ e \in Addr /\ found[e].end \in e .. Size
           /\ Trimmed(e) \in e .. found[e].end
           /\ found[e].end > e <=> Trimmed(e) > e
           /\ Trimmed(e) = found[e].end \/ Trimmed(e) \in DOMAIN found
<1>1. /\ DOMAIN found \subseteq Addr /\ e \in Addr /\ found[e].end \in e .. Size
      /\ Addr = 0 .. Size - 1 /\ Size \in Nat
  BY DEF IInv, Roots, Walked, FunctionOK, Program, Decodes, Addr
<1> DEFINE later == {f \in DOMAIN found : f > e /\ f < found[e].end}
<1>2. CASE later = {}
  BY <1>1, <1>2 DEF Trimmed
<1>3. CASE later # {}
  <2>1. later \in SUBSET Nat
    BY <1>1
  <2>2. Least(later) \in later
    BY <1>3, <2>1, LeastIs
  <2>3. Trimmed(e) = Least(later)
    BY <1>3 DEF Trimmed
  <2>4. Trimmed(e) \in DOMAIN found /\ Trimmed(e) > e /\ Trimmed(e) < found[e].end
    BY <2>2, <2>3
  <2> QED BY <1>1, <2>4
<1> QED
  BY <1>2, <1>3

\* Once everything is found, a root that is code owns itself.
LEMMA RootsAreFound ==
    ASSUME IInv, phase \in {"lift", "done"}
    PROVE  /\ vectors \cup profile \cup roots \subseteq DOMAIN found
           /\ \A e \in DOMAIN found : CodeIn(image, e) <=> e \in Owners
           /\ \A e \in DOMAIN found : CodeIn(image, e) => e \in found[e].code
<1>1. roots \subseteq DOMAIN found
  <2>1. Range(<<>>) = {}
    BY DEF Range
  <2> QED BY <2>1 DEF IInv, Roots, Phases
<1>2. vectors \cup profile \subseteq roots
  BY DEF IInv, Roots
<1>3. \A e \in DOMAIN found : FunctionOK(image, e, found[e], roots)
  BY DEF IInv, Walked
<1>4. \A e \in DOMAIN found : CodeIn(image, e) <=> e \in Owners
  BY <1>3, TrimmedIs DEF FunctionOK, Owners
<1>5. \A e \in DOMAIN found : CodeIn(image, e) => e \in found[e].code
  BY <1>3 DEF FunctionOK, Covers
<1> QED
  BY <1>1, <1>2, <1>4, <1>5

\* A label without an owner that is in the profile is a function of no length.
LEMMA OwnersFollow == IInv => LabelsOwned
<1> SUFFICES ASSUME IInv, phase \in {"lift", "done"},
                    NEW e \in DOMAIN found, NEW a \in found[e].labels,
                    ~ Owned(a), ~ IsData(a)
             PROVE  a \in DOMAIN found /\ found[a].end = a
  BY DEF LabelsOwned
<1>1. a \in Labels
  BY DEF Labels
<1>2. a \in Addr
  <2>1. /\ e \in Addr /\ found[e].end \in e .. Size /\ found[e].labels \subseteq e .. found[e].end - 1
    BY DEF IInv, Roots, Walked, FunctionOK
  <2> QED BY <2>1 DEF Addr, IInv, Program, Decodes
<1>3. a \in profile
  BY <1>1, <1>2 DEF IInv, Phases, Continuations
<1>4. a \in DOMAIN found
  BY <1>3, RootsAreFound
<1>5. a \notin Owners
  <2>1. Trimmed(a) > a /\ a <= a => Owned(a)
    BY <1>4 DEF Owned, Owners
  <2>2. a <= a
    BY <1>2 DEF Addr, IInv, Program, Decodes
  <2> QED BY <2>1, <2>2 DEF Owners
<1>6. found[a].end \in a .. Size /\ ~ (found[a].end > a)
  BY <1>4, <1>5, TrimmedIs DEF Owners
<1> QED
  BY <1>2, <1>4, <1>6 DEF Addr, IInv, Program, Decodes

-----------------------------------------------------------------------------
(***************************************************************************)
(* What is walked is translated.                                           *)
(***************************************************************************)
\* The second scan of lift_range covers what the walk of the function covers.
LEMMA CodeIsLifted ==
    ASSUME IInv, NEW o \in Owners, NEW a \in found[o].code, a < Trimmed(o)
    PROVE  a \in Lifted(o, Trimmed(o))
<1> DEFINE hi == Trimmed(o)
           Left == {c \in found[o].code : c < hi /\ c \notin Lifted(o, hi)}
<1>1. /\ o \in DOMAIN found /\ o \in Addr /\ hi \in o + 1 .. Size /\ hi <= found[o].end
      /\ Addr = 0 .. Size - 1 /\ Size \in Nat /\ Decodes /\ Program
  <2>1. o \in DOMAIN found /\ hi > o
    BY DEF Owners
  <2> QED BY <2>1, TrimmedIs DEF IInv, Program, Decodes, Addr
<1> HIDE DEF hi
<1>2. /\ Covers(image, o, found[o].code, found[o].end) /\ found[o].code \subseteq Addr
  BY <1>1 DEF IInv, Walked, FunctionOK
<1>3. SUFFICES ASSUME Left # {} PROVE FALSE
  BY DEF hi
<1>4. \A c \in found[o].code : CodeIn(image, c) /\ ~ TableByte(c) /\ ~ LiftData(c)
  BY <1>1, <1>2, Text DEF Covers, CodeIn, TableByte, LiftData
<1>5. Left \in SUBSET Nat
  BY <1>1, <1>2
<1>6. PICK c \in Left : \A d \in Left : c <= d
  <2> HIDE DEF Left
  <2> QED BY <1>3, <1>5, LeastIs
<1>7. c \in found[o].code /\ c \in Addr /\ c \in o .. hi - 1 /\ c \notin Lifted(o, hi)
  BY <1>1, <1>2, <1>6 DEF Covers
<1>8. c # o
  BY <1>1, <1>4, <1>7, LiftedStarts
<1>9. ~ (c - 1 \in found[o].code /\ ~ EndsIn(image, c - 1))
  <2> SUFFICES ASSUME c - 1 \in found[o].code, ~ EndsIn(image, c - 1) PROVE FALSE
    OBVIOUS
  <2>1. c - 1 < hi /\ ~ (c <= c - 1) /\ c = (c - 1) + 1
    BY <1>1, <1>7
  <2>2. c - 1 \in Lifted(o, hi)
    BY <1>6, <2>1
  <2>3. ~ Terminates(c - 1)
    BY <1>1, Text
  <2>4. (c - 1) + 1 < hi /\ ~ LiftData((c - 1) + 1)
    BY <1>1, <1>4, <1>7, <2>1
  <2>5. (c - 1) + 1 \in Lifted(o, hi)
    BY <1>1, <2>2, <2>3, <2>4, LiftedOnward
  <2> QED BY <1>7, <2>1, <2>5
<1>10. ~ Ahead(image, found[o].code, c)
  <2> SUFFICES ASSUME NEW b \in found[o].code, b < c, image[b].op \in {"br", "jmp"}, image[b].to = c
               PROVE  FALSE
    BY DEF Ahead
  <2>1. b \in o .. hi - 1
    BY <1>1, <1>2, <1>7 DEF Covers
  <2>2. b \in Scanned(o, hi)
    BY <1>1, <1>4, <2>1, ScannedIs
  <2>3. Op(b) \in {"br", "jmp"} /\ Target(b) = c
    BY <1>1, Text
  <2>4. c \in Targets(o, hi)
    BY <1>1, <1>4, <1>7, <2>2, <2>3 DEF Targets
  <2> QED BY <1>1, <1>7, <2>4, LiftedTargets
<1> QED
  BY <1>2, <1>7, <1>8, <1>9, <1>10 DEF Covers, Came

\* In a program that is meant for it, no walk is blocked.
LEMMA NoneBlocked ==
    ASSUME IInv, Continues(Executed), Uncut, NEW e \in DOMAIN found, CodeIn(image, e)
    PROVE  ~ Blocked(image, e, found[e])
<1> DEFINE f == found[e]
<1> SUFFICES ASSUME Blocked(image, e, f) PROVE FALSE
  OBVIOUS
<1>1. /\ Program /\ e \in Addr /\ f.end \in e .. Size /\ f.end > e /\ f.code \subseteq Executed
      /\ f.code \subseteq Addr /\ Addr = 0 .. Size - 1 /\ Size \in Nat
  BY DEF IInv, Roots, Walked, FunctionOK, Runs, Program, Decodes, Addr
<1>2. ~ CodeIn(image, f.end) /\ Came(image, e, f.code, f.end)
  BY DEF Blocked, Uncut
<1> HIDE DEF f
<1>3. \A b \in f.code : ~ EndsIn(image, b) => CodeIn(image, b + 1)
  BY <1>1, Text DEF Continues
<1>4. \A b \in f.code : image[b].op \in {"br", "jmp"} /\ image[b].to \in Addr => CodeIn(image, image[b].to)
  BY <1>1, Text DEF Continues
<1>5. f.end = (f.end - 1) + 1
  BY <1>1
<1> QED
  BY <1>1, <1>2, <1>3, <1>4, <1>5 DEF Came, Ahead


\* What an owner has walked of its range.
Served == {a \in Addr : \E o \in Owners : o <= a /\ a < Trimmed(o) /\ a \in found[o].code}

\* A root that is code is served, ...
LEMMA RootsServed ==
    ASSUME IInv, phase \in {"lift", "done"}, NEW a \in DOMAIN found, CodeIn(image, a)
    PROVE  a \in Served
<1>1. a \in Owners /\ a \in found[a].code /\ a \in Addr
  BY RootsAreFound, TrimmedIs
<1>2. a <= a /\ a < Trimmed(a)
  BY <1>1, TrimmedIs DEF Owners, Addr, IInv, Program, Decodes
<1> QED
  BY <1>1, <1>2 DEF Served

\* ... and so is what it leads to, ...
LEMMA TargetsServed ==
    ASSUME IInv, phase \in {"lift", "done"}, Meant(Executed),
           NEW e \in Owners, NEW b \in found[e].code, NEW a \in Executed,
           image[b].op \in Jumping, image[b].to = a, CodeIn(image, a)
    PROVE  a \in Served
<1> DEFINE f == found[e]
<1>1. /\ e \in DOMAIN found /\ FunctionOK(image, e, f, roots) /\ CodeIn(image, e)
      /\ roots \subseteq DOMAIN found /\ profile \subseteq DOMAIN found /\ a \in Addr
  BY RootsAreFound DEF Owners, IInv, Walked, CodeIn
<1>2. ~ Blocked(image, e, f)
  BY <1>1, NoneBlocked DEF Meant
<1>3. Noticed(image, {e} \cup f.labels, f.refs, roots, b)
  BY <1>1, <1>2 DEF FunctionOK
<1>4. a = e \/ a \in f.labels \/ (a \in f.refs /\ (image[b].op # "br" => a \in roots))
  BY <1>1, <1>3 DEF Noticed
<1>5. a \in DOMAIN found => a \in Served
  BY RootsServed
<1>6. ASSUME a \in f.labels \cup f.refs, Owned(a) PROVE a \in Served
  <2>1. PICK o \in Owners : o <= a /\ a < Trimmed(o)
    BY <1>6 DEF Owned
  <2>2. a \in found[o].code
    BY <1>1, <1>6, <2>1 DEF Meant, LabelsVisited
  <2> QED BY <1>1, <2>1, <2>2 DEF Served
<1>7. ~ IsData(a)
  BY Text DEF IInv, IsCode
<1>8. a \in Labels => Owned(a) \/ a \in profile
  BY <1>1, <1>7 DEF IInv, Phases, Continuations
<1>9. CASE a \in f.labels
  BY <1>1, <1>5, <1>6, <1>8, <1>9 DEF Labels
<1>10. CASE a \in f.refs /\ dynamic
  BY <1>1, <1>5, <1>6, <1>8, <1>10 DEF Labels
<1>11. CASE a \in f.refs /\ ~ dynamic
  BY <1>1, <1>6, <1>11 DEF Meant, RefsOwned
<1> QED
  BY <1>1, <1>4, <1>5, <1>9, <1>10, <1>11

\* ... and the instruction behind.
LEMMA OnwardServed ==
    ASSUME IInv, phase \in {"lift", "done"}, Meant(Executed),
           NEW e \in Owners, NEW b \in found[e].code, e <= b, b < Trimmed(e),
           ~ EndsIn(image, b), CodeIn(image, b + 1)
    PROVE  b + 1 \in Served
<1> DEFINE f == found[e]
<1>1. /\ e \in DOMAIN found /\ FunctionOK(image, e, f, roots) /\ CodeIn(image, e)
      /\ b \in Addr /\ Covers(image, e, f.code, f.end)
  BY RootsAreFound DEF Owners, IInv, Walked, FunctionOK
<1>2. /\ e \in Nat /\ b \in Nat /\ f.end \in Nat /\ b < f.end /\ b + 1 \in Addr
      /\ Trimmed(e) \in e .. f.end /\ (Trimmed(e) = f.end \/ Trimmed(e) \in DOMAIN found)
  BY <1>1, TrimmedIs DEF Covers, CodeIn, Addr, IInv, Program, Decodes
<1>3. Complete(image, f)
  BY <1>1, NoneBlocked DEF Meant, FunctionOK
<1>4. b + 1 \in f.code
  BY <1>1, <1>2, <1>3 DEF Covers, Complete
<1>5. CASE b + 1 < Trimmed(e)
  <2>1. e <= b + 1
    BY <1>2
  <2> QED BY <1>2, <1>4, <1>5, <2>1 DEF Served
<1>6. CASE b + 1 = Trimmed(e)
  <2>1. Trimmed(e) # f.end
    BY <1>1, <1>2, <1>4, <1>6 DEF Covers
  <2> QED BY <1>2, <1>6, <2>1, RootsServed
<1> QED
  BY <1>2, <1>5, <1>6

\* What a program executes is served, and what is served is translated.
LEMMA TranslationFollows == IInv => ReachableTranslated
<1> SUFFICES ASSUME IInv, phase = "done", Meant(Executed) PROVE Executed \subseteq Translated
  BY DEF ReachableTranslated
<1>1. \A b \in Served : \E e \in Owners : e <= b /\ b < Trimmed(e) /\ b \in found[e].code
  BY DEF Served
<1>2. /\ Program /\ Served \subseteq Addr /\ vectors \subseteq DOMAIN found
      /\ \A v \in DOMAIN found : CodeIn(image, v) => v \in Served
  BY RootsAreFound, RootsServed DEF IInv, Served
<1> DEFINE Run == Served \cap Executed
<1>3. ASSUME NEW b \in Run, NEW a, Follows(image, b, a) PROVE a \in Run
  <2>1. a \in Executed /\ CodeIn(image, a)
    BY <1>2, <1>3, ExecutedIs DEF Follows
  <2>2. PICK e \in Owners : e <= b /\ b < Trimmed(e) /\ b \in found[e].code
    BY <1>1
  <2>3. a \in Served
    BY <1>3, <2>1, <2>2, TargetsServed, OnwardServed DEF Follows
  <2> QED BY <2>1, <2>3
<1>4. \A v \in vectors : CodeIn(image, v) => v \in Run
  BY <1>2, ExecutedIs
<1>5. Executed \subseteq Run
  <2>1. Run \in SUBSET Addr
    BY <1>2
  <2> HIDE DEF Run
  <2> QED BY <1>2, <1>3, <1>4, <2>1, ExecutedLeast
<1>6. \A a \in Served : a \in Translated
  <2> TAKE a \in Served
  <2>1. PICK o \in Owners : a < Trimmed(o) /\ a \in found[o].code
    BY <1>1
  <2>2. a \in Lifted(o, Trimmed(o))
    BY <2>1, CodeIsLifted
  <2>3. routines = Lifting
    BY DEF IInv, Phases
  <2> QED BY <2>2, <2>3 DEF Translated, Lifting
<1> QED
  BY <1>5, <1>6


-----------------------------------------------------------------------------
(***************************************************************************)
(* Theorems of the discovery.                                              *)
(***************************************************************************)
\* A step of the composition is a step of each part, or leaves it alone.
LEMMA StepIsOfEach ==
    [CratesNext]_cratesVars =>
        [Next]_vars /\ [Board!Next]_(Board!vars) /\ [Flags!Next]_(Flags!vars) /\ part' = part
  BY DEF CratesNext, cratesVars, boardVars, flagVars, Board!vars, Flags!vars

\* The walks, the functions found, their ranges and the routines keep to IInv.
THEOREM DiscoveryInvariant == CratesSpec => []IInv
<1>1. CratesInit => IInv
  BY CratesAssumption, InvariantInit DEF CratesInit
<1>2. IInv /\ [CratesNext]_cratesVars => IInv'
  BY StepIsOfEach, InvariantStep
<1> QED
  BY <1>1, <1>2, PTL DEF CratesSpec

\* A walk that is in hand has no function yet.
Fresh == phase = "walk" => walk.entry \notin DOMAIN found

\* A function that is completed is one more.
LEMMA FunctionAdded ==
    ASSUME NEW w, NEW end, w.entry \notin DOMAIN found, Discovered(w, end)
    PROVE  profile' = profile /\ Grows(DOMAIN found, DOMAIN found') /\ phase' = "discover"
<1>1. DOMAIN found' = DOMAIN found \cup {w.entry}
  BY DEF Discovered, With
<1> QED
  BY <1>1 DEF Discovered, Grows

\* Every step of discovery brings its end nearer.
LEMMA StepAdvances ==
    ASSUME IInv, Fresh, Next
    PROVE  \/ UNCHANGED vars
           \/ Grows(profile, profile') /\ phase' = "discover"
           \/ profile' = profile /\ Grows(DOMAIN found, DOMAIN found') /\ phase' = "discover"
           \/ UNCHANGED <<profile, found>> /\ Onward /\ Fresh'
<1>1. CASE Step
  <2> DEFINE w == Noted(walk)
  <2>1. /\ phase = "walk" /\ walk \in Walks /\ walk.pc \in Nat /\ walk.pc >= walk.entry
        /\ Size \in Nat /\ GoesOn(walk) /\ Program
    BY <1>1 DEF Step, IInv, Walked, WalkOK, Walks, Program, Decodes
  <2>2. w \in Walks /\ w.entry = walk.entry /\ w.pc = walk.pc
    BY <2>1, NotedIs DEF Adds
  <2> HIDE DEF w
  <2>3. CASE Terminates(walk.pc) /\ Pending(w) = {}
    <3>1. Discovered(w, walk.pc + 1)
      BY <1>1, <2>3 DEF Step, w
    <3> QED
      BY <2>1, <2>2, <3>1, FunctionAdded DEF Fresh
  <2>4. CASE ~ (Terminates(walk.pc) /\ Pending(w) = {})
    <3> DEFINE to == IF Terminates(walk.pc) THEN Least(Pending(w)) ELSE walk.pc + 1
    <3>1. walk' = [w EXCEPT !.pc = to] /\ phase' = phase /\ UNCHANGED <<profile, found>>
      BY <1>1, <2>4 DEF Step, w
    <3>2. walk.pc < to
      <4>1. CASE Terminates(walk.pc)
        <5>1. Pending(w) \in SUBSET Nat /\ Pending(w) # {} /\ \A t \in Pending(w) : t > walk.pc
          BY <2>1, <2>2, <2>4, <4>1 DEF Pending, Walks, Addr
        <5>2. Least(Pending(w)) \in Pending(w)
          BY <5>1, LeastIs
        <5> QED
          BY <4>1, <5>1, <5>2
      <4>2. CASE ~ Terminates(walk.pc)
        BY <2>1, <4>2
      <4> QED
        BY <4>1, <4>2
    <3> HIDE DEF to
    <3>3. walk'.pc = to /\ walk'.entry = walk.entry
      BY <2>2, <3>1 DEF Walks
    <3> QED
      BY <2>1, <3>1, <3>2, <3>3 DEF Onward, Fresh
  <2> QED
    BY <2>3, <2>4
<1>2. CASE Stop
  <2>1. Discovered(walk, walk.pc) /\ phase = "walk"
    BY <1>2 DEF Stop
  <2> QED
    BY <2>1, FunctionAdded DEF Fresh
<1>3. CASE Take
  <2>1. queue \in Seq(Addr) /\ queue # <<>> /\ phase = "discover"
    BY <1>3 DEF Take, IInv, Roots
  <2>2. queue' = Tail(queue) /\ Len(queue') < Len(queue)
    BY <1>3, <2>1 DEF Take
  <2>3. phase' \in {"discover", "walk"} /\ UNCHANGED <<profile, found>>
    BY <1>3, <2>1 DEF Take
  <2>4. phase' = "walk" => walk'.entry \notin DOMAIN found
    BY <1>3, <2>1 DEF Take, Started
  <2> QED
    BY <2>1, <2>2, <2>3, <2>4 DEF Onward, Fresh
<1>4. CASE Continue
  BY <1>4 DEF Continue, Continuations, Analyze, Grows
<1>5. CASE Analyzed
  BY <1>5 DEF Analyzed, Onward, Fresh
<1>6. CASE Lift
  BY <1>6 DEF Lift, Onward, Fresh
<1>7. CASE Done
  BY <1>7 DEF Done
<1> QED
  BY <1>1, <1>2, <1>3, <1>4, <1>5, <1>6, <1>7 DEF Next

\* For every window, program and bound, analyze_with_continuation_roots runs out
\* of what keeps it going: the profile grows, or the functions found with it do,
\* or the queue and the walk in hand come closer to their ends.
THEOREM DiscoveryAdvances == CratesSpec => Advances
<1>1. CratesInit => Fresh
  BY DEF CratesInit, Init, Fresh
<1>2. IInv /\ Fresh /\ [CratesNext]_cratesVars => Fresh'
  <2> SUFFICES ASSUME IInv, Fresh, [Next]_vars PROVE Fresh'
    BY StepIsOfEach
  <2>1. CASE UNCHANGED vars
    BY <2>1 DEF vars, Fresh
  <2>2. CASE Next
    BY <2>2, <2>1, StepAdvances DEF Fresh
  <2> QED
    BY <2>1, <2>2
<1>3. IInv /\ Fresh /\ [CratesNext]_cratesVars =>
        [\/ Grows(profile, profile')
         \/ profile' = profile /\ Grows(DOMAIN found, DOMAIN found')
         \/ UNCHANGED <<profile, found>> /\ Onward]_vars
  BY StepIsOfEach, StepAdvances
<1>4. CratesSpec => []Fresh
  BY <1>1, <1>2, DiscoveryInvariant, PTL DEF CratesSpec
<1> QED
  BY <1>3, <1>4, DiscoveryInvariant, PTL DEF CratesSpec, Advances

\* Whatever the program and the bounds: once analyze_with_continuation_roots has
\* come to its end, every label that is code has an owner.
THEOREM LabelsAreOwned == CratesSpec => []LabelsOwned
  BY DiscoveryInvariant, OwnersFollow, PTL

\* ... and every instruction that a program meant for the translator can execute
\* is an instruction of some routine.
THEOREM ReachableIsTranslated == CratesSpec => []ReachableTranslated
  BY DiscoveryInvariant, TranslationFollows, PTL

-----------------------------------------------------------------------------
(***************************************************************************)
(* The interrupt counter of the board.                                     *)
(***************************************************************************)
\* The inductive invariant of the board.
BoardInv == Board!TypeOK /\ Board!LowSinceClock

\* The program and the bus keep the types and the low time since the clock.
LEMMA BoardStep == BoardInv /\ [Board!Next]_(Board!vars) => BoardInv'
<1> SUFFICES ASSUME BoardInv, [Board!Next]_(Board!vars) PROVE BoardInv'
  OBVIOUS
<1>0. Board!Widths
  BY CratesAssumption
<1> USE <1>0 DEF BoardInv, Board!Widths, Board!TypeOK, Board!LowSinceClock, Board!Filter
<1>1. ASSUME NEW v \in 0 .. MaxLatch, Board!WriteLatch(v) PROVE BoardInv'
  BY <1>1 DEF Board!WriteLatch, Board!filterVars
<1>2. CASE Board!WriteReload
  BY <1>2 DEF Board!WriteReload, Board!filterVars
<1>3. CASE Board!WriteDisable
  BY <1>3 DEF Board!WriteDisable, Board!filterVars
<1>4. CASE Board!WriteEnable
  BY <1>4 DEF Board!WriteEnable, Board!filterVars
<1>5. ASSUME NEW high \in BOOLEAN, Board!ObserveAddress(high) PROVE BoardInv'
  <2>1. CASE Board!Qualified(high)
    <3>1. lowEdges' = 0 /\ gap' = 0
      BY <1>5, <2>1 DEF Board!ObserveAddress, Board!Qualified, Board!LowAfter
    <3>2. /\ latch' \in 0 .. MaxLatch /\ counter' \in 0 .. MaxLatch
          /\ reload' \in BOOLEAN /\ enabled' \in BOOLEAN /\ pending' \in BOOLEAN
      <4>1. Board!Clock
        BY <1>5, <2>1 DEF Board!ObserveAddress
      <4>2. latch' \in 0 .. MaxLatch /\ counter' \in 0 .. MaxLatch
        BY <4>1 DEF Board!Clock
      <4>3. reload' = FALSE /\ enabled' = enabled /\ pending' \in BOOLEAN
        BY <4>1, Zenon DEF Board!Clock
      <4> QED BY <4>2, <4>3
    <3>3. a12High' \in BOOLEAN /\ beat' \in BOOLEAN
      BY <1>5 DEF Board!ObserveAddress
    <3> QED BY <3>1, <3>2, <3>3
  <2>2. CASE ~Board!Qualified(high)
    <3>1. gap' = gap /\ lowEdges' \in {0, lowEdges}
      BY <1>5, <2>2 DEF Board!ObserveAddress, Board!LowAfter
    <3>2. UNCHANGED <<latch, counter, reload, enabled, pending>>
      BY <1>5, <2>2 DEF Board!ObserveAddress, Board!regVars
    <3>3. a12High' \in BOOLEAN /\ beat' \in BOOLEAN
      BY <1>5 DEF Board!ObserveAddress
    <3> QED BY <3>1, <3>2, <3>3
  <2> QED BY <2>1, <2>2
<1>6. CASE Board!M2FallingEdge
  BY <1>6 DEF Board!M2FallingEdge, Board!AtMost, Board!regVars
<1>7. CASE UNCHANGED Board!vars
  BY <1>7 DEF Board!vars
<1> QED BY <1>1, <1>2, <1>3, <1>4, <1>5, <1>6, <1>7 DEF Board!Next

\* Every register of the board stays in its range and the filter never counts a
\* low time that began before the last clock.
THEOREM BoardInvariant == CratesSpec => []BoardInv
<1>1. CratesInit => BoardInv
  <2> SUFFICES ASSUME Board!Init PROVE BoardInv
    BY DEF CratesInit
  <2>1. /\ latch \in 0 .. MaxLatch /\ counter \in 0 .. MaxLatch
        /\ lowEdges \in 0 .. Board!Filter /\ gap \in 0 .. Board!Filter /\ lowEdges <= gap
    BY CratesAssumption DEF Board!Widths, Board!Init, Board!Filter
  <2>2. /\ reload \in BOOLEAN /\ enabled \in BOOLEAN /\ pending \in BOOLEAN
        /\ a12High \in BOOLEAN /\ beat \in BOOLEAN
    BY DEF Board!Init
  <2> QED BY <2>1, <2>2 DEF BoardInv, Board!TypeOK, Board!LowSinceClock
<1>2. BoardInv /\ [CratesNext]_cratesVars => BoardInv'
  BY StepIsOfEach, BoardStep
<1> QED
  BY <1>1, <1>2, PTL DEF CratesSpec

\* Two clocks of the counter are at least Filter M2 falling edges apart.
THEOREM ClocksSpaced == CratesSpec => Spaced
<1>1. BoardInv /\ [CratesNext]_cratesVars
        => [a12High' /\ Board!Qualified(TRUE) => gap = Board!Filter]_(Board!vars)
  BY StepIsOfEach
     DEF BoardInv, Board!TypeOK, Board!LowSinceClock, Board!Qualified, Board!Filter
<1> QED
  BY <1>1, BoardInvariant, PTL DEF CratesSpec, Spaced, Board!Spaced

\* Each step of the board is a step of the countdown, or leaves it alone.
LEMMA StepSimulation ==
    BoardInv /\ [Board!Next]_(Board!vars)
        => [Board!Timer!Next]_(Board!Timer!timerVars)
<1> SUFFICES ASSUME BoardInv, [Board!Next]_(Board!vars)
             PROVE  Board!Timer!Next \/ UNCHANGED Board!Timer!timerVars
  BY DEF Board!Timer!timerVars
<1>0. Board!Widths
  BY CratesAssumption
<1> USE <1>0 DEF BoardInv, Board!Widths, Board!TypeOK
<1>1. ASSUME NEW v \in 0 .. MaxLatch, Board!WriteLatch(v) PROVE Board!Timer!SetLatch(v)
  BY <1>1 DEF Board!WriteLatch, Board!filterVars, Board!Running, Board!Timer!SetLatch
<1>2. CASE Board!WriteReload
  <2>1. Board!Timer!Restart
    BY <1>2 DEF Board!WriteReload, Board!filterVars, Board!Running, Board!Timer!Restart
  <2> QED BY <2>1 DEF Board!Timer!Next
<1>3. CASE Board!WriteDisable
  <2>1. Board!Timer!Disable
    BY <1>3 DEF Board!WriteDisable, Board!filterVars, Board!Running, Board!Timer!Disable
  <2> QED BY <2>1 DEF Board!Timer!Next
<1>4. CASE Board!WriteEnable
  <2>1. Board!Timer!Enable
    BY <1>4 DEF Board!WriteEnable, Board!filterVars, Board!Running, Board!Timer!Enable
  <2> QED BY <2>1 DEF Board!Timer!Next
<1>5. ASSUME NEW high \in BOOLEAN, Board!ObserveAddress(high)
      PROVE  Board!Timer!Next \/ UNCHANGED Board!Timer!timerVars
  <2>1. CASE ~Board!Qualified(high)
    BY <1>5, <2>1 DEF Board!ObserveAddress, Board!Qualified, Board!regVars, Board!Running,
                      Board!Timer!timerVars
  <2>2. CASE Board!Qualified(high)
    <3>1. Board!Clock /\ beat' = ~beat
      BY <1>5, <2>2 DEF Board!ObserveAddress, Board!Qualified
    <3>2. CASE counter' = 0
      <4>1. Board!Timer!Expire
        BY <3>1, <3>2 DEF Board!Clock, Board!Running, Board!Timer!Expire
      <4> QED BY <4>1 DEF Board!Timer!Next
    <3>3. CASE counter' # 0
      <4>1. Board!Timer!CountDown
        BY <3>1, <3>3 DEF Board!Clock, Board!Running, Board!Timer!CountDown
      <4> QED BY <4>1 DEF Board!Timer!Next
    <3> QED BY <3>2, <3>3
  <2> QED BY <2>1, <2>2
<1>6. CASE Board!M2FallingEdge
  BY <1>6 DEF Board!M2FallingEdge, Board!regVars, Board!Running, Board!Timer!timerVars
<1>7. CASE UNCHANGED Board!vars
  BY <1>7 DEF Board!vars, Board!Running, Board!Timer!timerVars
<1> QED BY <1>1, <1>2, <1>3, <1>4, <1>5, <1>6, <1>7 DEF Board!Next, Board!Timer!Next

\* The board's counter implements the countdown: with interrupts enabled the
\* line rises at the (latch + 1)-th qualified edge of each countdown.
THEOREM ImplementsTimer == CratesSpec => TimerSpec
<1>1. CratesInit => Board!Timer!Init
  BY DEF CratesInit, Board!Init, Board!Timer!Init, Board!Running
<1>2. BoardInv /\ [CratesNext]_cratesVars
        => [Board!Timer!Next]_(Board!Timer!timerVars)
  BY StepIsOfEach, StepSimulation
<1> QED
  BY <1>1, <1>2, BoardInvariant, PTL
     DEF CratesSpec, TimerSpec, Board!TimerSpec, Board!Timer!Spec

-----------------------------------------------------------------------------
(***************************************************************************)
(* The flags of lowered code, and the types of all three.                  *)
(***************************************************************************)
\* Lowering goes by its own rules.
LEMMA LowersByRule == CratesSpec => Flags!Spec
<1>1. CratesInit => Flags!Init
  BY DEF CratesInit
<1>2. [CratesNext]_cratesVars => [Flags!Next]_(Flags!vars)
  BY StepIsOfEach
<1> QED
  BY <1>1, <1>2, PTL DEF CratesSpec, Flags!Spec

\* Whatever the program, as long as its branches and calls stay inside what the
\* scans look at, nothing reads from shadow P a flag whose write lower_routine
\* left out.
THEOREM FlagsAreExact == CratesSpec => []ShadowExact
<1>1. Flags!Spec => []ShadowExact
  BY CratesAssumption, Flags!ShadowIsExact DEF ShadowExact
<1> QED
  BY <1>1, LowersByRule

\* ... and a branch or rotate that takes a flag from the Z80 instead finds it
\* there, however control came to it.
THEOREM NativeFlagsAreExact == CratesSpec => []NativeExact
<1>1. Flags!Spec => []NativeExact
  BY CratesAssumption, Flags!NativeIsExact DEF NativeExact
<1> QED
  BY <1>1, LowersByRule

\* The board's registers, the functions, roots, labels and ranges of the
\* analysis and the lift, and the flags and call stack of lowered code keep
\* their types.
THEOREM CratesTyped == CratesSpec => []TypesOK
<1>1. CratesSpec => []Flags!TypeOK
  BY LowersByRule, CratesAssumption, Flags!TypeCorrect
<1>2. CratesSpec => [](part \in {"board", "discovery", "lowering"})
  <2>1. CratesInit => part \in {"board", "discovery", "lowering"}
    BY DEF CratesInit
  <2>2. part \in {"board", "discovery", "lowering"} /\ [CratesNext]_cratesVars
            => (part \in {"board", "discovery", "lowering"})'
    BY StepIsOfEach
  <2> QED
    BY <2>1, <2>2, PTL DEF CratesSpec
<1>3. IInv /\ BoardInv /\ Flags!TypeOK /\ part \in {"board", "discovery", "lowering"} => TypesOK
  BY TypesFollow DEF TypesOK, BoardInv
<1> QED
  BY <1>1, <1>2, <1>3, DiscoveryInvariant, BoardInvariant, PTL
=============================================================================
