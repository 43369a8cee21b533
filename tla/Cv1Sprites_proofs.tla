-------------------------- MODULE Cv1Sprites_proofs --------------------------
(***************************************************************************)
(* A restart of the sprite preparation in the dark always has room, for    *)
(* any number of slots that is at least that of OAM entries; and what the  *)
(* screen shows is the picture of the moment the preparation ended.        *)
(*                                                                         *)
(* The cursor of the table counts the visible entries the walk has passed, *)
(* so while an entry is missing it lies inside the table.  Every pinned    *)
(* slot stands in the table, and the missing entry holds none: fewer slots *)
(* are pinned than there are entries.                                      *)
(***************************************************************************)
EXTENDS Cv1Sprites, FiniteSetTheorems, SequenceTheorems, TLAPS

Typed ==
    /\ oam \in [1 .. NOam -> Key \cup {Hidden}]
    /\ mask \in {"off", "background", "sprites"}
    /\ chr \in [Key -> Bits] /\ mode \in Mode
    /\ keys \in [Slot -> Key \cup {None}] /\ pattern \in [Slot -> Pattern]
    /\ victim \in Slot /\ current \subseteq Slot /\ next \subseteq Slot
    /\ index \in 1 .. NOam /\ count \in 0 .. NOam
    /\ xt \in Seq(Slot \cup {Miss}) /\ Len(xt) <= NOam /\ sat \in Seq(Slot)
    /\ phase \in {"idle", "init", "a", "b"}

Control ==
    /\ asked => phase = "init"
    /\ ready => phase = "idle" /\ xt \in Seq(Slot)
    /\ blanked /\ phase \in {"a", "b"} => current = {}
    /\ ~ halted

\* During a pass the cursor counts, and a pinned slot is in the table.
Table ==
    phase \in {"a", "b"} =>
        /\ count = Cardinality(Seen(index))
        /\ \A s \in next : \E n \in DOMAIN xt : xt[n] = s

PassA == phase = "a" => Len(xt) = count /\ (~ misses => xt \in Seq(Slot))
PassB ==
    phase = "b" =>
        /\ Len(xt) = Cardinality(Seen(NOam + 1))
        /\ \A n \in 1 .. count : xt[n] # Miss

IInv == Typed /\ Control /\ Table /\ PassA /\ PassB
-----------------------------------------------------------------------------
LEMMA LeastExists ==
    ASSUME NEW S \in SUBSET Nat, S # {}
    PROVE  \E j \in S : \A i \in S : j <= i
<1>1. PICK j \in S : \A i \in S : ~ (<<i, j>> \in OpToRel(<, Nat))
  BY NatLessThanWellFounded, WFMin
<1>2. \A i \in S : ~ (i < j)
  BY <1>1 DEF OpToRel
<1> QED
  BY <1>2

\* The walk moves on, passes nothing visible but the entry it is at, and
\* stops behind that.
LEMMA OnwardStops ==
    ASSUME Sizes, index \in 1 .. NOam
    PROVE  /\ Onward \in index + 1 .. NOam + 1
           /\ IsVisible(oam[index]) => Onward = index + 1
           /\ \A j \in index + 1 .. Onward - 1 : ~ IsVisible(oam[j])
<1>1. NOam + 1 \in Stops /\ Stops \in SUBSET Nat
  BY DEF Stops, Sizes
<1>2. \E j \in Stops : \A i \in Stops : j <= i
  BY <1>1, LeastExists
<1>3. Onward \in Stops /\ \A i \in Stops : Onward <= i
  BY <1>2, Zenon DEF Onward
<1>4. Onward \in index + 1 .. NOam + 1
  BY <1>3 DEF Stops
<1>5. IsVisible(oam[index]) => index + 1 \in Stops
  BY DEF Stops, Sizes
<1>6. \A j \in index + 1 .. Onward - 1 : j \notin Stops
  BY <1>3, <1>4 DEF Sizes
<1>7. \A j \in index + 1 .. Onward - 1 : ~ IsVisible(oam[j])
  BY <1>4, <1>6 DEF Stops, Sizes
<1> QED
  BY <1>3, <1>4, <1>5, <1>7 DEF Sizes

\* How far the count is after a step of the walk.
LEMMA SeenOnward ==
    ASSUME Sizes, index \in 1 .. NOam
    PROVE  /\ IsFiniteSet(Seen(index))
           /\ Cardinality(Seen(index)) \in 0 .. index - 1
           /\ Cardinality(Seen(Onward)) =
                Cardinality(Seen(index)) + (IF IsVisible(oam[index]) THEN 1 ELSE 0)
           /\ Cardinality(Seen(Onward)) <= Cardinality(Seen(NOam + 1))
           /\ Cardinality(Seen(NOam + 1)) \in 0 .. NOam
<1> USE DEF Sizes
<1>1. /\ IsFiniteSet(1 .. index - 1) /\ Cardinality(1 .. index - 1) = index - 1
      /\ IsFiniteSet(1 .. NOam) /\ Cardinality(1 .. NOam) = NOam
  BY FS_Interval
<1>2. Seen(index) \in SUBSET (1 .. index - 1) /\ Seen(NOam + 1) \in SUBSET (1 .. NOam)
  BY DEF Seen
<1>3. /\ IsFiniteSet(Seen(index)) /\ Cardinality(Seen(index)) <= index - 1
      /\ IsFiniteSet(Seen(NOam + 1)) /\ Cardinality(Seen(NOam + 1)) <= NOam
  BY <1>1, <1>2, FS_Subset
<1>4. Cardinality(Seen(index)) \in Nat /\ Cardinality(Seen(NOam + 1)) \in Nat
  BY <1>3, FS_CardinalityType
<1>5. Seen(Onward) = IF IsVisible(oam[index]) THEN Seen(index) \cup {index} ELSE Seen(index)
  BY OnwardStops DEF Seen
<1>6. index \notin Seen(index)
  BY DEF Seen
<1>7. Cardinality(Seen(Onward)) =
        Cardinality(Seen(index)) + (IF IsVisible(oam[index]) THEN 1 ELSE 0)
  <2>1. Cardinality(Seen(index) \cup {index}) = Cardinality(Seen(index)) + 1
    BY <1>3, <1>6, FS_AddElement
  <2>2. CASE IsVisible(oam[index])
    <3>1. Seen(Onward) = Seen(index) \cup {index}
      BY <1>5, <2>2, Zenon
    <3> QED
      BY <2>1, <2>2, <3>1
  <2>3. CASE ~ IsVisible(oam[index])
    <3>1. Seen(Onward) = Seen(index)
      BY <1>5, <2>3, Zenon
    <3> QED
      BY <1>4, <2>3, <3>1
  <2> QED
    BY <2>2, <2>3
<1>8. Seen(Onward) \in SUBSET Seen(NOam + 1)
  BY OnwardStops DEF Seen
<1>9. Cardinality(Seen(Onward)) <= Cardinality(Seen(NOam + 1))
  BY <1>3, <1>8, FS_Subset
<1> QED
  BY <1>3, <1>4, <1>7, <1>9

LEMMA NoneSeenYet == Cardinality(Seen(1)) = 0
<1>1. Seen(1) = {}
  BY DEF Seen
<1> QED
  BY <1>1, FS_EmptySet

\* A pattern that is cached has a slot, which is not the mark of a miss.
LEMMA CachedHolds ==
    ASSUME Sizes, NEW k, Holding(k) # {}
    PROVE  Cached(k) \in Slot
<1>1. Holding(k) \in SUBSET Nat
  BY DEF Holding, Slot, Sizes
<1>2. \E s \in Holding(k) : \A r \in Holding(k) : s <= r
  BY <1>1, LeastExists
<1> QED
  BY <1>2, Zenon DEF Cached, Holding

LEMMA AllocatedFits ==
    ASSUME Sizes, victim \in Slot, Free # {}
    PROVE  Allocated \in Slot /\ Wrapped(Allocated + 1) \in Slot
<1>1. Free \in SUBSET Nat
  BY DEF Free, Sizes
<1>2. PICK n \in Free : n = CHOOSE i \in Free : \A m \in Free : i <= m
  <2>1. \E i \in Free : \A m \in Free : i <= m
    BY <1>1, LeastExists
  <2> QED
    BY <2>1, Zenon
<1>3. Allocated = Nth(n) /\ n \in 0 .. NSlots - 1
  BY <1>2 DEF Allocated, Free
<1>4. Allocated \in Slot
  BY <1>3 DEF Nth, Wrapped, Slot, Sizes
<1> QED
  BY <1>4 DEF Wrapped, Slot, Sizes

\* "An empty retry MUST fit": without pins of the screen, a table that misses
\* an entry leaves a slot free.
LEMMA RoomInTheDark ==
    ASSUME Sizes, Typed, current = {},
           count + 1 \in DOMAIN xt, xt[count + 1] = Miss,
           \A s \in next : \E n \in DOMAIN xt : xt[n] = s
    PROVE  Free # {}
<1> SUFFICES ASSUME Free = {} PROVE FALSE
  OBVIOUS
<1> DEFINE Others == DOMAIN xt \ {count + 1}
<1>1. Slot \subseteq next
  <2> SUFFICES ASSUME NEW s \in Slot PROVE s \in next
    OBVIOUS
  <2> DEFINE n == IF s >= victim THEN s - victim ELSE s - victim + NSlots
  <2>1. n \in 0 .. NSlots - 1 /\ Wrapped(victim + n) = s
    BY DEF Wrapped, Slot, Sizes, Typed
  <2>2. Nth(n) \in current \cup next
    BY <2>1 DEF Free
  <2> QED
    BY <2>1, <2>2 DEF Nth
<1>2. \A s \in Slot : \E n \in Others : xt[n] = s
  <2> SUFFICES ASSUME NEW s \in Slot PROVE \E n \in Others : xt[n] = s
    OBVIOUS
  <2>1. PICK n \in DOMAIN xt : xt[n] = s
    BY <1>1
  <2>2. n # count + 1
    BY <2>1 DEF Slot, Miss, Sizes
  <2> QED
    BY <2>1, <2>2
<1>3. /\ IsFiniteSet(Slot) /\ Cardinality(Slot) = NSlots
      /\ IsFiniteSet(1 .. Len(xt)) /\ Cardinality(1 .. Len(xt)) = Len(xt)
  <2>1. Len(xt) \in Nat
    BY LenProperties DEF Typed
  <2>2. IsFiniteSet(1 .. Len(xt)) /\ Cardinality(1 .. Len(xt)) = Len(xt)
    <3>1. \A l \in Nat : IsFiniteSet(1 .. l) /\ Cardinality(1 .. l) = l
      BY FS_Interval
    <3> QED
      BY <2>1, <3>1
  <2>3. IsFiniteSet(0 .. NSlots - 1) /\ Cardinality(0 .. NSlots - 1) = NSlots
    BY FS_Interval DEF Sizes
  <2> QED
    BY <2>2, <2>3 DEF Slot
<1>4. DOMAIN xt = 1 .. Len(xt) /\ Len(xt) <= NSlots
  BY LenProperties DEF Typed, Sizes
<1>5. IsFiniteSet(Others) /\ Cardinality(Others) < Cardinality(Slot)
  <2>1. /\ IsFiniteSet((1 .. Len(xt)) \ {count + 1})
        /\ Cardinality((1 .. Len(xt)) \ {count + 1}) = Len(xt) - 1
    BY <1>3, <1>4, FS_RemoveElement
  <2> QED
    BY <1>3, <1>4, <2>1 DEF Sizes
<1> DEFINE place == [s \in Slot |-> CHOOSE n \in Others : xt[n] = s]
<1>6. \A s \in Slot : place[s] \in Others /\ xt[place[s]] = s
  BY <1>2, Zenon
<1>7. place \in [Slot -> Others]
  BY <1>6
<1> HIDE DEF place, Others
<1>8. \E x, y \in Slot : x # y /\ place[x] = place[y]
  BY <1>3, <1>5, <1>7, FS_PigeonHole
<1> QED
  BY <1>6, <1>8
-----------------------------------------------------------------------------
LEMMA InitOK == Sizes /\ Init => IInv
<1> SUFFICES ASSUME Sizes, Init PROVE IInv
  OBVIOUS
<1>1. Typed
  <2>1. \A b \in Bits : [k \in Key |-> b] \in [Key -> Bits]
    OBVIOUS
  <2>2. \A k \in Key, b \in Bits :
          [s \in Slot |-> <<mode, k, b>>] \in [Slot -> Pattern]
    BY DEF Init, Pattern
  <2>3. oam \in [1 .. NOam -> Key \cup {Hidden}]
    BY DEF Init
  <2>4. keys \in [Slot -> Key \cup {None}]
    BY DEF Init
  <2>5. xt \in Seq(Slot \cup {Miss}) /\ Len(xt) = 0 /\ sat \in Seq(Slot)
    BY EmptySeq DEF Init
  <2>6. victim \in Slot /\ index \in 1 .. NOam /\ count \in 0 .. NOam
    BY DEF Init, Slot, Sizes
  <2>7. chr \in [Key -> Bits] /\ pattern \in [Slot -> Pattern]
    BY <2>1, <2>2 DEF Init
  <2> QED
    BY <2>3, <2>4, <2>5, <2>6, <2>7 DEF Init, Typed, Sizes
<1> QED
  BY <1>1 DEF Init, IInv, Control, Table, PassA, PassB

\* Steps outside the passes.
LEMMA Outside ==
    ASSUME IInv,
           phase' \in {"a", "b"} => phase' = phase /\ UNCHANGED <<oam, index, count, next, xt, misses>>
    PROVE  Table' /\ PassA' /\ PassB'
<1> QED
  BY DEF IInv, Table, PassA, PassB, Seen

LEMMA WritingKeeps ==
    ASSUME Sizes, IInv, OamDma \/ WriteChr \/ WriteControl \/ WriteMask
    PROVE  IInv'
<1> USE DEF Writing, sourceVars, cacheVars, tableVars, screenVars
<1>1. Typed'
  BY DEF IInv, Typed, OamDma, WriteChr, WriteControl, WriteMask
<1>2. Control'
  BY DEF IInv, Control, OamDma, WriteChr, WriteControl, WriteMask
<1>3. Table' /\ PassA' /\ PassB'
  BY Outside DEF OamDma, WriteChr, WriteControl, WriteMask
<1> QED
  BY <1>1, <1>2, <1>3 DEF IInv

LEMMA BeginsKeep ==
    ASSUME Sizes, IInv,
           (\E fenced \in BOOLEAN : Begin(fenced)) \/ Blank \/ AskForBlank \/ Commit
    PROVE  IInv'
<1> USE DEF sourceVars, cacheVars, tableVars, screenVars, Running
<1>1. Typed'
  BY DEF IInv, Typed, Control, Begin, Blank, AskForBlank, Commit
<1>2. Control'
  BY DEF IInv, Control, Begin, Blank, AskForBlank, Commit
<1>3. Table' /\ PassA' /\ PassB'
  BY Outside DEF IInv, Control, Begin, Blank, AskForBlank, Commit
<1> QED
  BY <1>1, <1>2, <1>3 DEF IInv

LEMMA StepInitKeeps == ASSUME Sizes, IInv, StepInit PROVE IInv'
<1> USE DEF sourceVars, cacheVars, tableVars, screenVars, Running, Prepared
<1>1. Typed'
  <2>1. xt' \in Seq(Slot \cup {Miss}) /\ Len(xt') = 0
    BY EmptySeq DEF StepInit
  <2>2. keys' \in [Slot -> Key \cup {None}] /\ cacheMode' \in Mode
    BY DEF IInv, Typed, StepInit
  <2>3. victim' \in Slot /\ index' \in 1 .. NOam /\ count' \in 0 .. NOam
    BY DEF IInv, Typed, StepInit, Slot, Sizes
  <2>4. current' \subseteq Slot /\ next' \subseteq Slot
    BY DEF IInv, Typed, StepInit
  <2>5. phase' \in {"idle", "a"} /\ UNCHANGED <<oam, chr, mode, mask, pattern, sat>>
    BY DEF StepInit
  <2> QED
    BY <2>1, <2>2, <2>3, <2>4, <2>5 DEF IInv, Typed, Sizes
<1>2. Control'
  BY EmptySeq DEF IInv, Control, StepInit, Empties
<1>3. Table' /\ PassA' /\ PassB'
  <2>1. Cardinality(Seen(index))' = 0
    <3>1. Seen(index)' = {}
      BY DEF Seen, StepInit
    <3> QED
      BY <3>1, FS_EmptySet
  <2> QED
    BY <2>1, EmptySeq DEF StepInit, Table, PassA, PassB
<1> QED
  BY <1>1, <1>2, <1>3 DEF IInv

\* A step of the first pass: what it adds to the table, and what it pins.
LEMMA PassAKeeps ==
    ASSUME Sizes, IInv, Running("a"), AfterA(misses'),
           NEW more \in {0, 1}, more = IF IsVisible(oam[index]) THEN 1 ELSE 0,
           count' = IF phase' = "b" THEN 0 ELSE count + more,
           xt' \in Seq(Slot \cup {Miss}), Len(xt') = count + more,
           ~ misses' => xt' \in Seq(Slot),
           next' \subseteq Slot, \A s \in next' : \E n \in DOMAIN xt' : xt'[n] = s,
           UNCHANGED <<oam, chr, mode, mask, keys, pattern, victim, current, sat, blanked, asked, halted>>
    PROVE  IInv'
<1> DEFINE onward == Onward
<1>1. /\ onward \in index + 1 .. NOam + 1
      /\ Cardinality(Seen(onward)) = count + more
      /\ Cardinality(Seen(onward)) \in 0 .. NOam
      /\ onward > NOam => Cardinality(Seen(NOam + 1)) = count + more
  <2>1. index \in 1 .. NOam /\ count = Cardinality(Seen(index))
    BY DEF IInv, Typed, Table, Running
  <2>2. onward \in index + 1 .. NOam + 1
    BY <2>1, OnwardStops
  <2>3. /\ Cardinality(Seen(onward)) = count + more
        /\ Cardinality(Seen(onward)) <= Cardinality(Seen(NOam + 1))
        /\ Cardinality(Seen(NOam + 1)) \in 0 .. NOam
        /\ count \in Nat
    BY <2>1, SeenOnward DEF Sizes
  <2>4. onward > NOam => onward = NOam + 1
    BY <2>1, <2>2 DEF Sizes
  <2> QED
    BY <2>2, <2>3, <2>4 DEF Sizes
<1>2. \/ onward <= NOam /\ index' = onward /\ UNCHANGED <<phase, ready, published>>
      \/ /\ onward > NOam /\ index' = 1 /\ phase' = "b" /\ misses'
         /\ UNCHANGED <<ready, published>>
      \/ onward > NOam /\ index' = 1 /\ ~ misses' /\ Prepared
  BY <1>1 DEF AfterA, Sizes
<1> HIDE DEF onward
<1>3. \A i : Seen(i)' = Seen(i)
  BY DEF Seen
<1>4. Typed'
  <2>1. index' \in 1 .. NOam /\ count' \in 0 .. NOam /\ Len(xt') <= NOam
    BY <1>1, <1>2 DEF IInv, Typed, Sizes
  <2>2. phase' \in {"idle", "a", "b"}
    BY <1>2 DEF Prepared, Running
  <2> QED
    BY <2>1, <2>2 DEF IInv, Typed
<1>5. Control'
  BY <1>2 DEF IInv, Control, Prepared, Running
<1>6. Table'
  <2>1. CASE phase' = "a"
    <3>1. index' = onward /\ count' = count + more
      BY <1>2, <2>1 DEF Prepared
    <3> QED
      BY <1>1, <1>3, <3>1 DEF Table
  <2>2. CASE phase' = "b"
    <3>1. index' = 1 /\ count' = 0
      BY <1>2, <2>2 DEF Prepared, Running
    <3> QED
      BY <1>3, <3>1, NoneSeenYet DEF Table
  <2> QED
    BY <2>1, <2>2 DEF Table
<1>7. PassA'
  BY <1>2 DEF PassA, Prepared
<1>8. PassB'
  <2> SUFFICES ASSUME phase' = "b" PROVE PassB'
    BY DEF PassB
  <2>1. onward > NOam /\ count' = 0
    BY <1>2 DEF Running
  <2> QED
    BY <1>1, <1>3, <2>1 DEF PassB
<1> QED
  BY <1>4, <1>5, <1>6, <1>7, <1>8 DEF IInv

\* A step of the second pass that finds the entry in place, or puts it there.
LEMMA PassBKeeps ==
    ASSUME Sizes, IInv, Running("b"), AfterB,
           NEW more \in {0, 1}, more = IF IsVisible(oam[index]) THEN 1 ELSE 0,
           count' = count + more,
           xt' \in Seq(Slot \cup {Miss}), Len(xt') = Len(xt),
           \A n \in 1 .. count + more : xt'[n] # Miss,
           next' \subseteq Slot, \A s \in next' : \E n \in DOMAIN xt' : xt'[n] = s,
           keys' \in [Slot -> Key \cup {None}], pattern' \in [Slot -> Pattern],
           victim' \in Slot,
           UNCHANGED <<oam, chr, mode, mask, current, sat, blanked, asked, halted>>
    PROVE  IInv'
<1> DEFINE onward == Onward
<1>1. /\ onward \in index + 1 .. NOam + 1
      /\ Cardinality(Seen(onward)) = count + more
      /\ count + more \in 0 .. NOam
      /\ onward > NOam => Cardinality(Seen(NOam + 1)) = count + more
  <2>1. index \in 1 .. NOam /\ count = Cardinality(Seen(index))
    BY DEF IInv, Typed, Table, Running
  <2>2. onward \in index + 1 .. NOam + 1
    BY <2>1, OnwardStops
  <2>3. /\ Cardinality(Seen(onward)) = count + more
        /\ Cardinality(Seen(onward)) <= Cardinality(Seen(NOam + 1))
        /\ Cardinality(Seen(NOam + 1)) \in 0 .. NOam
        /\ count \in Nat
    BY <2>1, SeenOnward DEF Sizes
  <2>4. onward > NOam => onward = NOam + 1
    BY <2>1, <2>2 DEF Sizes
  <2> QED
    BY <2>2, <2>3, <2>4 DEF Sizes
<1>2. \/ onward <= NOam /\ index' = onward /\ UNCHANGED <<phase, ready, published>>
      \/ onward > NOam /\ index' = index /\ Prepared
  BY <1>1 DEF AfterB, Sizes
<1> HIDE DEF onward
<1>3. \A i : Seen(i)' = Seen(i)
  BY DEF Seen
<1>4. Len(xt) = Cardinality(Seen(NOam + 1))
  BY DEF IInv, PassB, Running
<1>5. Typed'
  <2>1. index' \in 1 .. NOam /\ count' \in 0 .. NOam /\ Len(xt') <= NOam
    BY <1>1, <1>2 DEF IInv, Typed, Sizes
  <2>2. phase' \in {"idle", "b"}
    BY <1>2 DEF Prepared, Running
  <2> QED
    BY <2>1, <2>2 DEF IInv, Typed
<1>6. onward > NOam => xt' \in Seq(Slot)
  <2> SUFFICES ASSUME onward > NOam PROVE xt' \in Seq(Slot)
    OBVIOUS
  <2>1. Len(xt') = count + more
    BY <1>1, <1>4
  <2>2. xt' \in [1 .. Len(xt') -> Slot \cup {Miss}] /\ Len(xt') \in Nat
    BY LenProperties
  <2>3. xt' \in [1 .. Len(xt') -> Slot]
    BY <2>1, <2>2
  <2> QED
    BY <2>2, <2>3
<1>7. Control'
  BY <1>2, <1>6 DEF IInv, Control, Prepared, Running
<1>8. Table'
  <2> SUFFICES ASSUME phase' \in {"a", "b"} PROVE Table'
    BY DEF Table
  <2>1. index' = onward
    BY <1>2 DEF Prepared
  <2> QED
    BY <1>1, <1>3, <2>1 DEF Table
<1>9. PassA' /\ PassB'
  <2>1. phase' # "a"
    BY <1>2 DEF Prepared, Running
  <2> QED
    BY <1>3, <1>4, <2>1 DEF PassA, PassB
<1> QED
  BY <1>5, <1>7, <1>8, <1>9 DEF IInv

LEMMA HiddenKeeps == ASSUME Sizes, IInv, HiddenStep PROVE IInv'
<1> USE DEF StepUnchanged, sourceVars, cacheVars, screenVars
<1>1. /\ ~ IsVisible(oam[index])
      /\ count \in Nat /\ next \subseteq Slot /\ victim \in Slot
      /\ xt \in Seq(Slot \cup {Miss})
      /\ keys \in [Slot -> Key \cup {None}] /\ pattern \in [Slot -> Pattern]
  BY DEF HiddenStep, IsVisible, IInv, Typed
<1>2. CASE Running("a") /\ AfterA(misses) /\ count' = IF phase' = "b" THEN 0 ELSE count
  <2>1. /\ Len(xt) = count + 0 /\ (~ misses => xt \in Seq(Slot))
        /\ \A s \in next : \E n \in DOMAIN xt : xt[n] = s
    BY <1>1, <1>2 DEF IInv, PassA, Table, Running
  <2>2. AfterA(misses') /\ count' = IF phase' = "b" THEN 0 ELSE count + 0
    BY <1>1, <1>2 DEF HiddenStep
  <2>3. PICK more \in {0, 1} : more = 0
    OBVIOUS
  <2> QED
    BY <1>1, <1>2, <2>1, <2>2, <2>3, PassAKeeps DEF HiddenStep
<1>3. CASE Running("b") /\ AfterB /\ UNCHANGED count
  <2>1. /\ \A n \in 1 .. count + 0 : xt[n] # Miss
        /\ \A s \in next : \E n \in DOMAIN xt : xt[n] = s
    BY <1>1, <1>3 DEF IInv, PassB, Table, Running
  <2>2. count' = count + 0
    BY <1>1, <1>3
  <2>3. PICK more \in {0, 1} : more = 0
    OBVIOUS
  <2> QED
    BY <1>1, <1>3, <2>1, <2>2, <2>3, PassBKeeps DEF HiddenStep
<1> QED
  BY <1>2, <1>3 DEF HiddenStep

\* The table of the first pass with one more entry.
LEMMA TableGrows ==
    ASSUME Sizes, IInv, Running("a"), NEW e \in Slot \cup {Miss},
           xt' = Append(xt, e), next' = IF e = Miss THEN next ELSE next \cup {e}
    PROVE  /\ xt' \in Seq(Slot \cup {Miss}) /\ Len(xt') = count + 1
           /\ ~ misses /\ e # Miss => xt' \in Seq(Slot)
           /\ next' \subseteq Slot /\ \A s \in next' : \E n \in DOMAIN xt' : xt'[n] = s
<1>1. /\ xt \in Seq(Slot \cup {Miss}) /\ next \subseteq Slot
      /\ Len(xt) = count /\ (~ misses => xt \in Seq(Slot))
      /\ \A s \in next : \E n \in DOMAIN xt : xt[n] = s
  BY DEF IInv, Typed, PassA, Table, Running
<1>2. /\ xt' \in Seq(Slot \cup {Miss}) /\ Len(xt') = Len(xt) + 1
      /\ \A n \in 1 .. Len(xt) : xt'[n] = xt[n]
      /\ xt'[Len(xt) + 1] = e
  BY <1>1, AppendProperties
<1>3. ~ misses /\ e # Miss => xt' \in Seq(Slot)
  BY <1>1, AppendProperties
<1>4. /\ DOMAIN xt = 1 .. Len(xt) /\ Len(xt) \in Nat
      /\ DOMAIN xt' = 1 .. Len(xt) + 1
  BY <1>1, <1>2, LenProperties
<1>5. ASSUME NEW s \in next' PROVE \E n \in DOMAIN xt' : xt'[n] = s
  <2>1. CASE s = e
    BY <1>2, <1>4, <2>1
  <2>2. CASE s # e
    <3>1. PICK n \in 1 .. Len(xt) : xt[n] = s
      BY <1>1, <1>4, <1>5, <2>2
    <3> QED
      BY <1>2, <1>4, <3>1
  <2> QED
    BY <2>1, <2>2
<1>6. next' \subseteq Slot
  BY <1>1
<1> QED
  BY <1>1, <1>2, <1>3, <1>5, <1>6

LEMMA StepAKeeps == ASSUME Sizes, IInv, StepA PROVE IInv'
<1> USE DEF StepUnchanged, sourceVars, cacheVars, screenVars
<1> DEFINE k == oam[index]
           e == IF Holding(k) # {} THEN Cached(k) ELSE Miss
<1>1. Running("a") /\ IsVisible(k) /\ AfterA(misses')
  BY DEF StepA
<1>2. e \in Slot \cup {Miss} /\ (Holding(k) # {} => e \in Slot /\ e # Miss)
  <2>1. Miss \notin Slot
    BY DEF Slot, Miss, Sizes
  <2> QED
    BY <2>1, CachedHolds
<1>3. /\ xt' = Append(xt, e) /\ next' = IF e = Miss THEN next ELSE next \cup {e}
      /\ ~ misses' => ~ misses /\ e # Miss
  <2>1. CASE Holding(k) # {}
    BY <1>2, <2>1 DEF StepA
  <2>2. CASE Holding(k) = {}
    BY <2>2 DEF StepA
  <2> QED
    BY <2>1, <2>2
<1> HIDE DEF e
<1>4. /\ xt' \in Seq(Slot \cup {Miss}) /\ Len(xt') = count + 1
      /\ ~ misses' => xt' \in Seq(Slot)
      /\ next' \subseteq Slot /\ \A s \in next' : \E n \in DOMAIN xt' : xt'[n] = s
  BY <1>1, <1>2, <1>3, TableGrows
<1>5. PICK more \in {0, 1} : more = 1
  OBVIOUS
<1> QED
  BY <1>1, <1>4, <1>5, PassAKeeps DEF StepA

\* While an entry is missing the cursor is inside the table.
LEMMA CursorInside ==
    ASSUME Sizes, IInv, Running("b"), IsVisible(oam[index])
    PROVE  count + 1 \in 1 .. Len(xt) /\ DOMAIN xt = 1 .. Len(xt)
<1>1. index \in 1 .. NOam /\ count = Cardinality(Seen(index)) /\ count \in Nat
  BY DEF IInv, Typed, Table, Running, Sizes
<1>2. count + 1 <= Len(xt)
  <2>1. Cardinality(Seen(Onward)) = count + 1
    BY <1>1, SeenOnward
  <2>2. Cardinality(Seen(Onward)) <= Cardinality(Seen(NOam + 1))
    BY <1>1, SeenOnward
  <2> QED
    BY <2>1, <2>2 DEF IInv, PassB, Running
<1> QED
  BY <1>1, <1>2, LenProperties DEF IInv, Typed

\* The missing entry is put in place.
LEMMA ResolvedKeeps ==
    ASSUME Sizes, IInv, Running("b"), IsVisible(oam[index]), xt[count + 1] = Miss,
           NEW s \in Slot, Resolved(s),
           keys' \in [Slot -> Key \cup {None}], pattern' \in [Slot -> Pattern],
           victim' \in Slot,
           UNCHANGED <<oam, chr, mode, mask, current, sat, blanked>>
    PROVE  IInv'
<1>1. /\ xt \in Seq(Slot \cup {Miss}) /\ next \subseteq Slot /\ count \in Nat
      /\ \A n \in 1 .. count : xt[n] # Miss
      /\ \A r \in next : \E n \in DOMAIN xt : xt[n] = r
  BY DEF IInv, Typed, PassB, Table, Running, Sizes
<1>2. count + 1 \in 1 .. Len(xt) /\ DOMAIN xt = 1 .. Len(xt)
  BY CursorInside
<1>3. xt' = [xt EXCEPT ![count + 1] = s] /\ next' = next \cup {s} /\ count' = count + 1
  BY DEF Resolved
<1>4. /\ xt' \in Seq(Slot \cup {Miss}) /\ Len(xt') = Len(xt)
      /\ \A n \in 1 .. Len(xt) : xt'[n] = IF n = count + 1 THEN s ELSE xt[n]
  BY <1>1, <1>2, <1>3, ExceptSeq
<1>5. DOMAIN xt' = 1 .. Len(xt) /\ Len(xt) \in Nat /\ s # Miss /\ Miss \notin Slot
  BY <1>2, <1>3, <1>1, LenProperties DEF Slot, Miss, Sizes
<1>6. ASSUME NEW n \in 1 .. count + 1 PROVE xt'[n] # Miss
  BY <1>1, <1>2, <1>4, <1>5
<1>7. ASSUME NEW r \in next' PROVE \E n \in DOMAIN xt' : xt'[n] = r
  <2>1. CASE r = s
    BY <1>2, <1>4, <1>5, <2>1
  <2>2. CASE r # s
    <3>1. PICK n \in 1 .. Len(xt) : xt[n] = r
      BY <1>1, <1>2, <1>3, <1>7, <2>2
    <3>2. n # count + 1 /\ xt'[n] = r
      BY <1>1, <1>3, <1>4, <1>5, <1>7, <2>2, <3>1
    <3> QED
      BY <1>5, <3>2
  <2> QED
    BY <2>1, <2>2
<1>8. next' \subseteq Slot
  BY <1>1, <1>3
<1>9. PICK more \in {0, 1} : more = 1
  OBVIOUS
<1> QED
  BY <1>3, <1>4, <1>6, <1>7, <1>8, <1>9, PassBKeeps DEF Resolved

LEMMA StepBKeeps == ASSUME Sizes, IInv, StepB PROVE IInv'
<1> USE DEF StepUnchanged, sourceVars, cacheVars, screenVars
<1> DEFINE k == oam[index]
<1>1. Running("b") /\ IsVisible(k)
  BY DEF StepB
<1>2. /\ keys \in [Slot -> Key \cup {None}] /\ pattern \in [Slot -> Pattern]
      /\ victim \in Slot /\ k \in Key /\ Shown(k) \in Pattern /\ Typed
      /\ xt \in Seq(Slot \cup {Miss}) /\ next \subseteq Slot
      /\ \A s \in next : \E n \in DOMAIN xt : xt[n] = s
  BY <1>1 DEF IInv, Typed, Table, IsVisible, Shown, Pattern, Running
<1>3. CASE xt[count + 1] # Miss
  <2>1. /\ count' = count + 1 /\ AfterB
        /\ UNCHANGED <<cacheVars, next, xt, misses, asked, halted, oam, chr, mode, mask, sat, blanked>>
    BY <1>3 DEF StepB
  <2>2. \A n \in 1 .. count + 1 : xt[n] # Miss
    <3>1. count \in Nat /\ \A n \in 1 .. count : xt[n] # Miss
      BY <1>1 DEF IInv, Typed, PassB, Running, Sizes
    <3> QED
      BY <1>3, <3>1
  <2>3. PICK more \in {0, 1} : more = 1
    OBVIOUS
  <2> QED
    BY <1>1, <1>2, <2>1, <2>2, <2>3, PassBKeeps
<1>4. CASE xt[count + 1] = Miss /\ Holding(k) # {}
  <2>1. Resolved(Cached(k)) /\ UNCHANGED <<cacheVars, oam, chr, mode, mask, sat, blanked>>
    BY <1>4 DEF StepB
  <2>2. Cached(k) \in Slot
    BY <1>4, CachedHolds
  <2> QED
    BY <1>1, <1>2, <1>4, <2>1, <2>2, ResolvedKeeps
<1>5. CASE xt[count + 1] = Miss /\ Holding(k) = {} /\ Free # {}
  <2>1. Allocated \in Slot /\ Wrapped(Allocated + 1) \in Slot
    BY <1>2, <1>5, AllocatedFits
  <2>2. /\ Resolved(Allocated) /\ victim' = Wrapped(Allocated + 1)
        /\ pattern' = [pattern EXCEPT ![Allocated] = Shown(k)]
        /\ keys' = [keys EXCEPT ![Allocated] = k]
        /\ UNCHANGED <<cacheMode, current, oam, chr, mode, mask, sat, blanked>>
    BY <1>5 DEF StepB
  <2>3. keys' \in [Slot -> Key \cup {None}] /\ pattern' \in [Slot -> Pattern]
    BY <1>2, <2>1, <2>2
  <2> QED
    BY <1>1, <1>5, <2>1, <2>2, <2>3, ResolvedKeeps
<1>6. CASE xt[count + 1] = Miss /\ Holding(k) = {} /\ Free = {}
  <2>1. ~ blanked
    <3> SUFFICES ASSUME blanked PROVE FALSE
      OBVIOUS
    <3>1. current = {}
      BY <1>1 DEF IInv, Control, Running
    <3>2. count + 1 \in DOMAIN xt
      BY <1>1, CursorInside
    <3> QED
      BY <1>2, <1>6, <3>1, <3>2, RoomInTheDark
  <2>2. /\ phase' = "init" /\ asked' = TRUE /\ UNCHANGED <<halted, ready, published, tableVars>>
        /\ UNCHANGED <<cacheVars, oam, chr, mode, mask, sat, blanked>>
    BY <1>6, <2>1 DEF StepB
  <2>3. Typed'
    BY <2>2 DEF IInv, Typed, tableVars
  <2>4. Control'
    BY <1>1, <2>1, <2>2 DEF IInv, Control, Running
  <2>5. Table' /\ PassA' /\ PassB'
    BY <2>2, Outside
  <2> QED
    BY <2>3, <2>4, <2>5 DEF IInv
<1> QED
  BY <1>3, <1>4, <1>5, <1>6

LEMMA Invariance == ASSUME Sizes PROVE Spec => []IInv
<1>1. Init => IInv
  BY InitOK
<1>2. IInv /\ [Next]_vars => IInv'
  <2> SUFFICES ASSUME IInv, [Next]_vars PROVE IInv'
    OBVIOUS
  <2>1. CASE OamDma \/ WriteChr \/ WriteControl \/ WriteMask
    BY <2>1, WritingKeeps
  <2>2. CASE (\E fenced \in BOOLEAN : Begin(fenced)) \/ Blank \/ AskForBlank \/ Commit
    BY <2>2, BeginsKeep
  <2>3. CASE StepInit
    BY <2>3, StepInitKeeps
  <2>4. CASE HiddenStep
    BY <2>4, HiddenKeeps
  <2>5. CASE StepA
    BY <2>5, StepAKeeps
  <2>6. CASE StepB
    BY <2>6, StepBKeeps
  <2>7. CASE UNCHANGED vars
    BY <2>7 DEF vars, sourceVars, cacheVars, tableVars, screenVars, IInv, Typed, Control,
                Table, PassA, PassB, Seen
  <2> QED
    BY <2>1, <2>2, <2>3, <2>4, <2>5, <2>6, <2>7 DEF Next
<1> QED
  BY <1>1, <1>2, PTL DEF Spec

\* Every variable of the preparation keeps its range: slots and table entries
\* stay in bounds, and a table that is committed names slots only
\* (rt_cv1_sat_commit_admitted, runtime/sat_cv1.s:634).
THEOREM TypeCorrect == ASSUME Sizes PROVE Spec => []TypeOK
<1>1. IInv => TypeOK
  BY DEF IInv, Typed, TypeOK
<1> QED
  BY <1>1, Invariance, PTL

\* "An empty retry MUST fit" (runtime/sat_cv1.s:320): a preparation in the
\* dark never stops the machine for want of a slot.
THEOREM RetryAlwaysFits == ASSUME Sizes PROVE Spec => []RetryFits
<1>1. IInv => RetryFits
  BY DEF IInv, Control, RetryFits
<1> QED
  BY <1>1, Invariance, PTL
-----------------------------------------------------------------------------
(* The hand-over.  The table under preparation names, for the entries it has *)
(* resolved, slots that hold the pattern of that entry; those slots are      *)
(* pinned, as are those of the screen, so that nothing is built over either. *)
(* A complete table is the picture, and the commit shows it.                 *)

Tiles == [n \in DOMAIN xt |-> pattern[xt[n]]]
Screen == IF on THEN [i \in DOMAIN sat |-> pattern[sat[i]]] ELSE Off

\* A key names what its slot holds, while no tile has changed since.
CacheTrue ==
    ~ chrDirty =>
        \A s \in Slot : keys[s] # None => pattern[s] = <<cacheMode, keys[s], chr[keys[s]]>>

Steady ==
    /\ phase \in {"a", "b"} => mask = "sprites" /\ ~ chrDirty /\ cacheMode = mode
    /\ phase # "idle" => display = (mask # "off")

\* The screen shows pinned slots only.
ScreenPinned ==
    /\ blanked => ~ on
    /\ on => \A i \in DOMAIN sat : sat[i] \in current

TablePinned == \A n \in DOMAIN xt : xt[n] \in next \cup {Miss}

TableTrue ==
    phase \in {"a", "b"} =>
        \A n \in DOMAIN xt : xt[n] # Miss => pattern[xt[n]] = Shown(oam[Entry(n)])

Waiting ==
    published = IF ~ ready THEN None ELSE IF display THEN Tiles ELSE Off

HInv == CacheTrue /\ Steady /\ ScreenPinned /\ TablePinned /\ TableTrue /\ Waiting
-----------------------------------------------------------------------------
LEMMA SeenNext ==
    ASSUME Sizes, NEW i \in 1 .. NOam
    PROVE  /\ Cardinality(Seen(i)) \in Nat
           /\ Cardinality(Seen(i + 1)) =
                Cardinality(Seen(i)) + (IF IsVisible(oam[i]) THEN 1 ELSE 0)
<1>1. IsFiniteSet(Seen(i)) /\ Cardinality(Seen(i)) \in Nat
  <2>1. IsFiniteSet(1 .. i - 1)
    BY FS_Interval DEF Sizes
  <2>2. Seen(i) \in SUBSET (1 .. i - 1)
    BY DEF Seen
  <2> QED
    BY <2>1, <2>2, FS_Subset, FS_CardinalityType
<1>2. Seen(i + 1) = IF IsVisible(oam[i]) THEN Seen(i) \cup {i} ELSE Seen(i)
  BY DEF Seen, Sizes
<1>3. i \notin Seen(i)
  BY DEF Seen, Sizes
<1>4. Cardinality(Seen(i) \cup {i}) = Cardinality(Seen(i)) + 1
  BY <1>1, <1>3, FS_AddElement
<1>5. CASE IsVisible(oam[i])
  <2>1. Seen(i + 1) = Seen(i) \cup {i}
    BY <1>2, <1>5, Zenon
  <2> QED
    BY <1>1, <1>4, <1>5, <2>1
<1>6. CASE ~ IsVisible(oam[i])
  <2>1. Seen(i + 1) = Seen(i)
    BY <1>2, <1>6, Zenon
  <2> QED
    BY <1>1, <1>6, <2>1
<1> QED
  BY <1>5, <1>6

\* Every place of the table has its entry: the count of visible entries
\* passes every number on its way up.
LEMMA EntryExists ==
    ASSUME Sizes, NEW n \in 1 .. Cardinality(Seen(NOam + 1))
    PROVE  Entry(n) \in 1 .. NOam /\ IsVisible(oam[Entry(n)])
<1>0. Cardinality(Seen(NOam + 1)) \in Nat
  BY SeenNext DEF Sizes
<1> DEFINE Past == {i \in 1 .. NOam + 1 : n <= Cardinality(Seen(i))}
<1>1. NOam + 1 \in Past /\ Past \in SUBSET Nat
  BY <1>0 DEF Sizes
<1>2. PICK i \in Past : \A j \in Past : i <= j
  BY <1>1, LeastExists
<1>3. i \in 2 .. NOam + 1 /\ n <= Cardinality(Seen(i))
  <2>1. i # 1
    BY <1>0, <1>2, NoneSeenYet
  <2> QED
    BY <1>2, <2>1 DEF Sizes
<1>4. PICK j \in 1 .. NOam : i = j + 1
  <2>1. i - 1 \in 1 .. NOam /\ i = (i - 1) + 1
    BY <1>3 DEF Sizes
  <2> QED
    BY <2>1
<1>5. /\ Cardinality(Seen(j)) \in Nat
      /\ Cardinality(Seen(i)) = Cardinality(Seen(j)) + (IF IsVisible(oam[j]) THEN 1 ELSE 0)
  BY <1>4, SeenNext
<1>6. j \notin Past
  BY <1>2, <1>4 DEF Sizes
<1>7. Cardinality(Seen(j)) < n
  BY <1>0, <1>4, <1>5, <1>6 DEF Sizes
<1>8. IsVisible(oam[j]) /\ Cardinality(Seen(j)) = n - 1
  BY <1>0, <1>3, <1>5, <1>7
<1> QED
  BY <1>8, Zenon DEF Entry

\* The entry the walk is at is the next of the table.
LEMMA EntryAt ==
    ASSUME Sizes, NEW j \in 1 .. NOam, IsVisible(oam[j])
    PROVE  Entry(Cardinality(Seen(j)) + 1) = j
<1> DEFINE n == Cardinality(Seen(j)) + 1
           Is(i) == IsVisible(oam[i]) /\ Cardinality(Seen(i)) = n - 1
<1>1. Cardinality(Seen(j)) \in Nat
  BY SeenNext
<1>2. Is(j)
  BY <1>1
<1>3. ASSUME NEW i \in 1 .. NOam, NEW k \in 1 .. NOam, i < k, IsVisible(oam[i])
      PROVE  Cardinality(Seen(i)) < Cardinality(Seen(k))
  <2>1. /\ Cardinality(Seen(i)) \in Nat /\ Cardinality(Seen(k)) \in Nat
        /\ Cardinality(Seen(i + 1)) = Cardinality(Seen(i)) + 1
    BY <1>3, SeenNext
  <2>2. Seen(i + 1) \in SUBSET Seen(k)
    BY <1>3 DEF Seen, Sizes
  <2>3. IsFiniteSet(Seen(k))
    <3>1. IsFiniteSet(1 .. k - 1) /\ Seen(k) \in SUBSET (1 .. k - 1)
      BY FS_Interval DEF Seen, Sizes
    <3> QED
      BY <3>1, FS_Subset
  <2>4. Cardinality(Seen(i + 1)) <= Cardinality(Seen(k))
    BY <2>2, <2>3, FS_Subset
  <2> QED
    BY <2>1, <2>4
<1>4. ASSUME NEW i \in 1 .. NOam, Is(i) PROVE i = j
  <2>1. Cardinality(Seen(i)) = Cardinality(Seen(j))
    BY <1>1, <1>4
  <2>2. ~ (i < j) /\ ~ (j < i)
    BY <1>1, <1>3, <1>4, <2>1
  <2> QED
    BY <2>2 DEF Sizes
<1>5. Entry(n) = CHOOSE i \in 1 .. NOam : Is(i)
  BY DEF Entry
<1> HIDE DEF n, Is
<1>6. Entry(n) \in 1 .. NOam /\ Is(Entry(n))
  BY <1>2, <1>5, Zenon
<1>7. Entry(n) = j
  BY <1>4, <1>6
<1> QED
  BY <1>7 DEF n

\* What the program has set up is a picture.
LEMMA SourceIsPicture == ASSUME Sizes, Typed PROVE Source \in {Off} \cup Seq(Pattern)
<1>1. CASE mask \in {"off", "background"}
  BY <1>1, EmptySeq DEF Source
<1>2. CASE mask \notin {"off", "background"}
  <2> DEFINE l == Cardinality(Seen(NOam + 1))
  <2>1. l \in Nat
    BY SeenNext DEF Sizes
  <2>2. \A n \in 1 .. l : Shown(oam[Entry(n)]) \in Pattern
    <3> SUFFICES ASSUME NEW n \in 1 .. l PROVE Shown(oam[Entry(n)]) \in Pattern
      OBVIOUS
    <3>1. Entry(n) \in 1 .. NOam /\ oam[Entry(n)] # Hidden
      BY EntryExists DEF IsVisible
    <3>2. oam[Entry(n)] \in Key
      BY <3>1 DEF Typed
    <3> QED
      BY <3>2 DEF Typed, Shown, Pattern
  <2>3. Source = [n \in 1 .. l |-> Shown(oam[Entry(n)])]
    BY <1>2 DEF Source
  <2> HIDE DEF l
  <2>4. Source \in Seq(Pattern)
    BY <2>1, <2>2, <2>3, SeqDef
  <2> QED
    BY <2>4
<1> QED
  BY <1>1, <1>2

\* A key that is held, in a cache that is true.
LEMMA CachedShows ==
    ASSUME Sizes, CacheTrue, ~ chrDirty, cacheMode = mode, NEW k \in Key, Holding(k) # {}
    PROVE  Cached(k) \in Slot /\ pattern[Cached(k)] = Shown(k)
<1>1. Holding(k) \in SUBSET Nat
  BY DEF Holding, Slot, Sizes
<1>2. \E s \in Holding(k) : \A r \in Holding(k) : s <= r
  BY <1>1, LeastExists
<1>3. Cached(k) \in Holding(k)
  BY <1>2, Zenon DEF Cached
<1>4. Cached(k) \in Slot /\ keys[Cached(k)] = k
  BY <1>3 DEF Holding
<1>5. keys[Cached(k)] # None
  BY <1>4 DEF Sizes
<1> QED
  BY <1>4, <1>5 DEF CacheTrue, Shown

LEMMA AllocatedUnpinned ==
    ASSUME Sizes, Free # {}
    PROVE  Allocated \notin current \cup next
<1>1. Free \in SUBSET Nat
  BY DEF Free, Sizes
<1>2. \E i \in Free : \A m \in Free : i <= m
  BY <1>1, LeastExists
<1>3. PICK n \in Free : Allocated = Nth(n)
  BY <1>2, Zenon DEF Allocated
<1> QED
  BY <1>3 DEF Free
-----------------------------------------------------------------------------
\* What every step shows: a stutter, or one of the promised steps.
Promised ==
    \/ UNCHANGED <<Source, published, Screen>>
    \/ Source' \in {Off} \cup Seq(Pattern) /\ UNCHANGED <<published, Screen>>
    \/ published = None /\ published' = Source /\ UNCHANGED <<Source, Screen>>
    \/ published # None /\ Screen' = published /\ published' = None /\ UNCHANGED Source
    \/ published = None /\ Screen' = Off /\ UNCHANGED <<Source, published>>

LEMMA HandInit == Sizes /\ Init => HInv
BY DEF Init, HInv, CacheTrue, Steady, ScreenPinned, TablePinned, TableTrue, Waiting

LEMMA WritingHands ==
    ASSUME Sizes, IInv', HInv, OamDma \/ WriteChr \/ WriteControl \/ WriteMask
    PROVE  HInv' /\ Promised
<1> USE DEF Writing, cacheVars, tableVars, screenVars
<1>1. /\ phase = "idle" /\ phase' = "idle"
      /\ UNCHANGED <<cacheVars, tableVars, screenVars, ready, blanked, display, published>>
      /\ ~ chrDirty' => ~ chrDirty /\ chr' = chr
  BY DEF OamDma, WriteChr, WriteControl, WriteMask
<1>2. UNCHANGED <<Tiles, Screen>>
  BY <1>1 DEF Tiles, Screen
<1>3. CacheTrue'
  BY <1>1 DEF HInv, CacheTrue
<1>4. Steady' /\ ScreenPinned' /\ TablePinned' /\ TableTrue' /\ Waiting'
  BY <1>1, <1>2 DEF HInv, Steady, ScreenPinned, TablePinned, TableTrue, Waiting
<1>5. Source' \in {Off} \cup Seq(Pattern)
  <2>1. (Sizes /\ Typed => Source \in {Off} \cup Seq(Pattern))'
    BY SourceIsPicture, PTL
  <2> QED
    BY <2>1 DEF IInv, Sizes
<1> QED
  BY <1>1, <1>2, <1>3, <1>4, <1>5 DEF HInv, Promised

\* The fence turns the screen off; the rest of these steps shows nothing new.
LEMMA BeginsHand ==
    ASSUME Sizes, IInv, HInv, (\E fenced \in BOOLEAN : Begin(fenced)) \/ Blank \/ AskForBlank
    PROVE  HInv' /\ Promised
<1> USE DEF sourceVars, cacheVars, tableVars, screenVars, Running
<1>1. /\ ~ ready /\ UNCHANGED <<sourceVars, cacheVars, tableVars, sat, ready, published>>
      /\ phase' = "init" /\ (display' = display \/ display' = (mask # "off"))
      /\ phase = "idle" => display' = (mask # "off")
  BY DEF IInv, Control, Begin, Blank, AskForBlank
<1>2. ((on' <=> on) /\ (blanked' <=> blanked)) \/ (~ on' /\ blanked')
  <2>1. ASSUME NEW fenced \in BOOLEAN, Begin(fenced)
        PROVE  (on' <=> on /\ ~ fenced) /\ (blanked' <=> blanked \/ fenced)
    BY <2>1 DEF Begin
  <2>2. Blank => ~ on' /\ blanked'
    BY DEF Blank
  <2>3. AskForBlank => on' = on /\ blanked' = blanked
    BY DEF AskForBlank
  <2>4. ASSUME NEW fenced \in BOOLEAN, Begin(fenced)
        PROVE  ((on' <=> on) /\ (blanked' <=> blanked)) \/ (~ on' /\ blanked')
    BY <2>1, <2>4, Zenon
  <2> QED
    BY <2>2, <2>3, <2>4, Zenon
<1>3. UNCHANGED <<Tiles, Source>> /\ (UNCHANGED Screen \/ Screen' = Off)
  BY <1>1, <1>2 DEF Tiles, Source, Screen, Shown, Seen, Entry
<1>4. CacheTrue' /\ Steady' /\ TablePinned' /\ TableTrue' /\ Waiting'
  BY <1>1, <1>3 DEF HInv, CacheTrue, Steady, TablePinned, TableTrue, Waiting
<1>5. ScreenPinned'
  BY <1>1, <1>2 DEF HInv, ScreenPinned
<1> QED
  BY <1>1, <1>3, <1>4, <1>5 DEF HInv, Promised, Waiting

LEMMA CommitHands == ASSUME Sizes, NoneIsNoPicture, IInv, HInv, Commit PROVE HInv' /\ Promised
<1> USE DEF sourceVars
<1>1. ready /\ phase = "idle" /\ xt \in Seq(Slot) /\ pattern \in [Slot -> Pattern]
  BY DEF Commit, IInv, Control, Typed
<1>2. Tiles \in Seq(Pattern)
  <2>1. DOMAIN xt = 1 .. Len(xt) /\ Len(xt) \in Nat /\ \A n \in DOMAIN xt : xt[n] \in Slot
    BY <1>1, LenProperties, ElementOfSeq
  <2>2. \A n \in 1 .. Len(xt) : pattern[xt[n]] \in Pattern
    BY <1>1, <2>1
  <2>3. Tiles = [n \in 1 .. Len(xt) |-> pattern[xt[n]]]
    BY <2>1, Zenon DEF Tiles
  <2> QED
    BY <2>1, <2>2, <2>3, SeqDef
<1>3. published # None /\ published = IF display THEN Tiles ELSE Off
  BY <1>1, <1>2 DEF HInv, Waiting, NoneIsNoPicture
<1>4. Screen' = published
  <2>1. sat' = xt /\ on' = display /\ UNCHANGED pattern
    BY DEF Commit
  <2> QED
    BY <1>3, <2>1 DEF Screen, Tiles
<1>5. UNCHANGED Source
  BY DEF Commit, Source, Shown, Seen, Entry
<1>6. ScreenPinned'
  <2>1. \A n \in DOMAIN xt : xt[n] \in next
    <3>1. \A n \in DOMAIN xt : xt[n] \in Slot
      BY <1>1, LenProperties, ElementOfSeq
    <3>2. Miss \notin Slot
      BY DEF Miss, Slot, Sizes
    <3> QED
      BY <3>1, <3>2 DEF HInv, TablePinned
  <2> QED
    BY <2>1 DEF Commit, ScreenPinned
<1>7. CacheTrue' /\ Steady' /\ TablePinned' /\ TableTrue' /\ Waiting'
  BY <1>1 DEF Commit, HInv, CacheTrue, Steady, TablePinned, TableTrue, Waiting
<1> QED
  BY <1>3, <1>4, <1>5, <1>6, <1>7 DEF Commit, HInv, Promised

LEMMA StepInitHands == ASSUME Sizes, IInv, HInv, StepInit PROVE HInv' /\ Promised
<1> USE DEF sourceVars, screenVars, Prepared
<1>1. /\ phase = "init" /\ ~ ready /\ published = None /\ display = (mask # "off")
      /\ xt' = <<>> /\ DOMAIN xt' = {}
      /\ UNCHANGED <<oam, chr, mode, mask, pattern, sat, on, display, blanked>>
  <2>1. phase = "init" /\ xt' = <<>>
    BY DEF StepInit, Running
  <2>2. ~ ready
    BY <2>1 DEF IInv, Control
  <2> QED
    BY <2>1, <2>2 DEF StepInit, HInv, Waiting, Steady
<1>2. UNCHANGED <<Source, Screen>>
  BY <1>1 DEF Source, Screen, Shown, Seen, Entry
<1>3. CacheTrue'
  BY DEF StepInit, Empties, HInv, CacheTrue
<1>4. ScreenPinned'
  BY <1>1 DEF StepInit, Empties, HInv, ScreenPinned
<1>5. Steady' /\ TablePinned' /\ TableTrue'
  BY <1>1 DEF StepInit, HInv, Steady, TablePinned, TableTrue
<1>6. CASE mask = "sprites"
  BY <1>1, <1>2, <1>3, <1>4, <1>5, <1>6 DEF StepInit, HInv, Promised, Waiting
<1>7. CASE mask # "sprites"
  <2>1. ready' /\ published' = Source
    BY <1>7 DEF StepInit
  <2>2. Tiles' = <<>>
    BY <1>1 DEF Tiles
  <2>3. mask \in {"off", "background", "sprites"}
    BY DEF IInv, Typed
  <2>4. Source = IF mask = "off" THEN Off ELSE <<>>
    BY <1>7, <2>3 DEF Source
  <2>5. Waiting'
    BY <1>1, <2>1, <2>2, <2>4 DEF Waiting
  <2> QED
    BY <1>1, <1>2, <1>3, <1>4, <1>5, <2>1, <2>5 DEF HInv, Promised
<1> QED
  BY <1>6, <1>7

\* A step of a pass: it may build a pattern, not over a pinned one, and may
\* complete the table.
LEMMA PassHands ==
    ASSUME Sizes, IInv, IInv', HInv, phase \in {"a", "b"},
           UNCHANGED <<sourceVars, screenVars, display, blanked, cacheMode, current>>,
           \A s \in Slot : keys'[s] # None => pattern'[s] = Shown(keys'[s]),
           \A s \in current : pattern'[s] = pattern[s],
           \A n \in DOMAIN xt' : xt'[n] \in next' \cup {Miss},
           \A n \in DOMAIN xt' : xt'[n] # Miss => pattern'[xt'[n]] = Shown(oam[Entry(n)]),
           \/ UNCHANGED <<ready, published>> /\ phase' \in {"a", "b"}
           \/ Prepared /\ Len(xt') = Cardinality(Seen(NOam + 1))
    PROVE  HInv' /\ Promised
<1> USE DEF sourceVars, screenVars, Prepared
<1>1. /\ ~ ready /\ published = None /\ display /\ mask = "sprites" /\ ~ chrDirty
      /\ cacheMode = mode
  BY DEF IInv, Control, HInv, Steady, Waiting
<1>2. UNCHANGED Source /\ (\A n : Entry(n)' = Entry(n)) /\ \A k : Shown(k)' = Shown(k)
  BY DEF Source, Shown, Seen, Entry
<1>3. UNCHANGED Screen
  BY DEF Screen, HInv, ScreenPinned
<1>4. CacheTrue'
  BY <1>1 DEF CacheTrue, Shown
<1>5. Steady' /\ ScreenPinned' /\ TablePinned'
  BY <1>1 DEF HInv, Steady, ScreenPinned, TablePinned
<1>6. TableTrue'
  BY <1>2 DEF TableTrue
<1>7. CASE UNCHANGED <<ready, published>>
  BY <1>1, <1>2, <1>3, <1>4, <1>5, <1>6, <1>7 DEF HInv, Promised, Waiting
<1>8. CASE Prepared /\ Len(xt') = Cardinality(Seen(NOam + 1))
  <2>1. xt' \in Seq(Slot)
    BY <1>8 DEF IInv, Control
  <2>2. /\ DOMAIN xt' = 1 .. Len(xt')
        /\ \A n \in DOMAIN xt' : xt'[n] \in Slot
    BY <2>1, LenProperties, ElementOfSeq
  <2>3. Miss \notin Slot
    BY DEF Miss, Slot, Sizes
  <2>4. \A n \in DOMAIN xt' : pattern'[xt'[n]] = Shown(oam[Entry(n)])
    BY <2>2, <2>3
  <2>5. Tiles' = [n \in DOMAIN xt' |-> Shown(oam[Entry(n)])]
    BY <2>4 DEF Tiles
  <2>6. Source = [n \in 1 .. Cardinality(Seen(NOam + 1)) |-> Shown(oam[Entry(n)])]
    BY <1>1 DEF Source
  <2>7. Tiles' = Source
    BY <1>8, <2>2, <2>5, <2>6
  <2>8. Waiting'
    BY <1>1, <1>8, <2>7 DEF Waiting
  <2> QED
    BY <1>1, <1>2, <1>3, <1>4, <1>5, <1>6, <1>8, <2>8 DEF HInv, Promised
<1> QED
  BY <1>7, <1>8

\* How a pass ends.
LEMMA AfterAEnds ==
    ASSUME Sizes, IInv, Running("a"), AfterA(misses'),
           Len(xt') = count + (IF IsVisible(oam[index]) THEN 1 ELSE 0)
    PROVE  \/ UNCHANGED <<ready, published>> /\ phase' \in {"a", "b"}
           \/ Prepared /\ Len(xt') = Cardinality(Seen(NOam + 1))
<1>1. index \in 1 .. NOam /\ count = Cardinality(Seen(index))
  BY DEF IInv, Typed, Table, Running
<1>2. /\ Onward \in index + 1 .. NOam + 1
      /\ Cardinality(Seen(Onward)) = Len(xt')
  BY <1>1, OnwardStops, SeenOnward
<1>3. CASE Onward <= NOam
  BY <1>3 DEF AfterA, Running
<1>4. CASE ~ (Onward <= NOam)
  <2>1. Onward = NOam + 1
    BY <1>1, <1>2, <1>4 DEF Sizes
  <2> QED
    BY <1>2, <1>4, <2>1 DEF AfterA
<1> QED
  BY <1>3, <1>4

LEMMA AfterBEnds ==
    ASSUME IInv, Running("b"), AfterB, Len(xt') = Len(xt)
    PROVE  \/ UNCHANGED <<ready, published>> /\ phase' \in {"a", "b"}
           \/ Prepared /\ Len(xt') = Cardinality(Seen(NOam + 1))
BY DEF IInv, PassB, Running, AfterB

\* What a pass finds.
LEMMA InPass ==
    ASSUME HInv, phase \in {"a", "b"}
    PROVE  /\ ~ chrDirty /\ cacheMode = mode /\ CacheTrue
           /\ \A s \in Slot : keys[s] # None => pattern[s] = Shown(keys[s])
           /\ \A n \in DOMAIN xt : xt[n] \in next \cup {Miss}
           /\ \A n \in DOMAIN xt : xt[n] # Miss => pattern[xt[n]] = Shown(oam[Entry(n)])
BY DEF HInv, Steady, CacheTrue, TablePinned, TableTrue, Shown

LEMMA HiddenHands == ASSUME Sizes, IInv, IInv', HInv, HiddenStep PROVE HInv' /\ Promised
<1> USE DEF StepUnchanged, cacheVars, Running
<1>1. /\ phase \in {"a", "b"} /\ ~ IsVisible(oam[index])
      /\ UNCHANGED <<sourceVars, screenVars, display, blanked, cacheVars, next, xt, misses>>
  BY DEF HiddenStep, IsVisible
<1>2. \/ UNCHANGED <<ready, published>> /\ phase' \in {"a", "b"}
      \/ Prepared /\ Len(xt') = Cardinality(Seen(NOam + 1))
  <2>1. CASE Running("a") /\ AfterA(misses)
    <3>1. Len(xt') = count + 0 /\ AfterA(misses') /\ count + 0 = count
      BY <1>1, <2>1 DEF IInv, Typed, PassA, Sizes
    <3> QED
      BY <1>1, <2>1, <3>1, AfterAEnds
  <2>2. CASE Running("b") /\ AfterB
    BY <1>1, <2>2, AfterBEnds
  <2> QED
    BY <2>1, <2>2 DEF HiddenStep
<1> QED
  BY <1>1, <1>2, InPass, PassHands

LEMMA StepAHands == ASSUME Sizes, IInv, IInv', HInv, StepA PROVE HInv' /\ Promised
<1> USE DEF StepUnchanged, cacheVars
<1> DEFINE k == oam[index]
           e == IF Holding(k) # {} THEN Cached(k) ELSE Miss
<1>1. /\ Running("a") /\ phase = "a" /\ IsVisible(k) /\ AfterA(misses')
      /\ UNCHANGED <<sourceVars, screenVars, display, blanked, cacheVars>>
  BY DEF StepA, Running
<1>2. /\ index \in 1 .. NOam /\ k \in Key /\ Entry(count + 1) = index
      /\ xt \in Seq(Slot \cup {Miss}) /\ Len(xt) = count /\ DOMAIN xt = 1 .. count
  <2>1. index \in 1 .. NOam /\ count = Cardinality(Seen(index)) /\ k \in Key
    BY <1>1 DEF IInv, Typed, Table, IsVisible
  <2>2. xt \in Seq(Slot \cup {Miss}) /\ Len(xt) = count
    BY <1>1 DEF IInv, Typed, PassA
  <2> QED
    BY <1>1, <2>1, <2>2, EntryAt, LenProperties
<1>3. e = Miss \/ (e \in Slot /\ pattern[e] = Shown(k))
  <2>1. Holding(k) # {} => Cached(k) \in Slot /\ pattern[Cached(k)] = Shown(k)
    <3>1. CacheTrue /\ ~ chrDirty /\ cacheMode = mode
      BY <1>1, InPass
    <3> QED
      BY <1>2, <3>1, CachedShows
  <2>2. CASE Holding(k) # {}
    <3>1. e = Cached(k)
      BY <2>2
    <3> QED
      BY <2>1, <2>2, <3>1
  <2>3. CASE Holding(k) = {}
    BY <2>3
  <2> QED
    BY <2>2, <2>3
<1>4. xt' = Append(xt, e) /\ next' = IF e = Miss THEN next ELSE next \cup {e}
  <2>1. CASE Holding(k) # {}
    <3>1. Cached(k) # Miss
      BY <1>1, <1>2, <2>1, InPass, CachedShows DEF Miss, Slot, Sizes
    <3> QED
      BY <2>1, <3>1 DEF StepA
  <2>2. CASE Holding(k) = {}
    BY <2>2 DEF StepA
  <2> QED
    BY <2>1, <2>2
<1>5. e \in Slot \cup {Miss}
  BY <1>3
<1> HIDE DEF e, k
<1>6. /\ Len(xt') = count + 1 /\ DOMAIN xt' = 1 .. count + 1
      /\ \A n \in 1 .. count : xt'[n] = xt[n]
      /\ xt'[count + 1] = e
  <2>1. /\ xt' \in Seq(Slot \cup {Miss}) /\ Len(xt') = Len(xt) + 1
        /\ \A n \in 1 .. Len(xt) : xt'[n] = xt[n]
        /\ xt'[Len(xt) + 1] = e
    BY <1>2, <1>4, <1>5, AppendProperties
  <2> QED
    BY <1>2, <2>1, LenProperties
<1>7. ASSUME NEW n \in DOMAIN xt'
      PROVE  /\ xt'[n] \in next' \cup {Miss}
             /\ xt'[n] # Miss => pattern[xt'[n]] = Shown(oam[Entry(n)])
  <2>0. count \in Nat
    BY DEF IInv, Typed, Sizes
  <2>1. CASE n = count + 1
    BY <1>2, <1>3, <1>4, <1>6, <2>1 DEF k
  <2>2. CASE n # count + 1
    <3>1. n \in 1 .. count /\ n \in DOMAIN xt
      BY <1>2, <1>6, <1>7, <2>0, <2>2
    <3>2. /\ xt[n] \in next \cup {Miss}
          /\ xt[n] # Miss => pattern[xt[n]] = Shown(oam[Entry(n)])
      BY <1>1, <3>1, InPass
    <3> QED
      BY <1>4, <1>6, <3>1, <3>2
  <2> QED
    BY <2>1, <2>2
<1>8. \/ UNCHANGED <<ready, published>> /\ phase' \in {"a", "b"}
      \/ Prepared /\ Len(xt') = Cardinality(Seen(NOam + 1))
  BY <1>1, <1>6, AfterAEnds DEF k
<1> QED
  BY <1>1, <1>7, <1>8, InPass, PassHands

\* The missing entry is put into a slot that shows it.
LEMMA ResolvedHands ==
    ASSUME Sizes, IInv, IInv', HInv, Running("b"), IsVisible(oam[index]),
           xt[count + 1] = Miss, NEW s \in Slot, Resolved(s),
           UNCHANGED <<sourceVars, screenVars, display, blanked, cacheMode, current>>,
           \A r \in Slot : keys'[r] # None => pattern'[r] = Shown(keys'[r]),
           pattern'[s] = Shown(oam[index]),
           \A r \in current \cup next : pattern'[r] = pattern[r]
    PROVE  HInv' /\ Promised
<1>1. phase = "b" /\ xt \in Seq(Slot \cup {Miss})
  BY DEF Running, IInv, Typed
<1>2. count + 1 \in 1 .. Len(xt) /\ DOMAIN xt = 1 .. Len(xt)
  BY CursorInside
<1>3. Entry(count + 1) = index
  BY <1>1, EntryAt DEF IInv, Typed, Table
<1>4. xt' = [xt EXCEPT ![count + 1] = s] /\ next' = next \cup {s} /\ AfterB
  BY DEF Resolved
<1>5. Len(xt') = Len(xt) /\ DOMAIN xt' = DOMAIN xt
  BY <1>1, <1>2, <1>4, ExceptSeq
<1>6. ASSUME NEW n \in DOMAIN xt'
      PROVE  /\ xt'[n] \in next' \cup {Miss}
             /\ xt'[n] # Miss => pattern'[xt'[n]] = Shown(oam[Entry(n)])
  <2>1. CASE n = count + 1
    BY <1>2, <1>3, <1>4, <2>1
  <2>2. CASE n # count + 1
    <3>1. n \in DOMAIN xt /\ xt'[n] = xt[n]
      BY <1>4, <1>5, <1>6, <2>2
    <3>2. /\ xt[n] \in next \cup {Miss}
          /\ xt[n] # Miss => pattern[xt[n]] = Shown(oam[Entry(n)])
      BY <1>1, <3>1, InPass
    <3> QED
      BY <1>4, <3>1, <3>2
  <2> QED
    BY <2>1, <2>2
<1>7. \/ UNCHANGED <<ready, published>> /\ phase' \in {"a", "b"}
      \/ Prepared /\ Len(xt') = Cardinality(Seen(NOam + 1))
  BY <1>4, <1>5, AfterBEnds
<1> QED
  BY <1>1, <1>6, <1>7, PassHands

LEMMA StepBHands == ASSUME Sizes, IInv, IInv', HInv, StepB PROVE HInv' /\ Promised
<1> USE DEF StepUnchanged, cacheVars
<1> DEFINE k == oam[index]
<1>1. /\ Running("b") /\ phase = "b" /\ IsVisible(k) /\ k \in Key
      /\ UNCHANGED <<sourceVars, screenVars, display, blanked>>
  BY DEF StepB, Running, IInv, Typed, IsVisible
<1>2. CASE xt[count + 1] # Miss
  <2>1. AfterB /\ UNCHANGED <<cacheVars, next, xt>>
    BY <1>2 DEF StepB
  <2> QED
    BY <1>1, <2>1, AfterBEnds, InPass, PassHands
<1>3. CASE xt[count + 1] = Miss /\ Holding(k) # {}
  <2>1. Resolved(Cached(k)) /\ UNCHANGED cacheVars
    BY <1>3 DEF StepB
  <2>2. Cached(k) \in Slot /\ pattern[Cached(k)] = Shown(k)
    BY <1>1, <1>3, InPass, CachedShows
  <2> QED
    BY <1>1, <1>3, <2>1, <2>2, InPass, ResolvedHands
<1>4. CASE xt[count + 1] = Miss /\ Holding(k) = {} /\ Free # {}
  <2>1. Allocated \in Slot /\ Allocated \notin current \cup next
    BY <1>4, AllocatedFits, AllocatedUnpinned DEF IInv, Typed
  <2>2. /\ Resolved(Allocated)
        /\ pattern' = [pattern EXCEPT ![Allocated] = Shown(k)]
        /\ keys' = [keys EXCEPT ![Allocated] = k]
        /\ UNCHANGED <<cacheMode, current>>
    BY <1>4 DEF StepB
  <2>3. /\ keys \in [Slot -> Key \cup {None}] /\ pattern \in [Slot -> Pattern]
        /\ current \subseteq Slot /\ next \subseteq Slot
    BY DEF IInv, Typed
  <2>4. \A r \in Slot : keys'[r] # None => pattern'[r] = Shown(keys'[r])
    <3>1. \A r \in Slot : keys[r] # None => pattern[r] = Shown(keys[r])
      BY <1>1, InPass
    <3> QED
      BY <2>1, <2>2, <2>3, <3>1
  <2>5. /\ pattern'[Allocated] = Shown(k)
        /\ \A r \in current \cup next : pattern'[r] = pattern[r]
    BY <2>1, <2>2, <2>3
  <2> QED
    BY <1>1, <1>4, <2>1, <2>2, <2>4, <2>5, ResolvedHands
<1>5. CASE xt[count + 1] = Miss /\ Holding(k) = {} /\ Free = {}
  <2>1. /\ phase' = "init" \/ (phase' = "b" /\ halted')
        /\ UNCHANGED <<cacheVars, tableVars, ready, published>>
    <3>1. \/ halted' = TRUE /\ UNCHANGED <<phase, asked>>
          \/ phase' = "init" /\ asked' = TRUE /\ UNCHANGED halted
      BY <1>5 DEF StepB
    <3>2. UNCHANGED <<cacheVars, tableVars, ready, published>>
      <4> HIDE DEF cacheVars
      <4> QED
        BY <1>5 DEF StepB
    <3>3. phase' = "init" \/ (phase' = "b" /\ halted')
      <4>1. UNCHANGED <<phase, asked>> => phase' = "b"
        BY <1>1
      <4> QED
        BY <3>1, <4>1, Zenon
    <3> QED
      BY <3>2, <3>3, Zenon
  <2>2. phase' = "init"
    BY <2>1 DEF IInv, Control
  <2> USE DEF tableVars, sourceVars, screenVars
  <2>3. UNCHANGED <<Source, Screen, Tiles>>
    BY <1>1, <2>1 DEF Source, Screen, Tiles, Shown, Seen, Entry
  <2>4. HInv'
    BY <1>1, <2>1, <2>2, <2>3 DEF HInv, CacheTrue, Steady, ScreenPinned, TablePinned, TableTrue, Waiting
  <2> QED
    BY <2>1, <2>3, <2>4 DEF Promised
<1> QED
  BY <1>2, <1>3, <1>4, <1>5

LEMMA HandStep ==
    ASSUME Sizes, NoneIsNoPicture
    PROVE  IInv /\ IInv' /\ HInv /\ [Next]_vars => HInv' /\ Promised
<1> SUFFICES ASSUME IInv, IInv', HInv, [Next]_vars PROVE HInv' /\ Promised
  OBVIOUS
<1>1. CASE OamDma \/ WriteChr \/ WriteControl \/ WriteMask
  BY <1>1, WritingHands
<1>2. CASE (\E fenced \in BOOLEAN : Begin(fenced)) \/ Blank \/ AskForBlank
  BY <1>2, BeginsHand
<1>3. CASE StepInit
  BY <1>3, StepInitHands
<1>4. CASE HiddenStep
  BY <1>4, HiddenHands
<1>5. CASE StepA
  BY <1>5, StepAHands
<1>6. CASE StepB
  BY <1>6, StepBHands
<1>7. CASE Commit
  BY <1>7, CommitHands
<1>8. CASE UNCHANGED vars
  <2> USE DEF vars, sourceVars, cacheVars, tableVars, screenVars
  <2>1. UNCHANGED <<Source, published, Screen, Tiles>>
    BY <1>8 DEF Source, Screen, Tiles, Shown, Seen, Entry
  <2>2. (\A n : Entry(n)' = Entry(n)) /\ \A k : Shown(k)' = Shown(k)
    BY <1>8 DEF Shown, Seen, Entry
  <2>3. CacheTrue' /\ Steady' /\ ScreenPinned' /\ TablePinned'
    BY <1>8 DEF HInv, CacheTrue, Steady, ScreenPinned, TablePinned
  <2>4. TableTrue' /\ Waiting'
    BY <1>8, <2>1, <2>2 DEF HInv, TableTrue, Waiting
  <2> QED
    BY <2>1, <2>3, <2>4 DEF HInv, Promised
<1> QED
  BY <1>1, <1>2, <1>3, <1>4, <1>5, <1>6, <1>7, <1>8 DEF Next

\* The sprites on the screen are those of a prepared frame, whole and with the
\* patterns their tiles had then, or the screen is dark: the preparation and
\* the commit of runtime/sat_cv1.s:299-1105 implement the hand-over.
THEOREM SpritesImplementHandover ==
    ASSUME Sizes, NoneIsNoPicture
    PROVE  Spec => HandoverSpec
<1>1. Init => HInv
  BY HandInit
<1>2. IInv /\ IInv' /\ HInv /\ [Next]_vars => HInv' /\ Promised
  BY HandStep
<1>3. Init => Hand!Init
  <2> SUFFICES ASSUME Init PROVE Hand!Init
    OBVIOUS
  <2>1. Source \in {Off} \cup Seq(Pattern)
    BY InitOK, SourceIsPicture DEF IInv
  <2> QED
    BY <2>1 DEF Init, Hand!Init
<1>4. Promised => [Hand!Next]_(Hand!vars)
  BY DEF Promised, Screen, Hand!Next, Hand!vars, Hand!Edit, Hand!Publish, Hand!Show, Hand!TurnOff
<1> QED
  BY <1>1, <1>2, <1>3, <1>4, Invariance, PTL DEF Spec, HandoverSpec, Hand!Spec
=============================================================================
