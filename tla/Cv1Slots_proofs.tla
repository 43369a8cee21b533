-------------------------- MODULE Cv1Slots_proofs --------------------------
(***************************************************************************)
(* Proofs about the slots of the background: for any number of cells,      *)
(* slots and records, the metadata counts exactly, what the cache says of  *)
(* a slot is true, and the pool gives up only on too many pairs.           *)
(*                                                                         *)
(* Both copies of the metadata are exact at all times, since each change   *)
(* of a cell is counted (Exact).  A pair that is cached is named by its    *)
(* slot (Named), so a slot that is taken over has left the cache before it *)
(* is drawn into.  During a full drawing every pinned slot holds a pair of *)
(* the window, each another one (Pinned), and the allocator has tried all  *)
(* slots it has passed (Probed).                                           *)
(***************************************************************************)
EXTENDS Cv1Slots, FiniteSetTheorems, SequenceTheorems, TLAPS

Flags == {"nt", "attr"} \cup Table

SourceType ==
    /\ base \in [World -> Base] /\ attr \in [Attr -> Sub] /\ chr \in [Table \X Base -> Bits]
    /\ dirty \in SUBSET World /\ attrDirty \in SUBSET Attr
    /\ chrDirty \in SUBSET (Table \X Base) /\ flags \in SUBSET Flags
    /\ window \in World /\ table \in Table /\ writes \in 0 .. MaxWrites
FrozenType ==
    /\ frozen \in SUBSET World /\ attrFrozen \in SUBSET Attr
    /\ chrFrozen \in SUBSET (Table \X Base) /\ frozenFlags \in SUBSET Flags
    /\ nextTable \in Table /\ nextWindow \in World
WorkType ==
    scan \in 0 .. 2 * NCols /\ cell \in Folded /\ key \in Key /\ slot \in Slot
PoolType ==
    /\ alloc \in Slot /\ probes \in 0 .. NSlots /\ pins \in SUBSET Slot
    /\ cache \in [Key -> Slot \cup {None}] /\ rev \in [Slot -> Key \cup {None}]
QueueType ==
    /\ full \in BOOLEAN /\ copied \in BOOLEAN
    /\ packet \in Seq(Record) /\ index \in [Folded -> 0 .. MaxRecords]
MetaType ==
    /\ selector \in 0 .. 1
    /\ shadow \in [0 .. 1 -> [Folded -> Slot \cup {None}]]
    /\ count \in [0 .. 1 -> [Slot -> 0 .. NCols]]
ScreenType ==
    /\ pattern \in [Slot -> Pattern] /\ nt \in [Folded -> Slot]
    /\ curTable \in Table /\ curWindow \in World /\ init \in BOOLEAN
    /\ displayOn \in BOOLEAN
HandType == ready \in BOOLEAN /\ published \in Picture \cup {None}

Types ==
    /\ SourceType /\ phase \in Phase /\ FrozenType /\ WorkType /\ PoolType /\ QueueType
    /\ MetaType /\ ScreenType /\ HandType

\* Both copies count their cells, whatever the phase.
Exact == \A i \in 0 .. 1, s \in Slot : count[i][s] = Cells(shadow[i], s)

\* A slot is worked on for the cell.
Cell == {"resolve", "allocate", "build", "queue"}
Preparing ==
    {"invalidate", "scroll", "attributes", "scan", "copy", "finish", "prepared"} \cup Cell

\* What a full drawing is, and what an incremental one relies on.
Control ==
    /\ ready => phase = "idle"
    /\ full => phase \in {"reset", "fullscan", "finish", "prepared", "idle", "failed"} \cup Cell
    /\ phase \in {"reset", "fullscan", "failed"} => full
    /\ full /\ phase # "idle" => copied
    /\ full /\ phase \in {"fullscan"} \cup Cell => scan <= NCols
    /\ ~ full /\ (ready \/ phase \in Preparing) => nextTable = curTable
    /\ full /\ phase = "idle" /\ ~ ready => nextTable = curTable

\* A dirty tile has raised the flag of its table.
Flagged == \A p \in chrDirty : p[1] \in flags

Named == \A k \in Key : cache[k] # None => rev[cache[k]] = k

\* The allocator has tried the slots it has passed.
Passed ==
    {s \in Slot : \/ s < alloc /\ alloc - s <= probes
                  \/ s >= alloc /\ alloc - s + NSlots <= probes}
Probed == phase = "allocate" => probes < NSlots /\ \A s \in Passed : ~ Free(s)

\* The slot that is drawn into is nobody's, and its pair has none.
Reserved ==
    /\ phase \in {"allocate", "build"} => cache[key] = None
    /\ phase = "build" => \A k \in Key : cache[k] # slot

WindowPairs ==
    {<<base[c], attr[c \div AttrSpan]>> : c \in {FoldToRaw(nextWindow, f) : f \in Folded}}

\* In a full drawing a pinned slot has a pair of the window.
Pinned ==
    /\ phase = "reset" => selector = 0
    /\ full /\ phase \in {"fullscan"} \cup Cell =>
          /\ selector = 0 /\ \A s \in Slot : count[0][s] = 0
          /\ key \in WindowPairs \/ phase \in {"fullscan", "queue"}
          /\ \A s \in pins :
                \/ phase = "build" /\ s = slot
                \/ rev[s] \in WindowPairs /\ cache[rev[s]] = s

IInv ==
    /\ Types /\ Exact /\ Control /\ Flagged /\ Named /\ Probed /\ Reserved /\ Pinned
    /\ CacheCurrent /\ FailsOnlyFull
-----------------------------------------------------------------------------
(* Arithmetic of columns and slots.                                         *)

LEMMA ModRange ==
    ASSUME NEW x \in Int, NEW n \in Nat \ {0}
    PROVE  x % n \in 0 .. n - 1
OBVIOUS

LEMMA ModSmall ==
    ASSUME NEW n \in Nat \ {0}, NEW x \in 0 .. n - 1
    PROVE  x % n = x
OBVIOUS

LEMMA ModSelf ==
    ASSUME NEW n \in Nat \ {0}
    PROVE  n % n = 0
OBVIOUS

LEMMA ModUnique ==
    ASSUME NEW x \in Int, NEW n \in Nat \ {0}, NEW q \in Int, NEW r \in 0 .. n - 1, x = q * n + r
    PROVE  x % n = r
OBVIOUS

\* The allocator goes round.
LEMMA NextInRing ==
    ASSUME NEW x \in Slot
    PROVE  (x + 1) % NSlots = IF x = NSlots - 1 THEN 0 ELSE x + 1
BY SizeAssumption, ModSmall, ModSelf DEF Slot

LEMMA RawInWorld ==
    ASSUME NEW w \in World, NEW f \in Folded
    PROVE  FoldToRaw(w, f) \in World
<1>1. NCols \in Nat \ {0} /\ 2 * NCols \in Nat \ {0} /\ f - w \in Int
  BY SizeAssumption DEF World, Folded
<1>2. (f - w) % NCols \in 0 .. NCols - 1
  BY <1>1, ModRange
<1>3. w + ((f - w) % NCols) \in Int
  BY <1>1, <1>2 DEF World
<1> QED
  BY <1>1, <1>3, ModRange DEF FoldToRaw, World

LEMMA ColumnInFolded ==
    ASSUME NEW c \in World
    PROVE  c % NCols \in Folded
<1>1. c \in Int /\ NCols \in Nat \ {0}
  BY SizeAssumption DEF World
<1> QED
  BY <1>1, ModRange DEF Folded

LEMMA SourceIsPicture == SourceType => Source \in Picture
<1> SUFFICES ASSUME SourceType PROVE Source \in Picture
  OBVIOUS
<1>1. \A f \in Folded :
        LET c == FoldToRaw(window, f)
        IN  <<chr[<<table, base[c]>>], attr[c \div AttrSpan]>> \in Pattern
  <2> SUFFICES ASSUME NEW f \in Folded,
                      NEW c \in World, c = FoldToRaw(window, f)
               PROVE  <<chr[<<table, base[c]>>], attr[c \div AttrSpan]>> \in Pattern
    BY RawInWorld DEF SourceType
  <2>1. c \div AttrSpan \in Attr
    BY DEF Attr
  <2> QED
    BY <2>1 DEF SourceType, Pattern
<1> QED
  BY <1>1 DEF Source, Picture, SourceType
-----------------------------------------------------------------------------
(* Counting.                                                                *)

LEMMA FoldedFinite == IsFiniteSet(Folded) /\ Cardinality(Folded) = NCols
<1>1. IsFiniteSet(0 .. NCols - 1) /\ Cardinality(0 .. NCols - 1) = NCols
  BY SizeAssumption, FS_Interval
<1> QED
  BY <1>1 DEF Folded

LEMMA CellsRange ==
    ASSUME NEW m, NEW s
    PROVE  /\ IsFiniteSet({f \in Folded : m[f] = s})
           /\ Cells(m, s) \in 0 .. NCols
<1>1. {f \in Folded : m[f] = s} \in SUBSET Folded
  OBVIOUS
<1>2. /\ IsFiniteSet({f \in Folded : m[f] = s})
      /\ Cardinality({f \in Folded : m[f] = s}) <= NCols
  BY <1>1, FoldedFinite, FS_Subset
<1>3. Cardinality({f \in Folded : m[f] = s}) \in Nat
  BY <1>2, FS_CardinalityType
<1> QED
  BY <1>2, <1>3, SizeAssumption DEF Cells

LEMMA NoCells ==
    ASSUME NEW s \in Slot
    PROVE  Cells(EmptyShadow, s) = 0
<1>1. {f \in Folded : EmptyShadow[f] = s} = {}
  BY ValueAssumption DEF EmptyShadow
<1> QED
  BY <1>1, FS_EmptySet DEF Cells

\* A cell that turns to another slot is taken from one count and added to
\* the other.
LEMMA Recounted ==
    ASSUME NEW m \in [Folded -> Slot \cup {None}], NEW c \in Folded, NEW new \in Slot,
           NEW n \in [Slot -> 0 .. NCols], \A s \in Slot : n[s] = Cells(m, s)
    PROVE  /\ \A s \in Slot : Recount(n, m[c], new)[s] = Cells([m EXCEPT ![c] = new], s)
           /\ Recount(n, m[c], new) \in [Slot -> 0 .. NCols]
<1> DEFINE mm == [m EXCEPT ![c] = new]
           Before(s) == {f \in Folded : m[f] = s}
           After(s) == {f \in Folded : mm[f] = s}
<1>1. ASSUME NEW s \in Slot PROVE Recount(n, m[c], new)[s] = Cells(mm, s)
  <2>1. Recount(n, m[c], new)[s] =
          n[s] + (IF s = new THEN 1 ELSE 0) - (IF s = m[c] THEN 1 ELSE 0)
    BY DEF Recount
  <2>2. n[s] = Cardinality(Before(s)) /\ n[s] \in Int /\ IsFiniteSet(Before(s))
    <3>1. IsFiniteSet({f \in Folded : m[f] = s})
      BY CellsRange
    <3>2. n[s] \in Int
      BY SizeAssumption
    <3> QED
      BY <3>1, <3>2 DEF Cells
  <2>3. CASE s = new /\ s = m[c]
    <3>1. After(s) = Before(s)
      BY <2>3
    <3> QED
      BY <2>1, <2>2, <2>3, <3>1 DEF Cells
  <2>4. CASE s = new /\ s # m[c]
    <3>1. After(s) = Before(s) \cup {c} /\ c \notin Before(s)
      BY <2>4
    <3>2. Cardinality(Before(s) \cup {c}) = Cardinality(Before(s)) + 1
      BY <2>2, <3>1, FS_AddElement
    <3> QED
      BY <2>1, <2>2, <2>4, <3>1, <3>2 DEF Cells
  <2>5. CASE s # new /\ s = m[c]
    <3>1. After(s) = Before(s) \ {c} /\ c \in Before(s)
      BY <2>5
    <3>2. Cardinality(Before(s) \ {c}) = Cardinality(Before(s)) - 1
      BY <2>2, <3>1, FS_RemoveElement
    <3>3. Cells(mm, s) = n[s] - 1
      BY <2>2, <3>1, <3>2 DEF Cells
    <3>4. Recount(n, m[c], new)[s] = n[s] - 1
      BY <2>1, <2>2, <2>5
    <3> QED
      BY <3>3, <3>4
  <2>6. CASE s # new /\ s # m[c]
    <3>1. After(s) = Before(s)
      BY <2>6
    <3> QED
      BY <2>1, <2>2, <2>6, <3>1 DEF Cells
  <2> QED
    BY <2>3, <2>4, <2>5, <2>6
<1>2. \A s \in Slot : Cells(mm, s) \in 0 .. NCols
  BY CellsRange
<1>3. DOMAIN Recount(n, m[c], new) = Slot
      /\ Recount(n, m[c], new) = [s \in Slot |-> Recount(n, m[c], new)[s]]
  BY DEF Recount
<1> QED
  BY <1>1, <1>2, <1>3
-----------------------------------------------------------------------------
(* Every step keeps the types.                                              *)

LEMMA TypesKept ==
    /\ SourceType /\ UNCHANGED sourceVars => SourceType'
    /\ FrozenType /\ UNCHANGED frozenVars => FrozenType'
    /\ WorkType /\ UNCHANGED workVars => WorkType'
    /\ PoolType /\ UNCHANGED poolVars => PoolType'
    /\ QueueType /\ UNCHANGED queueVars => QueueType'
    /\ MetaType /\ UNCHANGED metaVars => MetaType'
    /\ ScreenType /\ UNCHANGED screenVars => ScreenType'
    /\ HandType /\ UNCHANGED handVars => HandType'
BY DEF SourceType, FrozenType, WorkType, PoolType, QueueType, MetaType, ScreenType, HandType,
       sourceVars, frozenVars, workVars, poolVars, queueVars, metaVars, screenVars, handVars

LEMMA ProduceTypes == ASSUME Types, Produce PROVE Types'
<1>1. SourceType' /\ UNCHANGED phase
  <2>1. ASSUME NEW c \in World, NEW b \in Base, WriteTile(c, b) PROVE SourceType' /\ UNCHANGED phase
    BY <2>1, SizeAssumption DEF WriteTile, Writing, Types, SourceType, Flags
  <2>2. ASSUME NEW a \in Attr, NEW s \in Sub, WriteAttr(a, s) PROVE SourceType' /\ UNCHANGED phase
    BY <2>2, SizeAssumption DEF WriteAttr, Writing, Types, SourceType, Flags
  <2>3. ASSUME NEW t \in Table, NEW b \in Base, NEW v \in Bits, WriteChr(t, b, v)
        PROVE  SourceType' /\ UNCHANGED phase
    <3>1. <<t, b>> \in Table \X Base /\ t \in Flags
      BY DEF Flags
    <3>2. /\ chr' \in [Table \X Base -> Bits] /\ chrDirty' \in SUBSET (Table \X Base)
          /\ flags' \in SUBSET Flags
      BY <2>3, <3>1 DEF WriteChr, Types, SourceType
    <3>3. writes' \in 0 .. MaxWrites
      BY <2>3, SizeAssumption DEF WriteChr, Writing, Types, SourceType
    <3> QED
      BY <2>3, <3>2, <3>3 DEF WriteChr, Types, SourceType
  <2>4. ASSUME NEW w \in World, NEW t \in Table, WriteControl(w, t)
        PROVE  SourceType' /\ UNCHANGED phase
    BY <2>4, SizeAssumption DEF WriteControl, Writing, Types, SourceType, Flags
  <2> QED
    BY <2>1, <2>2, <2>3, <2>4 DEF Produce
<1>2. UNCHANGED <<frozenVars, workVars, poolVars, queueVars, metaVars, screenVars, handVars>>
  BY DEF Produce, WriteTile, WriteAttr, WriteChr, WriteControl
<1> QED
  BY <1>1, <1>2, TypesKept DEF Types

LEMMA BeginTypes == ASSUME Types, Begin PROVE Types'
<1>1. QueueType'
  BY EmptySeq DEF Begin, Types, QueueType
<1>2. FrozenType'
  BY DEF Begin, Types, FrozenType, SourceType
<1>3. phase' \in Phase
  BY DEF Begin, Phase
<1> QED
  BY <1>1, <1>2, <1>3, TypesKept DEF Begin, Types

LEMMA FreezeTypes == ASSUME Types, Freeze PROVE Types'
<1>1. SourceType'
  BY DEF Freeze, Types, SourceType
<1>2. FrozenType'
  BY DEF Freeze, Types, FrozenType, SourceType
<1>3. PoolType'
  BY DEF Freeze, Types, PoolType
<1>4. phase' \in Phase
  BY DEF Freeze, RequestFull, Phase
<1> QED
  BY <1>1, <1>2, <1>3, <1>4, TypesKept DEF Freeze, Types

LEMMA InvalidateTypes == ASSUME Types, Invalidate PROVE Types'
<1>1. FrozenType'
  <2>1. \A f \in Folded : FoldToRaw(nextWindow, f) \in World
    BY RawInWorld DEF Types, FrozenType
  <2>2. frozen' \in SUBSET World
    BY <2>1 DEF Invalidate, Types, FrozenType
  <2>3. frozenFlags' \in SUBSET Flags
    BY DEF Invalidate, Types, FrozenType, Flags
  <2> QED
    BY <2>2, <2>3 DEF Invalidate, Types, FrozenType
<1>2. PoolType'
  BY DEF Invalidate, Types, PoolType
<1>3. phase' \in Phase
  BY DEF Invalidate, Phase
<1> QED
  BY <1>1, <1>2, <1>3, TypesKept DEF Invalidate, Types

LEMMA ScrollTypes == ASSUME Types, Scroll PROVE Types'
<1>1. Exposed \in SUBSET World
  <2>1. 2 * NCols \in Nat \ {0} /\ NCols \in Nat
    BY SizeAssumption
  <2>2. nextWindow \in Int /\ curWindow \in Int
    BY DEF Types, FrozenType, ScreenType, World
  <2>3. Advance \in 0 .. 2 * NCols - 1
    BY <2>1, <2>2, ModRange DEF Advance
  <2>4. \A i \in Int : /\ (curWindow + NCols + i) % (2 * NCols) \in World
                       /\ (nextWindow + i) % (2 * NCols) \in World
    BY <2>1, <2>2, ModRange DEF World
  <2> QED
    BY <2>1, <2>3, <2>4 DEF Exposed
<1>2. FrozenType'
  BY <1>1 DEF Scroll, Types, FrozenType, Flags
<1>3. phase' \in Phase
  BY DEF Scroll, RequestFull, Phase
<1> QED
  BY <1>2, <1>3, TypesKept DEF Scroll, Types

LEMMA AttributesTypes == ASSUME Types, Attributes PROVE Types'
<1>1. FrozenType'
  BY DEF Attributes, Types, FrozenType
<1>2. WorkType'
  BY SizeAssumption DEF Attributes, Types, WorkType
<1>3. phase' \in Phase
  BY DEF Attributes, Phase
<1> QED
  BY <1>1, <1>2, <1>3, TypesKept DEF Attributes, Types

LEMMA LoadTypes ==
    ASSUME Types, NEW c \in World, LoadCell(c)
    PROVE  cell' \in Folded /\ key' \in Key /\ phase' = "resolve"
BY ColumnInFolded DEF LoadCell, Types, SourceType, Attr, Key

LEMMA DirtyScanTypes == ASSUME Types, DirtyScan PROVE Types'
<1>1. WorkType' /\ phase' \in Phase
  <2>1. CASE Due = {}
    BY <2>1 DEF DirtyScan, Types, WorkType, Phase
  <2>2. CASE Due # {}
    <3>1. PICK c \in Due : LoadCell(c) /\ scan' = c + 1
      BY <2>2 DEF DirtyScan
    <3>2. c \in World
      BY DEF Due, Types, FrozenType
    <3>3. cell' \in Folded /\ key' \in Key /\ phase' = "resolve"
      BY <3>1, <3>2, LoadTypes
    <3>4. scan' \in 0 .. 2 * NCols
      BY <3>1, <3>2, SizeAssumption DEF World
    <3> QED
      BY <3>3, <3>4 DEF DirtyScan, Types, WorkType, Phase
  <2> QED
    BY <2>1, <2>2
<1> QED
  BY <1>1, TypesKept DEF DirtyScan, Types

LEMMA FullScanTypes == ASSUME Types, Control, FullScan PROVE Types'
<1>1. WorkType' /\ phase' \in Phase
  <2>1. CASE scan = NCols
    BY <2>1 DEF FullScan, Types, WorkType, Phase
  <2>2. CASE scan # NCols
    <3>1. scan \in Folded /\ scan' \in 0 .. 2 * NCols
      BY <2>2, SizeAssumption DEF FullScan, Control, Types, WorkType, Folded
    <3>2. FoldToRaw(nextWindow, scan) \in World
      BY <3>1, RawInWorld DEF Types, FrozenType
    <3>3. cell' \in Folded /\ key' \in Key /\ phase' = "resolve"
      BY <2>2, <3>2, LoadTypes DEF FullScan
    <3> QED
      BY <3>1, <3>3 DEF FullScan, Types, WorkType, Phase
  <2> QED
    BY <2>1, <2>2
<1> QED
  BY <1>1, TypesKept DEF FullScan, Types

LEMMA ResolvedTypes ==
    ASSUME Types, NEW s \in Slot, Resolved(s)
    PROVE  slot' = s /\ pins' \in SUBSET Slot /\ phase' \in Phase
BY DEF Resolved, NextCell, Types, PoolType, Phase

LEMMA ResolveTypes == ASSUME Types, Resolve PROVE Types'
<1>1. WorkType' /\ PoolType' /\ phase' \in Phase
  <2>1. CASE cache[key] # None
    <3>1. cache[key] \in Slot /\ Resolved(cache[key]) /\ UNCHANGED probes
      BY <2>1 DEF Resolve, Types, PoolType, WorkType
    <3>2. slot' \in Slot /\ pins' \in SUBSET Slot /\ phase' \in Phase
      BY <3>1, ResolvedTypes
    <3> QED
      BY <3>1, <3>2 DEF Resolve, Types, WorkType, PoolType
  <2>2. CASE cache[key] = None
    <3>1. probes' \in 0 .. NSlots /\ phase' \in Phase /\ UNCHANGED <<slot, pins>>
      BY <2>2, SizeAssumption DEF Resolve, Phase
    <3> QED
      BY <3>1 DEF Resolve, Types, WorkType, PoolType
  <2> QED
    BY <2>1, <2>2
<1> QED
  BY <1>1, TypesKept DEF Resolve, Types

LEMMA AllocateTypes == ASSUME Types, Probed, Allocate PROVE Types'
<1>1. alloc' \in Slot /\ slot' \in Slot
  <2>1. alloc \in Slot /\ alloc' = (alloc + 1) % NSlots /\ slot' = alloc
    BY DEF Allocate, Types, PoolType
  <2> QED
    BY <2>1, NextInRing, SizeAssumption DEF Slot
<1>2. cache' \in [Key -> Slot \cup {None}]
  BY DEF Allocate, Forget, Types, PoolType
<1>3. /\ probes' \in 0 .. NSlots /\ pins' \in SUBSET Slot
  BY SizeAssumption DEF Allocate, Probed, Types, PoolType
<1>4. phase' \in Phase
  BY DEF Allocate, RequestFull, Phase
<1>5. WorkType' /\ PoolType'
  BY <1>1, <1>2, <1>3 DEF Allocate, Types, WorkType, PoolType
<1> QED
  BY <1>4, <1>5, TypesKept DEF Allocate, Types

LEMMA BuildTypes == ASSUME Types, Build PROVE Types'
<1>1. slot' = slot /\ pins' \in SUBSET Slot /\ phase' \in Phase
  BY ResolvedTypes DEF Build, Types, WorkType
<1>2. key \in Base \X Sub /\ <<chr[<<nextTable, key[1]>>], key[2]>> \in Pattern
  BY DEF Types, SourceType, FrozenType, WorkType, Key, Pattern
<1>3. PoolType' /\ WorkType' /\ ScreenType'
  BY <1>1, <1>2 DEF Build, Types, PoolType, WorkType, ScreenType
<1> QED
  BY <1>1, <1>3, TypesKept DEF Build, Types

LEMMA CopyTypes == ASSUME Types, Copy PROVE Types'
<1>1. MetaType' /\ QueueType' /\ phase' \in Phase
  BY DEF Copy, NextCopy, Current, CurrentCount, Types, MetaType, QueueType, Phase
<1> QED
  BY <1>1, TypesKept DEF Copy, Types

LEMMA NoteTypes ==
    ASSUME Types, Exact, Note
    PROVE  MetaType' /\ ScreenType' /\ phase' \in Phase /\ Exact'
<1> DEFINE old == shadow[NextCopy]
           n == count[NextCopy]
<1>1. /\ NextCopy \in 0 .. 1 /\ cell \in Folded /\ slot \in Slot
      /\ old \in [Folded -> Slot \cup {None}] /\ n \in [Slot -> 0 .. NCols]
      /\ \A s \in Slot : n[s] = Cells(old, s)
  BY DEF NextCopy, Types, MetaType, WorkType, Exact
<1>2. /\ \A s \in Slot :
            Recount(n, old[cell], slot)[s] = Cells([old EXCEPT ![cell] = slot], s)
      /\ Recount(n, old[cell], slot) \in [Slot -> 0 .. NCols]
  BY <1>1, Recounted
<1>3. /\ shadow' = [shadow EXCEPT ![NextCopy] = [old EXCEPT ![cell] = slot]]
      /\ count' = [count EXCEPT ![NextCopy] = Recount(n, old[cell], slot)]
      /\ UNCHANGED <<selector, pattern, curTable, curWindow, init, displayOn>>
  BY DEF Note
<1>4. [old EXCEPT ![cell] = slot] \in [Folded -> Slot \cup {None}]
  BY <1>1
<1> HIDE DEF old, n
<1>5. MetaType'
  BY <1>1, <1>2, <1>3, <1>4 DEF Types, MetaType
<1>6. Exact'
  BY <1>1, <1>2, <1>3 DEF Types, MetaType, Exact
<1>7. ScreenType' /\ phase' \in Phase
  BY <1>1, <1>3 DEF Note, NextCell, Types, ScreenType, Phase
<1> QED
  BY <1>5, <1>6, <1>7

LEMMA QueueTypes == ASSUME Types, Exact, Queue PROVE Types' /\ Exact'
<1>1. packet \in Seq(Record) /\ slot \in Slot /\ cell \in Folded /\ Len(packet) \in Nat
  BY LenProperties DEF Types, QueueType, WorkType
<1>2. CASE full
  <2>1. Note /\ UNCHANGED <<packet, index, full, copied>>
    BY <1>2 DEF Queue
  <2>2. MetaType' /\ ScreenType' /\ phase' \in Phase /\ Exact'
    BY <2>1, NoteTypes
  <2> QED
    BY <2>1, <2>2, TypesKept DEF Queue, queueVars, Types
<1>3. CASE ~ full /\ index[cell] # 0
  <2>1. /\ Note /\ UNCHANGED <<index, full, copied>>
        /\ packet' = [packet EXCEPT ![index[cell]].slot = slot]
    BY <1>3 DEF Queue
  <2>2. MetaType' /\ ScreenType' /\ phase' \in Phase /\ Exact'
    BY <2>1, NoteTypes
  <2>3. packet' \in Seq(Record)
    <3>1. CASE index[cell] \in 1 .. Len(packet)
      <4>1. [packet[index[cell]] EXCEPT !.slot = slot] \in Record
        <5>1. packet[index[cell]] \in Record
          BY <1>1, <3>1, ElementOfSeq
        <5>2. \A r \in Record : [r EXCEPT !.slot = slot] \in Record
          BY <1>1 DEF Record
        <5> QED
          BY <5>1, <5>2
      <4> QED
        BY <1>1, <2>1, <3>1, <4>1, ExceptSeq
    <3>2. CASE index[cell] \notin 1 .. Len(packet)
      <4>1. packet \in [1 .. Len(packet) -> Record]
        BY <1>1, LenProperties
      <4>2. packet' = packet
        BY <2>1, <3>2, <4>1
      <4> QED
        BY <1>1, <4>2
    <3> QED
      BY <3>1, <3>2
  <2>4. QueueType'
    BY <2>1, <2>3 DEF Types, QueueType
  <2> QED
    BY <2>1, <2>2, <2>4, TypesKept DEF Queue, Types
<1>4. CASE ~ full /\ index[cell] = 0 /\ Room
  <2>1. /\ Note /\ UNCHANGED <<full, copied>>
        /\ packet' = Append(packet, [cell |-> cell, slot |-> slot])
        /\ index' = [index EXCEPT ![cell] = Len(packet) + 1]
    BY <1>4 DEF Queue
  <2>2. MetaType' /\ ScreenType' /\ phase' \in Phase /\ Exact'
    BY <2>1, NoteTypes
  <2>3. packet' \in Seq(Record)
    <3>1. [cell |-> cell, slot |-> slot] \in Record
      BY <1>1 DEF Record
    <3> QED
      BY <1>1, <2>1, <3>1, AppendProperties
  <2>4. index' \in [Folded -> 0 .. MaxRecords]
    BY <1>1, <1>4, <2>1, SizeAssumption DEF Room, Types, QueueType
  <2> QED
    BY <2>1, <2>2, <2>3, <2>4, TypesKept DEF Queue, Types, QueueType
<1>5. CASE ~ full /\ index[cell] = 0 /\ ~ Room
  <2>1. RequestFull /\ UNCHANGED <<packet, index, metaVars, screenVars, full, copied>>
    BY <1>5 DEF Queue
  <2>2. phase' \in Phase
    BY <2>1 DEF RequestFull, Phase
  <2> QED
    BY <2>1, <2>2, TypesKept DEF Queue, Types, Exact, queueVars, metaVars
<1> QED
  BY <1>2, <1>3, <1>4, <1>5 DEF Types, QueueType

LEMMA BlankedTypes == ASSUME Types, Blanked PROVE Types'
<1>1. PoolType' /\ MetaType' /\ ScreenType'
  <2>1. 0 \in Slot
    BY SizeAssumption DEF Slot
  <2>2. PoolType'
    BY <2>1 DEF Blanked, Types, PoolType
  <2>3. MetaType'
    BY DEF Blanked, Types, MetaType
  <2>4. ScreenType'
    BY DEF Blanked, Types, ScreenType
  <2> QED
    BY <2>2, <2>3, <2>4
<1>2. QueueType' /\ phase' \in Phase
  BY EmptySeq DEF Blanked, Types, QueueType, Phase
<1> QED
  BY <1>1, <1>2, TypesKept DEF Blanked, Types

LEMMA ResetTypes == ASSUME Types, Reset PROVE Types' /\ Exact'
<1>1. SourceType' /\ WorkType' /\ phase' \in Phase
  BY SizeAssumption DEF Reset, Types, SourceType, WorkType, Phase
<1>2. PoolType'
  BY DEF Reset, ResetPool, EmptyCache, EmptyRev, Types, PoolType
<1>3. QueueType'
  BY SizeAssumption DEF Reset, EmptyIndex, Types, QueueType
<1>4. MetaType'
  BY SizeAssumption DEF Reset, EmptyShadow, EmptyCount, Types, MetaType
<1>5. Exact'
  <2> SUFFICES ASSUME NEW i \in 0 .. 1, NEW s \in Slot
               PROVE  count'[i][s] = Cells(shadow'[i], s)
    BY DEF Exact
  <2>1. shadow'[i] = EmptyShadow /\ count'[i][s] = 0
    BY DEF Reset, EmptyCount
  <2> QED
    BY <2>1, NoCells
<1> QED
  BY <1>1, <1>2, <1>3, <1>4, <1>5, TypesKept DEF Reset, Types

LEMMA FinishTypes == ASSUME Types, Finish PROVE Types'
<1>1. QueueType' /\ phase' \in Phase
  BY SizeAssumption DEF Finish, Types, QueueType, Phase
<1> QED
  BY <1>1, TypesKept DEF Finish, Types

LEMMA PublishTypes == ASSUME Types, Publish PROVE Types'
<1>1. HandType' /\ phase' \in Phase
  BY SourceIsPicture DEF Publish, Types, HandType, Phase
<1> QED
  BY <1>1, TypesKept DEF Publish, Types

LEMMA CommitTypes == ASSUME Types, Commit PROVE Types'
<1>1. nt' \in [Folded -> Slot]
  <2>1. packet \in [1 .. Len(packet) -> Record] /\ DOMAIN packet = 1 .. Len(packet)
    BY LenProperties DEF Types, QueueType
  <2>2. \A f \in Folded : Written(f) \in SUBSET Slot
    BY <2>1 DEF Written, Record
  <2>3. \A f \in Folded : Written(f) # {} => (CHOOSE s \in Written(f) : TRUE) \in Slot
    BY <2>2
  <2> QED
    BY <2>3 DEF Commit, Types, ScreenType
<1>2. QueueType'
  BY EmptySeq DEF Commit, Types, QueueType
<1>3. MetaType'
  BY DEF Commit, NextCopy, Types, MetaType
<1>4. ScreenType' /\ HandType'
  BY <1>1 DEF Commit, Types, ScreenType, FrozenType, HandType
<1> QED
  BY <1>2, <1>3, <1>4, TypesKept DEF Commit, Types

\* The shape of the state, and the counts.
LEMMA TypesStep ==
    ASSUME Types, Exact, Control, Probed, [Next]_vars
    PROVE  Types' /\ Exact'
<1>1. CASE Produce
  <2>1. UNCHANGED metaVars
    BY <1>1 DEF Produce, WriteTile, WriteAttr, WriteChr, WriteControl
  <2> QED
    BY <1>1, <2>1, ProduceTypes DEF Exact, metaVars
<1>2. CASE Begin \/ Freeze \/ Invalidate \/ Scroll \/ Attributes \/ DirtyScan \/ FullScan
  <2>1. UNCHANGED metaVars
    BY <1>2 DEF Begin, Freeze, Invalidate, Scroll, Attributes, DirtyScan, FullScan
  <2> QED
    BY <1>2, <2>1, BeginTypes, FreezeTypes, InvalidateTypes, ScrollTypes, AttributesTypes,
       DirtyScanTypes, FullScanTypes DEF Exact, metaVars
<1>3. CASE Resolve \/ Allocate \/ Build \/ Finish \/ Publish
  <2>1. UNCHANGED metaVars
    BY <1>3 DEF Resolve, Allocate, Build, Finish, Publish
  <2> QED
    BY <1>3, <2>1, ResolveTypes, AllocateTypes, BuildTypes, FinishTypes, PublishTypes
    DEF Exact, metaVars
<1>4. CASE Copy
  <2>1. Exact'
    BY <1>4 DEF Copy, NextCopy, Current, CurrentCount, Exact, Types, MetaType
  <2> QED
    BY <1>4, <2>1, CopyTypes
<1>5. CASE Queue \/ Reset
  BY <1>5, QueueTypes, ResetTypes
<1>6. CASE Blanked \/ Commit
  <2>1. UNCHANGED <<shadow, count>>
    BY <1>6 DEF Blanked, Commit
  <2> QED
    BY <1>6, <2>1, BlankedTypes, CommitTypes DEF Exact
<1>7. CASE UNCHANGED vars
  <2>1. UNCHANGED <<sourceVars, phase, frozenVars, workVars, poolVars, queueVars, metaVars,
                    screenVars, handVars>>
    BY <1>7 DEF vars
  <2> QED
    BY <2>1, TypesKept DEF Types, Exact, metaVars
<1> QED
  BY <1>1, <1>2, <1>3, <1>4, <1>5, <1>6, <1>7 DEF Next, Prepare
-----------------------------------------------------------------------------
(* Control, dirty flags and names.                                          *)

LEMMA ControlStep == ASSUME Types, Control, [Next]_vars PROVE Control'
<1> USE DEF Cell, Preparing, RequestFull, NextCell, sourceVars, frozenVars, workVars,
            poolVars, queueVars, metaVars, screenVars, handVars
<1>0. full \in BOOLEAN /\ scan \in 0 .. 2 * NCols /\ NCols \in Nat
  BY SizeAssumption DEF Types, QueueType, WorkType
<1>1. CASE Produce
  <2>1. UNCHANGED <<phase, ready, full, copied, scan, nextTable, curTable>>
    BY <1>1 DEF Produce, WriteTile, WriteAttr, WriteChr, WriteControl
  <2> QED
    BY <2>1 DEF Control
<1>2. CASE Begin
  BY <1>2 DEF Begin, Control
<1>3. CASE Freeze
  BY <1>3 DEF Freeze, Control
<1>4. CASE Invalidate \/ Scroll \/ Attributes
  BY <1>4 DEF Invalidate, Scroll, Attributes, Control
<1>5. CASE DirtyScan
  BY <1>5 DEF DirtyScan, LoadCell, Control
<1>6. CASE FullScan
  <2>1. CASE scan = NCols
    BY <1>6, <2>1 DEF FullScan, Control
  <2>2. CASE scan # NCols
    <3>1. scan' <= NCols
      BY <1>0, <1>6, <2>2 DEF FullScan, Control
    <3> QED
      BY <1>6, <2>2, <3>1 DEF FullScan, LoadCell, Control
  <2> QED
    BY <2>1, <2>2
<1>7. CASE Resolve
  BY <1>7 DEF Resolve, Resolved, Control
<1>8. CASE Allocate
  BY <1>8 DEF Allocate, Control
<1>9. CASE Build
  BY <1>9 DEF Build, Resolved, Control
<1>10. CASE Copy \/ Blanked \/ Reset \/ Finish \/ Publish
  BY <1>0, <1>10 DEF Copy, Blanked, Reset, Finish, Publish, Control
<1>11. CASE Queue
  BY <1>11 DEF Queue, Note, Control
<1>12. CASE Commit
  BY <1>12 DEF Commit, Control
<1>13. CASE UNCHANGED vars
  BY <1>13 DEF vars, Control
<1> QED
  BY <1>1, <1>2, <1>3, <1>4, <1>5, <1>6, <1>7, <1>8, <1>9, <1>10, <1>11, <1>12, <1>13
  DEF Next, Prepare

LEMMA FlaggedStep == ASSUME Flagged, [Next]_vars PROVE Flagged'
<1> USE DEF sourceVars
<1>1. CASE Produce
  <2>1. /\ \A p \in chrDirty' : p \in chrDirty \/ p[1] \in flags'
        /\ flags \subseteq flags'
    <3>1. ASSUME NEW t \in Table, NEW b \in Base, NEW v \in Bits, WriteChr(t, b, v)
          PROVE  chrDirty' = chrDirty \cup {<<t, b>>} /\ flags' = flags \cup {t}
      BY <3>1 DEF WriteChr
    <3>2. CASE UNCHANGED chrDirty /\ flags \subseteq flags'
      BY <3>2
    <3> QED
      BY <1>1, <3>1, <3>2 DEF Produce, WriteTile, WriteAttr, WriteControl
  <2> QED
    BY <2>1 DEF Flagged
<1>2. CASE Freeze \/ Reset
  BY <1>2 DEF Freeze, Reset, Flagged
<1>3. CASE UNCHANGED <<chrDirty, flags>>
  BY <1>3 DEF Flagged
<1>4. ~ Produce /\ ~ Freeze /\ ~ Reset => UNCHANGED <<chrDirty, flags>>
  BY DEF vars, Next, Prepare, Begin, Invalidate, Scroll, Attributes, DirtyScan, FullScan,
         Resolve, Allocate, Build, Copy, Queue, Blanked, Finish, Publish, Commit
<1> QED
  BY <1>1, <1>2, <1>3, <1>4

LEMMA PoolKept ==
    ASSUME [Next]_vars, ~ Freeze, ~ Invalidate, ~ Resolve, ~ Allocate, ~ Build, ~ Blanked, ~ Reset
    PROVE  UNCHANGED poolVars
BY DEF vars, Next, Prepare, Produce, WriteTile, WriteAttr, WriteChr, WriteControl, Begin,
       Scroll, Attributes, DirtyScan, FullScan, Copy, Queue, Finish, Publish, Commit

\* What the cache loses when a slot is taken over.
LEMMA Forgotten ==
    ASSUME Types, Named, NEW s \in Slot, Forget(s)
    PROVE  /\ \A k \in Key : cache'[k] # s /\ cache'[k] \in {None, cache[k]}
           /\ \A k \in Key : cache[k] # s => cache'[k] = cache[k]
<1>1. cache \in [Key -> Slot \cup {None}] /\ rev \in [Slot -> Key \cup {None}]
      /\ None \notin Slot
  BY ValueAssumption DEF Types, PoolType
<1>2. CASE rev[s] # None /\ cache[rev[s]] = s
  <2>1. cache' = [cache EXCEPT ![rev[s]] = None] /\ rev[s] \in Key
    BY <1>1, <1>2 DEF Forget
  <2>2. \A k \in Key : cache[k] = s => k = rev[s]
    BY <1>1 DEF Named
  <2> QED
    BY <1>1, <1>2, <2>1, <2>2
<1>3. CASE ~ (rev[s] # None /\ cache[rev[s]] = s)
  <2>1. cache' = cache
    BY <1>3 DEF Forget
  <2>2. ASSUME NEW k \in Key, cache[k] = s PROVE FALSE
    <3>1. rev[s] = k /\ k # None
      BY <1>1, <2>2, ValueAssumption DEF Named
    <3> QED
      BY <1>3, <2>2, <3>1
  <2> QED
    BY <2>1, <2>2
<1> QED
  BY <1>2, <1>3

LEMMA NamesStep ==
    ASSUME Types, Named, Reserved, [Next]_vars
    PROVE  Named' /\ Reserved'
<1>1. /\ cache \in [Key -> Slot \cup {None}] /\ rev \in [Slot -> Key \cup {None}]
      /\ None \notin Slot /\ key \in Key /\ slot \in Slot /\ alloc \in Slot
  BY ValueAssumption DEF Types, PoolType, WorkType
<1>2. CASE Freeze \/ Blanked
  BY <1>2 DEF Freeze, Blanked, RequestFull, Named, Reserved
<1>3. CASE Invalidate
  BY <1>1, <1>3 DEF Invalidate, Named, Reserved
<1>4. CASE Resolve
  <2>1. UNCHANGED <<cache, rev, key>> /\ (phase' = "allocate" => cache[key] = None)
    BY <1>4 DEF Resolve, Resolved, NextCell
  <2>2. phase' # "build"
    BY <1>4 DEF Resolve, Resolved, NextCell
  <2> QED
    BY <2>1, <2>2 DEF Named, Reserved
<1>5. CASE Allocate
  <2>1. CASE Free(alloc) /\ Forget(alloc) /\ phase' = "build"
    <3>1. /\ \A k \in Key : cache'[k] # alloc /\ cache'[k] \in {None, cache[k]}
      BY <1>1, <2>1, Forgotten
    <3>2. UNCHANGED <<rev, key>> /\ slot' = alloc
      BY <1>5 DEF Allocate
    <3>3. cache[key] = None
      BY <1>5 DEF Allocate, Reserved
    <3> QED
      BY <1>1, <2>1, <3>1, <3>2, <3>3 DEF Named, Reserved
  <2>2. CASE UNCHANGED cache /\ phase' # "build"
    <3>1. UNCHANGED <<rev, key>>
      BY <1>5 DEF Allocate
    <3>2. cache[key] = None
      BY <1>5 DEF Allocate, Reserved
    <3> QED
      BY <2>2, <3>1, <3>2 DEF Named, Reserved
  <2> QED
    BY <1>5, <2>1, <2>2 DEF Allocate, RequestFull
<1>6. CASE Build
  <2>1. /\ cache' = [cache EXCEPT ![key] = slot] /\ rev' = [rev EXCEPT ![slot] = key]
        /\ phase' \notin {"allocate", "build"}
    BY <1>6 DEF Build, Resolved, NextCell
  <2>2. \A k \in Key : cache[k] # slot
    BY <1>6 DEF Build, Reserved
  <2> QED
    BY <1>1, <2>1, <2>2 DEF Named, Reserved
<1>7. CASE Reset
  BY <1>7 DEF Reset, ResetPool, EmptyCache, EmptyRev, Named, Reserved
<1>8. CASE UNCHANGED vars
  BY <1>8 DEF vars, poolVars, workVars, Named, Reserved
<1>9. CASE [Next]_vars /\ ~ UNCHANGED vars /\ ~ Freeze /\ ~ Blanked /\ ~ Invalidate /\ ~ Resolve
           /\ ~ Allocate /\ ~ Build /\ ~ Reset
  <2>1. UNCHANGED <<cache, rev>>
    BY <1>9, PoolKept DEF poolVars
  <2>2. Produce => phase' = "idle"
    BY DEF Produce, Writing, WriteTile, WriteAttr, WriteChr, WriteControl
  <2>3. Begin \/ Scroll \/ Attributes \/ DirtyScan \/ FullScan => phase' \notin {"allocate", "build"}
    BY DEF Begin, Scroll, Attributes, DirtyScan, FullScan, LoadCell, RequestFull
  <2>4. Copy \/ Queue \/ Finish \/ Publish => phase' \notin {"allocate", "build"}
    BY DEF Copy, Queue, Note, NextCell, RequestFull, Finish, Publish
  <2>5. Commit => UNCHANGED <<phase, key, slot>>
    BY DEF Commit, workVars
  <2> QED
    BY <1>9, <2>1, <2>2, <2>3, <2>4, <2>5 DEF Next, Prepare, Named, Reserved
<1> QED
  BY <1>2, <1>3, <1>4, <1>5, <1>6, <1>7, <1>8, <1>9
-----------------------------------------------------------------------------
(* What the cache says of a slot.                                           *)

\* The table the cache is of, and the tiles it may be wrong about.
CacheTable == IF full THEN nextTable ELSE curTable
Stale == IF phase = "invalidate" THEN chrDirty \cup chrFrozen ELSE chrDirty
Fresh(k) ==
    \/ <<CacheTable, k[1]>> \in Stale
    \/ pattern[cache[k]] = <<chr[<<CacheTable, k[1]>>], k[2]>>

LEMMA CacheMeans ==
    CacheCurrent <=>
        (phase \notin {"fence", "reset"} =>
            \A k \in Key : cache[k] # None => rev[cache[k]] = k /\ Fresh(k))
BY DEF CacheCurrent, Fresh, CacheTable, Stale

LEMMA CacheMeansNext ==
    (phase' \notin {"fence", "reset"} =>
        \A k \in Key : cache'[k] # None => rev'[cache'[k]] = k /\ Fresh(k)')
    => CacheCurrent'
BY DEF CacheCurrent, Fresh, CacheTable, Stale

\* Steps that draw nothing and cache nothing.
LEMMA CacheKept ==
    ASSUME Named', CacheCurrent, phase \notin {"fence", "reset", "invalidate"},
           phase' # "invalidate",
           \A k \in Key : cache'[k] \in {None, cache[k]},
           UNCHANGED pattern, CacheTable' = CacheTable,
           \A k \in Key : chr'[<<CacheTable, k[1]>>] # chr[<<CacheTable, k[1]>>]
                            => <<CacheTable, k[1]>> \in chrDirty',
           chrDirty \subseteq chrDirty'
    PROVE  CacheCurrent'
<1> SUFFICES ASSUME NEW k \in Key, cache'[k] # None PROVE Fresh(k)'
  BY CacheMeansNext DEF Named
<1>1. Fresh(k) /\ cache'[k] = cache[k]
  BY CacheMeans
<1> QED
  BY <1>1 DEF Fresh, Stale

LEMMA ProduceCache == ASSUME Types, CacheCurrent, Named', Produce PROVE CacheCurrent'
<1>1. /\ phase = "idle" /\ phase' = "idle"
      /\ UNCHANGED <<cache, pattern, full, nextTable, curTable>>
  BY DEF Produce, Writing, WriteTile, WriteAttr, WriteChr, WriteControl, poolVars, screenVars,
         queueVars, frozenVars
<1>2. /\ \A k \in Key : chr'[<<CacheTable, k[1]>>] # chr[<<CacheTable, k[1]>>]
                            => <<CacheTable, k[1]>> \in chrDirty'
      /\ chrDirty \subseteq chrDirty'
  <2>1. ASSUME NEW t \in Table, NEW b \in Base, NEW v \in Bits, WriteChr(t, b, v)
        PROVE  chr' = [chr EXCEPT ![<<t, b>>] = v] /\ chrDirty' = chrDirty \cup {<<t, b>>}
    BY <2>1 DEF WriteChr
  <2>2. CASE UNCHANGED <<chr, chrDirty>>
    BY <2>2
  <2>3. CASE \E t \in Table, b \in Base, v \in Bits : WriteChr(t, b, v)
    <3>1. PICK t \in Table, b \in Base, v \in Bits : WriteChr(t, b, v)
      BY <2>3
    <3>2. chr' = [chr EXCEPT ![<<t, b>>] = v] /\ chrDirty' = chrDirty \cup {<<t, b>>}
      BY <2>1, <3>1
    <3>3. \A p : p # <<t, b>> => chr'[p] = chr[p]
      BY <3>2 DEF Types, SourceType
    <3> QED
      BY <3>2, <3>3
  <2> QED
    BY <2>2, <2>3 DEF Produce, WriteTile, WriteAttr, WriteControl
<1>3. CacheTable' = CacheTable
  BY <1>1 DEF CacheTable
<1> QED
  BY <1>1, <1>2, <1>3, CacheKept

LEMMA FreezeCache ==
    ASSUME Types, Control, Flagged, CacheCurrent, Named', Freeze
    PROVE  CacheCurrent'
<1>1. phase = "freeze" /\ ~ full
  BY DEF Freeze, Control, Cell
<1>2. UNCHANGED <<cache, rev, pattern, chr, full, nextTable, curTable>> /\ chrFrozen' = chrDirty
  BY DEF Freeze, queueVars, screenVars
<1>3. CASE phase' \in {"fence", "failed"}
  BY <1>1, <1>3, CacheMeansNext DEF Freeze, RequestFull
<1>4. CASE phase' = "invalidate"
  <2> SUFFICES ASSUME NEW k \in Key, cache'[k] # None PROVE Fresh(k)'
    BY CacheMeansNext DEF Named
  <2>1. Fresh(k)
    BY <1>1, <1>2, CacheMeans
  <2> QED
    BY <1>1, <1>2, <1>4, <2>1 DEF Fresh, Stale, CacheTable
<1>5. CASE phase' = "scroll"
  <2> SUFFICES ASSUME NEW k \in Key, cache'[k] # None PROVE Fresh(k)'
    BY CacheMeansNext DEF Named
  <2>1. Fresh(k)
    BY <1>1, <1>2, CacheMeans
  <2>2. nextTable = curTable /\ nextTable \notin flags
    BY <1>5 DEF Freeze, RequestFull
  <2>3. <<curTable, k[1]>> \notin chrDirty
    BY <2>2 DEF Flagged
  <2> QED
    BY <1>1, <1>2, <2>1, <2>3 DEF Fresh, Stale, CacheTable
<1> QED
  BY <1>3, <1>4, <1>5 DEF Freeze, RequestFull

LEMMA InvalidateCache ==
    ASSUME Types, Control, CacheCurrent, Named', Invalidate
    PROVE  CacheCurrent'
<1>1. phase = "invalidate" /\ phase' = "scroll" /\ ~ full /\ nextTable = curTable
  BY DEF Invalidate, Control, Cell, Preparing, Types, QueueType
<1>2. UNCHANGED <<pattern, chr, chrDirty, full, nextTable, curTable>>
  BY DEF Invalidate, queueVars, screenVars, sourceVars
<1> SUFFICES ASSUME NEW k \in Key, cache'[k] # None PROVE Fresh(k)'
  BY CacheMeansNext DEF Named
<1>3. cache'[k] = cache[k] /\ ~ ChangedTile(k[1])
  BY DEF Invalidate
<1>4. Fresh(k)
  BY <1>1, <1>3, CacheMeans
<1> QED
  BY <1>1, <1>2, <1>3, <1>4 DEF Fresh, Stale, CacheTable, ChangedTile

LEMMA BuildCache ==
    ASSUME Types, Control, Reserved, CacheCurrent, Named', Build
    PROVE  CacheCurrent'
<1>1. /\ phase = "build" /\ phase' \notin {"invalidate", "fence", "reset"}
      /\ cache' = [cache EXCEPT ![key] = slot]
      /\ pattern' = [pattern EXCEPT ![slot] = <<chr[<<nextTable, key[1]>>], key[2]>>]
      /\ UNCHANGED <<chr, chrDirty, full, nextTable, curTable>>
  BY DEF Build, Resolved, NextCell, sourceVars, queueVars, frozenVars
<1>2. CacheTable = nextTable
  BY <1>1 DEF CacheTable, Control, Preparing, Cell
<1>3. /\ cache \in [Key -> Slot \cup {None}] /\ pattern \in [Slot -> Pattern]
      /\ slot \in Slot /\ key \in Key
  BY DEF Types, PoolType, ScreenType, WorkType
<1> SUFFICES ASSUME NEW k \in Key, cache'[k] # None PROVE Fresh(k)'
  BY CacheMeansNext DEF Named
<1>4. CASE k = key
  <2>1. cache'[k] = slot /\ pattern'[slot] = <<chr[<<nextTable, key[1]>>], key[2]>>
    BY <1>1, <1>3, <1>4
  <2> QED
    BY <1>1, <1>2, <1>4, <2>1 DEF Fresh, CacheTable
<1>5. CASE k # key
  <2>1. cache'[k] = cache[k] /\ cache[k] # slot /\ cache[k] \in Slot
    BY <1>1, <1>3, <1>5 DEF Reserved
  <2>2. pattern'[cache[k]] = pattern[cache[k]]
    BY <1>1, <1>3, <2>1
  <2>3. Fresh(k)
    BY <1>1, <2>1, CacheMeans
  <2> QED
    BY <1>1, <2>1, <2>2, <2>3 DEF Fresh, Stale, CacheTable
<1> QED
  BY <1>4, <1>5

LEMMA CacheStep ==
    ASSUME Types, Control, Flagged, Named, Reserved, CacheCurrent, Named', [Next]_vars
    PROVE  CacheCurrent'
<1>1. CASE Produce
  BY <1>1, ProduceCache
<1>2. CASE Freeze \/ Invalidate \/ Build
  BY <1>2, FreezeCache, InvalidateCache, BuildCache
<1>3. CASE Begin
  <2>1. /\ phase = "idle" /\ phase' \in {"prepared", "freeze"} /\ ~ ready /\ ~ full'
        /\ UNCHANGED <<cache, pattern, chr, chrDirty, curTable>>
    BY <1>3 DEF Begin, sourceVars, poolVars, screenVars
  <2>2. CacheTable' = CacheTable
    BY <2>1 DEF CacheTable, Control
  <2> QED
    BY <2>1, <2>2, CacheKept
<1>4. CASE Scroll \/ Attributes \/ DirtyScan \/ FullScan \/ Resolve \/ Copy \/ Queue \/ Finish
           \/ Publish
  <2>1. /\ phase \notin {"fence", "reset", "invalidate"} /\ phase' # "invalidate"
        /\ UNCHANGED <<cache, pattern, chr, chrDirty, full, nextTable, curTable>>
    BY <1>4 DEF Scroll, Attributes, DirtyScan, FullScan, LoadCell, Resolve, Resolved, Copy,
       Queue, Note, NextCell, RequestFull, Finish, Publish, sourceVars, poolVars, screenVars,
       queueVars, frozenVars
  <2>2. CacheTable' = CacheTable
    BY <2>1 DEF CacheTable
  <2> QED
    BY <2>1, <2>2, CacheKept
<1>5. CASE Allocate
  <2>1. /\ phase \notin {"fence", "reset", "invalidate"} /\ phase' # "invalidate"
        /\ UNCHANGED <<pattern, chr, chrDirty, full, nextTable, curTable>>
    BY <1>5 DEF Allocate, RequestFull, sourceVars, screenVars, queueVars, frozenVars
  <2>2. \A k \in Key : cache'[k] \in {None, cache[k]}
    BY <1>5, Forgotten DEF Allocate, Types, PoolType
  <2>3. CacheTable' = CacheTable
    BY <2>1 DEF CacheTable
  <2> QED
    BY <2>1, <2>2, <2>3, CacheKept
<1>6. CASE Blanked
  BY <1>6, CacheMeansNext DEF Blanked
<1>7. CASE Reset
  BY <1>7, CacheMeansNext DEF Reset, ResetPool, EmptyCache
<1>8. CASE Commit
  <2>1. /\ phase = "idle" /\ phase' = "idle" /\ ready /\ curTable' = nextTable
        /\ UNCHANGED <<cache, pattern, chr, chrDirty, full, nextTable>>
    BY <1>8 DEF Commit, Control, poolVars, sourceVars, frozenVars
  <2>2. CacheTable' = CacheTable
    BY <2>1 DEF CacheTable, Control
  <2> QED
    BY <2>1, <2>2, CacheKept
<1>9. CASE UNCHANGED vars
  BY <1>9 DEF vars, CacheCurrent, poolVars, sourceVars, frozenVars, queueVars, screenVars
<1> QED
  BY <1>1, <1>2, <1>3, <1>4, <1>5, <1>6, <1>7, <1>8, <1>9 DEF Next, Prepare
-----------------------------------------------------------------------------
(* Full drawings.                                                           *)

LEMMA SlotsFinite == IsFiniteSet(Slot) /\ Cardinality(Slot) = NSlots
<1>1. IsFiniteSet(0 .. NSlots - 1) /\ Cardinality(0 .. NSlots - 1) = NSlots
  BY SizeAssumption, FS_Interval
<1> QED
  BY <1>1 DEF Slot

LEMMA PairsFinite == IsFiniteSet(WindowPairs)
<1> DEFINE pair == [f \in Folded |-> LET c == FoldToRaw(nextWindow, f)
                                     IN  <<base[c], attr[c \div AttrSpan]>>]
<1>1. pair \in Surjection(Folded, WindowPairs)
  BY DEF WindowPairs, Surjection
<1> QED
  BY <1>1, FoldedFinite, FS_Surjection

\* When no slot is free, each has a pair of the window, and there is one more.
LEMMA Exhausted ==
    ASSUME Types, Reserved, Pinned, full, phase = "allocate", \A s \in Slot : ~ Free(s)
    PROVE  Cardinality(WindowPairs) > NSlots
<1> DEFINE Held == WindowPairs \ {key}
<1>1. /\ key \in WindowPairs /\ cache[key] = None
      /\ \A s \in Slot : s \in pins
  BY DEF Pinned, Cell, Reserved, Free, CurrentCount
<1>2. \A s \in Slot : rev[s] \in Held /\ cache[rev[s]] = s
  BY <1>1, ValueAssumption DEF Pinned, Cell
<1>3. IsFiniteSet(Held) /\ Cardinality(Held) = Cardinality(WindowPairs) - 1
  BY <1>1, PairsFinite, FS_RemoveElement
<1>4. rev \in Injection(Slot, Held)
  <2>1. rev \in [Slot -> Held]
    BY <1>2 DEF Types, PoolType
  <2>2. \A s, r \in Slot : rev[s] = rev[r] => s = r
    BY <1>2
  <2> QED
    BY <2>1, <2>2 DEF Injection, IsInjective
<1>5. Cardinality(Slot) <= Cardinality(Held)
  BY <1>3, <1>4, FS_Injection
<1>6. Cardinality(WindowPairs) \in Nat
  BY PairsFinite, FS_CardinalityType
<1> QED
  BY <1>3, <1>5, <1>6, SlotsFinite, SizeAssumption

\* The slots the allocator has passed, with one more probe.
LEMMA PassedOn ==
    ASSUME NEW n \in Nat \ {0}, NEW a \in 0 .. n - 1, NEW s \in 0 .. n - 1, NEW p \in Nat,
           NEW b, b = IF a = n - 1 THEN 0 ELSE a + 1,
           \/ s < b /\ b - s <= p + 1
           \/ s >= b /\ b - s + n <= p + 1
    PROVE  \/ s = a
           \/ s < a /\ a - s <= p
           \/ s >= a /\ a - s + n <= p
<1>1. CASE a = n - 1
  <2>1. b = 0 /\ b - s + n <= p + 1
    BY <1>1
  <2>2. s < a => a - s <= p
    BY <1>1, <2>1
  <2> QED
    BY <1>1, <2>2
<1>2. CASE a # n - 1
  BY <1>2
<1> QED
  BY <1>1, <1>2

LEMMA ProbedStep == ASSUME Types, Control, Probed, [Next]_vars PROVE Probed'
<1>1. alloc \in 0 .. NSlots - 1 /\ NSlots \in Nat \ {0}
  BY SizeAssumption DEF Types, PoolType, Slot
<1>2. CASE Resolve
  <2> SUFFICES ASSUME phase' = "allocate" PROVE Probed'
    BY DEF Probed
  <2>1. probes' = 0 /\ alloc' = alloc
    BY <1>2 DEF Resolve, Resolved, NextCell
  <2> QED
    BY <1>1, <2>1 DEF Probed, Passed, Slot
<1>3. CASE Allocate
  <2> SUFFICES ASSUME phase' = "allocate" PROVE Probed'
    BY DEF Probed
  <2>1. /\ phase = "allocate" /\ ~ Free(alloc) /\ probes' = probes + 1 /\ probes' # NSlots
        /\ UNCHANGED <<pins, metaVars>> /\ alloc' = (alloc + 1) % NSlots
    BY <1>3 DEF Allocate, RequestFull
  <2>2. alloc' = IF alloc = NSlots - 1 THEN 0 ELSE alloc + 1
    BY <2>1, NextInRing DEF Types, PoolType
  <2>3. \A s : Free(s)' = Free(s)
    BY <2>1 DEF Free, CurrentCount, metaVars
  <2>4. probes \in Nat /\ probes < NSlots
    BY <1>1, <2>1 DEF Probed, Types, PoolType
  <2>5. ASSUME NEW s \in Slot,
               \/ s < alloc' /\ alloc' - s <= probes'
               \/ s >= alloc' /\ alloc' - s + NSlots <= probes'
        PROVE  ~ Free(s)
    <3>1. \/ s = alloc
          \/ s < alloc /\ alloc - s <= probes
          \/ s >= alloc /\ alloc - s + NSlots <= probes
      <4>1. \/ s < alloc' /\ alloc' - s <= probes + 1
            \/ s >= alloc' /\ alloc' - s + NSlots <= probes + 1
        BY <2>1, <2>5, Zenon
      <4>2. s \in 0 .. NSlots - 1
        BY DEF Slot
      <4> QED
        BY <1>1, <2>2, <2>4, <4>1, <4>2, PassedOn, Zenon
    <3> QED
      BY <2>1, <3>1 DEF Probed, Passed
  <2>6. probes' < NSlots
    BY <1>1, <2>1, <2>4
  <2> QED
    BY <2>3, <2>5, <2>6 DEF Probed, Passed
<1>4. CASE UNCHANGED vars
  BY <1>4 DEF vars, poolVars, metaVars, Probed, Passed, Free, CurrentCount
<1>5. CASE [Next]_vars /\ ~ UNCHANGED vars /\ ~ Resolve /\ ~ Allocate
  <2>1. Produce => phase' = "idle"
    BY DEF Produce, Writing, WriteTile, WriteAttr, WriteChr, WriteControl
  <2>2. Begin \/ Freeze \/ Invalidate \/ Scroll \/ Attributes \/ DirtyScan \/ FullScan
        => phase' # "allocate"
    BY DEF Begin, Freeze, Invalidate, Scroll, Attributes, DirtyScan, FullScan, LoadCell,
           RequestFull
  <2>3. Build \/ Copy \/ Queue \/ Blanked \/ Reset \/ Finish \/ Publish => phase' # "allocate"
    BY DEF Build, Resolved, Copy, Queue, Note, NextCell, RequestFull, Blanked, Reset, Finish,
           Publish
  <2>4. Commit => phase' = "idle"
    BY DEF Commit, Control
  <2> QED
    BY <1>5, <2>1, <2>2, <2>3, <2>4 DEF Next, Prepare, Probed
<1> QED
  BY <1>2, <1>3, <1>4, <1>5

LEMMA ResetPinned == ASSUME Types, Pinned, Blanked \/ Reset PROVE Pinned'
<1>1. CASE Blanked
  BY <1>1 DEF Blanked, Pinned, Cell
<1>2. CASE Reset
  <2>1. /\ phase' = "fullscan" /\ selector' = 0 /\ pins' = {}
        /\ \A s \in Slot : count'[0][s] = 0
    BY <1>2 DEF Reset, ResetPool, Pinned, EmptyCount
  <2> QED
    BY <2>1 DEF Pinned, Cell
<1> QED
  BY <1>1, <1>2

\* Steps of a full drawing.
LEMMA FullScanPinned == ASSUME Types, Control, Pinned, FullScan PROVE Pinned'
<1>1. UNCHANGED <<full, selector, count, pins, cache, rev, base, attr, nextWindow>>
  BY DEF FullScan, queueVars, metaVars, poolVars, sourceVars, frozenVars
<1>2. full /\ phase = "fullscan" /\ WindowPairs' = WindowPairs
  BY <1>1 DEF FullScan, Control, WindowPairs, FoldToRaw
<1>3. CASE scan = NCols
  BY <1>1, <1>2, <1>3 DEF FullScan, Pinned, Cell
<1>4. CASE scan # NCols
  <2>1. scan \in Folded
    BY <1>2, <1>4, SizeAssumption DEF Control, Types, WorkType, Folded
  <2>2. key' \in WindowPairs /\ phase' = "resolve"
    BY <1>4, <2>1 DEF FullScan, LoadCell, WindowPairs
  <2> QED
    BY <1>1, <1>2, <2>2 DEF Pinned, Cell
<1> QED
  BY <1>3, <1>4

LEMMA ResolvePinned == ASSUME Types, Control, Named, Pinned, Resolve PROVE Pinned'
<1>1. /\ UNCHANGED <<full, selector, count, cache, rev, base, attr, nextWindow, key>>
      /\ phase' # "reset" /\ phase = "resolve"
  BY DEF Resolve, Resolved, NextCell, queueVars, metaVars, sourceVars, frozenVars
<1>2. WindowPairs' = WindowPairs
  BY <1>1 DEF WindowPairs, FoldToRaw
<1> SUFFICES ASSUME full PROVE Pinned'
  BY <1>1 DEF Pinned
<1>3. CASE cache[key] # None
  <2>1. /\ pins' = pins \cup {cache[key]} /\ phase' = "queue" /\ rev[cache[key]] = key
    BY <1>1, <1>3 DEF Resolve, Resolved, Control, Named, Types, WorkType
  <2> QED
    BY <1>1, <1>2, <2>1 DEF Pinned, Cell
<1>4. CASE cache[key] = None
  BY <1>1, <1>2, <1>4 DEF Resolve, Pinned, Cell
<1> QED
  BY <1>3, <1>4

LEMMA AllocatePinned == ASSUME Types, Named, Pinned, Allocate PROVE Pinned'
<1>1. /\ UNCHANGED <<full, selector, count, rev, base, attr, nextWindow, key>>
      /\ phase = "allocate" /\ phase' # "reset" /\ slot' = alloc /\ alloc \in Slot
  BY DEF Allocate, RequestFull, queueVars, metaVars, sourceVars, frozenVars, Types, PoolType
<1>2. WindowPairs' = WindowPairs
  BY <1>1 DEF WindowPairs, FoldToRaw
<1> SUFFICES ASSUME full PROVE Pinned'
  BY <1>1 DEF Pinned
<1>3. CASE Free(alloc) /\ Forget(alloc) /\ pins' = pins \cup {alloc} /\ phase' = "build"
  <2>1. ASSUME NEW s \in pins PROVE rev[s] \in WindowPairs /\ cache'[rev[s]] = s
    <3>1. s # alloc /\ rev[s] \in WindowPairs /\ cache[rev[s]] = s
      BY <1>1, <1>3 DEF Free, Pinned, Cell
    <3>2. rev[s] \in Key
      <4>1. rev[s] \in Key \cup {None} /\ WindowPairs \subseteq Key
        <5>1. WindowPairs \subseteq Key
          BY RawInWorld DEF WindowPairs, Key, Types, SourceType, FrozenType, Attr
        <5> QED
          BY <5>1 DEF Types, PoolType
      <4> QED
        BY <3>1, <4>1
    <3> QED
      BY <1>1, <1>3, <3>1, <3>2, Forgotten
  <2> QED
    BY <1>1, <1>2, <1>3, <2>1 DEF Pinned, Cell
<1>4. CASE UNCHANGED <<pins, cache>> /\ phase' # "build"
  BY <1>1, <1>2, <1>4 DEF Allocate, RequestFull, Pinned, Cell
<1> QED
  BY <1>1, <1>3, <1>4 DEF Allocate, RequestFull

LEMMA BuildPinned == ASSUME Types, Control, Reserved, Pinned, Build PROVE Pinned'
<1>1. /\ UNCHANGED <<full, selector, count, base, attr, nextWindow, key>>
      /\ phase = "build" /\ phase' # "reset" /\ pins' = pins \cup {slot}
      /\ cache' = [cache EXCEPT ![key] = slot] /\ rev' = [rev EXCEPT ![slot] = key]
      /\ cache[key] = None
  BY DEF Build, Resolved, NextCell, queueVars, metaVars, sourceVars, frozenVars, Reserved
<1>2. WindowPairs' = WindowPairs
  BY <1>1 DEF WindowPairs, FoldToRaw
<1> SUFFICES ASSUME full PROVE Pinned'
  BY <1>1 DEF Pinned
<1>3. phase' = "queue" /\ key \in WindowPairs
  BY <1>1 DEF Build, Resolved, Control, Pinned, Cell
<1>4. ASSUME NEW s \in pins' PROVE rev'[s] \in WindowPairs /\ cache'[rev'[s]] = s
  <2>1. /\ cache \in [Key -> Slot \cup {None}] /\ rev \in [Slot -> Key \cup {None}]
        /\ slot \in Slot /\ key \in Key /\ pins \subseteq Slot /\ None \notin Slot
    BY ValueAssumption DEF Types, PoolType, WorkType
  <2>2. CASE s = slot
    BY <1>1, <1>3, <2>1, <2>2
  <2>3. CASE s # slot
    <3>1. s \in Slot /\ rev[s] \in WindowPairs /\ cache[rev[s]] = s
      BY <1>1, <1>4, <2>1, <2>3 DEF Pinned, Cell
    <3>2. rev'[s] = rev[s] /\ rev[s] # key
      BY <1>1, <2>1, <2>3, <3>1
    <3> QED
      BY <1>1, <2>1, <3>1, <3>2
  <2> QED
    BY <2>2, <2>3
<1> QED
  BY <1>1, <1>2, <1>3, <1>4 DEF Pinned, Cell

LEMMA QueuePinned == ASSUME Types, Pinned, Queue PROVE Pinned'
<1>1. /\ UNCHANGED <<full, pins, cache, rev, base, attr, nextWindow>>
      /\ phase = "queue" /\ phase' # "reset"
  BY DEF Queue, Note, NextCell, RequestFull, poolVars, sourceVars, frozenVars
<1>2. WindowPairs' = WindowPairs
  BY <1>1 DEF WindowPairs, FoldToRaw
<1> SUFFICES ASSUME full PROVE Pinned'
  BY <1>1 DEF Pinned
<1>3. Note /\ selector = 0 /\ phase' = "fullscan"
  BY <1>1 DEF Queue, Note, NextCell, Pinned, Cell
<1>4. UNCHANGED selector /\ count'[0] = count[0]
  BY <1>3 DEF Note, NextCopy, Types, MetaType
<1> QED
  BY <1>1, <1>2, <1>3, <1>4 DEF Pinned, Cell

LEMMA PinnedStep ==
    ASSUME Types, Control, Named, Reserved, Pinned, [Next]_vars
    PROVE  Pinned'
<1>1. CASE Blanked \/ Reset \/ FullScan \/ Resolve \/ Allocate \/ Build \/ Queue
  BY <1>1, ResetPinned, FullScanPinned, ResolvePinned, AllocatePinned, BuildPinned, QueuePinned
<1>2. CASE UNCHANGED vars
  BY <1>2 DEF vars, Pinned, sourceVars, frozenVars, workVars, poolVars, queueVars, metaVars,
              WindowPairs, FoldToRaw
<1>3. CASE Produce \/ Commit
  <2>1. phase' = "idle"
    BY <1>3 DEF Produce, Writing, WriteTile, WriteAttr, WriteChr, WriteControl, Commit, Control
  <2> QED
    BY <2>1 DEF Pinned, Cell
<1>4. CASE Begin \/ Finish \/ Publish
  <2>1. phase' \in {"freeze", "prepared", "idle"}
    BY <1>4 DEF Begin, Finish, Publish
  <2> QED
    BY <2>1 DEF Pinned, Cell
<1>5. CASE Freeze \/ Invalidate \/ Scroll \/ Attributes \/ DirtyScan \/ Copy
  <2>1. ~ full /\ phase' # "reset"
    BY <1>5 DEF Freeze, Invalidate, Scroll, Attributes, DirtyScan, LoadCell, Copy, RequestFull,
       Control, Cell
  <2>2. UNCHANGED full
    BY <1>5 DEF Freeze, Invalidate, Scroll, Attributes, DirtyScan, Copy, queueVars
  <2> QED
    BY <2>1, <2>2 DEF Pinned
<1> QED
  BY <1>1, <1>2, <1>3, <1>4, <1>5 DEF Next, Prepare

LEMMA FailsStep ==
    ASSUME Types, Control, Probed, Reserved, Pinned, FailsOnlyFull, [Next]_vars
    PROVE  FailsOnlyFull'
<1>1. (phase' = "failed" => Cardinality(WindowPairs') > NSlots) => FailsOnlyFull'
  BY DEF FailsOnlyFull, WindowPairs
<1> SUFFICES ASSUME phase' = "failed" PROVE Cardinality(WindowPairs') > NSlots
  BY <1>1
<1>2. CASE Allocate
  <2>1. /\ phase = "allocate" /\ full /\ ~ Free(alloc) /\ probes + 1 = NSlots
        /\ UNCHANGED <<base, attr, nextWindow>>
    BY <1>2 DEF Allocate, RequestFull, sourceVars, frozenVars
  <2>2. WindowPairs' = WindowPairs
    BY <2>1 DEF WindowPairs, FoldToRaw
  <2>3. \A s \in Slot : s = alloc \/ s \in Passed
    <3>1. alloc \in 0 .. NSlots - 1 /\ NSlots \in Nat /\ probes \in Int
      BY SizeAssumption DEF Types, PoolType, Slot
    <3> QED
      BY <2>1, <3>1 DEF Passed, Slot
  <2>4. \A s \in Slot : ~ Free(s)
    BY <2>1, <2>3 DEF Probed
  <2> QED
    BY <2>1, <2>2, <2>4, Exhausted
<1>3. CASE UNCHANGED vars
  BY <1>3 DEF vars, sourceVars, frozenVars, FailsOnlyFull, WindowPairs, FoldToRaw
<1>4. CASE Produce \/ Commit
  BY <1>4 DEF Produce, Writing, WriteTile, WriteAttr, WriteChr, WriteControl, Commit, Control
<1>5. CASE Freeze \/ Scroll \/ Queue
  BY <1>5 DEF Freeze, Scroll, Queue, Note, NextCell, RequestFull, Control, Cell
<1>6. CASE Begin \/ Invalidate \/ Attributes \/ DirtyScan \/ FullScan \/ Resolve \/ Build
  BY <1>6 DEF Begin, Invalidate, Attributes, DirtyScan, FullScan, LoadCell, Resolve, Resolved,
     Build, NextCell
<1>7. CASE Copy \/ Blanked \/ Reset \/ Finish \/ Publish
  BY <1>7 DEF Copy, Blanked, Reset, Finish, Publish
<1> QED
  BY <1>2, <1>3, <1>4, <1>5, <1>6, <1>7 DEF Next, Prepare
-----------------------------------------------------------------------------
LEMMA InitOK == Init => IInv
<1> SUFFICES ASSUME Init PROVE IInv
  OBVIOUS
<1>1. Types
  <2>1. 0 \in World /\ 0 \in Folded /\ 0 \in Slot
    BY SizeAssumption DEF World, Folded, Slot
  <2>2. PICK b \in Base, s \in Sub, v \in Bits :
          /\ base = [c \in World |-> b] /\ attr = [a \in Attr |-> s]
          /\ chr = [p \in Table \X Base |-> v]
          /\ key = <<b, s>> /\ pattern = [i \in Slot |-> <<v, s>>]
    BY DEF Init
  <2>3. SourceType
    BY <2>1, <2>2, SizeAssumption, ValueAssumption DEF Init, SourceType
  <2>4. FrozenType /\ WorkType
    BY <2>1, <2>2, SizeAssumption, ValueAssumption DEF Init, FrozenType, WorkType, Key
  <2>5. PoolType
    BY <2>1, SizeAssumption DEF Init, PoolType, EmptyCache, EmptyRev
  <2>6. QueueType
    <3>1. index \in [Folded -> 0 .. MaxRecords]
      BY SizeAssumption DEF Init, EmptyIndex
    <3> QED
      BY <3>1, EmptySeq DEF Init, QueueType
  <2>7. MetaType
    BY SizeAssumption DEF Init, MetaType, EmptyShadow, EmptyCount
  <2>8. pattern \in [Slot -> Pattern] /\ nt \in [Folded -> Slot]
    BY <2>1, <2>2 DEF Init, Pattern
  <2>9. ScreenType /\ HandType /\ phase \in Phase
    BY <2>1, <2>8, ValueAssumption DEF Init, ScreenType, HandType, Phase
  <2> QED
    BY <2>3, <2>4, <2>5, <2>6, <2>7, <2>9 DEF Types
<1>2. Exact
  <2> SUFFICES ASSUME NEW i \in 0 .. 1, NEW s \in Slot PROVE count[i][s] = Cells(shadow[i], s)
    BY DEF Exact
  <2>1. shadow[i] = EmptyShadow /\ count[i][s] = 0
    BY DEF Init, EmptyCount
  <2> QED
    BY <2>1, NoCells
<1>3. Control /\ Flagged /\ Probed /\ Pinned /\ FailsOnlyFull
  BY DEF Init, Control, Flagged, Probed, Pinned, FailsOnlyFull, Cell, Preparing
<1>4. Named /\ Reserved /\ CacheCurrent
  BY CacheMeans DEF Init, EmptyCache, Named, Reserved
<1> QED
  BY <1>1, <1>2, <1>3, <1>4 DEF IInv

LEMMA StepOK == IInv /\ [Next]_vars => IInv'
<1> SUFFICES ASSUME IInv, [Next]_vars PROVE IInv'
  OBVIOUS
<1>1. Types' /\ Exact'
  BY TypesStep DEF IInv
<1>2. Control' /\ Flagged' /\ Named' /\ Reserved'
  BY ControlStep, FlaggedStep, NamesStep DEF IInv
<1>3. Probed' /\ Pinned' /\ FailsOnlyFull'
  BY ProbedStep, PinnedStep, FailsStep DEF IInv
<1>4. CacheCurrent'
  BY <1>2, CacheStep DEF IInv
<1> QED
  BY <1>1, <1>2, <1>3, <1>4 DEF IInv

LEMMA Invariance == Spec => []IInv
BY InitOK, StepOK, PTL DEF Spec

\* Every variable keeps its type, for any number of cells, slots and records:
\* no count leaves 0 .. NCols, no record index the packet (bg_cv1.s).
THEOREM TypeCorrect == Spec => []TypeOK
<1>1. IInv => TypeOK
  BY DEF IInv, Types, SourceType, FrozenType, WorkType, PoolType, QueueType, MetaType,
         ScreenType, HandType, Flags, TypeOK
<1> QED
  BY <1>1, Invariance, PTL

\* "Pointer to exact 16-bit count": the counts of the copy in use, and of the
\* copy in preparation, are those of its cells (bg_cv1.s).
THEOREM CountsAreExact == Spec => []CountsExact
<1>1. IInv => CountsExact
  BY DEF IInv, Types, MetaType, Exact, CountsExact, Current, CurrentCount, NextCopy
<1> QED
  BY <1>1, Invariance, PTL

\* "Key becomes valid AFTER its complete pattern": a cached slot is named by its
\* pair and shows it, or its tile is known to have changed (bg_cv1.s).
THEOREM CacheIsCurrent == Spec => []CacheCurrent
<1>1. IInv => CacheCurrent
  BY DEF IInv
<1> QED
  BY <1>1, Invariance, PTL

\* "Even an empty 255-slot working set cannot fit": the preparation stops the
\* machine only when the window has more pairs than there are slots (bg_cv1.s).
THEOREM FailsOnlyWhenFull == Spec => []FailsOnlyFull
<1>1. IInv => FailsOnlyFull
  BY DEF IInv
<1> QED
  BY <1>1, Invariance, PTL
=============================================================================
