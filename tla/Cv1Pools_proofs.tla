--------------------------- MODULE Cv1Pools_proofs ---------------------------
(***************************************************************************)
(* Both pools of patterns of the Castlevania profile implement             *)
(* FrameHandover, in one run (MCCv1Pools).  The sprites come last, from    *)
(* Cv1Sprites_proofs.                                                      *)
(*                                                                         *)
(* The background does for any number of columns, slots and records: what  *)
(* comes on the screen is the picture the NES would show at the moment of  *)
(* READY, and building slots meanwhile does not disturb it.                *)
(*                                                                         *)
(* What makes it so is what each stage still owes.  Between frames a cell  *)
(* is right unless its column, its attribute byte or the tile of its slot  *)
(* is dirty; the freeze takes these bits over; the phases that follow turn *)
(* tiles, scrolling and attributes into columns (Owed); and the scan comes *)
(* by every such column of the window once (Untouched), with a slot in     *)
(* hand that shows its pair (InHand).                                      *)
(***************************************************************************)
EXTENDS MCCv1Pools, Cv1Slots_proofs

Scanning == {"scan", "copy"} \cup Cell

\* The copy the frame is of, and what the commit makes of the name table.
Meta == IF copied THEN shadow[NextCopy] ELSE Current
Chosen(S) == CHOOSE s \in S : TRUE
Over(f) == IF Written(f) = {} THEN nt[f] ELSE Chosen(Written(f))

Pair(c) == <<base[c], attr[c \div AttrSpan]>>
Drawn(t, k) == <<chr[<<t, k[1]>>], k[2]>>
Raw(f) == FoldToRaw(nextWindow, f)

\* Dirty bits have raised their flags.
Raised ==
    /\ dirty # {} => "nt" \in flags
    /\ attrDirty # {} => {"nt", "attr"} \subseteq flags
    /\ ~ full /\ phase \in {"invalidate", "scroll", "attributes"} =>
          /\ frozen # {} => "nt" \in frozenFlags
          /\ attrFrozen # {} => {"nt", "attr"} \subseteq frozenFlags

\* The source stands still while a frame is prepared.
Still ==
    /\ phase # "idle" => nextTable = table /\ nextWindow = window
    /\ phase \notin {"idle", "freeze"} =>
          dirty = {} /\ attrDirty = {} /\ \A p \in chrDirty : p[1] # nextTable

\* The screen is on from the first commit, but for full drawings.
Screen ==
    /\ displayOn => init /\ \A f \in Folded : nt[f] = Current[f]
    /\ init /\ ~ full => displayOn
    /\ init /\ phase = "idle" /\ ~ ready => displayOn
    /\ full /\ (phase # "idle" \/ ready) => ~ displayOn
    /\ ~ full /\ (ready \/ phase \in Preparing) => init
    /\ published = None <=> ~ ready

\* When there is a second copy, and when there are records.
Copies ==
    /\ phase \in {"idle", "freeze"} /\ ~ ready => ~ copied
    /\ phase \in {"invalidate", "scroll", "attributes", "copy"} => ~ copied
    /\ phase = "queue" => copied
    /\ ~ copied => packet = <<>>
    /\ full /\ (phase # "idle" \/ ready) => packet = <<>>

\* A cell has one record at most, and knows it.
Indexed ==
    /\ \A i, j \in DOMAIN packet : packet[i].cell = packet[j].cell => i = j
    /\ phase \in Scanning \cup {"finish", "fullscan"} =>
          /\ \A f \in Folded : index[f] # 0 =>
                \E i \in DOMAIN packet : packet[i].cell = f
          /\ \A i \in DOMAIN packet : index[packet[i].cell] # 0
    /\ phase \notin Scanning \cup {"finish", "fullscan", "fence", "reset", "failed"} =>
          \A f \in Folded : index[f] = 0

\* The records, laid over the name table, are the frame.
Overlaid ==
    ready \/ (~ full /\ phase \in Preparing) \/ phase \in {"finish", "prepared"} =>
        \A f \in Folded : Over(f) = Meta[f]

\* The cells that the scan has not come by, or is at.
InWork(f) == phase \in Cell \cup {"copy"} /\ f = cell
Later(f) == IF full THEN f >= scan ELSE Raw(f) >= scan
Pending(f) == InWork(f) \/ Later(f)

Untouched ==
    phase \in Scanning /\ ~ full =>
        \A f \in Folded : Pending(f) => Meta[f] = Current[f] /\ index[f] = 0

\* The frame shows the cell as the NES would.
Good(f) ==
    /\ Meta[f] # None /\ rev[Meta[f]] = Pair(Raw(f))
    /\ pattern[Meta[f]] = Drawn(nextTable, Pair(Raw(f)))

\* The slot of a cell has the pair of its column, unless that is dirty; and it
\* shows the pair it has, unless its tile is.
Owns(w, f, columns, bytes) ==
    LET c == FoldToRaw(w, f)
    IN  /\ Meta[f] # None /\ rev[Meta[f]] # None
        /\ c \notin columns /\ c \div AttrSpan \notin bytes => rev[Meta[f]] = Pair(c)
Shows(t, f, stale) ==
    \/ pattern[Meta[f]] = Drawn(t, rev[Meta[f]])
    \/ <<t, rev[Meta[f]][1]>> \in stale

\* The window and the table of the frame on the screen, or on its way there.
NowWindow == IF ready THEN nextWindow ELSE curWindow
NowTable == IF ready THEN nextTable ELSE curTable

OwedIdle ==
    (init \/ ready) /\ phase \in {"idle", "freeze"} =>
        \A f \in Folded :
            Owns(NowWindow, f, dirty, attrDirty) /\ Shows(NowTable, f, chrDirty)
OwedInvalidate ==
    phase = "invalidate" =>
        \A f \in Folded : Owns(curWindow, f, frozen, attrFrozen) /\ Shows(curTable, f, chrFrozen)
OwedScroll ==
    phase = "scroll" =>
        \A f \in Folded : /\ Owns(curWindow, f, frozen, attrFrozen)
                          /\ Raw(f) \in frozen \/ Shows(curTable, f, {})
OwedAttributes ==
    phase = "attributes" =>
        \A f \in Folded : Good(f) \/ Raw(f) \in frozen \/ Raw(f) \div AttrSpan \in attrFrozen
OwedScan ==
    phase \in Scanning /\ ~ full =>
        \A f \in Folded : \/ Good(f)
                          \/ Pending(f) /\ Raw(f) \in frozen
OwedFull ==
    phase \in {"fullscan"} \cup Cell /\ full =>
        \A f \in Folded : \/ Good(f) /\ nt[f] = Meta[f]
                          \/ Pending(f)
Done == phase \in {"finish", "prepared"} => \A f \in Folded : Good(f)

Owed ==
    /\ OwedIdle /\ OwedInvalidate /\ OwedScroll /\ OwedAttributes /\ OwedScan /\ OwedFull
    /\ Done

\* The cell at work, its pair, and the slot that shows it.
InHand ==
    /\ phase \in Cell \cup {"copy"} =>
          key = Pair(Raw(cell)) /\ scan = (IF full THEN cell ELSE Raw(cell)) + 1
    /\ phase \in {"copy", "queue"} =>
          slot \in pins /\ rev[slot] = key /\ pattern[slot] = Drawn(nextTable, key)
    /\ phase \in Scanning \cup {"fullscan"} =>
          \A f \in Folded : Meta[f] \in {None, Current[f]} \cup pins
    /\ phase = "build" => \A f \in Folded : Current[f] # slot /\ Meta[f] # slot

\* A waiting frame, laid over the screen, is the picture published.
Frozen ==
    ready => published = [cells  |-> [f \in Folded |-> pattern[Over(f)]],
                          window |-> nextWindow]

HInv ==
    /\ Raised /\ Still /\ Screen /\ Copies /\ Indexed /\ Overlaid /\ Untouched /\ Owed
    /\ InHand /\ Frozen
-----------------------------------------------------------------------------
(* The columns of a window.                                                 *)

\* The column of a cell, without remainders.
LEMMA RawClosed ==
    ASSUME NEW w \in World, NEW f \in Folded
    PROVE  FoldToRaw(w, f) = IF w < NCols THEN IF f >= w THEN f ELSE f + NCols
                             ELSE IF f >= w - NCols THEN f + NCols ELSE f
<1> DEFINE n == NCols
<1>0. n \in Nat \ {0} /\ 2 * n \in Nat \ {0} /\ w \in 0 .. 2 * n - 1 /\ f \in 0 .. n - 1
  BY SizeAssumption DEF World, Folded
<1> HIDE DEF n
<1> SUFFICES (w + ((f - w) % n)) % (2 * n) =
                 IF w < n THEN IF f >= w THEN f ELSE f + n
                 ELSE IF f >= w - n THEN f + n ELSE f
  BY DEF FoldToRaw, n
<1>1. CASE w < n /\ f >= w
  <2>1. (f - w) % n = f - w
    BY <1>0, <1>1, ModSmall
  <2>2. f % (2 * n) = f
    BY <1>0, ModSmall
  <2> QED
    BY <1>0, <1>1, <2>1, <2>2
<1>2. CASE w < n /\ f < w
  <2>1. (f - w) % n = f - w + n
    BY <1>0, <1>2, ModUnique, f - w = (-1) * n + (f - w + n)
  <2>2. (f + n) % (2 * n) = f + n
    BY <1>0, ModSmall
  <2> QED
    BY <1>0, <1>2, <2>1, <2>2
<1>3. CASE w >= n /\ f >= w - n
  <2>1. (f - w) % n = f - w + n
    BY <1>0, <1>3, ModUnique, f - w = (-1) * n + (f - w + n)
  <2>2. (f + n) % (2 * n) = f + n
    BY <1>0, ModSmall
  <2> QED
    BY <1>0, <1>3, <2>1, <2>2
<1>4. CASE w >= n /\ f < w - n
  <2>1. (f - w) % n = f - w + 2 * n
    BY <1>0, <1>4, ModUnique, f - w = (-2) * n + (f - w + 2 * n)
  <2>2. (f + 2 * n) % (2 * n) = f
    BY <1>0, ModUnique, f + 2 * n = 1 * (2 * n) + f
  <2> QED
    BY <1>0, <1>4, <2>1, <2>2
<1> QED
  BY <1>0, <1>1, <1>2, <1>3, <1>4

\* The distance of a column from the start of a window.
LEMMA Distance ==
    ASSUME NEW c \in World, NEW w \in World
    PROVE  (c - w) % (2 * NCols) = IF c >= w THEN c - w ELSE c - w + 2 * NCols
<1> DEFINE m == 2 * NCols
<1>0. m \in Nat \ {0} /\ c \in 0 .. m - 1 /\ w \in 0 .. m - 1
  BY SizeAssumption DEF World
<1> HIDE DEF m
<1> SUFFICES (c - w) % m = IF c >= w THEN c - w ELSE c - w + m
  BY DEF m
<1>1. CASE c >= w
  BY <1>0, <1>1, ModSmall
<1>2. CASE c < w
  BY <1>0, <1>2, ModUnique, c - w = (-1) * m + (c - w + m)
<1> QED
  BY <1>0, <1>1, <1>2

\* The column some way behind another.
LEMMA Behind ==
    ASSUME NEW w \in World, NEW i \in World
    PROVE  (w + i) % (2 * NCols) = IF w + i < 2 * NCols THEN w + i ELSE w + i - 2 * NCols
<1> DEFINE m == 2 * NCols
<1>0. m \in Nat \ {0} /\ i \in 0 .. m - 1 /\ w \in 0 .. m - 1
  BY SizeAssumption DEF World
<1> HIDE DEF m
<1> SUFFICES (w + i) % m = IF w + i < m THEN w + i ELSE w + i - m
  BY DEF m
<1>1. CASE w + i < m
  BY <1>0, <1>1, ModSmall
<1>2. CASE w + i >= m
  BY <1>0, <1>2, ModUnique, w + i = 1 * m + (w + i - m)
<1> QED
  BY <1>0, <1>1, <1>2

LEMMA FoldClosed ==
    ASSUME NEW c \in World
    PROVE  c % NCols = IF c < NCols THEN c ELSE c - NCols
<1> DEFINE n == NCols
<1>0. n \in Nat \ {0} /\ c \in 0 .. 2 * n - 1
  BY SizeAssumption DEF World
<1> HIDE DEF n
<1> SUFFICES c % n = IF c < n THEN c ELSE c - n
  BY DEF n
<1>1. CASE c < n
  BY <1>0, <1>1, ModSmall
<1>2. CASE c >= n
  BY <1>0, <1>2, ModUnique, c = 1 * n + (c - n)
<1> QED
  BY <1>0, <1>1, <1>2

\* A cell has one column in the window, and a column of the window one cell.
LEMMA RawOfCell ==
    ASSUME NEW w \in World, NEW f \in Folded
    PROVE  /\ FoldToRaw(w, f) \in World /\ FoldToRaw(w, f) % NCols = f
           /\ ((FoldToRaw(w, f) - w) % (2 * NCols)) < NCols
<1> DEFINE c == FoldToRaw(w, f)
<1>1. c \in World
  BY RawInWorld
<1>2. c = IF w < NCols THEN IF f >= w THEN f ELSE f + NCols
          ELSE IF f >= w - NCols THEN f + NCols ELSE f
  BY RawClosed
<1>3. /\ c % NCols = IF c < NCols THEN c ELSE c - NCols
      /\ (c - w) % (2 * NCols) = IF c >= w THEN c - w ELSE c - w + 2 * NCols
  BY <1>1, FoldClosed, Distance
<1> HIDE DEF c
<1>4. c % NCols = f
  BY <1>1, <1>2, <1>3, SizeAssumption DEF World, Folded
<1>5. (c - w) % (2 * NCols) < NCols
  BY <1>1, <1>2, <1>3, SizeAssumption DEF World, Folded
<1> QED
  BY <1>1, <1>4, <1>5 DEF c

LEMMA CellOfRaw ==
    ASSUME NEW w \in World, NEW c \in World, ((c - w) % (2 * NCols)) < NCols
    PROVE  c % NCols \in Folded /\ FoldToRaw(w, c % NCols) = c
<1> DEFINE f == c % NCols
<1>1. f \in Folded
  BY ColumnInFolded
<1>2. /\ f = IF c < NCols THEN c ELSE c - NCols
      /\ (IF c >= w THEN c - w ELSE c - w + 2 * NCols) < NCols
  BY FoldClosed, Distance
<1>3. FoldToRaw(w, f) = IF w < NCols THEN IF f >= w THEN f ELSE f + NCols
                        ELSE IF f >= w - NCols THEN f + NCols ELSE f
  BY <1>1, RawClosed
<1> HIDE DEF f
<1>4. FoldToRaw(w, f) = c
  BY <1>1, <1>2, <1>3, SizeAssumption DEF World, Folded
<1> QED
  BY <1>1, <1>4 DEF f

\* A cell whose column changes when the window moves a little has one that is
\* exposed.
LEMMA ExposedCovers ==
    ASSUME curWindow \in World, nextWindow \in World, NEW f \in Folded,
           ~ (Advance > MaxScroll /\ Advance < 2 * NCols - MaxScroll),
           Raw(f) # FoldToRaw(curWindow, f)
    PROVE  Raw(f) \in Exposed
<1> DEFINE c == FoldToRaw(nextWindow, f)
           m == 2 * NCols
           a == (nextWindow - curWindow) % m
           e == (c - nextWindow) % m
           d == (c - curWindow) % m
<1>1. c \in World /\ c % NCols = f /\ e < NCols
  BY RawOfCell
<1>8. d = IF c >= curWindow THEN c - curWindow ELSE c - curWindow + m
  BY <1>1, Distance
<1>2. d >= NCols
  <2> SUFFICES ASSUME d < NCols PROVE FALSE
    <3>1. d \in Int
      <4> HIDE DEF c, d
      <4> QED
        BY <1>1, <1>8, SizeAssumption DEF World
    <3> QED
      BY <3>1, SizeAssumption
  <2>1. FoldToRaw(curWindow, f) = c
    BY <1>1, CellOfRaw
  <2> QED
    BY <2>1 DEF Raw
<1>3. /\ a = IF nextWindow >= curWindow THEN nextWindow - curWindow
              ELSE nextWindow - curWindow + m
      /\ e = IF c >= nextWindow THEN c - nextWindow ELSE c - nextWindow + m
      /\ d = IF c >= curWindow THEN c - curWindow ELSE c - curWindow + m
  BY <1>1, Distance
<1>4. /\ NCols \in Nat \ {0} /\ MaxScroll \in Nat /\ MaxScroll < NCols
      /\ m = 2 * NCols /\ c \in 0 .. m - 1 /\ nextWindow \in 0 .. m - 1
      /\ curWindow \in 0 .. m - 1
  BY <1>1, SizeAssumption DEF World
<1>5. a = Advance /\ c = Raw(f)
  BY DEF Advance, Raw
<1>6. CASE Advance <= MaxScroll
  <2>1. a <= MaxScroll /\ d - NCols \in 0 .. a - 1
    <3> HIDE DEF a, e, d, c, m
    <3> QED
      BY <1>1, <1>2, <1>3, <1>4, <1>5, <1>6
  <2>2. d \in World /\ (curWindow + d) % m = c
    <3>1. d \in World
      <4> HIDE DEF a, e, d, c, m
      <4> QED
        BY <1>2, <1>3, <1>4 DEF World, m
    <3>2. (curWindow + d) % m = IF curWindow + d < m THEN curWindow + d ELSE curWindow + d - m
      BY <3>1, Behind
    <3> HIDE DEF a, e, d, c, m
    <3> QED
      BY <1>3, <1>4, <3>1, <3>2
  <2>3. PICK i \in 0 .. Advance - 1 : i = d - NCols
    BY <1>5, <2>1
  <2>4. curWindow + NCols + i = curWindow + d
    <3>1. d \in Int
      BY <2>2 DEF World
    <3> HIDE DEF d
    <3> QED
      BY <1>4, <2>3, <3>1
  <2>5. (curWindow + NCols + i) % (2 * NCols) = Raw(f)
    BY <1>5, <2>2, <2>4
  <2> QED
    BY <1>6, <2>5 DEF Exposed
<1>7. CASE ~ (Advance <= MaxScroll)
  <2>1. e \in 0 .. m - a - 1
    <3> HIDE DEF a, e, d, c, m
    <3> QED
      BY <1>1, <1>2, <1>3, <1>4, <1>5, <1>7
  <2>2. e \in World /\ (nextWindow + e) % m = c
    <3>1. e \in World
      <4> HIDE DEF a, e, d, c, m
      <4> QED
        BY <1>3, <1>4 DEF World, m
    <3>2. (nextWindow + e) % m = IF nextWindow + e < m THEN nextWindow + e ELSE nextWindow + e - m
      BY <3>1, Behind
    <3> HIDE DEF a, e, d, c, m
    <3> QED
      BY <1>3, <1>4, <3>1, <3>2
  <2>3. PICK i \in 0 .. 2 * NCols - Advance - 1 : i = e
    BY <1>5, <2>1
  <2>4. (nextWindow + i) % (2 * NCols) = Raw(f)
    BY <1>5, <2>2, <2>3
  <2> QED
    BY <1>7, <2>4 DEF Exposed
<1> QED
  BY <1>6, <1>7
-----------------------------------------------------------------------------
(* What a step leaves alone.                                                *)

LEMMA SameMeta ==
    ASSUME UNCHANGED <<copied, shadow, selector>>
    PROVE  Meta' = Meta /\ Current' = Current
BY DEF Meta, Current, NextCopy

LEMMA SameOver ==
    ASSUME UNCHANGED packet, NEW f \in Folded, nt'[f] = nt[f]
    PROVE  Over(f)' = Over(f)
<1>1. Written(f)' = Written(f)
  BY DEF Written
<1> HIDE DEF Written
<1> QED
  BY <1>1 DEF Over

LEMMA NoRecords ==
    ASSUME packet = <<>>, NEW f \in Folded
    PROVE  Over(f) = nt[f]
<1>1. Written(f) = {}
  BY DEF Written
<1> QED
  BY <1>1 DEF Over

\* A cell of which nothing is touched stays as it is.
LEMMA SameCell ==
    ASSUME NEW f \in Folded, Meta'[f] = Meta[f],
           UNCHANGED <<base, attr, chr, nextTable, nextWindow>>,
           rev'[Meta[f]] = rev[Meta[f]], pattern'[Meta[f]] = pattern[Meta[f]]
    PROVE  Good(f)' = Good(f) /\ Raw(f)' = Raw(f)
BY DEF Good, Raw, Pair, Drawn, FoldToRaw

\* While a frame is prepared the program stands still.
LEMMA SameSource ==
    ASSUME [Next]_vars, ~ Produce, ~ Freeze, ~ Reset
    PROVE  UNCHANGED sourceVars
BY DEF Next, Prepare, Begin, Invalidate, Scroll, Attributes, DirtyScan, FullScan, Resolve,
       Allocate, Build, Copy, Queue, Blanked, Finish, Publish, Commit, vars, sourceVars

\* Only a step between frames has the source, or takes a waiting frame.
LEMMA ByPhase ==
    ASSUME Types, Control, [Next]_vars, phase # "idle"
    PROVE  ~ ready /\ ~ Produce /\ ~ Begin /\ ~ Commit
BY DEF Control, Produce, WriteTile, WriteAttr, WriteChr, WriteControl, Writing, Begin, Commit
-----------------------------------------------------------------------------
(* The simple parts of the invariant.                                       *)

LEMMA HandoverInit == Init => HInv
<1> SUFFICES ASSUME Init PROVE HInv
  OBVIOUS
<1> USE DEF Init
<1>1. Raised /\ Still /\ Untouched /\ InHand /\ Frozen /\ Overlaid /\ Owed
  BY DEF Raised, Still, Untouched, InHand, Frozen, Overlaid, Owed, OwedIdle, OwedInvalidate,
         OwedScroll, OwedAttributes, OwedScan, OwedFull, Done, Scanning, Preparing, Cell
<1>2. Screen /\ Copies
  BY DEF Screen, Copies, Preparing, Cell
<1>3. Indexed
  BY DEF Indexed, Scanning, Cell, EmptyIndex
<1> QED
  BY <1>1, <1>2, <1>3 DEF HInv

LEMMA RaisedStep == ASSUME Types, Control, Raised, [Next]_vars PROVE Raised'
<1>1. CASE Produce
  <2>1. UNCHANGED <<phase, full, frozen, frozenFlags, attrFrozen>> /\ phase = "idle"
    BY <1>1 DEF Produce, WriteTile, WriteAttr, WriteChr, WriteControl, Writing, frozenVars,
                queueVars
  <2>2. /\ dirty' # {} => "nt" \in flags'
        /\ attrDirty' # {} => {"nt", "attr"} \subseteq flags'
    BY <1>1 DEF Raised, Produce, WriteTile, WriteAttr, WriteChr, WriteControl
  <2> QED
    BY <2>1, <2>2 DEF Raised
<1>2. CASE Freeze
  BY <1>2 DEF Freeze, Raised, queueVars
<1>3. CASE Invalidate
  <2>1. frozen' # {} => frozen # {} \/ \E b \in Base : ChangedTile(b)
    <3> SUFFICES ASSUME NEW g \in Folded, ChangedTile(rev[Current[g]][1])
                 PROVE  \E b \in Base : ChangedTile(b)
      BY <1>3 DEF Invalidate
    <3> QED
      BY DEF ChangedTile, Types, FrozenType
  <2>2. ~ full /\ frozen # {} => "nt" \in frozenFlags
    BY <1>3 DEF Invalidate, Raised
  <2>3. ~ full /\ frozen' # {} => "nt" \in frozenFlags'
    BY <1>3, <2>1, <2>2 DEF Invalidate
  <2> QED
    BY <1>3, <2>3 DEF Invalidate, Raised, sourceVars, queueVars
<1>4. CASE Scroll
  <2>1. Advance = 0 => Exposed = {}
    BY SizeAssumption DEF Exposed
  <2>2. phase' = "attributes" => (~ full /\ frozen' # {} => "nt" \in frozenFlags')
    BY <1>4, <2>1 DEF Scroll, Raised, RequestFull
  <2>3. phase' \in {"attributes", "fence", "failed"}
    BY <1>4 DEF Scroll, RequestFull
  <2>4. UNCHANGED <<full, attrFrozen, sourceVars>> /\ frozenFlags \subseteq frozenFlags'
    BY <1>4 DEF Scroll, queueVars
  <2> QED
    BY <1>4, <2>2, <2>3, <2>4 DEF Scroll, Raised, sourceVars
<1>5. CASE ~ Produce /\ ~ Freeze /\ ~ Invalidate /\ ~ Scroll
  <2>1. /\ UNCHANGED <<dirty, attrDirty, flags>>
        /\ \/ phase' \notin {"invalidate", "scroll", "attributes"}
           \/ UNCHANGED <<phase, frozen, attrFrozen, frozenFlags, full>>
    BY <1>5 DEF Next, Prepare, Begin, Attributes, DirtyScan, FullScan, LoadCell, Resolve,
                Resolved, NextCell, Allocate, Build, Copy, Queue, Note, RequestFull, Blanked,
                Reset, Finish, Publish, Commit, vars, sourceVars, frozenVars, queueVars
  <2> QED
    BY <2>1 DEF Raised
<1> QED
  BY <1>1, <1>2, <1>3, <1>4, <1>5

LEMMA StillStep ==
    ASSUME Types, Control, Flagged, Raised, Still, [Next]_vars
    PROVE  Still'
<1>1. CASE Produce
  BY <1>1 DEF Still, Produce, WriteTile, WriteAttr, WriteChr, WriteControl, Writing
<1>2. CASE Begin
  <2>1. /\ nextTable' = table' /\ nextWindow' = window' /\ phase' \in {"freeze", "prepared"}
        /\ UNCHANGED <<dirty, attrDirty, chrDirty>>
    BY <1>2 DEF Begin, sourceVars
  <2>2. phase' = "prepared" => "nt" \notin flags /\ table \notin flags /\ nextTable' = table
    BY <1>2 DEF Begin
  <2>3. phase' = "prepared" =>
          dirty = {} /\ attrDirty = {} /\ \A p \in chrDirty : p[1] # nextTable'
    BY <2>2 DEF Raised, Flagged
  <2> QED
    BY <2>1, <2>3 DEF Still
<1>3. CASE Freeze
  BY <1>3 DEF Freeze, Still, RequestFull
<1>4. CASE Reset
  BY <1>4 DEF Reset, Still, frozenVars
<1>5. CASE ~ Produce /\ ~ Begin /\ ~ Freeze /\ ~ Reset
  <2>1. UNCHANGED sourceVars
    BY <1>5, SameSource
  <2>2. /\ UNCHANGED <<nextTable, nextWindow>>
        /\ \/ phase' = "idle"
           \/ UNCHANGED phase
           \/ phase \notin {"idle", "freeze"} /\ phase' \notin {"idle", "freeze"}
    BY <1>5 DEF Next, Prepare, Invalidate, Scroll, Attributes, DirtyScan, FullScan, LoadCell,
                Resolve, Resolved, NextCell, Allocate, Build, Copy, Queue, Note, RequestFull,
                Blanked, Finish, Publish, Commit, vars, frozenVars
  <2> QED
    BY <2>1, <2>2 DEF Still, sourceVars
<1> QED
  BY <1>1, <1>2, <1>3, <1>4, <1>5

LEMMA ScreenStep ==
    ASSUME Types, Types', Control, Screen, Copies, Overlaid, [Next]_vars
    PROVE  Screen'
<1> USE DEF Cell, Preparing
<1>0. full \in BOOLEAN /\ ready \in BOOLEAN /\ phase \in Phase
  BY DEF Types, QueueType, HandType
<1>1. CASE Produce
  <2>1. UNCHANGED <<phase, full, ready, published, init, displayOn, nt, copied, shadow, selector>>
    BY <1>1 DEF Produce, WriteTile, WriteAttr, WriteChr, WriteControl, queueVars, metaVars,
                screenVars, handVars
  <2> QED
    BY <2>1, SameMeta DEF Screen
<1>2. CASE Begin
  <2>1. UNCHANGED <<init, displayOn, nt, shadow, selector, ready, published>> /\ ~ ready
        /\ full' = FALSE /\ phase = "idle" /\ phase' \in {"prepared", "freeze"}
        /\ (phase' = "prepared" => init)
    BY <1>2 DEF Begin, screenVars, metaVars, handVars
  <2>2. Current' = Current
    BY <2>1 DEF Current
  <2> QED
    BY <2>1, <2>2 DEF Screen
<1>3. CASE Freeze
  <2>1. UNCHANGED <<full, init, displayOn, nt, shadow, selector, copied, ready, published>>
        /\ phase = "freeze" /\ phase' \in {"failed", "fence", "invalidate", "scroll"}
        /\ (phase' \in {"invalidate", "scroll"} => init)
    BY <1>3 DEF Freeze, RequestFull, screenVars, metaVars, handVars, queueVars
  <2>2. Current' = Current
    BY <2>1 DEF Current
  <2> QED
    BY <1>0, <2>1, <2>2 DEF Screen, Control
<1>4. CASE Invalidate \/ Scroll \/ Attributes \/ DirtyScan \/ FullScan \/ Resolve
           \/ Allocate \/ Build
  <2>1. /\ UNCHANGED <<full, init, displayOn, nt, shadow, selector, ready, published>>
        /\ \/ phase \in Preparing
           \/ phase = "fullscan"
        /\ phase' # "idle"
    BY <1>4 DEF Invalidate, Scroll, Attributes, DirtyScan, FullScan, LoadCell, Resolve, Resolved,
                NextCell, Allocate, Build, RequestFull, screenVars, metaVars, handVars, queueVars
  <2>2. Current' = Current
    BY <2>1 DEF Current
  <2>3. phase # "idle" /\ (full \/ phase \in Preparing)
    BY <2>1 DEF Control
  <2> QED
    BY <1>0, <2>1, <2>2, <2>3 DEF Screen
<1>5. CASE Copy
  <2>1. /\ UNCHANGED <<full, init, displayOn, nt, selector, ready, published>>
        /\ phase = "copy" /\ phase' = "queue"
        /\ shadow' = [shadow EXCEPT ![NextCopy] = Current]
    BY <1>5 DEF Copy, screenVars, handVars
  <2>2. Current' = Current
    <3>1. selector \in 0 .. 1 /\ NextCopy # selector
      BY DEF Types, MetaType, NextCopy
    <3> QED
      BY <2>1, <3>1 DEF Current, Types, MetaType
  <2> QED
    BY <1>0, <2>1, <2>2 DEF Screen
<1>6. CASE Queue
  <2>1. /\ UNCHANGED <<full, init, displayOn, selector, ready, published>>
        /\ phase = "queue" /\ phase' # "idle" /\ (~ full => UNCHANGED nt)
    BY <1>6 DEF Queue, Note, NextCell, RequestFull, screenVars, metaVars, handVars
  <2>2. Current' = Current
    <3>1. selector \in 0 .. 1 /\ NextCopy # selector
      BY DEF Types, MetaType, NextCopy
    <3>2. shadow' = shadow \/ shadow' = [shadow EXCEPT ![NextCopy][cell] = slot]
      BY <1>6 DEF Queue, Note, metaVars
    <3> QED
      BY <2>1, <3>1, <3>2 DEF Current, Types, MetaType
  <2> QED
    BY <1>0, <2>1, <2>2 DEF Screen
<1>7. CASE Blanked \/ Reset
  <2>1. /\ UNCHANGED <<init, ready, published>> /\ full' /\ phase' \in {"reset", "fullscan"}
        /\ ~ displayOn' /\ phase \in {"reset", "fence"}
    BY <1>7 DEF Blanked, Reset, screenVars, handVars, Screen, Control
  <2> QED
    BY <1>0, <2>1 DEF Screen, Control
<1>8. CASE Finish \/ Publish
  <2>1. /\ UNCHANGED <<full, init, displayOn, nt, shadow, selector>>
        /\ \/ phase = "finish" /\ phase' = "prepared" /\ UNCHANGED <<ready, published>>
           \/ phase = "prepared" /\ phase' = "idle" /\ ready' = TRUE /\ published' = Source
    BY <1>8 DEF Finish, Publish, screenVars, metaVars, handVars, queueVars
  <2>2. Current' = Current
    BY <2>1 DEF Current
  <2>3. Source # None
    BY SourceIsPicture, ValueAssumption DEF Types
  <2> QED
    BY <1>0, <2>1, <2>2, <2>3 DEF Screen
<1>9. CASE Commit
  <2>1. /\ init' /\ displayOn' /\ ~ ready' /\ published' = None /\ UNCHANGED <<full, phase>>
        /\ ready /\ phase = "idle"
    BY <1>9 DEF Commit, Control
  <2>2. \A f \in Folded : nt'[f] = Current'[f]
    <3> SUFFICES ASSUME NEW f \in Folded PROVE nt'[f] = Current'[f]
      OBVIOUS
    <3>1. nt'[f] = Over(f)
      BY <1>9 DEF Commit, Over, Chosen
    <3>2. Current' = Meta
      BY <1>9 DEF Commit, Current, Meta, NextCopy
    <3> QED
      BY <2>1, <3>1, <3>2 DEF Overlaid
  <2> QED
    BY <1>0, <2>1, <2>2 DEF Screen
<1>10. CASE UNCHANGED vars
  <2>1. UNCHANGED <<phase, full, ready, published, init, displayOn, nt, copied, shadow, selector>>
    BY <1>10 DEF vars, queueVars, metaVars, screenVars, handVars
  <2> QED
    BY <2>1, SameMeta DEF Screen
<1> QED
  BY <1>1, <1>2, <1>3, <1>4, <1>5, <1>6, <1>7, <1>8, <1>9, <1>10 DEF Next, Prepare

LEMMA CopiesStep == ASSUME Types, Control, Copies, [Next]_vars PROVE Copies'
<1> USE DEF RequestFull, NextCell, Cell, queueVars, handVars
<1>1. CASE Produce \/ UNCHANGED vars
  <2>1. UNCHANGED <<phase, ready, copied, packet, full>>
    BY <1>1 DEF Produce, WriteTile, WriteAttr, WriteChr, WriteControl, vars
  <2> QED
    BY <2>1 DEF Copies
<1>2. CASE Begin \/ Freeze
  BY <1>2 DEF Begin, Freeze, Copies, Control
<1>3. CASE Invalidate \/ Scroll \/ Attributes
  BY <1>3 DEF Invalidate, Scroll, Attributes, Copies, Control
<1>4. CASE DirtyScan \/ FullScan
  BY <1>4 DEF DirtyScan, FullScan, LoadCell, Copies, Control
<1>5. CASE Resolve \/ Allocate \/ Build
  BY <1>5 DEF Resolve, Allocate, Build, Resolved, Copies, Control
<1>6. CASE Copy \/ Finish \/ Publish
  BY <1>6 DEF Copy, Finish, Publish, Copies, Control
<1>7. CASE Queue
  BY <1>7 DEF Queue, Note, Copies, Control
<1>8. CASE Blanked \/ Reset \/ Commit
  BY <1>8 DEF Blanked, Reset, Commit, Copies, Control
<1> QED
  BY <1>1, <1>2, <1>3, <1>4, <1>5, <1>6, <1>7, <1>8 DEF Next, Prepare
-----------------------------------------------------------------------------
(* The records of a frame.                                                  *)

\* A cell that is queued has no record, and gets the last.
LEMMA Queued ==
    ASSUME Types, Untouched, Queue, ~ full
    PROVE  \/ /\ phase' = "fence"
              /\ UNCHANGED <<packet, index, shadow, selector, nt>>
           \/ /\ phase' = "scan"
              /\ index[cell] = 0 /\ Len(packet) + 1 \in 1 .. MaxRecords
              /\ packet' = Append(packet, [cell |-> cell, slot |-> slot])
              /\ index' = [index EXCEPT ![cell] = Len(packet) + 1]
              /\ shadow' = [shadow EXCEPT ![NextCopy][cell] = slot]
              /\ UNCHANGED <<selector, nt>>
<1>1. index[cell] = 0
  <2>1. cell \in Folded /\ Pending(cell) /\ phase \in Scanning
    BY DEF Queue, Types, WorkType, Pending, InWork, Scanning, Cell
  <2> QED
    BY <2>1 DEF Untouched
<1>2. Room => Len(packet) + 1 \in 1 .. MaxRecords
  <2>1. Len(packet) \in Nat
    BY LenProperties DEF Types, QueueType
  <2> QED
    BY <2>1, SizeAssumption DEF Room
<1> QED
  BY <1>1, <1>2 DEF Queue, Note, NextCell, RequestFull, metaVars, screenVars

LEMMA Appended ==
    ASSUME packet \in Seq(Record), NEW r \in Record, packet' = Append(packet, r)
    PROVE  /\ DOMAIN packet' = DOMAIN packet \cup {Len(packet) + 1}
           /\ Len(packet) + 1 \notin DOMAIN packet
           /\ \A i \in DOMAIN packet : packet'[i] = packet[i]
           /\ packet'[Len(packet) + 1] = r
BY AppendProperties, LenProperties

\* The record lies over its cell alone.
LEMMA OverAppend ==
    ASSUME Types, NEW c \in Folded, NEW s \in Slot,
           packet' = Append(packet, [cell |-> c, slot |-> s]),
           \A i \in DOMAIN packet : packet[i].cell # c,
           NEW f \in Folded, nt' = nt
    PROVE  Over(f)' = IF f = c THEN s ELSE Over(f)
<1>1. /\ DOMAIN packet' = DOMAIN packet \cup {Len(packet) + 1}
      /\ \A i \in DOMAIN packet : packet'[i] = packet[i]
      /\ packet'[Len(packet) + 1] = [cell |-> c, slot |-> s]
      /\ Len(packet) + 1 \notin DOMAIN packet
  <2>1. [cell |-> c, slot |-> s] \in Record
    BY DEF Record
  <2> QED
    BY <2>1, Appended DEF Types, QueueType
<1>2. CASE f = c
  <2>1. Written(f)' = {s}
    BY <1>1, <1>2 DEF Written
  <2>2. Chosen({s}) = s
    BY DEF Chosen
  <2> HIDE DEF Written
  <2> QED
    BY <1>2, <2>1, <2>2 DEF Over
<1>3. CASE f # c
  <2>1. Written(f)' = Written(f)
    <3>1. {j \in DOMAIN packet' : packet'[j].cell = f} = {j \in DOMAIN packet : packet[j].cell = f}
      BY <1>1, <1>3
    <3> QED
      BY <1>1, <3>1 DEF Written
  <2> HIDE DEF Written
  <2> QED
    BY <1>3, <2>1 DEF Over
<1> QED
  BY <1>2, <1>3

LEMMA IndexedStep ==
    ASSUME Types, Types', Control, Copies, Untouched, Indexed, [Next]_vars
    PROVE  Indexed'
<1> USE DEF Scanning, Cell
<1>1. CASE Produce \/ UNCHANGED vars
  <2>1. UNCHANGED <<phase, packet, index>>
    BY <1>1 DEF Produce, WriteTile, WriteAttr, WriteChr, WriteControl, vars, queueVars
  <2> QED
    BY <2>1 DEF Indexed
<1>2. CASE Begin \/ Commit
  <2>1. packet' = <<>> /\ UNCHANGED index /\ phase = "idle"
        /\ phase' \in {"idle", "freeze", "prepared"}
    BY <1>2 DEF Begin, Commit, Control
  <2> QED
    BY <2>1 DEF Indexed
<1>3. CASE Freeze \/ Invalidate \/ Scroll
  <2>1. /\ UNCHANGED <<packet, index>> /\ phase \in {"freeze", "invalidate", "scroll"}
        /\ phase' \in {"fence", "failed", "invalidate", "scroll", "attributes"}
    BY <1>3 DEF Freeze, Invalidate, Scroll, RequestFull, queueVars
  <2> QED
    BY <2>1 DEF Indexed
<1>4. CASE Attributes
  <2>1. UNCHANGED <<packet, index>> /\ phase = "attributes" /\ phase' \in {"scan", "finish"}
    BY <1>4 DEF Attributes, queueVars
  <2>2. packet = <<>>
    BY <2>1 DEF Copies
  <2> QED
    BY <2>1, <2>2 DEF Indexed
<1>5. CASE DirtyScan \/ FullScan \/ Resolve \/ Allocate \/ Build \/ Copy
  <2>1. /\ UNCHANGED <<packet, index>> /\ phase \in Scanning \cup {"fullscan"}
        /\ phase' \in Scanning \cup {"fullscan", "finish", "fence", "failed"}
    BY <1>5 DEF DirtyScan, FullScan, LoadCell, Resolve, Resolved, NextCell, Allocate, Build,
                Copy, RequestFull, queueVars
  <2> QED
    BY <2>1 DEF Indexed
<1>6. CASE Queue /\ full
  <2>1. UNCHANGED <<packet, index>> /\ phase = "queue" /\ phase' = "fullscan"
    BY <1>6 DEF Queue, Note, NextCell
  <2> QED
    BY <2>1 DEF Indexed
<1>7. CASE Queue /\ ~ full
  <2>1. phase = "queue"
    BY <1>7 DEF Queue
  <2>2. CASE phase' = "fence" /\ UNCHANGED <<packet, index>>
    BY <2>1, <2>2 DEF Indexed
  <2>3. CASE /\ phase' = "scan" /\ index[cell] = 0 /\ Len(packet) + 1 \in 1 .. MaxRecords
             /\ packet' = Append(packet, [cell |-> cell, slot |-> slot])
             /\ index' = [index EXCEPT ![cell] = Len(packet) + 1]
    <3>1. /\ DOMAIN packet' = DOMAIN packet \cup {Len(packet) + 1}
          /\ \A i \in DOMAIN packet : packet'[i] = packet[i]
          /\ packet'[Len(packet) + 1] = [cell |-> cell, slot |-> slot]
          /\ Len(packet) + 1 \notin DOMAIN packet
      <4>1. [cell |-> cell, slot |-> slot] \in Record
        BY DEF Record, Types, WorkType
      <4> QED
        BY <2>3, <4>1, Appended DEF Types, QueueType
    <3>2. \A i \in DOMAIN packet : packet[i].cell # cell
      BY <2>1, <2>3 DEF Indexed
    <3>3. \A i, j \in DOMAIN packet' : packet'[i].cell = packet'[j].cell => i = j
      BY <3>1, <3>2 DEF Indexed
    <3>4. \A f \in Folded : index'[f] # 0 => \E i \in DOMAIN packet' : packet'[i].cell = f
      BY <2>1, <2>3, <3>1 DEF Indexed, Types, QueueType
    <3>5. \A i \in DOMAIN packet' : index'[packet'[i].cell] # 0
      <4>1. index'[cell] # 0
        BY <2>3 DEF Types, QueueType, WorkType
      <4>2. \A f \in Folded : f # cell => index'[f] = index[f]
        BY <2>3 DEF Types, QueueType, WorkType
      <4>3. \A i \in DOMAIN packet : packet[i].cell \in Folded
        <5>1. \A i \in DOMAIN packet : packet[i] \in Record
          BY ElementOfSeq, LenProperties DEF Types, QueueType
        <5> QED
          BY <5>1 DEF Record
      <4> QED
        BY <2>1, <3>1, <3>2, <4>1, <4>2, <4>3 DEF Indexed
    <3> QED
      BY <2>3, <3>3, <3>4, <3>5 DEF Indexed
  <2> QED
    BY <1>7, <2>2, <2>3, Queued
<1>8. CASE Blanked
  <2>1. packet' = <<>> /\ phase' = "reset"
    BY <1>8 DEF Blanked
  <2> QED
    BY <2>1 DEF Indexed
<1>9. CASE Reset
  <2>1. phase = "reset" /\ phase' = "fullscan" /\ index' = EmptyIndex /\ UNCHANGED packet
    BY <1>9 DEF Reset
  <2>2. packet = <<>>
    BY <2>1 DEF Copies, Control
  <2> QED
    BY <2>1, <2>2 DEF Indexed, EmptyIndex
<1>10. CASE Finish
  <2>1. /\ phase = "finish" /\ phase' = "prepared" /\ UNCHANGED packet
        /\ index' = [f \in Folded |-> IF \E i \in DOMAIN packet : packet[i].cell = f
                                      THEN 0 ELSE index[f]]
    BY <1>10 DEF Finish
  <2>2. \A f \in Folded : index'[f] = 0
    BY <2>1 DEF Indexed
  <2> QED
    BY <2>1, <2>2 DEF Indexed
<1>11. CASE Publish
  <2>1. phase = "prepared" /\ phase' = "idle" /\ UNCHANGED <<packet, index>>
    BY <1>11 DEF Publish, queueVars
  <2> QED
    BY <2>1 DEF Indexed
<1> QED
  BY <1>1, <1>2, <1>3, <1>4, <1>5, <1>6, <1>7, <1>8, <1>9, <1>10, <1>11 DEF Next, Prepare

\* The least due column is that of the cell at work, and is taken off the scan.
LEMMA Scanned ==
    ASSUME Types, DirtyScan, Due # {}
    PROVE  /\ phase' = "resolve" /\ cell' \in Folded /\ scan' = Raw(cell') + 1
           /\ Raw(cell') \in Due /\ Raw(cell') \in Int
           /\ \A d \in Due : Raw(cell') <= d
           /\ key' = Pair(Raw(cell'))
<1>1. PICK c \in Due : /\ \A d \in Due : c <= d
                       /\ LoadCell(c) /\ scan' = c + 1
  BY DEF DirtyScan
<1>2. c \in World /\ ((c - nextWindow) % (2 * NCols)) < NCols
  BY DEF Due, InWindow, Types, FrozenType
<1>3. c % NCols \in Folded /\ FoldToRaw(nextWindow, c % NCols) = c
  BY <1>2, CellOfRaw DEF Types, FrozenType
<1>4. Raw(cell') = c /\ cell' \in Folded
  BY <1>1, <1>3 DEF LoadCell, Raw
<1>5. c \in Int
  BY <1>2, SizeAssumption DEF World
<1> QED
  BY <1>1, <1>4, <1>5 DEF LoadCell, Pair

\* The columns that are due are those the scan has to come by.
LEMMA DueColumns ==
    ASSUME Types, NEW f \in Folded
    PROVE  /\ Raw(f) \in World /\ Raw(f) \in Nat /\ Raw(f) < 2 * NCols
           /\ (Raw(f) \in Due) <=> (Raw(f) \in frozen /\ Raw(f) >= scan)
<1>1. /\ FoldToRaw(nextWindow, f) \in World
      /\ ((FoldToRaw(nextWindow, f) - nextWindow) % (2 * NCols)) < NCols
  BY RawOfCell DEF Types, FrozenType
<1>2. Raw(f) \in Nat /\ Raw(f) < 2 * NCols
  BY <1>1, SizeAssumption DEF Raw, World
<1> QED
  BY <1>1, <1>2 DEF Raw, Due, InWindow

\* Columns of different cells differ.
LEMMA RawInjective ==
    ASSUME Types, NEW f \in Folded, NEW g \in Folded, Raw(f) = Raw(g)
    PROVE  f = g
BY RawOfCell DEF Raw, Types, FrozenType

\* What the scan leaves pending was pending before.
LEMMA PendingScan ==
    ASSUME Types, ~ full, DirtyScan, Due # {}, NEW f \in Folded
    PROVE  /\ Pending(f)' => Pending(f)
           /\ Pending(f) /\ Raw(f) \in frozen => Pending(f)'
<1>1. /\ phase' = "resolve" /\ cell' \in Folded /\ scan' = Raw(cell') + 1
      /\ Raw(cell') \in Due /\ Raw(cell') \in Int /\ \A d \in Due : Raw(cell') <= d
  BY Scanned
<1>2. /\ phase = "scan" /\ UNCHANGED <<nextWindow, full>>
  BY DEF DirtyScan, frozenVars, queueVars
<1>3. Raw(f)' = Raw(f) /\ Raw(cell') >= scan
  BY <1>1, <1>2 DEF Raw, FoldToRaw, Due
<1>4. /\ Raw(f) \in Int /\ scan \in Int
      /\ (Raw(f) \in Due) <=> (Raw(f) \in frozen /\ Raw(f) >= scan)
  BY DueColumns, SizeAssumption DEF Types, WorkType
<1>9. /\ scan' = Raw(cell') + 1 /\ Raw(cell') >= scan
      /\ Raw(cell') \in Int /\ Raw(f) \in Int /\ scan \in Int
  BY <1>1, <1>3, <1>4
<1>5. Pending(f) <=> (Raw(f) >= scan)
  BY <1>2 DEF Pending, InWork, Later, Cell
<1>6. Pending(f)' <=> (f = cell' \/ Raw(f) >= scan')
  BY <1>1, <1>2, <1>3 DEF Pending, InWork, Later, Cell
<1>7. Pending(f)' => Pending(f)
  <2>1. CASE f = cell'
    BY <1>3, <1>5, <2>1
  <2>2. CASE Raw(f) >= scan'
    <3>1. Raw(f) >= scan
      BY <1>9, <2>2
    <3> QED
      BY <1>5, <3>1
  <2> QED
    BY <1>6, <2>1, <2>2
<1>8. ASSUME Raw(f) >= scan, Raw(f) \in frozen PROVE f = cell' \/ Raw(f) >= scan'
  <2>1. Raw(cell') <= Raw(f)
    BY <1>1, <1>4, <1>8
  <2>2. CASE Raw(cell') = Raw(f)
    BY <1>1, <2>2, RawInjective
  <2>3. CASE Raw(cell') # Raw(f)
    BY <1>9, <2>1, <2>3
  <2> QED
    BY <2>2, <2>3
<1> QED
  BY <1>5, <1>6, <1>7, <1>8

\* After its cell is done, the scan stands behind it.
LEMMA PendingNext ==
    ASSUME Types, InHand, ~ full, phase \in Cell, phase' = "scan",
           UNCHANGED <<scan, nextWindow, full>>, NEW f \in Folded
    PROVE  Pending(f)' <=> (Pending(f) /\ f # cell)
<1>1. scan = Raw(cell) + 1 /\ cell \in Folded
  BY DEF InHand, Types, WorkType
<1>2. Raw(f) \in Int /\ Raw(cell) \in Int
  BY <1>1, DueColumns
<1>3. Raw(f)' = Raw(f)
  BY DEF Raw, FoldToRaw
<1>4. Pending(f)' <=> (Raw(f) >= scan)
  BY <1>3 DEF Pending, InWork, Later, Cell
<1>5. Pending(f) <=> (f = cell \/ Raw(f) >= scan)
  BY DEF Pending, InWork, Later
<1>6. CASE f = cell
  <2>1. ~ Raw(f) >= scan
    BY <1>1, <1>2, <1>6
  <2> QED
    BY <1>4, <1>6, <2>1
<1>7. CASE f # cell
  BY <1>4, <1>5, <1>7
<1> QED
  BY <1>6, <1>7

\* As long as a cell is at work, the same cells are pending.
LEMMA PendingSame ==
    ASSUME phase \in Cell \cup {"copy"}, phase' \in Cell \cup {"copy"},
           UNCHANGED <<scan, cell, nextWindow, full>>, NEW f \in Folded
    PROVE  Pending(f)' <=> Pending(f)
BY DEF Pending, InWork, Later, Raw, FoldToRaw

LEMMA UntouchedStep ==
    ASSUME Types, Types', Control, Copies, Indexed, InHand, Untouched, [Next]_vars
    PROVE  Untouched'
<1> SUFFICES ASSUME phase' \in Scanning, ~ full', NEW f \in Folded, Pending(f)'
             PROVE  Meta'[f] = Current'[f] /\ index'[f] = 0
  BY DEF Untouched
<1> USE DEF Scanning, Cell
<1>1. CASE Attributes
  <2>1. UNCHANGED <<copied, shadow, selector, index>> /\ phase = "attributes"
    BY <1>1 DEF Attributes, queueVars, metaVars
  <2>2. ~ copied /\ index[f] = 0
    BY <2>1 DEF Copies, Indexed
  <2>3. Meta' = Meta /\ Current' = Current
    BY <2>1, SameMeta
  <2> QED
    BY <2>1, <2>2, <2>3 DEF Meta
<1>2. CASE DirtyScan
  <2>1. UNCHANGED <<copied, shadow, selector, index, full>> /\ phase = "scan" /\ Due # {}
    BY <1>2 DEF DirtyScan, queueVars, metaVars
  <2>2. Pending(f)
    BY <1>2, <2>1, PendingScan
  <2>3. Meta' = Meta /\ Current' = Current
    BY <2>1, SameMeta
  <2> QED
    BY <2>1, <2>2, <2>3 DEF Untouched
<1>3. CASE Resolve \/ Allocate \/ Build
  <2>1. /\ UNCHANGED <<copied, shadow, selector, index, full, scan, cell, nextWindow>>
        /\ phase \in {"resolve", "allocate", "build"}
        /\ phase' \in Cell \cup {"copy", "scan"}
    BY <1>3 DEF Resolve, Resolved, NextCell, Allocate, Build, RequestFull, queueVars, metaVars,
                frozenVars
  <2>2. Pending(f)
    BY <2>1, PendingNext, PendingSame
  <2>3. Meta' = Meta /\ Current' = Current
    BY <2>1, SameMeta
  <2> QED
    BY <2>1, <2>2, <2>3 DEF Untouched
<1>4. CASE Copy
  <2>1. /\ UNCHANGED <<selector, index, full, scan, cell, nextWindow>>
        /\ phase = "copy" /\ phase' = "queue" /\ copied'
        /\ shadow' = [shadow EXCEPT ![NextCopy] = Current]
    BY <1>4 DEF Copy, workVars, frozenVars
  <2>2. Pending(f)
    BY <2>1, PendingSame
  <2>3. Meta' = Current /\ Current' = Current
    <3>1. selector \in 0 .. 1 /\ NextCopy # selector /\ NextCopy \in 0 .. 1
      BY DEF Types, MetaType, NextCopy
    <3>2. NextCopy' = NextCopy
      BY <2>1 DEF NextCopy
    <3> QED
      BY <2>1, <3>1, <3>2 DEF Meta, Current, Types, MetaType
  <2> QED
    BY <2>1, <2>2, <2>3 DEF Untouched
<1>5. CASE Queue
  <2>1. UNCHANGED <<full, scan, cell, nextWindow, copied>> /\ phase = "queue" /\ copied
    BY <1>5 DEF Queue, workVars, frozenVars, Copies
  <2>2. /\ phase' = "scan" /\ UNCHANGED selector
        /\ index' = [index EXCEPT ![cell] = Len(packet) + 1]
        /\ shadow' = [shadow EXCEPT ![NextCopy][cell] = slot]
    BY <1>5, <2>1, Queued
  <2>3. Pending(f) /\ f # cell
    BY <2>1, <2>2, PendingNext
  <2>4. Meta[f] = Current[f] /\ index[f] = 0
    BY <2>1, <2>3 DEF Untouched
  <2>5. selector \in 0 .. 1 /\ NextCopy # selector /\ NextCopy \in 0 .. 1 /\ NextCopy' = NextCopy
    BY <2>2 DEF Types, MetaType, NextCopy
  <2>6. Meta'[f] = Meta[f] /\ Current'[f] = Current[f]
    BY <2>1, <2>2, <2>3, <2>5 DEF Meta, Current, Types, MetaType
  <2> QED
    BY <2>2, <2>3, <2>4, <2>6 DEF Types, QueueType
<1>6. CASE Produce \/ Begin \/ Commit
  BY <1>6 DEF Produce, WriteTile, WriteAttr, WriteChr, WriteControl, Writing, Begin, Commit,
              Control
<1>7. CASE Freeze \/ Invalidate \/ Scroll \/ FullScan
  <2>1. FullScan => full /\ UNCHANGED full
    BY DEF FullScan, Control, queueVars
  <2> QED
    BY <1>7, <2>1 DEF Freeze, Invalidate, Scroll, RequestFull
<1>8. CASE Blanked \/ Reset \/ Finish \/ Publish
  BY <1>8 DEF Blanked, Reset, Finish, Publish
<1>9. CASE UNCHANGED vars
  <2>1. UNCHANGED <<copied, shadow, selector, index, full, scan, cell, nextWindow, phase>>
    BY <1>9 DEF vars, queueVars, metaVars, workVars, frozenVars
  <2>2. Pending(f)' <=> Pending(f)
    BY <2>1 DEF Pending, InWork, Later, Raw, FoldToRaw
  <2>3. Meta' = Meta /\ Current' = Current
    BY <2>1, SameMeta
  <2> QED
    BY <2>1, <2>2, <2>3 DEF Untouched
<1> QED
  BY <1>1, <1>2, <1>3, <1>4, <1>5, <1>6, <1>7, <1>8, <1>9 DEF Next, Prepare

\* The last cells of a packet and of a full drawing.
LEMMA QueuedMeta ==
    ASSUME Types, Types', Copies, Queue, phase' \in {"scan", "fullscan"},
           shadow' = [shadow EXCEPT ![NextCopy][cell] = slot]
    PROVE  /\ \A f \in Folded : Meta'[f] = IF f = cell THEN slot ELSE Meta[f]
           /\ Current' = Current
<1>1. copied /\ copied' /\ UNCHANGED selector
  BY DEF Queue, Note, Copies, metaVars
<1>2. selector \in 0 .. 1 /\ NextCopy # selector /\ NextCopy \in 0 .. 1 /\ NextCopy' = NextCopy
  BY <1>1 DEF Types, MetaType, NextCopy
<1> QED
  BY <1>1, <1>2 DEF Meta, Current, Types, MetaType, WorkType

LEMMA CopiedMeta ==
    ASSUME Types, Types', Copies, Copy
    PROVE  Meta' = Current /\ Current' = Current /\ Meta = Current
<1>1. /\ UNCHANGED selector /\ copied' /\ ~ copied
      /\ shadow' = [shadow EXCEPT ![NextCopy] = Current]
  BY DEF Copy, Copies
<1>2. selector \in 0 .. 1 /\ NextCopy # selector /\ NextCopy \in 0 .. 1 /\ NextCopy' = NextCopy
  BY <1>1 DEF Types, MetaType, NextCopy
<1> QED
  BY <1>1, <1>2 DEF Meta, Current, Types, MetaType

LEMMA OverlaidStep ==
    ASSUME Types, Types', Control, Screen, Copies, Indexed, Untouched, OwedFull, Overlaid,
           [Next]_vars
    PROVE  Overlaid'
<1> SUFFICES ASSUME ready' \/ (~ full' /\ phase' \in Preparing)
                    \/ phase' \in {"finish", "prepared"},
                    NEW f \in Folded
             PROVE  Over(f)' = Meta'[f]
  BY DEF Overlaid
<1> USE DEF Preparing, Cell
<1>0. full \in BOOLEAN /\ ready \in BOOLEAN
  BY DEF Types, QueueType, HandType
<1>1. CASE /\ UNCHANGED <<packet, nt, copied, shadow, selector>>
           /\ ready \/ (~ full /\ phase \in Preparing) \/ phase \in {"finish", "prepared"}
  <2>1. Over(f)' = Over(f) /\ Meta' = Meta
    BY <1>1, SameMeta, SameOver
  <2>2. Over(f) = Meta[f]
    BY <1>1 DEF Overlaid
  <2> QED
    BY <2>1, <2>2
<1>2. CASE Produce \/ UNCHANGED vars
  <2>1. UNCHANGED <<packet, nt, copied, shadow, selector, ready, phase, full>>
    BY <1>2 DEF Produce, WriteTile, WriteAttr, WriteChr, WriteControl, vars, queueVars, metaVars,
                screenVars, handVars
  <2> QED
    BY <1>1, <2>1
<1>3. CASE Begin
  <2>1. /\ phase = "idle" /\ ~ ready /\ init /\ packet' = <<>> /\ ~ copied'
        /\ UNCHANGED <<nt, shadow, selector>>
    BY <1>3 DEF Begin, metaVars, screenVars, handVars
  <2>2. nt[f] = Current[f]
    BY <2>1 DEF Screen
  <2>3. Over(f)' = nt'[f]
    <3>1. Written(f)' = {}
      BY <2>1 DEF Written
    <3> HIDE DEF Written
    <3> QED
      BY <3>1 DEF Over
  <2>4. Meta' = Current
    BY <2>1 DEF Meta, Current
  <2> QED
    BY <2>1, <2>2, <2>3, <2>4
<1>4. CASE Freeze
  <2>1. /\ UNCHANGED <<packet, nt, copied, shadow, selector>> /\ phase = "freeze" /\ init
        /\ UNCHANGED <<ready, full>>
    BY <1>0, <1>4 DEF Freeze, RequestFull, queueVars, metaVars, screenVars, handVars, Control
  <2>2. ~ ready /\ ~ full /\ ~ copied /\ packet = <<>>
    BY <2>1 DEF Control, Copies
  <2>3. nt[f] = Current[f] /\ Over(f) = nt[f] /\ Meta = Current
    BY <2>1, <2>2, NoRecords DEF Screen, Meta
  <2>4. Over(f)' = Over(f) /\ Meta' = Meta
    BY <2>1, SameMeta, SameOver
  <2> QED
    BY <2>3, <2>4
<1>5. CASE Invalidate \/ Scroll \/ Attributes \/ DirtyScan
  <2>1. /\ UNCHANGED <<packet, nt, copied, shadow, selector, ready, full>>
        /\ phase \in {"invalidate", "scroll", "attributes", "scan"}
    BY <1>5 DEF Invalidate, Scroll, Attributes, DirtyScan, queueVars, metaVars, screenVars,
                handVars
  <2>2. ~ full
    BY <2>1 DEF Control
  <2> QED
    BY <1>1, <2>1, <2>2
<1>6. CASE FullScan
  <2>1. /\ UNCHANGED <<packet, nt, copied, shadow, selector, ready, full>> /\ phase = "fullscan"
    BY <1>6 DEF FullScan, queueVars, metaVars, screenVars, handVars
  <2>2. full /\ ~ ready /\ packet = <<>>
    BY <2>1 DEF Control, Copies
  <2>3. scan = NCols
    BY <1>6, <2>1, <2>2 DEF FullScan, LoadCell
  <2>4. ~ Pending(f)
    BY <2>1, <2>2, <2>3, SizeAssumption DEF Pending, InWork, Later, Folded
  <2>5. nt[f] = Meta[f]
    BY <2>1, <2>2, <2>4 DEF OwedFull
  <2>6. Over(f)' = Over(f) /\ Meta' = Meta /\ Over(f) = nt[f]
    BY <2>1, <2>2, SameMeta, SameOver, NoRecords
  <2> QED
    BY <2>5, <2>6
<1>7. CASE Resolve \/ Allocate \/ Build
  <2>1. /\ UNCHANGED <<packet, nt, copied, shadow, selector, ready, full>>
        /\ phase \in {"resolve", "allocate", "build"}
        /\ phase' \notin {"finish", "prepared"}
    BY <1>7 DEF Resolve, Resolved, NextCell, Allocate, Build, RequestFull, queueVars, metaVars,
                screenVars, handVars
  <2>2. ~ ready /\ ~ full
    BY <2>1 DEF Control
  <2> QED
    BY <1>1, <2>1, <2>2
<1>8. CASE Copy
  <2>1. UNCHANGED <<packet, nt, ready, full>> /\ phase = "copy" /\ phase' = "queue"
    BY <1>8 DEF Copy, screenVars, handVars
  <2>2. Over(f)' = Over(f) /\ Meta' = Meta
    BY <1>8, <2>1, SameOver, CopiedMeta
  <2>3. ~ ready /\ ~ full
    BY <2>1 DEF Control
  <2> QED
    BY <2>1, <2>2, <2>3 DEF Overlaid
<1>9. CASE Queue
  <2>1. /\ UNCHANGED <<ready, full>> /\ phase = "queue" /\ phase' \notin {"finish", "prepared"}
    BY <1>9 DEF Queue, Note, NextCell, RequestFull, handVars
  <2>2. ~ ready /\ ~ full
    BY <2>1 DEF Control
  <2>3. /\ phase' = "scan" /\ index[cell] = 0
        /\ packet' = Append(packet, [cell |-> cell, slot |-> slot])
        /\ shadow' = [shadow EXCEPT ![NextCopy][cell] = slot]
        /\ UNCHANGED nt
    <3>1. phase' # "fence"
      BY <2>1, <2>2
    <3> QED
      BY <1>9, <2>2, <3>1, Queued
  <2>4. \A i \in DOMAIN packet : packet[i].cell # cell
    BY <2>1, <2>3 DEF Indexed, Scanning
  <2>5. Over(f)' = IF f = cell THEN slot ELSE Over(f)
    BY <2>3, <2>4, OverAppend DEF Types, WorkType
  <2>6. Meta'[f] = IF f = cell THEN slot ELSE Meta[f]
    BY <1>9, <2>3, QueuedMeta
  <2>7. Over(f) = Meta[f]
    BY <2>1, <2>2 DEF Overlaid
  <2> QED
    BY <2>5, <2>6, <2>7
<1>10. CASE Blanked \/ Reset
  <2>1. phase \in {"fence", "reset"} /\ phase' \in {"reset", "fullscan"} /\ UNCHANGED ready
    BY <1>10 DEF Blanked, Reset, handVars
  <2> QED
    BY <2>1 DEF Control
<1>11. CASE Finish \/ Publish
  <2>1. UNCHANGED <<packet, nt, copied, shadow, selector>> /\ phase \in {"finish", "prepared"}
    BY <1>11 DEF Finish, Publish, queueVars, metaVars, screenVars
  <2> QED
    BY <1>1, <2>1
<1>12. CASE Commit
  BY <1>12 DEF Commit, Control
<1> QED
  BY <1>2, <1>3, <1>4, <1>5, <1>6, <1>7, <1>8, <1>9, <1>10, <1>11, <1>12 DEF Next, Prepare
-----------------------------------------------------------------------------
(* The slot in hand.                                                        *)

\* A pair that is cached has a slot that shows it.
LEMMA HitShows ==
    ASSUME Types, Control, Still, Named, CacheCurrent, phase = "resolve", cache[key] # None
    PROVE  /\ cache[key] \in Slot /\ rev[cache[key]] = key
           /\ pattern[cache[key]] = Drawn(nextTable, key)
<1>1. key \in Key /\ cache[key] \in Slot /\ key[1] \in Base /\ nextTable \in Table
  BY DEF Types, WorkType, PoolType, FrozenType, Key
<1>2. CacheTable = nextTable
  BY DEF Control, CacheTable, Preparing, Cell
<1>3. <<nextTable, key[1]>> \notin Stale
  BY <1>1 DEF Still, Stale
<1>4. rev[cache[key]] = key /\ Fresh(key)
  BY <1>1, CacheMeans
<1> QED
  BY <1>1, <1>2, <1>3, <1>4 DEF Fresh, Drawn

\* A slot that is free shows in no cell.
LEMMA FreeUnused ==
    ASSUME Types, Exact, NEW s \in Slot, Free(s),
           \A g \in Folded : Meta[g] \in {None, Current[g]} \cup pins,
           NEW f \in Folded
    PROVE  Current[f] # s /\ Meta[f] # s
<1>1. count[selector][s] = Cells(Current, s) /\ Cells(Current, s) = 0
  BY DEF Free, CurrentCount, Current, Exact, Types, MetaType
<1>2. IsFiniteSet({g \in Folded : Current[g] = s})
  BY CellsRange
<1>3. {g \in Folded : Current[g] = s} = {}
  BY <1>1, <1>2, FS_EmptySet DEF Cells
<1>4. s # None /\ s \notin pins
  BY ValueAssumption DEF Free
<1> QED
  BY <1>3, <1>4

LEMMA InHandStep ==
    ASSUME Types, Types', Control, Exact, Named, CacheCurrent, Still, Copies, InHand, [Next]_vars
    PROVE  InHand'
<1> USE DEF Scanning, Cell
<1>0. full \in BOOLEAN /\ cell \in Folded
  BY DEF Types, QueueType, WorkType
<1>1. CASE phase' \notin Scanning \cup {"fullscan"}
  BY <1>1 DEF InHand
<1>2. CASE Attributes
  <2>1. UNCHANGED <<copied, shadow, selector, pins>> /\ phase = "attributes"
        /\ phase' \in {"scan", "finish"}
    BY <1>2 DEF Attributes, queueVars, metaVars, poolVars
  <2>2. Meta' = Current'
    BY <2>1, SameMeta DEF Meta, Copies
  <2> QED
    BY <2>1, <2>2 DEF InHand
<1>3. CASE DirtyScan \/ FullScan
  <2>1. /\ UNCHANGED <<copied, shadow, selector, pins, base, attr, nextWindow, full>>
        /\ phase \in {"scan", "fullscan"} /\ phase' \in {"resolve", "finish"}
        /\ phase = "scan" => ~ full
        /\ phase = "fullscan" => full
    BY <1>3 DEF DirtyScan, FullScan, LoadCell, queueVars, metaVars, poolVars, sourceVars,
                frozenVars, Control
  <2> SUFFICES ASSUME phase' = "resolve" PROVE InHand'
    BY <1>1, <2>1
  <2>2. key' = Pair(Raw(cell')) /\ scan' = (IF full THEN cell' ELSE Raw(cell')) + 1
    <3>1. CASE DirtyScan
      <4>1. Due # {} /\ phase = "scan"
        BY <3>1 DEF DirtyScan
      <4> QED
        BY <2>1, <3>1, <4>1, Scanned
    <3>2. CASE FullScan
      <4>1. /\ scan # NCols /\ phase = "fullscan"
            /\ LoadCell(FoldToRaw(nextWindow, scan)) /\ scan' = scan + 1
        BY <3>2 DEF FullScan
      <4>2. scan \in Folded
        BY <2>1, <4>1, SizeAssumption DEF Control, Types, WorkType, Folded
      <4>3. cell' = scan
        BY <4>1, <4>2, RawOfCell DEF LoadCell, Types, FrozenType
      <4> QED
        BY <2>1, <4>1, <4>3 DEF LoadCell, Pair, Raw
    <3> QED
      BY <1>3, <3>1, <3>2
  <2>4. Raw(cell)' = Raw(cell')
    BY <2>1 DEF Raw, FoldToRaw
  <2>5. key' = Pair(Raw(cell))' /\ scan' = (IF full' THEN cell' ELSE Raw(cell)') + 1
    BY <2>1, <2>2, <2>4 DEF Pair
  <2>6. Meta' = Meta /\ Current' = Current
    BY <2>1, SameMeta
  <2> QED
    BY <2>1, <2>5, <2>6 DEF InHand
<1>4. CASE Resolve \/ Allocate \/ Build \/ Copy \/ Queue
  <2>1. /\ UNCHANGED <<base, attr, chr, nextWindow, nextTable, full, scan, cell, key, selector>>
        /\ phase \in Cell \cup {"copy"}
        /\ phase' \in Scanning \cup {"fullscan", "fence", "failed"}
    BY <1>4 DEF Resolve, Resolved, Allocate, Build, Copy, Queue, Note, NextCell, RequestFull,
                queueVars, metaVars, sourceVars, frozenVars, workVars
  <2>2. key' = Pair(Raw(cell))' /\ scan' = (IF full' THEN cell' ELSE Raw(cell)') + 1
    BY <2>1 DEF InHand, Pair, Raw, FoldToRaw
  <2>3. CASE Resolve
    <3>1. UNCHANGED <<copied, shadow, rev, pattern>> /\ phase = "resolve"
      BY <2>3 DEF Resolve, poolVars, queueVars, metaVars, screenVars
    <3>2. Meta' = Meta /\ Current' = Current
      BY <2>1, <3>1, SameMeta
    <3>3. CASE cache[key] # None
      <4>1. slot' = cache[key] /\ pins' = pins \cup {slot'} /\ phase' # "build"
        BY <2>3, <3>3 DEF Resolve, Resolved, NextCell
      <4>2. slot' \in pins' /\ rev'[slot'] = key' /\ pattern'[slot'] = Drawn(nextTable, key)'
        BY <2>1, <3>1, <3>3, <4>1, HitShows DEF Drawn
      <4> QED
        BY <2>1, <2>2, <3>1, <3>2, <4>1, <4>2 DEF InHand
    <3>4. CASE cache[key] = None
      <4>1. phase' = "allocate" /\ UNCHANGED pins
        BY <2>3, <3>4 DEF Resolve
      <4> QED
        BY <2>2, <3>1, <3>2, <4>1 DEF InHand
    <3> QED
      BY <3>3, <3>4
  <2>4. CASE Allocate
    <3>1. UNCHANGED <<copied, shadow, rev, pattern>> /\ phase = "allocate" /\ alloc \in Slot
      BY <2>4 DEF Allocate, queueVars, metaVars, screenVars, Types, PoolType
    <3>2. Meta' = Meta /\ Current' = Current
      BY <2>1, <3>1, SameMeta
    <3>3. \A f \in Folded : Meta[f] \in {None, Current[f]} \cup pins
      BY <3>1 DEF InHand
    <3>4. CASE Free(alloc) /\ pins' = pins \cup {alloc} /\ phase' = "build" /\ slot' = alloc
      <4>1. \A f \in Folded : Current[f] # alloc /\ Meta[f] # alloc
        BY <3>1, <3>3, <3>4, FreeUnused
      <4> QED
        BY <2>2, <3>2, <3>3, <3>4, <4>1 DEF InHand
    <3>5. CASE UNCHANGED pins /\ phase' \in {"allocate", "fence", "failed"}
      BY <2>2, <3>2, <3>3, <3>5 DEF InHand
    <3> QED
      BY <2>4, <3>1, <3>4, <3>5 DEF Allocate, RequestFull
  <2>5. CASE Build
    <3>1. /\ UNCHANGED <<copied, shadow, slot>> /\ phase = "build" /\ pins' = pins \cup {slot}
          /\ phase' # "build"
          /\ pattern' = [pattern EXCEPT ![slot] = <<chr[<<nextTable, key[1]>>], key[2]>>]
          /\ rev' = [rev EXCEPT ![slot] = key]
      BY <2>5 DEF Build, Resolved, NextCell, queueVars, metaVars
    <3>2. Meta' = Meta /\ Current' = Current
      BY <2>1, <3>1, SameMeta
    <3>3. slot' \in pins' /\ rev'[slot'] = key' /\ pattern'[slot'] = Drawn(nextTable, key)'
      BY <2>1, <3>1 DEF Drawn, Types, WorkType, PoolType, ScreenType
    <3> QED
      BY <2>1, <2>2, <3>1, <3>2, <3>3 DEF InHand
  <2>6. CASE Copy
    <3>1. UNCHANGED <<slot, pins, rev, pattern>> /\ phase = "copy" /\ phase' = "queue"
      BY <2>6 DEF Copy, workVars, poolVars, screenVars
    <3>2. Meta' = Meta /\ Current' = Current
      BY <2>6, CopiedMeta
    <3>3. Drawn(nextTable, key)' = Drawn(nextTable, key)
      BY <2>1 DEF Drawn
    <3> QED
      BY <2>1, <2>2, <3>1, <3>2, <3>3 DEF InHand
  <2>7. CASE Queue
    <3> SUFFICES ASSUME phase' \in {"scan", "fullscan"} PROVE InHand'
      BY <1>1, <2>7 DEF Queue, Note, NextCell, RequestFull
    <3>1. UNCHANGED <<slot, pins>> /\ phase = "queue"
      BY <2>7 DEF Queue, workVars, poolVars
    <3>2. shadow' = [shadow EXCEPT ![NextCopy][cell] = slot]
      BY <2>7 DEF Queue, Note, RequestFull
    <3>3. /\ \A f \in Folded : Meta'[f] = IF f = cell THEN slot ELSE Meta[f]
          /\ Current' = Current
      BY <2>7, <3>2, QueuedMeta
    <3>4. slot \in pins
      BY <3>1 DEF InHand
    <3>5. \A f \in Folded : Meta'[f] \in {None, Current'[f]} \cup pins'
      BY <3>1, <3>3, <3>4 DEF InHand
    <3> QED
      BY <3>5 DEF InHand
  <2> QED
    BY <1>4, <2>3, <2>4, <2>5, <2>6, <2>7
<1>5. CASE Reset
  <2>1. phase = "reset" /\ phase' = "fullscan" /\ UNCHANGED selector
        /\ shadow' = [i \in 0 .. 1 |-> EmptyShadow]
    BY <1>5 DEF Reset
  <2>2. \A f \in Folded : Meta'[f] = None
    <3>1. selector \in 0 .. 1 /\ NextCopy \in 0 .. 1 /\ NextCopy' = NextCopy
      BY <2>1 DEF Types, MetaType, NextCopy
    <3> QED
      BY <2>1, <3>1 DEF Meta, Current, EmptyShadow
  <2> QED
    BY <2>1, <2>2 DEF InHand
<1>6. CASE UNCHANGED vars
  <2>1. UNCHANGED <<copied, shadow, selector, base, attr, chr, nextWindow, nextTable, full, scan,
                    cell, key, slot, pins, rev, pattern, phase>>
    BY <1>6 DEF vars, queueVars, metaVars, sourceVars, frozenVars, workVars, poolVars, screenVars
  <2>2. Meta' = Meta /\ Current' = Current
    BY <2>1, SameMeta
  <2>3. Pair(Raw(cell))' = Pair(Raw(cell)) /\ Raw(cell)' = Raw(cell)
        /\ Drawn(nextTable, key)' = Drawn(nextTable, key)
    BY <2>1 DEF Pair, Raw, FoldToRaw, Drawn
  <2> QED
    BY <2>1, <2>2, <2>3 DEF InHand
<1>7. CASE Produce \/ Begin \/ Commit
  <2>1. phase' \in {"idle", "freeze", "prepared"}
    BY <1>7 DEF Produce, WriteTile, WriteAttr, WriteChr, WriteControl, Writing, Begin, Commit,
                Control
  <2> QED
    BY <1>1, <2>1
<1>8. CASE Freeze \/ Invalidate \/ Scroll \/ Blanked \/ Finish \/ Publish
  <2>1. phase' \in {"invalidate", "scroll", "attributes", "fence", "failed", "reset",
                    "prepared", "idle"}
    BY <1>8 DEF Freeze, Invalidate, Scroll, RequestFull, Blanked, Finish, Publish
  <2> QED
    BY <1>1, <2>1
<1> QED
  BY <1>2, <1>3, <1>4, <1>5, <1>6, <1>7, <1>8 DEF Next, Prepare
-----------------------------------------------------------------------------
(* What each stage owes to the next.                                        *)

LEMMA PairIsKey ==
    ASSUME SourceType, NEW c \in World
    PROVE  Pair(c) \in Key /\ Pair(c) # None
<1>1. c \div AttrSpan \in Attr
  BY DEF Attr
<1>2. Pair(c) \in Key
  BY <1>1 DEF SourceType, Pair, Key
<1> QED
  BY <1>2, ValueAssumption

\* What the program changes is dirty.
LEMMA ProduceDirty ==
    ASSUME Types, Produce
    PROVE  /\ dirty \subseteq dirty' /\ \A c \in World : base'[c] = base[c] \/ c \in dirty'
           /\ attrDirty \subseteq attrDirty'
           /\ \A a \in Attr : attr'[a] = attr[a] \/ a \in attrDirty'
           /\ chrDirty \subseteq chrDirty'
           /\ \A p \in Table \X Base : chr'[p] = chr[p] \/ p \in chrDirty'
<1>1. ASSUME NEW c \in World, NEW b \in Base, WriteTile(c, b)
      PROVE  /\ dirty' = dirty \cup {c} /\ base' = [base EXCEPT ![c] = b]
             /\ UNCHANGED <<attr, attrDirty, chr, chrDirty>>
  BY <1>1 DEF WriteTile
<1>2. ASSUME NEW a \in Attr, NEW s \in Sub, WriteAttr(a, s)
      PROVE  /\ attrDirty' = attrDirty \cup {a} /\ attr' = [attr EXCEPT ![a] = s]
             /\ UNCHANGED <<base, dirty, chr, chrDirty>>
  BY <1>2 DEF WriteAttr
<1>3. ASSUME NEW t \in Table, NEW b \in Base, NEW v \in Bits, WriteChr(t, b, v)
      PROVE  /\ chrDirty' = chrDirty \cup {<<t, b>>} /\ chr' = [chr EXCEPT ![<<t, b>>] = v]
             /\ UNCHANGED <<base, dirty, attr, attrDirty>>
  BY <1>3 DEF WriteChr
<1>4. ASSUME NEW w \in World, NEW t \in Table, WriteControl(w, t)
      PROVE  UNCHANGED <<base, dirty, attr, attrDirty, chr, chrDirty>>
  BY <1>4 DEF WriteControl
<1> USE DEF Types, SourceType
<1> QED
  BY <1>1, <1>2, <1>3, <1>4 DEF Produce

LEMMA ProduceOwed == ASSUME Types, OwedIdle, Produce PROVE OwedIdle'
<1>1. UNCHANGED <<init, ready, phase, nextWindow, curWindow, nextTable, curTable, rev, pattern,
                  copied, shadow, selector>>
  BY DEF Produce, WriteTile, WriteAttr, WriteChr, WriteControl, frozenVars, poolVars, queueVars,
         metaVars, screenVars, handVars
<1>2. NowWindow' = NowWindow /\ NowTable' = NowTable /\ Meta' = Meta
      /\ NowWindow \in World /\ NowTable \in Table
  BY <1>1, SameMeta DEF NowWindow, NowTable, Types, FrozenType, ScreenType
<1> SUFFICES ASSUME init \/ ready, phase \in {"idle", "freeze"}, NEW f \in Folded
             PROVE  Owns(NowWindow, f, dirty, attrDirty)' /\ Shows(NowTable, f, chrDirty)'
  BY <1>1 DEF OwedIdle
<1>3. PICK c \in World : c = FoldToRaw(NowWindow, f)
  BY <1>2, RawInWorld
<1>4. FoldToRaw(NowWindow, f)' = c
  BY <1>2, <1>3 DEF FoldToRaw
<1>5. c \div AttrSpan \in Attr
  BY DEF Attr
<1>6. /\ Meta[f] # None /\ rev[Meta[f]] # None
      /\ c \notin dirty /\ c \div AttrSpan \notin attrDirty => rev[Meta[f]] = Pair(c)
      /\ Shows(NowTable, f, chrDirty)
  BY <1>3 DEF OwedIdle, Owns
<1>7. c \notin dirty' /\ c \div AttrSpan \notin attrDirty' => rev[Meta[f]] = Pair(c)'
  BY <1>5, <1>6, ProduceDirty DEF Pair
<1>8. Owns(NowWindow, f, dirty, attrDirty)'
  BY <1>1, <1>2, <1>4, <1>6, <1>7 DEF Owns, Pair
<1>9. Shows(NowTable, f, chrDirty)'
  <2>1. Meta[f] \in Slot
    BY <1>6 DEF Meta, Current, NextCopy, Types, MetaType
  <2>2. rev[Meta[f]] \in Key
    BY <1>6, <2>1 DEF Types, PoolType
  <2>3. <<NowTable, rev[Meta[f]][1]>> \in Table \X Base
    BY <1>2, <2>2 DEF Key
  <2> QED
    BY <1>1, <1>2, <1>6, <2>3, ProduceDirty DEF Shows, Drawn
<1> QED
  BY <1>8, <1>9

LEMMA OwedIdleStep ==
    ASSUME Types, Control, Copies, Screen, Done, OwedIdle, [Next]_vars
    PROVE  OwedIdle'
<1> USE DEF Preparing, Cell
<1>1. CASE Produce
  BY <1>1, ProduceOwed
<1>2. CASE Begin
  <2> SUFFICES ASSUME init, phase' = "freeze", NEW f \in Folded
               PROVE  Owns(NowWindow, f, dirty, attrDirty)' /\ Shows(NowTable, f, chrDirty)'
    BY <1>2 DEF Begin, OwedIdle, screenVars, handVars
  <2>1. /\ UNCHANGED <<base, attr, chr, dirty, attrDirty, chrDirty, curWindow, curTable, rev,
                       pattern, shadow, selector, ready>>
        /\ ~ ready /\ phase = "idle" /\ ~ copied'
    BY <1>2 DEF Begin, sourceVars, poolVars, metaVars, screenVars, handVars
  <2>2. Meta' = Meta
    BY <2>1 DEF Copies, Meta, Current
  <2>3. Owns(NowWindow, f, dirty, attrDirty) /\ Shows(NowTable, f, chrDirty)
    BY <2>1 DEF OwedIdle
  <2> QED
    BY <2>1, <2>2, <2>3 DEF Owns, Shows, NowWindow, NowTable, Pair, Drawn, FoldToRaw
<1>3. CASE Publish
  <2> SUFFICES ASSUME NEW f \in Folded
               PROVE  Owns(NowWindow, f, dirty, attrDirty)' /\ Shows(NowTable, f, chrDirty)'
    BY DEF OwedIdle
  <2>1. /\ UNCHANGED <<base, attr, chr, nextWindow, nextTable, rev, pattern, copied, shadow,
                       selector>>
        /\ phase = "prepared" /\ ready'
    BY <1>3 DEF Publish, sourceVars, frozenVars, poolVars, queueVars, metaVars, screenVars
  <2>2. Meta' = Meta
    BY <2>1, SameMeta
  <2>3. Meta[f] # None /\ rev[Meta[f]] = Pair(Raw(f))
        /\ pattern[Meta[f]] = Drawn(nextTable, Pair(Raw(f)))
    BY <2>1 DEF Done, Good
  <2>4. Pair(Raw(f)) # None
    <3>1. Raw(f) \in World
      BY DueColumns
    <3> QED
      BY <3>1, PairIsKey DEF Types
  <2>5. NowWindow' = nextWindow /\ NowTable' = nextTable /\ FoldToRaw(NowWindow, f)' = Raw(f)
    BY <2>1 DEF NowWindow, NowTable, FoldToRaw, Raw
  <2>6. Pair(Raw(f)) = <<base'[Raw(f)], attr'[Raw(f) \div AttrSpan]>>
    BY <2>1 DEF Pair
  <2>7. Owns(NowWindow, f, dirty, attrDirty)'
    BY <2>1, <2>2, <2>3, <2>4, <2>5, <2>6 DEF Owns, Pair
  <2>8. Shows(NowTable, f, chrDirty)'
    BY <2>1, <2>2, <2>3, <2>5 DEF Shows, Drawn
  <2> QED
    BY <2>7, <2>8
<1>4. CASE Commit
  <2> SUFFICES ASSUME NEW f \in Folded
               PROVE  Owns(NowWindow, f, dirty, attrDirty)' /\ Shows(NowTable, f, chrDirty)'
    BY DEF OwedIdle
  <2>1. /\ UNCHANGED <<base, attr, chr, dirty, attrDirty, chrDirty, rev, pattern, phase>>
        /\ ready /\ phase = "idle" /\ ~ ready'
        /\ curWindow' = nextWindow /\ curTable' = nextTable
    BY <1>4 DEF Commit, sourceVars, poolVars, Control
  <2>2. Meta' = Meta
    BY <1>4 DEF Commit, Meta, Current, NextCopy
  <2>3. Owns(NowWindow, f, dirty, attrDirty) /\ Shows(NowTable, f, chrDirty)
    BY <2>1 DEF OwedIdle
  <2>4. NowWindow' = NowWindow /\ NowTable' = NowTable
    BY <2>1 DEF NowWindow, NowTable
  <2> QED
    BY <2>1, <2>2, <2>3, <2>4 DEF Owns, Shows, Pair, Drawn, FoldToRaw
<1>5. CASE UNCHANGED vars
  <2>1. UNCHANGED <<base, attr, chr, dirty, attrDirty, chrDirty, rev, pattern, phase, ready, init,
                    curWindow, curTable, nextWindow, nextTable, copied, shadow, selector>>
    BY <1>5 DEF vars, sourceVars, frozenVars, poolVars, queueVars, metaVars, screenVars, handVars
  <2>2. Meta' = Meta
    BY <2>1, SameMeta
  <2> QED
    BY <2>1, <2>2 DEF OwedIdle, Owns, Shows, NowWindow, NowTable, Pair, Drawn, FoldToRaw
<1>6. CASE Freeze \/ Invalidate \/ Scroll \/ Attributes \/ DirtyScan \/ FullScan
  BY <1>6 DEF Freeze, Invalidate, Scroll, Attributes, DirtyScan, FullScan, LoadCell, RequestFull,
              OwedIdle
<1>7. CASE Resolve \/ Allocate \/ Build \/ Copy \/ Queue
  <2>1. phase' \notin {"idle", "freeze"}
    BY <1>7 DEF Resolve, Resolved, NextCell, Allocate, Build, Copy, Queue, Note, RequestFull
  <2> QED
    BY <2>1 DEF OwedIdle
<1>8. CASE Blanked \/ Reset \/ Finish
  BY <1>8 DEF Blanked, Reset, Finish, OwedIdle
<1> QED
  BY <1>1, <1>2, <1>3, <1>4, <1>5, <1>6, <1>7, <1>8 DEF Next, Prepare

\* The freeze takes over what is owed of the frame on the screen.
LEMMA FreezeOwed ==
    ASSUME Types, Control, Flagged, OwedIdle, Freeze
    PROVE  OwedInvalidate' /\ OwedScroll'
<1>1. /\ phase = "freeze" /\ UNCHANGED <<base, attr, chr, rev, pattern, copied, shadow, selector,
                                         curWindow, curTable, nextWindow>>
      /\ frozen' = dirty /\ attrFrozen' = attrDirty /\ chrFrozen' = chrDirty
      /\ phase' \in {"fence", "failed", "invalidate", "scroll"}
      /\ phase' \in {"invalidate", "scroll"} => init /\ nextTable = curTable
      /\ phase' = "scroll" => nextTable \notin flags
  BY DEF Freeze, RequestFull, poolVars, queueVars, metaVars, screenVars
<1>2. ~ ready
  BY <1>1 DEF Control
<1>3. Meta' = Meta
  BY <1>1, SameMeta
<1> SUFFICES ASSUME phase' \in {"invalidate", "scroll"}, NEW f \in Folded
             PROVE  /\ Owns(curWindow, f, frozen, attrFrozen)'
                    /\ Shows(curTable, f, chrFrozen)'
                    /\ phase' = "scroll" => Shows(curTable, f, {})'
  BY DEF OwedInvalidate, OwedScroll
<1>4. Owns(curWindow, f, dirty, attrDirty) /\ Shows(curTable, f, chrDirty)
  BY <1>1, <1>2 DEF OwedIdle, NowWindow, NowTable
<1>5. phase' = "scroll" => Shows(curTable, f, {})
  BY <1>1, <1>4 DEF Shows, Flagged
<1> QED
  BY <1>1, <1>3, <1>4, <1>5 DEF Owns, Shows, Pair, Drawn, FoldToRaw

\* A changed tile makes the cells that show it due.
LEMMA InvalidateOwed ==
    ASSUME Types, Control, Copies, OwedInvalidate, Invalidate
    PROVE  OwedScroll'
<1>1. /\ phase = "invalidate" /\ UNCHANGED <<base, attr, chr, rev, pattern, copied, shadow,
                              selector, curWindow, curTable, nextWindow, nextTable, attrFrozen>>
      /\ frozen' = frozen \cup
            {FoldToRaw(nextWindow, f) : f \in
                {g \in Folded : Current[g] # None /\ ChangedTile(rev[Current[g]][1])}}
  BY DEF Invalidate, sourceVars, queueVars, metaVars, screenVars
<1>2. Meta' = Meta /\ Meta = Current /\ nextTable = curTable
  BY <1>1, SameMeta DEF Copies, Meta, Control, Preparing
<1> SUFFICES ASSUME NEW f \in Folded
             PROVE  /\ Owns(curWindow, f, frozen, attrFrozen)'
                    /\ (Raw(f) \in frozen)' \/ Shows(curTable, f, {})'
  BY DEF OwedScroll
<1>3. Owns(curWindow, f, frozen, attrFrozen) /\ Shows(curTable, f, chrFrozen)
  BY <1>1 DEF OwedInvalidate
<1>4. Owns(curWindow, f, frozen, attrFrozen)'
  BY <1>1, <1>2, <1>3 DEF Owns, Pair, FoldToRaw
<1>5. CASE <<curTable, rev[Meta[f]][1]>> \in chrFrozen
  <2>1. Raw(f) \in frozen'
    BY <1>1, <1>2, <1>3, <1>5 DEF Owns, ChangedTile, Raw
  <2> QED
    BY <1>1, <1>4, <2>1 DEF Raw, FoldToRaw
<1>6. CASE Shows(curTable, f, {})
  BY <1>1, <1>2, <1>4, <1>6 DEF Shows, Drawn
<1> QED
  BY <1>3, <1>5, <1>6 DEF Shows

\* A column that scrolls in is due; the others were there before.
LEMMA ScrollOwed ==
    ASSUME Types, Control, OwedScroll, Scroll
    PROVE  OwedAttributes'
<1>1. /\ phase = "scroll" /\ UNCHANGED <<base, attr, chr, rev, pattern, copied, shadow,
                              selector, nextWindow, nextTable, attrFrozen>>
  BY DEF Scroll, sourceVars, poolVars, queueVars, metaVars, screenVars
<1>2. Meta' = Meta /\ curWindow \in World /\ nextWindow \in World
  BY <1>1, SameMeta DEF Types, FrozenType, ScreenType
<1> SUFFICES ASSUME phase' = "attributes", NEW f \in Folded
             PROVE  Good(f)' \/ (Raw(f) \in frozen)' \/ (Raw(f) \div AttrSpan \in attrFrozen)'
  BY DEF OwedAttributes
<1>3. /\ ~ (Advance > MaxScroll /\ Advance < 2 * NCols - MaxScroll)
      /\ frozen' = frozen \cup Exposed
  BY DEF Scroll, RequestFull
<1>4. nextTable = curTable
  BY <1>1 DEF Control, Preparing, Cell
<1>5. Raw(f)' = Raw(f)
  BY <1>1 DEF Raw, FoldToRaw
<1>6. CASE Raw(f) # FoldToRaw(curWindow, f)
  BY <1>2, <1>3, <1>5, <1>6, ExposedCovers
<1>7. CASE Raw(f) = FoldToRaw(curWindow, f)
  <2>1. /\ Owns(curWindow, f, frozen, attrFrozen)
        /\ Raw(f) \in frozen \/ Shows(curTable, f, {})
    BY <1>1 DEF OwedScroll
  <2>2. CASE Raw(f) \in frozen \/ Raw(f) \div AttrSpan \in attrFrozen
    BY <1>1, <1>3, <1>5, <2>2
  <2>3. CASE ~ (Raw(f) \in frozen \/ Raw(f) \div AttrSpan \in attrFrozen)
    <3>1. Meta[f] # None /\ rev[Meta[f]] = Pair(Raw(f))
      BY <1>7, <2>1, <2>3 DEF Owns
    <3>2. pattern[Meta[f]] = Drawn(nextTable, rev[Meta[f]])
      BY <1>4, <2>1, <2>3 DEF Shows
    <3>3. Good(f)
      BY <3>1, <3>2 DEF Good
    <3> QED
      BY <1>1, <1>2, <3>3, SameCell
  <2> QED
    BY <2>2, <2>3
<1> QED
  BY <1>6, <1>7

\* The stages before the scan are entered from the one before alone.
LEMMA OwedEarlyStep ==
    ASSUME Types, Control, Flagged, Copies, OwedIdle, OwedInvalidate, OwedScroll,
           OwedAttributes, [Next]_vars
    PROVE  OwedInvalidate' /\ OwedScroll' /\ OwedAttributes'
<1> DEFINE early == {"invalidate", "scroll", "attributes"}
<1>1. CASE phase' \notin early
  BY <1>1 DEF OwedInvalidate, OwedScroll, OwedAttributes
<1>2. CASE Freeze
  <2>1. phase' # "attributes"
    BY <1>2 DEF Freeze, RequestFull
  <2> QED
    BY <1>2, <2>1, FreezeOwed DEF OwedAttributes
<1>3. CASE Invalidate
  <2>1. phase' = "scroll"
    BY <1>3 DEF Invalidate
  <2> QED
    BY <1>3, <2>1, InvalidateOwed DEF OwedInvalidate, OwedAttributes
<1>4. CASE Scroll
  <2>1. phase' \notin {"scroll", "invalidate"}
    BY <1>4 DEF Scroll, RequestFull
  <2> QED
    BY <1>4, <2>1, ScrollOwed DEF OwedInvalidate, OwedScroll
<1>5. CASE UNCHANGED vars
  <2>1. UNCHANGED <<base, attr, chr, rev, pattern, phase, curWindow, curTable, nextWindow,
                    nextTable, frozen, attrFrozen, chrFrozen, copied, shadow, selector>>
    BY <1>5 DEF vars, sourceVars, frozenVars, poolVars, queueVars, metaVars, screenVars
  <2>2. Meta' = Meta
    BY <2>1, SameMeta
  <2> QED
    BY <2>1, <2>2 DEF OwedInvalidate, OwedScroll, OwedAttributes, Owns, Shows, Good, Raw, Pair,
                      Drawn, FoldToRaw
<1>6. CASE Produce \/ Begin \/ Commit
  <2>1. phase' \in {"idle", "freeze", "prepared"}
    BY <1>6 DEF Produce, WriteTile, WriteAttr, WriteChr, WriteControl, Writing, Begin, Commit,
                Control
  <2> QED
    BY <1>1, <2>1
<1>7. CASE Attributes \/ DirtyScan \/ FullScan \/ Resolve \/ Allocate \/ Build \/ Copy \/ Queue
  <2>1. phase' \notin early
    BY <1>7 DEF Attributes, DirtyScan, FullScan, LoadCell, Resolve, Resolved, NextCell, Allocate,
                Build, Copy, Queue, Note, RequestFull
  <2> QED
    BY <1>1, <2>1
<1>8. CASE Blanked \/ Reset \/ Finish \/ Publish
  BY <1>1, <1>8 DEF Blanked, Reset, Finish, Publish
<1> QED
  BY <1>2, <1>3, <1>4, <1>5, <1>6, <1>7, <1>8 DEF Next, Prepare

\* Every cell that is not right is on the way of the scan.
LEMMA OwedScanStep ==
    ASSUME Types, Types', Control, Named, CacheCurrent, Raised, Still, Copies, Untouched,
           InHand, OwedAttributes, OwedScan, [Next]_vars
    PROVE  OwedScan'
<1> USE DEF Scanning, Cell
<1>0. full \in BOOLEAN
  BY DEF Types, QueueType
<1> SUFFICES ASSUME phase' \in Scanning, ~ full', NEW f \in Folded
             PROVE  Good(f)' \/ (Pending(f)' /\ (Raw(f) \in frozen)')
  BY DEF OwedScan
<1>1. CASE Attributes
  <2>1. /\ phase = "attributes" /\ phase' = "scan" /\ scan' = 0
        /\ UNCHANGED <<base, attr, chr, rev, pattern, copied, shadow, selector, nextWindow,
                       nextTable, full>>
        /\ frozen' = frozen \cup (IF "attr" \in frozenFlags
                              THEN {c \in World : c \div AttrSpan \in attrFrozen} ELSE {})
    BY <1>1 DEF Attributes, sourceVars, poolVars, queueVars, metaVars, screenVars
  <2>2. Meta' = Meta /\ Raw(f)' = Raw(f) /\ Raw(f) \in World /\ Raw(f) \in Nat
    BY <2>1, SameMeta, DueColumns DEF Raw, FoldToRaw
  <2>3. Pending(f)'
    BY <2>1, <2>2 DEF Pending, Later
  <2>4. CASE Good(f)
    BY <2>1, <2>2, <2>4, SameCell
  <2>5. CASE Raw(f) \in frozen
    BY <2>1, <2>2, <2>3, <2>5
  <2>6. CASE Raw(f) \div AttrSpan \in attrFrozen
    <3>1. "attr" \in frozenFlags
      BY <2>1, <2>6 DEF Raised
    <3>2. Raw(f) \in frozen'
      BY <2>1, <2>2, <2>6, <3>1
    <3> QED
      BY <2>2, <2>3, <3>2
  <2> QED
    BY <2>1, <2>4, <2>5, <2>6 DEF OwedAttributes
<1>2. CASE DirtyScan
  <2>1. /\ phase = "scan" /\ Due # {}
        /\ UNCHANGED <<base, attr, chr, rev, pattern, copied, shadow, selector, nextWindow,
                       nextTable, full, frozen>>
    BY <1>2 DEF DirtyScan, sourceVars, frozenVars, poolVars, queueVars, metaVars, screenVars
  <2>2. Meta' = Meta /\ Raw(f)' = Raw(f)
    BY <2>1, SameMeta DEF Raw, FoldToRaw
  <2>3. CASE Good(f)
    BY <2>1, <2>2, <2>3, SameCell
  <2>4. CASE Pending(f) /\ Raw(f) \in frozen
    BY <1>2, <2>1, <2>2, <2>4, PendingScan
  <2> QED
    BY <2>1, <2>3, <2>4 DEF OwedScan
<1>3. CASE Resolve \/ Allocate \/ Build \/ Copy \/ Queue
  <2>1. /\ UNCHANGED <<base, attr, chr, nextWindow, nextTable, full, scan, cell, key, selector,
                       frozen>>
        /\ phase \in Cell \cup {"copy"}
    BY <1>3 DEF Resolve, Allocate, Build, Copy, Queue, queueVars, sourceVars, frozenVars,
                workVars, metaVars, Note
  <2>2. Raw(f)' = Raw(f)
    BY <2>1 DEF Raw, FoldToRaw
  <2>3. Good(f) \/ (Pending(f) /\ Raw(f) \in frozen)
    BY <2>1 DEF OwedScan
  <2>4. CASE Resolve
    <3>1. /\ UNCHANGED <<copied, shadow, rev, pattern>> /\ phase = "resolve"
          /\ phase' \in {"allocate", "queue", "copy", "scan"}
          /\ phase' = "scan" => cache[key] # None /\ Current[cell] = cache[key]
      BY <2>1, <2>4 DEF Resolve, Resolved, NextCell, poolVars, queueVars, metaVars, screenVars
    <3>2. Meta' = Meta
      BY <2>1, <3>1, SameMeta
    <3>3. CASE Good(f)
      BY <2>1, <3>1, <3>2, <3>3, SameCell
    <3>4. CASE Pending(f) /\ Raw(f) \in frozen /\ phase' # "scan"
      BY <2>1, <2>2, <3>1, <3>4, PendingSame
    <3>5. CASE Pending(f) /\ Raw(f) \in frozen /\ phase' = "scan" /\ f # cell
      BY <2>1, <2>2, <3>1, <3>5, PendingNext
    <3>6. CASE phase' = "scan" /\ f = cell
      <4>1. Meta[f] = cache[key]
        BY <2>1, <3>1, <3>6 DEF Untouched, Pending, InWork
      <4>2. /\ cache[key] \in Slot /\ rev[cache[key]] = key
            /\ pattern[cache[key]] = Drawn(nextTable, key)
        BY <3>1, <3>6, HitShows
      <4>3. key = Pair(Raw(f)) /\ cache[key] # None
        BY <2>1, <3>1, <3>6 DEF InHand
      <4>4. Good(f)
        BY <4>1, <4>2, <4>3 DEF Good
      <4> QED
        BY <2>1, <3>1, <3>2, <4>4, SameCell
    <3> QED
      BY <2>3, <3>3, <3>4, <3>5, <3>6
  <2>5. CASE Allocate
    <3>1. /\ UNCHANGED <<copied, shadow, rev, pattern>>
          /\ phase' \in {"allocate", "build", "fence", "failed"}
      BY <2>5 DEF Allocate, RequestFull, queueVars, metaVars, screenVars
    <3>2. Meta' = Meta
      BY <2>1, <3>1, SameMeta
    <3>3. CASE Good(f)
      BY <2>1, <3>1, <3>2, <3>3, SameCell
    <3>4. CASE Pending(f) /\ Raw(f) \in frozen
      BY <2>1, <2>2, <3>1, <3>4, PendingSame
    <3> QED
      BY <2>3, <3>3, <3>4
  <2>6. CASE Build
    <3>1. /\ UNCHANGED <<copied, shadow>> /\ phase = "build"
          /\ pattern' = [pattern EXCEPT ![slot] = <<chr[<<nextTable, key[1]>>], key[2]>>]
          /\ rev' = [rev EXCEPT ![slot] = key]
      BY <2>6 DEF Build, queueVars, metaVars
    <3>2. Meta' = Meta /\ Meta[f] # slot
      BY <2>1, <3>1, SameMeta DEF InHand
    <3>3. phase' \in {"queue", "copy"}
      <4>1. Current[cell] # slot
        BY <3>1 DEF InHand, Types, WorkType
      <4> QED
        BY <2>6, <4>1 DEF Build, Resolved
    <3>4. CASE Good(f)
      <4>1. rev'[Meta[f]] = rev[Meta[f]] /\ pattern'[Meta[f]] = pattern[Meta[f]]
        BY <3>1, <3>2 DEF Types, PoolType, ScreenType
      <4> QED
        BY <2>1, <3>2, <3>4, <4>1, SameCell
    <3>5. CASE Pending(f) /\ Raw(f) \in frozen
      BY <2>1, <2>2, <3>1, <3>3, <3>5, PendingSame
    <3> QED
      BY <2>3, <3>4, <3>5
  <2>7. CASE Copy
    <3>1. /\ UNCHANGED <<rev, pattern>> /\ phase' = "queue"
      BY <2>7 DEF Copy, poolVars, screenVars
    <3>2. Meta' = Meta
      BY <2>7, CopiedMeta
    <3>3. CASE Good(f)
      BY <2>1, <3>1, <3>2, <3>3, SameCell
    <3>4. CASE Pending(f) /\ Raw(f) \in frozen
      BY <2>1, <2>2, <3>1, <3>4, PendingSame
    <3> QED
      BY <2>3, <3>3, <3>4
  <2>8. CASE Queue
    <3>1. phase = "queue" /\ phase' = "scan" /\ UNCHANGED <<rev, pattern, slot>>
          /\ shadow' = [shadow EXCEPT ![NextCopy][cell] = slot]
      <4>1. phase = "queue" /\ UNCHANGED <<rev, pattern, slot>> /\ ~ full
        BY <2>1, <2>8 DEF Queue, Note, workVars, poolVars, screenVars
      <4> QED
        BY <2>8, <4>1, Queued
    <3>2. \A g \in Folded : Meta'[g] = IF g = cell THEN slot ELSE Meta[g]
      BY <2>8, <3>1, QueuedMeta
    <3>3. CASE f = cell
      <4>1. /\ Meta'[f] = slot /\ rev[slot] = key /\ pattern[slot] = Drawn(nextTable, key)
            /\ key = Pair(Raw(f)) /\ slot # None
        BY <3>1, <3>2, <3>3, ValueAssumption DEF InHand, Types, WorkType
      <4>2. /\ Pair(Raw(f))' = Pair(Raw(f))
            /\ Drawn(nextTable, Pair(Raw(f)))' = Drawn(nextTable, Pair(Raw(f)))
        BY <2>1, <2>2 DEF Pair, Drawn
      <4> QED
        BY <2>1, <2>2, <3>1, <4>1, <4>2 DEF Good
    <3>4. CASE f # cell /\ Good(f)
      BY <2>1, <3>1, <3>2, <3>4, SameCell
    <3>5. CASE f # cell /\ Pending(f) /\ Raw(f) \in frozen
      BY <2>1, <2>2, <3>1, <3>5, PendingNext
    <3> QED
      BY <2>3, <3>3, <3>4, <3>5
  <2> QED
    BY <1>3, <2>4, <2>5, <2>6, <2>7, <2>8
<1>4. CASE UNCHANGED vars
  <2>1. UNCHANGED <<base, attr, chr, rev, pattern, phase, nextWindow, nextTable, frozen, scan,
                    cell, full, copied, shadow, selector>>
    BY <1>4 DEF vars, sourceVars, frozenVars, workVars, poolVars, queueVars, metaVars, screenVars
  <2>2. Meta' = Meta
    BY <2>1, SameMeta
  <2> QED
    BY <2>1, <2>2 DEF OwedScan, Good, Pending, InWork, Later, Raw, Pair, Drawn, FoldToRaw
<1>5. CASE Produce \/ Begin \/ Commit
  <2>1. phase' \in {"idle", "freeze", "prepared"}
    BY <1>5 DEF Produce, WriteTile, WriteAttr, WriteChr, WriteControl, Writing, Begin, Commit,
                Control
  <2> QED
    BY <2>1
<1>6. CASE Freeze \/ Invalidate \/ Scroll \/ FullScan
  <2>1. FullScan => full /\ UNCHANGED full
    BY DEF FullScan, Control, queueVars
  <2> QED
    BY <1>6, <2>1 DEF Freeze, Invalidate, Scroll, RequestFull
<1>7. CASE Blanked \/ Reset \/ Finish \/ Publish
  BY <1>7 DEF Blanked, Reset, Finish, Publish
<1> QED
  BY <1>1, <1>2, <1>3, <1>4, <1>5, <1>6, <1>7 DEF Next, Prepare

\* A full drawing comes by every cell in turn.
LEMMA OwedFullStep ==
    ASSUME Types, Types', Control, Copies, InHand, OwedFull, [Next]_vars
    PROVE  OwedFull'
<1> USE DEF Cell
<1>0. full \in BOOLEAN /\ scan \in Int /\ cell \in Folded
  BY SizeAssumption DEF Types, QueueType, WorkType
<1> SUFFICES ASSUME phase' \in {"fullscan"} \cup Cell, full', NEW f \in Folded
             PROVE  (Good(f)' /\ nt'[f] = Meta'[f]) \/ Pending(f)'
  BY DEF OwedFull
<1>9. f \in Int
  BY SizeAssumption DEF Folded
<1>1. CASE Reset
  <2>1. scan' = 0 /\ UNCHANGED full
    BY <1>1 DEF Reset
  <2> QED
    BY <2>1, SizeAssumption DEF Pending, Later, Folded
<1>2. CASE FullScan
  <2>1. /\ phase = "fullscan" /\ full /\ scan # NCols
        /\ UNCHANGED <<base, attr, chr, rev, pattern, copied, shadow, selector, nextWindow,
                       nextTable, full, nt>>
        /\ LoadCell(FoldToRaw(nextWindow, scan)) /\ scan' = scan + 1 /\ phase' = "resolve"
    BY <1>2 DEF FullScan, LoadCell, sourceVars, frozenVars, poolVars, queueVars, metaVars,
                screenVars, Control
  <2>2. scan \in Folded
    BY <2>1, SizeAssumption DEF Control, Types, WorkType, Folded
  <2>3. cell' = scan
    BY <2>1, <2>2, RawOfCell DEF LoadCell, Types, FrozenType
  <2>4. Meta' = Meta
    BY <2>1, SameMeta
  <2>5. CASE Good(f) /\ nt[f] = Meta[f]
    BY <2>1, <2>4, <2>5, SameCell
  <2>6. CASE Pending(f)
    <3>1. f >= scan
      BY <2>1, <2>6 DEF Pending, InWork, Later
    <3>2. f = scan \/ f >= scan'
      BY <1>0, <1>9, <2>1, <3>1
    <3> QED
      BY <2>1, <2>3, <3>2 DEF Pending, InWork, Later
  <2> QED
    BY <2>1, <2>5, <2>6 DEF OwedFull
<1>3. CASE Resolve \/ Allocate \/ Build
  <2>1. /\ UNCHANGED <<base, attr, chr, nextWindow, nextTable, full, scan, cell, key, selector,
                       copied, shadow, nt>>
        /\ phase \in {"resolve", "allocate", "build"} /\ copied
    BY <1>3 DEF Resolve, Allocate, Build, queueVars, sourceVars, frozenVars, metaVars,
                screenVars, Control
  <2>2. Meta' = Meta
    BY <2>1, SameMeta
  <2>3. phase' \in Cell
    BY <1>3, <2>1 DEF Resolve, Resolved, NextCell, Allocate, RequestFull, Build
  <2>4. CASE Pending(f)
    BY <2>1, <2>3, <2>4, PendingSame
  <2>5. CASE Good(f) /\ nt[f] = Meta[f]
    <3>1. rev'[Meta[f]] = rev[Meta[f]] /\ pattern'[Meta[f]] = pattern[Meta[f]]
      <4>1. CASE UNCHANGED <<rev, pattern>>
        BY <4>1
      <4>2. CASE Build
        <5>1. /\ phase = "build"
              /\ pattern' = [pattern EXCEPT ![slot] = <<chr[<<nextTable, key[1]>>], key[2]>>]
              /\ rev' = [rev EXCEPT ![slot] = key]
          BY <4>2 DEF Build
        <5>2. Meta[f] # slot
          BY <5>1 DEF InHand
        <5> QED
          BY <5>1, <5>2 DEF Types, PoolType, ScreenType
      <4> QED
        BY <1>3, <4>1, <4>2 DEF Resolve, Allocate, poolVars, screenVars
    <3> QED
      BY <2>1, <2>2, <2>5, <3>1, SameCell
  <2> QED
    BY <2>1, <2>4, <2>5 DEF OwedFull
<1>4. CASE Queue
  <2>1. /\ UNCHANGED <<base, attr, chr, nextWindow, nextTable, full, scan, cell, key, rev,
                       pattern, slot>>
        /\ phase = "queue"
    BY <1>4 DEF Queue, Note, workVars, poolVars, sourceVars, frozenVars, screenVars
  <2>2. /\ phase' = "fullscan" /\ nt' = [nt EXCEPT ![cell] = slot]
        /\ shadow' = [shadow EXCEPT ![NextCopy][cell] = slot]
    BY <1>4, <2>1 DEF Queue, Note, NextCell
  <2>3. \A g \in Folded : Meta'[g] = IF g = cell THEN slot ELSE Meta[g]
    BY <1>4, <2>2, QueuedMeta
  <2>4. CASE f = cell
    <3>1. /\ Meta'[f] = slot /\ rev[slot] = key /\ pattern[slot] = Drawn(nextTable, key)
          /\ key = Pair(Raw(f)) /\ slot # None
      BY <2>1, <2>3, <2>4, ValueAssumption DEF InHand, Types, WorkType
    <3>2. Raw(f)' = Raw(f)
      BY <2>1 DEF Raw, FoldToRaw
    <3>3. Good(f)'
      BY <2>1, <3>1, <3>2 DEF Good, Pair, Drawn
    <3>4. nt'[f] = slot
      BY <2>2, <2>4 DEF Types, ScreenType
    <3> QED
      BY <3>1, <3>3, <3>4
  <2>5. CASE f # cell /\ Good(f) /\ nt[f] = Meta[f]
    <3>1. Good(f)' /\ Meta'[f] = Meta[f]
      BY <2>1, <2>3, <2>5, SameCell
    <3>2. nt'[f] = nt[f]
      BY <2>2, <2>5 DEF Types, ScreenType
    <3> QED
      BY <2>5, <3>1, <3>2
  <2>6. CASE f # cell /\ Pending(f)
    <3>1. f >= scan
      BY <2>1, <2>6 DEF Pending, InWork, Later
    <3> QED
      BY <2>1, <3>1 DEF Pending, Later
  <2> QED
    BY <2>1, <2>4, <2>5, <2>6 DEF OwedFull
<1>5. CASE UNCHANGED vars
  <2>1. UNCHANGED <<base, attr, chr, rev, pattern, phase, nextWindow, nextTable, nt, scan,
                    cell, full, copied, shadow, selector>>
    BY <1>5 DEF vars, sourceVars, frozenVars, workVars, poolVars, queueVars, metaVars, screenVars
  <2>2. Meta' = Meta
    BY <2>1, SameMeta
  <2> QED
    BY <2>1, <2>2 DEF OwedFull, Good, Pending, InWork, Later, Raw, Pair, Drawn, FoldToRaw
<1>6. CASE DirtyScan \/ Copy
  <2>1. phase \in {"scan", "copy"} /\ UNCHANGED full
    BY <1>6 DEF DirtyScan, Copy, queueVars
  <2> QED
    BY <2>1 DEF Control
<1>7. CASE Produce \/ Begin \/ Commit
  <2>1. phase' \in {"idle", "freeze", "prepared"}
    BY <1>7 DEF Produce, WriteTile, WriteAttr, WriteChr, WriteControl, Writing, Begin, Commit,
                Control
  <2> QED
    BY <2>1
<1>8. CASE Freeze \/ Invalidate \/ Scroll \/ Attributes \/ Blanked \/ Finish \/ Publish
  BY <1>8 DEF Freeze, Invalidate, Scroll, RequestFull, Attributes, Blanked, Finish, Publish
<1> QED
  BY <1>1, <1>2, <1>3, <1>4, <1>5, <1>6, <1>7, <1>8 DEF Next, Prepare

\* A frame that is done is right in every cell.
LEMMA DoneStep ==
    ASSUME Types, Control, Flagged, Raised, Copies, OwedIdle, OwedAttributes, OwedScan,
           OwedFull, Done, [Next]_vars
    PROVE  Done'
<1> USE DEF Cell
<1>0. full \in BOOLEAN
  BY DEF Types, QueueType
<1> SUFFICES ASSUME phase' \in {"finish", "prepared"}, NEW f \in Folded
             PROVE  Good(f)'
  BY DEF Done
<1>1. CASE /\ UNCHANGED <<base, attr, chr, rev, pattern, nextWindow, nextTable, copied, shadow,
                          selector>>
           /\ Good(f)
  <2>1. Meta' = Meta
    BY <1>1, SameMeta
  <2> QED
    BY <1>1, <2>1, SameCell
<1>2. CASE Begin
  <2>1. /\ UNCHANGED <<base, attr, chr, rev, pattern, shadow, selector>>
        /\ phase = "idle" /\ ~ ready /\ ~ copied' /\ init
        /\ window = curWindow /\ table = curTable /\ "nt" \notin flags /\ table \notin flags
        /\ nextTable' = table /\ nextWindow' = window
    BY <1>2 DEF Begin, sourceVars, poolVars, metaVars, screenVars
  <2>2. Meta' = Meta
    BY <2>1 DEF Copies, Meta, Current
  <2>3. /\ dirty = {} /\ attrDirty = {}
        /\ Owns(curWindow, f, dirty, attrDirty) /\ Shows(curTable, f, chrDirty)
    BY <2>1 DEF Raised, OwedIdle, NowWindow, NowTable
  <2>4. /\ Meta[f] # None /\ rev[Meta[f]] = Pair(FoldToRaw(curWindow, f))
        /\ pattern[Meta[f]] = Drawn(curTable, rev[Meta[f]])
    BY <2>1, <2>3 DEF Owns, Shows, Flagged
  <2>5. Raw(f)' = FoldToRaw(curWindow, f)
    BY <2>1 DEF Raw, FoldToRaw
  <2> QED
    BY <2>1, <2>2, <2>4, <2>5 DEF Good, Pair, Drawn
<1>3. CASE Attributes
  <2>1. /\ UNCHANGED <<base, attr, chr, rev, pattern, nextWindow, nextTable, copied, shadow,
                       selector>>
        /\ phase = "attributes" /\ "nt" \notin frozenFlags
    BY <1>3 DEF Attributes, sourceVars, poolVars, queueVars, metaVars, screenVars
  <2>2. ~ full
    BY <2>1 DEF Control
  <2>3. frozen = {} /\ attrFrozen = {}
    BY <2>1, <2>2 DEF Raised
  <2> QED
    BY <1>1, <2>1, <2>3 DEF OwedAttributes
<1>4. CASE DirtyScan
  <2>1. /\ UNCHANGED <<base, attr, chr, rev, pattern, nextWindow, nextTable, copied, shadow,
                       selector>>
        /\ phase = "scan" /\ Due = {}
    BY <1>4 DEF DirtyScan, LoadCell, sourceVars, frozenVars, poolVars, queueVars, metaVars,
                screenVars
  <2>2. ~ full
    BY <2>1 DEF Control
  <2>3. ~ (Pending(f) /\ Raw(f) \in frozen)
    BY <2>1, <2>2, DueColumns DEF Pending, InWork, Later
  <2> QED
    BY <1>1, <2>1, <2>2, <2>3 DEF OwedScan, Scanning
<1>5. CASE FullScan
  <2>1. /\ UNCHANGED <<base, attr, chr, rev, pattern, nextWindow, nextTable, copied, shadow,
                       selector>>
        /\ phase = "fullscan" /\ scan = NCols
    BY <1>5 DEF FullScan, LoadCell, sourceVars, frozenVars, poolVars, queueVars, metaVars,
                screenVars
  <2>2. full
    BY <2>1 DEF Control
  <2>3. ~ Pending(f)
    BY <2>1, <2>2, SizeAssumption DEF Pending, InWork, Later, Folded
  <2> QED
    BY <1>1, <2>1, <2>2, <2>3 DEF OwedFull
<1>6. CASE Finish \/ UNCHANGED vars
  <2>1. /\ UNCHANGED <<base, attr, chr, rev, pattern, nextWindow, nextTable, copied, shadow,
                       selector>>
        /\ phase \in {"finish", "prepared"}
    BY <1>6 DEF Finish, vars, sourceVars, frozenVars, poolVars, queueVars, metaVars, screenVars
  <2> QED
    BY <1>1, <2>1 DEF Done
<1>7. CASE Produce \/ Commit \/ Publish
  BY <1>7 DEF Produce, WriteTile, WriteAttr, WriteChr, WriteControl, Writing, Commit, Publish,
              Control
<1>8. CASE Freeze \/ Invalidate \/ Scroll \/ Blanked \/ Reset
  BY <1>8 DEF Freeze, Invalidate, Scroll, RequestFull, Blanked, Reset
<1>9. CASE Resolve \/ Allocate \/ Build \/ Copy \/ Queue
  BY <1>9 DEF Resolve, Resolved, NextCell, Allocate, Build, Copy, Queue, Note, RequestFull
<1> QED
  BY <1>2, <1>3, <1>4, <1>5, <1>6, <1>7, <1>8, <1>9 DEF Next, Prepare

\* Nothing that shows in a waiting frame changes before it is committed.
LEMMA FrozenStep ==
    ASSUME Types, Control, Still, Overlaid, Done, Frozen, [Next]_vars
    PROVE  Frozen'
<1>1. CASE UNCHANGED <<ready, published, packet, nt, pattern, nextWindow>>
  <2>1. \A f \in Folded : Over(f)' = Over(f)
    BY <1>1, SameOver
  <2> QED
    BY <1>1, <2>1 DEF Frozen
<1>2. CASE Produce \/ UNCHANGED vars
  <2>1. UNCHANGED <<ready, published, packet, nt, pattern, nextWindow>>
    BY <1>2 DEF Produce, WriteTile, WriteAttr, WriteChr, WriteControl, vars, frozenVars,
                queueVars, screenVars, handVars
  <2> QED
    BY <1>1, <2>1
<1>3. CASE Publish
  <2>1. /\ UNCHANGED <<packet, nt, pattern, nextWindow>> /\ phase = "prepared"
        /\ published' = Source
    BY <1>3 DEF Publish, frozenVars, queueVars, screenVars
  <2>2. nextTable = table /\ nextWindow = window
    BY <2>1 DEF Still
  <2>3. ASSUME NEW f \in Folded
        PROVE  pattern'[Over(f)'] = LET c == FoldToRaw(window, f)
                                    IN <<chr[<<table, base[c]>>], attr[c \div AttrSpan]>>
    <3>1. Over(f)' = Meta[f]
      BY <2>1, SameOver DEF Overlaid
    <3>2. pattern[Meta[f]] = Drawn(nextTable, Pair(Raw(f)))
      BY <2>1 DEF Done, Good
    <3> QED
      BY <2>1, <2>2, <3>1, <3>2 DEF Drawn, Pair, Raw
  <2> QED
    BY <2>1, <2>2, <2>3 DEF Frozen, Source
<1>4. CASE Commit
  BY <1>4 DEF Commit, Frozen
<1>5. CASE Begin
  BY <1>5 DEF Begin, handVars, Frozen
<1>6. CASE ~ Produce /\ ~ Begin /\ ~ Publish /\ ~ Commit /\ ~ UNCHANGED vars
  <2>1. phase # "idle" /\ UNCHANGED ready
    BY <1>6 DEF Next, Prepare, Freeze, Invalidate, Scroll, Attributes, DirtyScan, FullScan,
                Resolve, Allocate, Build, Copy, Queue, Blanked, Reset, Finish, handVars
  <2> QED
    BY <2>1 DEF Control, Frozen
<1> QED
  BY <1>2, <1>3, <1>4, <1>5, <1>6
-----------------------------------------------------------------------------
(* The theorem.                                                             *)

LEMMA HandoverStep == IInv /\ IInv' /\ HInv /\ [Next]_vars => HInv'
<1> SUFFICES ASSUME IInv, IInv', HInv, [Next]_vars
             PROVE  HInv'
  OBVIOUS
<1>1. Types /\ Types' /\ Control /\ Exact /\ Flagged /\ Named /\ CacheCurrent
  BY DEF IInv
<1>2. /\ Raised /\ Still /\ Screen /\ Copies /\ Indexed /\ Overlaid /\ Untouched
      /\ OwedIdle /\ OwedInvalidate /\ OwedScroll /\ OwedAttributes /\ OwedScan /\ OwedFull
      /\ Done /\ InHand /\ Frozen
  BY DEF HInv, Owed
<1>3. Raised' /\ Still'
  BY <1>1, <1>2, RaisedStep, StillStep
<1>4. Screen' /\ Copies'
  BY <1>1, <1>2, ScreenStep, CopiesStep
<1>5. Indexed' /\ Overlaid' /\ Untouched'
  BY <1>1, <1>2, IndexedStep, OverlaidStep, UntouchedStep
<1>6. OwedIdle' /\ OwedInvalidate' /\ OwedScroll' /\ OwedAttributes'
  BY <1>1, <1>2, OwedIdleStep, OwedEarlyStep
<1>7. OwedScan' /\ OwedFull' /\ Done'
  BY <1>1, <1>2, OwedScanStep, OwedFullStep, DoneStep
<1>8. InHand' /\ Frozen'
  BY <1>1, <1>2, InHandStep, FrozenStep
<1> QED
  BY <1>3, <1>4, <1>5, <1>6, <1>7, <1>8 DEF HInv, Owed

LEMMA HandoverInvariance == Spec => [](IInv /\ HInv)
<1>1. Init => IInv /\ HInv
  BY InitOK, HandoverInit
<1>2. IInv /\ HInv /\ [Next]_vars => (IInv /\ HInv)'
  BY StepOK, HandoverStep
<1> QED
  BY <1>1, <1>2, PTL DEF Spec

\* Where the abstract hand-over sees the screen.
Display ==
    IF displayOn THEN [cells |-> [f \in Folded |-> pattern[nt[f]]], window |-> curWindow] ELSE Off

\* The background implements FrameHandover: a frame that comes on the screen is
\* the picture at the moment of READY, and the slots that are built meanwhile
\* do not show (bg_cv1.s, frame_cv1.s).
THEOREM ImplementsHandover == Spec => HandoverSpec
<1>1. Init => Handover!Init
  <2> SUFFICES ASSUME Init PROVE Handover!Init
    OBVIOUS
  <2>1. Source \in Picture
    BY InitOK, SourceIsPicture DEF IInv, Types
  <2>2. ~ displayOn /\ published = None
    BY DEF Init
  <2> QED
    BY <2>1, <2>2 DEF Handover!Init
<1>2. IInv /\ IInv' /\ HInv /\ [Next]_vars => [Handover!Next]_(Handover!vars)
  <2> SUFFICES ASSUME IInv, IInv', HInv, [Next]_vars
               PROVE  [Handover!Next]_(Handover!vars)
    OBVIOUS
  <2> USE DEF Display
  <2>0. /\ Types /\ Control /\ (published = None <=> ~ ready)
    BY DEF IInv, HInv, Screen
  <2>9. Source' \in Picture
    <3>1. (SourceType => Source \in Picture)'
      BY SourceIsPicture, PTL
    <3> QED
      BY <3>1 DEF IInv, Types
  <2>10. UNCHANGED screenVars => UNCHANGED Display
    BY DEF screenVars
  <2>1. CASE Produce
    <3>1. UNCHANGED <<published, screenVars>>
      BY <2>1 DEF Produce, WriteTile, WriteAttr, WriteChr, WriteControl, handVars
    <3> QED
      BY <2>9, <2>10, <3>1 DEF Handover!Next, Handover!Edit
  <2>2. CASE Begin \/ Freeze \/ Invalidate \/ Scroll \/ Attributes \/ DirtyScan \/ FullScan
             \/ Resolve \/ Allocate \/ Copy \/ Reset \/ Finish
    <3>1. UNCHANGED <<published, screenVars>>
      BY <2>2 DEF Begin, Freeze, Invalidate, Scroll, Attributes, DirtyScan, FullScan, Resolve,
                  Allocate, Copy, Reset, Finish, handVars
    <3>2. UNCHANGED <<base, attr, chr, window, table>>
      BY <2>2 DEF Begin, Freeze, Invalidate, Scroll, Attributes, DirtyScan, FullScan, Resolve,
                  Allocate, Copy, Reset, Finish, sourceVars
    <3>3. UNCHANGED Source
      BY <3>2 DEF Source, FoldToRaw
    <3> QED
      BY <2>10, <3>1, <3>3 DEF Handover!vars
  <2>3. CASE Build
    <3>1. UNCHANGED <<Source, published, displayOn, nt, curWindow>> /\ phase = "build"
          /\ pattern' = [pattern EXCEPT ![slot] = <<chr[<<nextTable, key[1]>>], key[2]>>]
      BY <2>3 DEF Build, Source, FoldToRaw, sourceVars, handVars
    <3>2. displayOn => \A f \in Folded : pattern'[nt[f]] = pattern[nt[f]]
      <4> SUFFICES ASSUME displayOn, NEW f \in Folded PROVE pattern'[nt[f]] = pattern[nt[f]]
        OBVIOUS
      <4>1. nt[f] # slot
        BY <3>1 DEF HInv, Screen, InHand
      <4> QED
        BY <2>0, <3>1, <4>1 DEF Types, ScreenType
    <3>3. UNCHANGED Display
      BY <3>1, <3>2
    <3> QED
      BY <3>1, <3>3 DEF Handover!vars
  <2>4. CASE Queue
    <3>1. UNCHANGED <<Source, published, displayOn, pattern, curWindow>> /\ phase = "queue"
          /\ (nt' = nt \/ full)
      BY <2>4 DEF Queue, Note, Source, FoldToRaw, sourceVars, screenVars, handVars
    <3>2. full => ~ displayOn
      BY <3>1 DEF HInv, Screen
    <3>3. UNCHANGED Display
      BY <3>1, <3>2
    <3> QED
      BY <3>1, <3>3 DEF Handover!vars
  <2>5. CASE Blanked
    <3>1. UNCHANGED <<Source, published>> /\ Display' = Off
      BY <2>5 DEF Blanked, Source, FoldToRaw, sourceVars, handVars
    <3>2. published = None
      BY <2>0, <2>5 DEF Blanked, Control
    <3> QED
      BY <3>1, <3>2 DEF Handover!Next, Handover!TurnOff
  <2>6. CASE Publish
    <3>1. UNCHANGED <<Source, Display>> /\ published' = Source
      BY <2>6 DEF Publish, Source, FoldToRaw, sourceVars, screenVars
    <3>2. published = None
      BY <2>0, <2>6 DEF Publish, Control
    <3> QED
      BY <3>1, <3>2 DEF Handover!Next, Handover!Publish
  <2>7. CASE Commit
    <3>1. /\ UNCHANGED <<Source, pattern>> /\ published' = None /\ displayOn' /\ ready
          /\ curWindow' = nextWindow /\ nt' = [f \in Folded |-> Over(f)]
      BY <2>7 DEF Commit, Source, FoldToRaw, sourceVars, Over, Chosen
    <3>2. published = [cells |-> [f \in Folded |-> pattern[Over(f)]], window |-> nextWindow]
      BY <3>1 DEF HInv, Frozen
    <3>3. Display' = published
      <4>1. \A f \in Folded : pattern'[nt'[f]] = pattern[Over(f)]
        BY <3>1
      <4> QED
        BY <3>1, <3>2, <4>1
    <3> QED
      BY <2>0, <3>1, <3>3 DEF Handover!Next, Handover!Show
  <2>8. CASE UNCHANGED vars
    BY <2>8 DEF vars, sourceVars, screenVars, handVars, Source, FoldToRaw, Handover!vars
  <2> QED
    BY <2>1, <2>2, <2>3, <2>4, <2>5, <2>6, <2>7, <2>8 DEF Next, Prepare
<1> QED
  BY <1>1, <1>2, HandoverInvariance, Invariance, PTL DEF Spec, HandoverSpec, Handover!Spec

-----------------------------------------------------------------------------
(***************************************************************************)
(* The two pools in one run (MCCv1Pools).  The theorems about sprites come *)
(* from Cv1Sprites_proofs, for the sprites of the run.                     *)
(***************************************************************************)
P == INSTANCE Cv1Sprites_proofs WITH
         Key <- SpriteKey, chr <- tiles, chrDirty <- tilesDirty, writes <- updates,
         ready <- satReady, init <- satInit, phase <- satPhase, index <- oamIndex,
         count <- entries, pattern <- built, published <- prepared

\* Both instances of Cv1Sprites have the same operators and actions.
LEMMA SameOperators ==
    /\ Sp!Onward = P!Onward /\ Sp!Source = P!Source
    /\ \A k : Sp!Shown(k) = P!Shown(k)
<1>1. Sp!Onward = P!Onward
  BY DEF Sp!Onward, P!Onward, Sp!Stops, P!Stops, Sp!IsVisible, P!IsVisible, Sp!Hidden, P!Hidden
<1>2. \A k : Sp!Shown(k) = P!Shown(k)
  BY DEF Sp!Shown, P!Shown
<1>3. \A i : Sp!Seen(i) = P!Seen(i)
  BY DEF Sp!Seen, P!Seen, Sp!IsVisible, P!IsVisible, Sp!Hidden, P!Hidden
<1>c. \A S : Sp!Cardinality(S) = P!Cardinality(S)
  BY Zenon DEF Sp!Cardinality, P!Cardinality
<1>4. \A n : Sp!Entry(n) = P!Entry(n)
  BY Zenon DEF Sp!Cardinality, P!Cardinality, Sp!Entry, P!Entry, Sp!Seen, P!Seen, Sp!IsVisible, P!IsVisible, Sp!Hidden, P!Hidden
<1>5. Sp!Source = P!Source
  BY <1>c, <1>2, <1>3, <1>4 DEF Sp!Source, P!Source
<1> QED
  BY <1>1, <1>2, <1>5

LEMMA SameSprites == (Sp!Init => P!Init) /\ (Sp!Next => P!Next)
<1>0. Sp!Init => P!Init
  BY DEF Sp!Init, P!Init, Sp!Slot, P!Slot, Sp!Hidden, P!Hidden
<1>s. Sp!Source = P!Source /\ Sp!Onward = P!Onward
  BY SameOperators
<1>p. Sp!Prepared <=> P!Prepared
  BY <1>s DEF Sp!Prepared, P!Prepared
<1>a. \A missed : Sp!AfterA(missed) <=> P!AfterA(missed)
  BY <1>s, <1>p DEF Sp!AfterA, P!AfterA
<1>b. Sp!AfterB <=> P!AfterB
  BY <1>s, <1>p DEF Sp!AfterB, P!AfterB
<1>c. \A k : Sp!Cached(k) = P!Cached(k)
  BY DEF Sp!Cached, P!Cached, Sp!Holding, P!Holding, Sp!Slot, P!Slot
<1>f. Sp!Free = P!Free /\ Sp!Allocated = P!Allocated
  BY DEF Sp!Free, P!Free, Sp!Allocated, P!Allocated, Sp!Nth, P!Nth, Sp!Wrapped, P!Wrapped
<1>r. \A s : Sp!Resolved(s) <=> P!Resolved(s)
  BY <1>b DEF Sp!Resolved, P!Resolved
<1>1. Sp!OamDma => P!OamDma
  BY DEF Sp!Writing, P!Writing, Sp!OamDma, P!OamDma, Sp!Slot, P!Slot, Sp!Hidden, P!Hidden,
     Sp!Miss, P!Miss, Sp!IsVisible, P!IsVisible, Sp!sourceVars, P!sourceVars, Sp!cacheVars,
     P!cacheVars, Sp!tableVars, P!tableVars, Sp!screenVars, P!screenVars
<1>2. Sp!WriteChr => P!WriteChr
  BY DEF Sp!Writing, P!Writing, Sp!WriteChr, P!WriteChr, Sp!Slot, P!Slot, Sp!Hidden, P!Hidden,
     Sp!Miss, P!Miss, Sp!IsVisible, P!IsVisible, Sp!sourceVars, P!sourceVars, Sp!cacheVars,
     P!cacheVars, Sp!tableVars, P!tableVars, Sp!screenVars, P!screenVars
<1>3. Sp!WriteControl => P!WriteControl
  BY DEF Sp!Writing, P!Writing, Sp!WriteControl, P!WriteControl, Sp!Slot, P!Slot, Sp!Hidden,
     P!Hidden, Sp!Miss, P!Miss, Sp!IsVisible, P!IsVisible, Sp!sourceVars, P!sourceVars,
     Sp!cacheVars, P!cacheVars, Sp!tableVars, P!tableVars, Sp!screenVars, P!screenVars
<1>4. Sp!WriteMask => P!WriteMask
  BY DEF Sp!Writing, P!Writing, Sp!WriteMask, P!WriteMask, Sp!Slot, P!Slot, Sp!Hidden, P!Hidden,
     Sp!Miss, P!Miss, Sp!IsVisible, P!IsVisible, Sp!sourceVars, P!sourceVars, Sp!cacheVars,
     P!cacheVars, Sp!tableVars, P!tableVars, Sp!screenVars, P!screenVars
<1>5. Sp!Blank => P!Blank
  BY DEF Sp!Blank, P!Blank, Sp!Slot, P!Slot, Sp!Hidden, P!Hidden, Sp!Miss, P!Miss, Sp!IsVisible,
     P!IsVisible, Sp!sourceVars, P!sourceVars, Sp!cacheVars, P!cacheVars, Sp!tableVars,
     P!tableVars, Sp!screenVars, P!screenVars
<1>6. Sp!AskForBlank => P!AskForBlank
  BY DEF Sp!AskForBlank, P!AskForBlank, Sp!Running, P!Running, Sp!Slot, P!Slot, Sp!Hidden,
     P!Hidden, Sp!Miss, P!Miss, Sp!IsVisible, P!IsVisible, Sp!sourceVars, P!sourceVars,
     Sp!cacheVars, P!cacheVars, Sp!tableVars, P!tableVars, Sp!screenVars, P!screenVars
<1>7. Sp!StepInit => P!StepInit
  BY <1>p, Zenon DEF Sp!StepInit, P!StepInit, Sp!Running, P!Running, Sp!Empties, P!Empties,
     Sp!Slot, P!Slot, Sp!Hidden, P!Hidden, Sp!Miss, P!Miss, Sp!IsVisible, P!IsVisible,
     Sp!sourceVars, P!sourceVars, Sp!cacheVars, P!cacheVars, Sp!tableVars, P!tableVars,
     Sp!screenVars, P!screenVars
<1>8. Sp!HiddenStep => P!HiddenStep
  BY <1>a, <1>b, Zenon DEF Sp!HiddenStep, P!HiddenStep, Sp!Running, P!Running, Sp!StepUnchanged,
     P!StepUnchanged, Sp!Slot, P!Slot, Sp!Hidden, P!Hidden, Sp!Miss, P!Miss, Sp!IsVisible,
     P!IsVisible, Sp!sourceVars, P!sourceVars, Sp!cacheVars, P!cacheVars, Sp!tableVars,
     P!tableVars, Sp!screenVars, P!screenVars
<1>9. Sp!StepA => P!StepA
  BY <1>a, Zenon DEF Sp!StepA, P!StepA, Sp!Running, P!Running, Sp!StepUnchanged,
     P!StepUnchanged, Sp!Holding, P!Holding, Sp!Cached, P!Cached, Sp!Slot, P!Slot, Sp!Hidden,
     P!Hidden, Sp!Miss, P!Miss, Sp!IsVisible, P!IsVisible, Sp!sourceVars, P!sourceVars,
     Sp!cacheVars, P!cacheVars, Sp!tableVars, P!tableVars, Sp!screenVars, P!screenVars
<1>10. Sp!StepB => P!StepB
  <2>1. \A k : Sp!Shown(k) = P!Shown(k)
    BY SameOperators
  <2> QED
    BY <1>b, <1>c, <1>f, <1>r, <2>1 DEF Sp!StepB, P!StepB, Sp!Running, P!Running,
       Sp!StepUnchanged, P!StepUnchanged, Sp!Holding, P!Holding, Sp!Miss, P!Miss, Sp!IsVisible,
       P!IsVisible, Sp!Hidden, P!Hidden, Sp!Slot, P!Slot, Sp!Wrapped, P!Wrapped, Sp!sourceVars,
       P!sourceVars, Sp!cacheVars, P!cacheVars, Sp!tableVars, P!tableVars, Sp!screenVars,
       P!screenVars
<1>11. Sp!Commit => P!Commit
  BY DEF Sp!Commit, P!Commit, Sp!Slot, P!Slot, Sp!Hidden, P!Hidden, Sp!Miss, P!Miss,
     Sp!IsVisible, P!IsVisible, Sp!sourceVars, P!sourceVars, Sp!cacheVars, P!cacheVars,
     Sp!tableVars, P!tableVars, Sp!screenVars, P!screenVars
<1>12. ASSUME NEW fenced \in BOOLEAN, Sp!Begin(fenced) PROVE P!Begin(fenced)
  BY <1>12 DEF Sp!Begin, P!Begin, Sp!sourceVars, P!sourceVars, Sp!cacheVars, P!cacheVars,
     Sp!tableVars, P!tableVars, Sp!screenVars, P!screenVars
<1> QED
  BY <1>0, <1>1, <1>2, <1>3, <1>4, <1>5, <1>6, <1>7, <1>8, <1>9, <1>10, <1>11, <1>12 DEF Sp!Next, P!Next

\* A behaviour of the two pools is one of each: the pool that the behaviour is
\* not of stands still.
THEOREM PoolsCompose == PoolsSpec => Spec /\ P!Spec
<1>1. PoolsInit => Init /\ P!Init
  BY SameSprites DEF PoolsInit
<1>2. [PoolsNext]_<<part, vars, spriteVars>> => [Next]_vars /\ [P!Next]_(P!vars)
  <2>1. UNCHANGED spriteVars => UNCHANGED P!vars
    BY DEF spriteVars, P!vars, P!sourceVars, P!cacheVars, P!tableVars, P!screenVars
  <2> QED
    BY <2>1, SameSprites DEF PoolsNext
<1> QED
  BY <1>1, <1>2, PTL DEF PoolsSpec, Spec, P!Spec

\* Every variable of the pool a behaviour is of keeps its type (bg_cv1.s,
\* sat_cv1.s).
THEOREM PoolsTyped == PoolsSpec => []TypesOK
<1>1. TypeOK /\ P!TypeOK => TypesOK
  BY DEF TypesOK, Sp!TypeOK, P!TypeOK, Sp!Slot, P!Slot, Sp!Pattern, P!Pattern, Sp!Miss, P!Miss
<1>2. P!Spec => []P!TypeOK
  BY PoolsAssumption, P!TypeCorrect DEF Sp!Sizes, P!Sizes
<1> QED
  BY <1>1, <1>2, PoolsCompose, TypeCorrect, PTL

\* "An empty retry MUST fit" (sat_cv1.s), in every behaviour of the run, for any
\* number of entries and at least as many slots.
THEOREM RetriesFit == PoolsSpec => []RetryFits
<1>1. P!RetryFits => RetryFits
  BY DEF RetryFits, Sp!RetryFits, P!RetryFits
<1>2. P!Spec => []P!RetryFits
  BY PoolsAssumption, P!RetryAlwaysFits DEF Sp!Sizes, P!Sizes
<1> QED
  BY <1>1, <1>2, PoolsCompose, PTL

\* And the same hand-over.
LEMMA SameHandover == P!HandoverSpec => Sp!HandoverSpec
<1>0. P!Source = Sp!Source
  BY SameOperators
<1>p. (P!Source = Sp!Source)'
  BY <1>0, PTL
<1>1. P!Hand!Init => Sp!Hand!Init
  BY <1>0 DEF P!Hand!Init, Sp!Hand!Init, P!Pattern, Sp!Pattern
<1>2. [P!Hand!Next]_(P!Hand!vars) => [Sp!Hand!Next]_(Sp!Hand!vars)
  BY <1>0, <1>p DEF P!Hand!Next, Sp!Hand!Next, P!Hand!Edit, Sp!Hand!Edit, P!Hand!Publish,
     Sp!Hand!Publish, P!Hand!Show, Sp!Hand!Show, P!Hand!TurnOff, Sp!Hand!TurnOff,
     P!Hand!vars, Sp!Hand!vars, P!Pattern, Sp!Pattern
<1> QED
  BY <1>1, <1>2, PTL DEF P!HandoverSpec, Sp!HandoverSpec, P!Hand!Spec, Sp!Hand!Spec

\* The sprites on the screen are those of a prepared frame, or it is dark
\* (sat_cv1.s), in every behaviour of the run.
THEOREM SpritesSafe == PoolsSpec => SpritesHandover
<1>1. P!Spec => P!HandoverSpec
  BY PoolsAssumption, P!SpritesImplementHandover
     DEF Sp!Sizes, P!Sizes, Sp!NoneIsNoPicture, P!NoneIsNoPicture, Sp!Pattern, P!Pattern
<1> QED
  BY <1>1, PoolsCompose, SameHandover, PTL DEF SpritesHandover

\* What the background keeps and promises, in every behaviour of the run.
THEOREM BackgroundSafe ==
    PoolsSpec => [](CountsExact /\ CacheCurrent /\ FailsOnlyFull) /\ HandoverSpec
BY PoolsCompose, CountsAreExact, CacheIsCurrent, FailsOnlyWhenFull, ImplementsHandover, PTL
=============================================================================
