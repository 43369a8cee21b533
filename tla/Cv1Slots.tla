------------------------------ MODULE Cv1Slots ------------------------------
(***************************************************************************)
(* The background of the Castlevania profile: runtime/bg_cv1.s.            *)
(*                                                                         *)
(* The VDP has fewer patterns than the game has (tile, sub-palette) pairs, *)
(* so pairs are built on demand into slots, and a cache remembers which    *)
(* slot holds which pair.  A preparation freezes the producer's dirty      *)
(* bits, works out which cells of the next window may differ, finds or     *)
(* builds a slot for each, and collects name-table records and a second    *)
(* copy of the metadata; the commit writes the records and turns to the    *)
(* copy.  The display stays on meanwhile, so no slot it uses may be        *)
(* rebuilt.  When the work does not fit, everything is drawn again behind  *)
(* a dark display.                                                         *)
(*                                                                         *)
(* A column of the window is one cell here; the fixed band of the HUD      *)
(* (whose coming and going forces a full drawing, like a new table) is     *)
(* left out.  Cv1Frame has the interrupt that commits and the palette.     *)
(***************************************************************************)
EXTENDS Integers, Sequences, FiniteSets

CONSTANTS
    NCols,       \* columns of the window (32); the name tables hold twice that
    MaxScroll,   \* columns an incremental scroll may advance (4)
    AttrSpan,    \* columns under one attribute byte
    Base, Sub, Bits,  \* tiles, sub-palettes, contents of a tile
    Table, Table0,    \* pattern tables
    NSlots,      \* slots of the pool (255)
    MaxRecords,  \* records of a packet (32)
    MaxWrites,   \* bound: writes of the program in a behaviour
    None, Off

World  == 0 .. 2 * NCols - 1
Folded == 0 .. NCols - 1
Attr   == {c \div AttrSpan : c \in World}
Slot   == 0 .. NSlots - 1
Key    == Base \X Sub
Pattern == Bits \X Sub
Picture == [cells : [Folded -> Pattern], window : World]
Record == [cell : Folded, slot : Slot]

ASSUME SizeAssumption ==
    /\ NCols \in Nat \ {0} /\ AttrSpan \in Nat \ {0} /\ NSlots \in Nat \ {0}
    /\ MaxScroll \in Nat /\ 2 * MaxScroll < 2 * NCols
    /\ MaxRecords \in Nat /\ MaxWrites \in Nat
ASSUME ValueAssumption ==
    /\ Table0 \in Table
    /\ None \notin Slot \cup Key \cup Pattern \cup Picture

VARIABLES
    base, attr, chr,          \* the source: CIRAM tiles and attributes, CHR RAM
    dirty, attrDirty, chrDirty, flags,   \* its dirty bits, LIVE_FLAGS
    window, table,            \* the live window and pattern table
    writes,                   \* how many writes the program has made
    phase,                    \* CV1_BG_PHASE
    frozen, attrFrozen, chrFrozen, frozenFlags,
    nextTable, nextWindow,    \* CV1_BG_TABLE, CV1_BG_WINDOW
    scan, cell, key, slot,    \* the cell under work
    alloc, probes,            \* the allocator
    pins, full, copied,
    packet, index,            \* the records, and which record a cell has
    cache, rev,               \* $D600: pair to slot; REV: slot to pair
    selector, shadow, count,  \* two copies: cell to slot, cells per slot
    pattern, nt,              \* VRAM: patterns and name table
    curTable, curWindow, init,           \* $CA13, $CB2A, CV1_BG_INIT
    displayOn, ready, published          \* as in Cv1Frame

sourceVars == <<base, attr, chr, dirty, attrDirty, chrDirty, flags, window, table, writes>>
frozenVars == <<frozen, attrFrozen, chrFrozen, frozenFlags, nextTable, nextWindow>>
workVars   == <<scan, cell, key, slot>>
poolVars   == <<alloc, probes, pins, cache, rev>>
queueVars  == <<full, copied, packet, index>>
metaVars   == <<selector, shadow, count>>
screenVars == <<pattern, nt, curTable, curWindow, init, displayOn>>
handVars   == <<ready, published>>
vars == <<sourceVars, phase, frozenVars, workVars, poolVars, queueVars, metaVars,
          screenVars, handVars>>

-----------------------------------------------------------------------------
(* The column a folded cell shows in a window, and back.                    *)

FoldToRaw(w, f) == (w + ((f - w) % NCols)) % (2 * NCols)
InWindow(c) == ((c - nextWindow) % (2 * NCols)) < NCols
Advance == (nextWindow - curWindow) % (2 * NCols)

\* The columns that come into the window when it moves a little.
Exposed ==
    IF Advance <= MaxScroll
    THEN {(curWindow + NCols + i) % (2 * NCols) : i \in 0 .. Advance - 1}
    ELSE {(nextWindow + i) % (2 * NCols) : i \in 0 .. 2 * NCols - Advance - 1}

Current == shadow[selector]
CurrentCount == count[selector]
NextCopy == 1 - selector

Source ==
    [cells  |-> [f \in Folded |->
                    LET c == FoldToRaw(window, f)
                    IN <<chr[<<table, base[c]>>], attr[c \div AttrSpan]>>],
     window |-> window]

EmptyCache == [k \in Key |-> None]
EmptyRev == [s \in Slot |-> None]
EmptyShadow == [f \in Folded |-> None]
EmptyCount == [s \in Slot |-> 0]
EmptyIndex == [f \in Folded |-> 0]

Init ==
    /\ \E b \in Base, s \in Sub, v \in Bits :
          /\ base = [c \in World |-> b] /\ attr = [a \in Attr |-> s]
          /\ chr = [p \in Table \X Base |-> v]
          /\ key = <<b, s>> /\ pattern = [i \in Slot |-> <<v, s>>]
    /\ dirty = {} /\ attrDirty = {} /\ chrDirty = {} /\ flags = {}
    /\ window = 0 /\ table = Table0 /\ writes = 0
    /\ phase = "idle"
    /\ frozen = {} /\ attrFrozen = {} /\ chrFrozen = {} /\ frozenFlags = {}
    /\ nextTable = Table0 /\ nextWindow = 0
    /\ scan = 0 /\ cell = 0 /\ slot = 0
    /\ alloc = 0 /\ probes = 0 /\ pins = {}
    /\ full = FALSE /\ copied = FALSE /\ packet = <<>> /\ index = EmptyIndex
    /\ cache = EmptyCache /\ rev = EmptyRev
    /\ selector = 0
    /\ shadow = [i \in 0 .. 1 |-> EmptyShadow] /\ count = [i \in 0 .. 1 |-> EmptyCount]
    /\ nt = [f \in Folded |-> 0]
    /\ curTable = Table0 /\ curWindow = 0 /\ init = FALSE
    /\ displayOn = FALSE /\ ready = FALSE /\ published = None
-----------------------------------------------------------------------------
(* The producers.  The program runs when no preparation does.               *)

Writing == phase = "idle" /\ writes < MaxWrites /\ writes' = writes + 1

WriteTile(c, b) ==
    /\ Writing
    /\ base[c] # b
    /\ base' = [base EXCEPT ![c] = b]
    /\ dirty' = dirty \cup {c}
    /\ flags' = flags \cup {"nt"}
    /\ UNCHANGED <<attr, chr, attrDirty, chrDirty, window, table, phase, frozenVars, workVars,
                   poolVars, queueVars, metaVars, screenVars, handVars>>

WriteAttr(a, s) ==
    /\ Writing
    /\ attr[a] # s
    /\ attr' = [attr EXCEPT ![a] = s]
    /\ attrDirty' = attrDirty \cup {a}
    /\ flags' = flags \cup {"nt", "attr"}
    /\ UNCHANGED <<base, chr, dirty, chrDirty, window, table, phase, frozenVars, workVars,
                   poolVars, queueVars, metaVars, screenVars, handVars>>

\* A CHR write sets its bit whether or not it changes the byte.
WriteChr(t, b, v) ==
    /\ Writing
    /\ chr' = [chr EXCEPT ![<<t, b>>] = v]
    /\ chrDirty' = chrDirty \cup {<<t, b>>}
    /\ flags' = flags \cup {t}
    /\ UNCHANGED <<base, attr, dirty, attrDirty, window, table, phase, frozenVars, workVars,
                   poolVars, queueVars, metaVars, screenVars, handVars>>

WriteControl(w, t) ==
    /\ Writing
    /\ window' = w
    /\ table' = t
    /\ UNCHANGED <<base, attr, chr, dirty, attrDirty, chrDirty, flags, phase, frozenVars,
                   workVars, poolVars, queueVars, metaVars, screenVars, handVars>>
-----------------------------------------------------------------------------
(* Preparation: one action per phase, one cell or candidate at a time.      *)

RequestFull == phase' = IF full THEN "failed" ELSE "fence"

\* Most frames change nothing here and are done at once.
Begin ==
    /\ phase = "idle" /\ ~ready
    /\ packet' = <<>> /\ copied' = FALSE /\ full' = FALSE
    /\ nextTable' = table /\ nextWindow' = window
    /\ phase' = IF /\ init /\ window = curWindow /\ table = curTable
                   /\ flags \cap {"nt", table} = {}
                THEN "prepared" ELSE "freeze"
    /\ UNCHANGED <<index, frozen, attrFrozen, chrFrozen, frozenFlags, sourceVars, workVars,
                   poolVars, metaVars, screenVars, handVars>>

\* The dirty bits of both pattern tables move to the frame, though only the
\* chosen one is looked at.
Freeze ==
    /\ phase = "freeze"
    /\ frozen' = dirty /\ attrFrozen' = attrDirty /\ chrFrozen' = chrDirty
    /\ frozenFlags' = flags
    /\ dirty' = {} /\ attrDirty' = {} /\ chrDirty' = {} /\ flags' = {}
    /\ pins' = {}
    /\ IF ~init \/ nextTable # curTable THEN RequestFull
       ELSE phase' = IF nextTable \in flags THEN "invalidate" ELSE "scroll"
    /\ UNCHANGED <<base, attr, chr, window, table, writes, nextTable, nextWindow, workVars,
                   alloc, probes, cache, rev, queueVars, metaVars, screenVars, handVars>>

ChangedTile(b) == <<nextTable, b>> \in chrFrozen

\* Changed tiles leave the cache, not the screen: the cells that show them
\* are due, found by the pair their slot was built for.
Invalidate ==
    /\ phase = "invalidate"
    /\ cache' = [k \in Key |-> IF ChangedTile(k[1]) THEN None ELSE cache[k]]
    /\ frozen' = frozen \cup
          {FoldToRaw(nextWindow, f) : f \in
              {g \in Folded : Current[g] # None /\ ChangedTile(rev[Current[g]][1])}}
    /\ frozenFlags' = frozenFlags \cup (IF \E b \in Base : ChangedTile(b) THEN {"nt"} ELSE {})
    /\ phase' = "scroll"
    /\ UNCHANGED <<alloc, probes, pins, rev, sourceVars, attrFrozen, chrFrozen, nextTable,
                   nextWindow, workVars, queueVars, metaVars, screenVars, handVars>>

\* The columns that scroll in are due; too long a way asks for a full drawing.
Scroll ==
    /\ phase = "scroll"
    /\ IF Advance > MaxScroll /\ Advance < 2 * NCols - MaxScroll
       THEN RequestFull /\ UNCHANGED <<frozen, frozenFlags>>
       ELSE /\ frozen' = frozen \cup Exposed
            /\ frozenFlags' = frozenFlags \cup (IF Advance # 0 THEN {"nt"} ELSE {})
            /\ phase' = "attributes"
    /\ UNCHANGED <<attrFrozen, chrFrozen, nextTable, nextWindow, sourceVars, workVars,
                   poolVars, queueVars, metaVars, screenVars, handVars>>

\* A changed attribute byte makes all its columns due.
Attributes ==
    /\ phase = "attributes"
    /\ frozen' = frozen \cup (IF "attr" \in frozenFlags
                              THEN {c \in World : c \div AttrSpan \in attrFrozen} ELSE {})
    /\ scan' = 0
    /\ phase' = IF "nt" \in frozenFlags THEN "scan" ELSE "finish"
    /\ UNCHANGED <<cell, key, slot, attrFrozen, chrFrozen, frozenFlags, nextTable, nextWindow,
                   sourceVars, poolVars, queueVars, metaVars, screenVars, handVars>>

LoadCell(c) ==
    /\ cell' = c % NCols
    /\ key' = <<base[c], attr[c \div AttrSpan]>>
    /\ phase' = "resolve"

Due == {c \in frozen : c >= scan /\ InWindow(c)}

DirtyScan ==
    /\ phase = "scan"
    /\ IF Due = {} THEN phase' = "finish" /\ UNCHANGED <<scan, cell, key>>
       ELSE \E c \in Due : /\ \A d \in Due : c <= d
                           /\ LoadCell(c) /\ scan' = c + 1
    /\ UNCHANGED <<slot, sourceVars, frozenVars, poolVars, queueVars, metaVars, screenVars,
                   handVars>>

FullScan ==
    /\ phase = "fullscan"
    /\ IF scan = NCols THEN phase' = "finish" /\ UNCHANGED <<scan, cell, key>>
       ELSE LoadCell(FoldToRaw(nextWindow, scan)) /\ scan' = scan + 1
    /\ UNCHANGED <<slot, sourceVars, frozenVars, poolVars, queueVars, metaVars, screenVars,
                   handVars>>

\* A slot in hand: nothing to do if the cell has it already.
NextCell == phase' = IF full THEN "fullscan" ELSE "scan"
Resolved(s) ==
    /\ slot' = s
    /\ pins' = pins \cup {s}
    /\ IF Current[cell] = s /\ ~full THEN NextCell
       ELSE phase' = IF copied THEN "queue" ELSE "copy"

Resolve ==
    /\ phase = "resolve"
    /\ IF cache[key] # None THEN Resolved(cache[key]) /\ UNCHANGED probes
       ELSE probes' = 0 /\ phase' = "allocate" /\ UNCHANGED <<slot, pins>>
    /\ UNCHANGED <<scan, cell, key, alloc, cache, rev, sourceVars, frozenVars, queueVars,
                   metaVars, screenVars, handVars>>

\* A plausible slip: a slot the packet has just been given is taken again.
FreeUnpinned(s) == CurrentCount[s] = 0

Free(s) == CurrentCount[s] = 0 /\ s \notin pins

\* The old pair of a slot leaves the cache only if the cache still names it.
Forget(s) ==
    cache' = IF rev[s] # None /\ cache[rev[s]] = s
             THEN [cache EXCEPT ![rev[s]] = None] ELSE cache

\* One candidate: free, and the slot is reserved; else the next, round robin,
\* until each has been tried.
Allocate ==
    /\ phase = "allocate"
    /\ slot' = alloc
    /\ alloc' = (alloc + 1) % NSlots
    /\ \/ /\ Free(alloc)
          /\ Forget(alloc)
          /\ pins' = pins \cup {alloc}
          /\ phase' = "build"
          /\ UNCHANGED probes
       \/ /\ ~Free(alloc)
          /\ probes' = probes + 1
          /\ IF probes' = NSlots THEN RequestFull ELSE UNCHANGED phase
          /\ UNCHANGED <<pins, cache>>
    /\ UNCHANGED <<scan, cell, key, rev, sourceVars, frozenVars, queueVars, metaVars,
                   screenVars, handVars>>

\* The pattern is drawn, from the table of this frame, and only then cached.
Build ==
    /\ phase = "build"
    /\ pattern' = [pattern EXCEPT ![slot] = <<chr[<<nextTable, key[1]>>], key[2]>>]
    /\ cache' = [cache EXCEPT ![key] = slot]
    /\ rev' = [rev EXCEPT ![slot] = key]
    /\ Resolved(slot)
    /\ UNCHANGED <<scan, cell, key, alloc, probes, sourceVars, frozenVars, queueVars, metaVars,
                   nt, curTable, curWindow, init, displayOn, handVars>>

\* The first cell that changes gets the frame its copy of the metadata.
Copy ==
    /\ phase = "copy"
    /\ shadow' = [shadow EXCEPT ![NextCopy] = Current]
    /\ count' = [count EXCEPT ![NextCopy] = CurrentCount]
    /\ copied' = TRUE
    /\ phase' = "queue"
    /\ UNCHANGED <<selector, full, packet, index, sourceVars, frozenVars, workVars, poolVars,
                   screenVars, handVars>>

\* A plausible slip: one record more than the packet holds.
RoomForOneMore == Len(packet) <= MaxRecords

Room == Len(packet) < MaxRecords

\* A plausible slip: the cell's old slot keeps its count.
RecountUpOnly(n, old, new) ==
    [s \in Slot |-> n[s] + (IF s = new THEN 1 ELSE 0)]

Recount(n, old, new) ==
    [s \in Slot |-> n[s] + (IF s = new THEN 1 ELSE 0) - (IF s = old THEN 1 ELSE 0)]

\* The copy is brought up to date; a full drawing writes the cell at once.
Note ==
    /\ shadow' = [shadow EXCEPT ![NextCopy][cell] = slot]
    /\ count' = [count EXCEPT ![NextCopy] = Recount(@, shadow[NextCopy][cell], slot)]
    /\ nt' = IF full THEN [nt EXCEPT ![cell] = slot] ELSE nt
    /\ NextCell
    /\ UNCHANGED <<selector, pattern, curTable, curWindow, init, displayOn>>

Queue ==
    /\ phase = "queue"
    /\ CASE full ->
              Note /\ UNCHANGED <<packet, index>>
         [] ~full /\ index[cell] # 0 ->
              /\ packet' = [packet EXCEPT ![index[cell]].slot = slot]
              /\ Note /\ UNCHANGED index
         [] ~full /\ index[cell] = 0 /\ Room ->
              /\ packet' = Append(packet, [cell |-> cell, slot |-> slot])
              /\ index' = [index EXCEPT ![cell] = Len(packet) + 1]
              /\ Note
         [] OTHER ->
              RequestFull /\ UNCHANGED <<packet, index, metaVars, screenVars>>
    /\ UNCHANGED <<full, copied, sourceVars, frozenVars, workVars, poolVars, handVars>>

\* The display is off: start over.
Blanked ==
    /\ phase = "fence"
    /\ displayOn' = FALSE
    /\ full' = TRUE /\ copied' = TRUE
    /\ packet' = <<>> /\ selector' = 0 /\ alloc' = 0
    /\ phase' = "reset"
    /\ UNCHANGED <<probes, pins, cache, rev, index, shadow, count, pattern, nt, curTable,
                   curWindow, init, sourceVars, frozenVars, workVars, handVars>>

\* A plausible slip: the cache is left out of the reset.
ResetPoolKeepingCache == UNCHANGED cache /\ rev' = EmptyRev /\ pins' = {}

\* A plausible slip: the pins of the work given up are left out.
ResetPoolKeepingPins == cache' = EmptyCache /\ rev' = EmptyRev /\ UNCHANGED pins

ResetPool == cache' = EmptyCache /\ rev' = EmptyRev /\ pins' = {}

\* The fill over the pins runs on over the live dirty bits of table 0.
Reset ==
    /\ phase = "reset"
    /\ shadow' = [i \in 0 .. 1 |-> EmptyShadow] /\ index' = EmptyIndex
    /\ count' = [i \in 0 .. 1 |-> EmptyCount]
    /\ ResetPool
    /\ chrDirty' = {p \in chrDirty : p[1] # Table0}
    /\ scan' = 0
    /\ phase' = "fullscan"
    /\ UNCHANGED <<selector, alloc, probes, full, copied, packet, cell, key, slot, base, attr,
                   chr, dirty, attrDirty, flags, window, table, writes, frozenVars, screenVars,
                   handVars>>

\* The cells give their records back.
Finish ==
    /\ phase = "finish"
    /\ index' = [f \in Folded |-> IF \E i \in DOMAIN packet : packet[i].cell = f
                                  THEN 0 ELSE index[f]]
    /\ phase' = "prepared"
    /\ UNCHANGED <<full, copied, packet, sourceVars, frozenVars, workVars, poolVars, metaVars,
                   screenVars, handVars>>

\* The coordinator publishes (Cv1Frame).
Publish ==
    /\ phase = "prepared"
    /\ phase' = "idle"
    /\ ready' = TRUE /\ published' = Source
    /\ UNCHANGED <<sourceVars, frozenVars, workVars, poolVars, queueVars, metaVars, screenVars>>
-----------------------------------------------------------------------------
(* The interrupt commits a READY frame, whatever the program does.          *)

Written(f) == {packet[i].slot : i \in {j \in DOMAIN packet : packet[j].cell = f}}

Commit ==
    /\ ready
    /\ nt' = [f \in Folded |-> IF Written(f) = {} THEN nt[f] ELSE CHOOSE s \in Written(f) : TRUE]
    /\ selector' = IF copied THEN NextCopy ELSE selector
    /\ curTable' = nextTable /\ curWindow' = nextWindow
    /\ init' = TRUE /\ displayOn' = TRUE
    /\ packet' = <<>> /\ copied' = FALSE
    /\ ready' = FALSE /\ published' = None
    /\ UNCHANGED <<full, index, shadow, count, pattern, phase, sourceVars, frozenVars, workVars,
                   poolVars>>

Produce ==
    \/ \E c \in World, b \in Base : WriteTile(c, b)
    \/ \E a \in Attr, s \in Sub : WriteAttr(a, s)
    \/ \E t \in Table, b \in Base, v \in Bits : WriteChr(t, b, v)
    \/ \E w \in World, t \in Table : WriteControl(w, t)

Prepare ==
    \/ Begin \/ Freeze \/ Invalidate \/ Scroll \/ Attributes \/ DirtyScan \/ FullScan
    \/ Resolve \/ Allocate \/ Build \/ Copy \/ Queue \/ Blanked \/ Reset \/ Finish \/ Publish

Next == Produce \/ Prepare \/ Commit

Spec == Init /\ [][Next]_vars
-----------------------------------------------------------------------------
Phase == {"idle", "freeze", "invalidate", "scroll", "attributes", "scan", "resolve",
          "allocate", "build", "copy", "queue", "fence", "reset", "fullscan", "finish",
          "prepared", "failed"}

TypeOK ==
    /\ base \in [World -> Base] /\ attr \in [Attr -> Sub] /\ chr \in [Table \X Base -> Bits]
    /\ dirty \in SUBSET World /\ attrDirty \in SUBSET Attr
    /\ chrDirty \in SUBSET (Table \X Base) /\ flags \in SUBSET ({"nt", "attr"} \cup Table)
    /\ window \in World /\ table \in Table /\ writes \in 0 .. MaxWrites
    /\ phase \in Phase
    /\ frozen \in SUBSET World /\ attrFrozen \in SUBSET Attr
    /\ chrFrozen \in SUBSET (Table \X Base)
    /\ frozenFlags \in SUBSET ({"nt", "attr"} \cup Table)
    /\ nextTable \in Table /\ nextWindow \in World
    /\ scan \in 0 .. 2 * NCols /\ cell \in Folded /\ key \in Key /\ slot \in Slot
    /\ alloc \in Slot /\ probes \in 0 .. NSlots /\ pins \in SUBSET Slot
    /\ full \in BOOLEAN /\ copied \in BOOLEAN
    /\ packet \in Seq(Record) /\ index \in [Folded -> 0 .. MaxRecords]
    /\ cache \in [Key -> Slot \cup {None}] /\ rev \in [Slot -> Key \cup {None}]
    /\ selector \in 0 .. 1
    /\ shadow \in [0 .. 1 -> [Folded -> Slot \cup {None}]]
    /\ count \in [0 .. 1 -> [Slot -> 0 .. NCols]]
    /\ pattern \in [Slot -> Pattern] /\ nt \in [Folded -> Slot]
    /\ curTable \in Table /\ curWindow \in World /\ init \in BOOLEAN
    /\ displayOn \in BOOLEAN /\ ready \in BOOLEAN /\ published \in Picture \cup {None}

Cells(m, s) == Cardinality({f \in Folded : m[f] = s})

\* "Pointer to exact 16-bit count": however frames are prepared, given up and
\* drawn again, the copy in use counts the cells of every slot exactly, and so
\* does the copy in preparation.
CountsExact ==
    /\ \A s \in Slot : CurrentCount[s] = Cells(Current, s)
    /\ copied /\ phase # "reset" =>
          \A s \in Slot : count[NextCopy][s] = Cells(shadow[NextCopy], s)

\* "Key becomes valid AFTER its complete pattern": a cached slot belongs to its
\* pair, and shows it as CHR RAM has it now unless a dirty bit, or one frozen
\* and not looked at yet, says that the tile has changed since.
CacheCurrent ==
    LET tbl   == IF full THEN nextTable ELSE curTable
        stale == IF phase = "invalidate" THEN chrDirty \cup chrFrozen ELSE chrDirty
    IN phase \notin {"fence", "reset"} =>
          \A k \in Key : cache[k] # None =>
              /\ rev[cache[k]] = k
              /\ \/ <<tbl, k[1]>> \in stale
                 \/ pattern[cache[k]] = <<chr[<<tbl, k[1]>>], k[2]>>

\* "Even an empty 255-slot working set cannot fit": the pool gives up only on
\* a window that has more pairs than slots.
FailsOnlyFull ==
    phase = "failed" =>
        Cardinality({<<base[c], attr[c \div AttrSpan]>> : c \in
                        {FoldToRaw(nextWindow, f) : f \in Folded}}) > NSlots

\* The screen shows what the NES would: the window of the name tables at the
\* moment of READY, each cell in the tile and sub-palette it had then, and
\* nothing while a frame is being prepared changes it.
Handover == INSTANCE FrameHandover WITH
    source <- Source,
    shown  <- IF displayOn THEN [cells  |-> [f \in Folded |-> pattern[nt[f]]],
                                 window |-> curWindow]
                           ELSE Off
HandoverSpec == Handover!Spec
=============================================================================
