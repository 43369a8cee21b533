------------------------------ MODULE Cv1Frame ------------------------------
(***************************************************************************)
(* The graphics hand-over of the Castlevania profile (coherent build):     *)
(* runtime/frame_cv1.s with the gates of runtime/boot.s that protect it    *)
(* and the producer and commit sides of runtime/bg_cv1.s.                  *)
(*                                                                         *)
(* The full NMI body of the game calls a hook, before it sets its own busy *)
(* byte $C01B, that prepares a frame out of the source the program has     *)
(* written: it freezes the dirty bits, scans them, and publishes READY     *)
(* last.  Preparation takes longer than a frame, so it opens interrupts    *)
(* between its steps.  The interrupt commits a READY frame when the beam   *)
(* admits it, marks it PENDING when it does not, and then decides whether  *)
(* the program may get its NMI.                                            *)
(*                                                                         *)
(* A cell stands for a name-table cell, a table for the control record a   *)
(* frame is captured with.  Slots and patterns are in Cv1Slots; of the     *)
(* sprites only their occasional demand for a dark display is here.        *)
(***************************************************************************)
EXTENDS Integers, FiniteSets

CONSTANTS
    NCells,      \* name-table cells
    Value,       \* contents of a cell, colours of the palette
    Table,       \* control records (pattern table, window)
    MaxRecords,  \* name-table records of an incremental commit (32)
    None, Off

ASSUME SizeAssumption == NCells \in Nat \ {0} /\ MaxRecords \in Nat

Cell == 1 .. NCells
Level == 0 .. 2
Picture == [cells : [Cell -> Value], pal : Value, table : Table]

ASSUME NoneAssumption == None \notin Value \cup Picture

VARIABLES
    raw, dirty, flags,      \* CIRAM, its dirty bits, LIVE_FLAGS
    pal, palDirty,          \* the palette and PAL_DIRTY
    table,                  \* the live control registers
    busy,                   \* $C01B, the game's own lag byte
    depth,                  \* $CA11
    pc,                     \* where each context is
    iff,                    \* CV1_FRAME_HOOK_IFF: the hook may open interrupts
    packet,                 \* the control record of the frame
    frozen, scan,           \* the frozen dirty bits and the cursor of a phase
    records,                \* prepared name-table records
    cram, palPending,       \* the frozen palette and PAL_PENDING
    visible, visPal, visTable, \* the display: cells, CRAM, $CA13/$CB2A
    init,                   \* CV1_BG_INIT
    displayOn,              \* the display is not blanked by $C802 bit 1
    ready, pending,         \* CV1_FRAME_READY, CV1_FRAME_PENDING
    preparing,              \* $CA12
    published               \* ghost: the source at the moment of READY

sourceVars  == <<raw, dirty, flags, pal, palDirty, table>>
controlVars == <<busy, depth, pc, iff>>
frameVars   == <<packet, frozen, scan, records, cram, palPending>>
displayVars == <<visible, visPal, visTable, init, displayOn>>
handVars    == <<ready, pending, preparing, published>>
vars == <<sourceVars, controlVars, frameVars, displayVars, handVars>>

NoRecords == [c \in Cell |-> None]
Recorded == {c \in Cell : records[c] # None}
Shadow(c) == IF records[c] = None THEN visible[c] ELSE records[c]
Source == [cells |-> raw, pal |-> pal, table |-> table]
At(p) == pc[depth] = p
Goto(p) == pc' = [pc EXCEPT ![depth] = p]

Program == {"main", "prologue", "hooked", "work", "epilogue", "lag"}
Service == {"ops", "capture", "freeze", "scan", "blank", "rebuild", "sprites"}

Init ==
    /\ raw \in [Cell -> Value] /\ dirty = {} /\ flags = FALSE
    /\ pal \in Value /\ palDirty = FALSE
    /\ table \in Table
    /\ busy = FALSE /\ depth = 0
    /\ pc = [l \in Level |-> "main"] /\ iff = TRUE
    /\ packet = table /\ frozen = {} /\ scan = 1
    /\ records = NoRecords /\ cram = pal /\ palPending = FALSE
    /\ visible = raw /\ visPal = pal /\ visTable = table
    /\ init = FALSE /\ displayOn = FALSE
    /\ ready = FALSE /\ pending = FALSE /\ preparing = FALSE
    /\ published = None
-----------------------------------------------------------------------------
(* The program writes its picture, under the slot-2 guard and so in one     *)
(* step.  A write of the value that is there already is no change.          *)

WriteCell(c, v) ==
    /\ pc[depth] \in Program
    /\ raw' = [raw EXCEPT ![c] = v]
    /\ dirty' = IF raw[c] = v THEN dirty ELSE dirty \cup {c}
    /\ flags' = (flags \/ raw[c] # v)
    /\ UNCHANGED <<pal, palDirty, table, controlVars, frameVars, displayVars, handVars>>

WritePalette(v) ==
    /\ pc[depth] \in Program
    /\ pal' = v
    /\ palDirty' = (palDirty \/ pal # v)
    /\ UNCHANGED <<raw, dirty, flags, table, controlVars, frameVars, displayVars, handVars>>

\* PPUCTRL and PPUSCROLL, from anywhere; the lag branch of the hook, too,
\* makes only these writes.
WriteControl(t) ==
    /\ pc[depth] \in Program
    /\ table' = t
    /\ UNCHANGED <<raw, dirty, flags, pal, palDirty, controlVars, frameVars, displayVars, handVars>>
-----------------------------------------------------------------------------
(* The body of an NMI: the full one runs its prologue, the hook, and the    *)
(* game's work with $C01B set; the one that finds $C01B set only lags.      *)

SetBusy ==
    /\ At("hooked")
    /\ busy' = TRUE
    /\ Goto("work")
    /\ UNCHANGED <<depth, iff, sourceVars, frameVars, displayVars, handVars>>

ClearBusy ==
    /\ At("work")
    /\ busy' = FALSE
    /\ Goto("epilogue")
    /\ UNCHANGED <<depth, iff, sourceVars, frameVars, displayVars, handVars>>

Return ==
    /\ At("epilogue") \/ At("lag")
    /\ depth' = depth - 1
    /\ UNCHANGED <<busy, pc, iff, sourceVars, frameVars, displayVars, handVars>>
-----------------------------------------------------------------------------
(* The hook, rt_cv1_scroll_publish.  Its caller may hold interrupts off, in *)
(* which case it fences the display off first and opens no service point.   *)

CallHook(i) ==
    /\ At("prologue")
    /\ iff' = i
    /\ Goto(CASE busy -> "hooked"
              [] ~busy /\ (depth # 1 \/ ready \/ pending) -> "bad"
              [] OTHER -> "ops")
    /\ displayOn' = (displayOn /\ (i \/ busy))
    /\ UNCHANGED <<busy, depth, sourceVars, frameVars, visible, visPal, visTable, init, handVars>>

\* The scroll and control writes of the original routine.
PpuOps(t) ==
    /\ At("ops")
    /\ table' = t
    /\ Goto("capture")
    /\ UNCHANGED <<raw, dirty, flags, pal, palDirty, busy, depth, iff,
                   frameVars, displayVars, handVars>>

FreezePalette ==
    /\ cram' = pal
    /\ palPending' = palDirty
    /\ palDirty' = FALSE

\* Nothing but the palette can have changed.
Unchanged == init /\ table = visTable /\ ~flags

\* The control record is copied, $CA12 closes the consumer, and preparation
\* begins; a frame whose background has not changed only takes the palette.
Capture ==
    /\ At("capture")
    /\ packet' = table
    /\ preparing' = TRUE
    /\ records' = NoRecords
    /\ scan' = 1
    /\ IF Unchanged THEN FreezePalette /\ Goto("sprites")
                    ELSE Goto("freeze") /\ UNCHANGED <<cram, palPending, palDirty>>
    /\ UNCHANGED <<raw, dirty, flags, pal, table, busy, depth, iff, frozen,
                   displayVars, ready, pending, published>>

\* A plausible slip: the bits of the last frame are not overwritten but only
\* cleared on the live side.
FreezeCellLosing ==
    /\ At("freeze") /\ scan <= NCells
    /\ dirty' = dirty \ {scan}
    /\ scan' = scan + 1
    /\ UNCHANGED <<raw, flags, pal, palDirty, table, controlVars, packet, frozen,
                   records, cram, palPending, displayVars, handVars>>

\* The dirty bits move to the frame chunk by chunk.
FreezeCell ==
    /\ At("freeze") /\ scan <= NCells
    /\ frozen' = IF scan \in dirty THEN frozen \cup {scan} ELSE frozen \ {scan}
    /\ dirty' = dirty \ {scan}
    /\ scan' = scan + 1
    /\ UNCHANGED <<raw, flags, pal, palDirty, table, controlVars, packet,
                   records, cram, palPending, displayVars, handVars>>

\* Then the flags and the palette; a first frame or a new table is drawn in
\* full, an unflagged one needs no scan.
FreezeLast ==
    /\ At("freeze") /\ scan > NCells
    /\ FreezePalette
    /\ flags' = FALSE
    /\ scan' = 1
    /\ Goto(CASE ~init \/ packet # visTable -> "blank"
              [] init /\ packet = visTable /\ flags -> "scan"
              [] OTHER -> "sprites")
    /\ UNCHANGED <<raw, dirty, pal, table, busy, depth, iff, packet, frozen,
                   records, displayVars, handVars>>

\* A plausible slip: one record more than the packet holds.
ScanCellOneMore ==
    /\ At("scan") /\ scan <= NCells
    /\ LET differs == scan \in frozen /\ raw[scan] # visible[scan]
           fits    == Cardinality(Recorded) <= MaxRecords
       IN /\ records' = IF differs /\ fits
                           THEN [records EXCEPT ![scan] = raw[scan]] ELSE records
          /\ scan' = IF differs /\ ~fits THEN scan ELSE scan + 1
          /\ Goto(CASE differs /\ ~fits -> "blank"
                    [] ~(differs /\ ~fits) /\ scan = NCells -> "sprites"
                    [] OTHER -> "scan")
    /\ UNCHANGED <<sourceVars, busy, depth, iff, packet, frozen, cram, palPending,
                   displayVars, handVars>>

\* A frozen cell that differs from the display gets a record; one too many
\* asks for a full drawing.
ScanCell ==
    /\ At("scan") /\ scan <= NCells
    /\ LET differs == scan \in frozen /\ raw[scan] # visible[scan]
           fits    == Cardinality(Recorded) < MaxRecords
       IN /\ records' = IF differs /\ fits
                           THEN [records EXCEPT ![scan] = raw[scan]] ELSE records
          /\ scan' = IF differs /\ ~fits THEN scan ELSE scan + 1
          /\ Goto(CASE differs /\ ~fits -> "blank"
                    [] ~(differs /\ ~fits) /\ scan = NCells -> "sprites"
                    [] OTHER -> "scan")
    /\ UNCHANGED <<sourceVars, busy, depth, iff, packet, frozen, cram, palPending,
                   displayVars, handVars>>

\* A plausible slip: the scan is tried again behind the dark display.
BlankRetrying ==
    /\ At("blank")
    /\ displayOn' = FALSE
    /\ records' = NoRecords
    /\ scan' = 1
    /\ Goto("scan")
    /\ UNCHANGED <<sourceVars, busy, depth, iff, packet, frozen, cram, palPending,
                   visible, visPal, visTable, init, handVars>>

\* Within lines $E0-$EC the display is turned off; the incremental work is
\* dropped.
Blank ==
    /\ At("blank")
    /\ displayOn' = FALSE
    /\ records' = NoRecords
    /\ scan' = 1
    /\ Goto("rebuild")
    /\ UNCHANGED <<sourceVars, busy, depth, iff, packet, frozen, cram, palPending,
                   visible, visPal, visTable, init, handVars>>

\* Behind the dark display the cells are written to the screen directly.
RebuildCell ==
    /\ At("rebuild")
    /\ visible' = [visible EXCEPT ![scan] = raw[scan]]
    /\ scan' = scan + 1
    /\ Goto(IF scan = NCells THEN "sprites" ELSE "rebuild")
    /\ UNCHANGED <<sourceVars, busy, depth, iff, packet, frozen, records, cram,
                   palPending, visPal, visTable, init, displayOn, handVars>>

\* The sprite pool may need the dark display, too (Cv1Sprites).
BlankForSprites ==
    /\ At("sprites") /\ displayOn
    /\ displayOn' = FALSE
    /\ UNCHANGED <<sourceVars, controlVars, frameVars, visible, visPal, visTable,
                   init, handVars>>

\* Preparation is over: $CA12 opens the consumer, READY is published last.
Publish ==
    /\ At("sprites")
    /\ preparing' = FALSE
    /\ ready' = TRUE
    /\ published' = Source
    /\ Goto("hooked")
    /\ UNCHANGED <<sourceVars, busy, depth, iff, frameVars, displayVars, pending>>
-----------------------------------------------------------------------------
(* The frame interrupt, in one step: rt_cv1_frame_try_present, then the     *)
(* gates of the NMI.  "onTime": the beam is found within lines $E0-$E3.     *)

Interruptible ==
    \/ pc[depth] \in Program
    \/ pc[depth] \in Service /\ iff

\* A plausible slip: $CA12 is not looked at.
WaitingUnlocked == ready \/ pending \/ preparing

\* A plausible slip: a PENDING frame is not tried again.
WaitingOnce == ~preparing /\ ready /\ ~pending

Waiting == ~preparing /\ (ready \/ pending)

Commit ==
    /\ visible' = [c \in Cell |-> Shadow(c)]
    /\ visPal' = IF palPending THEN cram ELSE visPal
    /\ visTable' = packet
    /\ init' = TRUE
    /\ displayOn' = TRUE
    /\ records' = NoRecords
    /\ palPending' = FALSE
    /\ ready' = FALSE
    /\ pending' = FALSE
    /\ published' = None

Late ==
    /\ pending' = TRUE
    /\ UNCHANGED <<displayVars, records, palPending, ready, published>>

TryPresent(onTime) ==
    /\ Waiting /\ onTime => Commit
    /\ Waiting /\ ~onTime => Late
    /\ ~Waiting => UNCHANGED <<displayVars, records, palPending, ready, pending, published>>

\* A plausible slip: the busy byte is not asked for a nested NMI.
GateNested(r, p) ==
    /\ depth < 2
    /\ p => busy
    /\ r => busy

\* A plausible slip: nesting is not bounded.
GateUnbounded(r, p) ==
    /\ p => busy
    /\ r => busy
    /\ depth > 0 => busy

\* No third level; a frame waiting holds a new full body back; and within a
\* body only its busy part may be interrupted by another.
Gate(r, p) ==
    /\ depth < 2
    /\ p => busy
    /\ r => busy
    /\ depth > 0 => busy

Deliver ==
    /\ depth' = depth + 1
    /\ pc' = [pc EXCEPT ![depth + 1] = IF busy THEN "lag" ELSE "prologue"]

\* A nested NMI also wants PPUCTRL bit 7, which the program has on or off.
Irq(onTime) ==
    /\ Interruptible
    /\ TryPresent(onTime)
    /\ \/ Gate(ready', pending') /\ Deliver
       \/ Gate(ready', pending') /\ depth > 0 /\ UNCHANGED <<depth, pc>>
       \/ ~Gate(ready', pending') /\ UNCHANGED <<depth, pc>>
    /\ UNCHANGED <<sourceVars, busy, iff, packet, frozen, scan, cram, preparing>>

Prepare ==
    \/ \E t \in Table : PpuOps(t)
    \/ Capture \/ FreezeCell \/ FreezeLast \/ ScanCell
    \/ Blank \/ RebuildCell \/ BlankForSprites \/ Publish

Body == SetBusy \/ ClearBusy \/ Return \/ \E i \in BOOLEAN : CallHook(i)

Write ==
    \/ \E c \in Cell, v \in Value : WriteCell(c, v)
    \/ \E v \in Value : WritePalette(v)
    \/ \E t \in Table : WriteControl(t)

Next == Prepare \/ Body \/ Write \/ \E onTime \in BOOLEAN : Irq(onTime)

\* The translated code goes on, and infinitely many of the frame interrupts
\* find the beam in time.
Fairness ==
    /\ WF_vars(Prepare)
    /\ SF_vars(Irq(TRUE))

Spec == Init /\ [][Next]_vars
LiveSpec == Spec /\ Fairness
-----------------------------------------------------------------------------
SourceType ==
    /\ raw \in [Cell -> Value] /\ dirty \in SUBSET Cell /\ flags \in BOOLEAN
    /\ pal \in Value /\ palDirty \in BOOLEAN /\ table \in Table
ControlType ==
    /\ busy \in BOOLEAN /\ depth \in Level /\ iff \in BOOLEAN
    /\ pc \in [Level -> Program \cup Service \cup {"bad"}]
FrameType ==
    /\ packet \in Table /\ frozen \in SUBSET Cell /\ scan \in 1 .. NCells + 1
    /\ records \in [Cell -> Value \cup {None}]
    /\ cram \in Value /\ palPending \in BOOLEAN
DisplayType ==
    /\ visible \in [Cell -> Value] /\ visPal \in Value /\ visTable \in Table
    /\ init \in BOOLEAN /\ displayOn \in BOOLEAN
HandType ==
    /\ ready \in BOOLEAN /\ pending \in BOOLEAN /\ preparing \in BOOLEAN
    /\ published \in Picture \cup {None}

TypeOK == SourceType /\ ControlType /\ FrameType /\ DisplayType /\ HandType

\* "Bounded NT count 0..32": the packet ends where the HUD's begins ($B460).
PacketFits == Cardinality(Recorded) <= MaxRecords

\* "READY owns the double buffer even before its first deferred IRQ retry",
\* and "CA11=1 [blocks] nested translated producers": the hook never finds a
\* frame still waiting, nor itself in a nested body, and so never halts ($F8).
HookFindsRoom == pc[depth] # "bad"

\* "Every newer dirty bit remains live": a cell that the display, with the
\* frame in preparation, would show wrong is on its way - it is still dirty and
\* flagged, or frozen and not yet scanned, or a full drawing has yet to reach it.
NothingLost ==
    \A c \in Cell : raw[c] # Shadow(c) =>
        \/ c \in dirty /\ flags
        \/ pc[1] = "freeze" /\ c \in frozen /\ c < scan /\ flags
        \/ pc[1] = "scan" /\ c \in frozen /\ c >= scan
        \/ pc[1] = "blank"
        \/ pc[1] = "rebuild" /\ c >= scan
        
\* The frame interrupt shows whole frames, exactly as the source stood when
\* READY was published, whatever the program and nested NMIs wrote since; the
\* screen shows nothing else.
Handover == INSTANCE FrameHandover WITH
    source    <- Source,
    shown     <- IF displayOn THEN [cells |-> visible, pal |-> visPal, table |-> visTable]
                              ELSE Off
HandoverSpec == Handover!Spec

\* A READY frame is presented.
Presented == ready ~> ~ready

\* A preparation ends: no NMI body can starve it.
PreparationEnds == preparing ~> ready

\* A waiting frame does not hold the next NMI body back for ever.
BackpressureEnds == (depth = 0 /\ ready) ~> depth = 1

=============================================================================
