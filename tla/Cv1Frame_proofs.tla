-------------------------- MODULE Cv1Frame_proofs --------------------------
(***************************************************************************)
(* Proofs about the graphics hand-over of Cv1Frame: the hook never finds a *)
(* frame still waiting, no change of the source is lost, and what the      *)
(* screen shows is what FrameHandover promises.                            *)
(*                                                                         *)
(* The invariant has these parts.  Control: which body runs in which       *)
(* context, and that no other body can run while one prepares.  Stages:    *)
(* what bits, records and palette may be at each stage of a preparation.   *)
(* NothingLost: what the frame, laid over the display, still owes to the   *)
(* source.  Frozen: a waiting frame is the picture that was published.     *)
(***************************************************************************)
EXTENDS Cv1Frame, FiniteSetTheorems, TLAPS

\* The stages of a preparation, and those after the freeze of its dirty bits.
Preparation == {"freeze", "scan", "blank", "rebuild", "sprites"}
AfterFreeze == {"scan", "blank", "rebuild", "sprites"}

\* The first context is the program's; the second, if there is one, runs a
\* full body, and the third a lag body within the work of the second.  From
\* the prologue to READY nothing is waiting and nothing else runs.
Control ==
    /\ pc[0] = "main"
    /\ depth >= 1 => pc[1] \notin {"main", "lag", "bad"}
    /\ depth = 2 => pc[1] = "work" /\ pc[2] = "lag"
    /\ busy <=> depth >= 1 /\ pc[1] = "work"
    /\ pc[1] \in Service \cup {"prologue"} => depth = 1 /\ ~ready
    /\ preparing <=> pc[1] \in Preparation
    /\ pending => ready
    /\ published = None <=> ~ready
    /\ pc[1] = "rebuild" => ~displayOn

\* The palette the display would have after the frame.
ShadowPal == IF palPending THEN cram ELSE visPal

\* Bits and records at the stages of a preparation.
Stages ==
    /\ pc[1] = "freeze" => \A c \in Cell : c < scan => c \notin dirty
    /\ records # NoRecords => ready \/ pc[1] \in {"scan", "blank", "sprites"}
    /\ pc[1] = "scan" => \A c \in Cell : c >= scan => records[c] = None
    /\ pc[1] \in {"scan", "rebuild"} => scan <= NCells
    /\ pc[1] \in AfterFreeze => ~flags /\ ~palDirty
    /\ pc[1] \in Preparation => packet = table
    /\ palPending => ready \/ pc[1] \in AfterFreeze
    /\ pal # ShadowPal => palDirty

\* A waiting frame, laid over the display, is the picture published.
Frozen ==
    ready => published = [cells |-> [c \in Cell |-> Shadow(c)],
                          pal   |-> ShadowPal, table |-> packet]

IInv == TypeOK /\ PacketFits /\ Control /\ Stages /\ NothingLost /\ Frozen
-----------------------------------------------------------------------------
\* The state boot leaves behind: nothing drawn, nothing waiting.
LEMMA InitIInv == Init => IInv
<1> SUFFICES ASSUME Init PROVE IInv
  OBVIOUS
<1>1. PacketFits
  <2>1. Recorded = {}
    BY DEF Init, NoRecords, Recorded
  <2>. QED BY <2>1, FS_EmptySet, SizeAssumption DEF PacketFits
<1>2. TypeOK
  <2>1. SourceType
    BY DEF Init, SourceType
  <2>2. ControlType
    <3>1. pc \in [Level -> Program \cup Service \cup {"bad"}]
      BY DEF Init, Program
    <3>2. depth \in Level
      BY DEF Init, Level
    <3>. QED BY <3>1, <3>2 DEF Init, ControlType
  <2>3. FrameType
    <3>1. scan \in 1 .. NCells + 1
      BY SizeAssumption DEF Init
    <3>2. records \in [Cell -> Value \cup {None}]
      BY DEF Init, NoRecords
    <3>. QED BY <3>1, <3>2 DEF Init, FrameType
  <2>4. DisplayType
    BY DEF Init, DisplayType
  <2>5. HandType
    BY DEF Init, HandType
  <2>. QED BY <2>1, <2>2, <2>3, <2>4, <2>5 DEF TypeOK
<1>3. Control
  BY DEF Init, Control, Level, Service, Preparation
<1>4. Stages
  BY DEF Init, Stages, Level, Preparation, AfterFreeze, ShadowPal
<1>5. NothingLost
  BY DEF Init, NothingLost, Shadow, NoRecords
<1>6. Frozen
  BY DEF Init, Frozen
<1>. QED BY <1>1, <1>2, <1>3, <1>4, <1>5, <1>6 DEF IInv
-----------------------------------------------------------------------------
(* The steps, part by part.                                                 *)

\* The source is a picture, and so never None.
LEMMA SourceIsPicture == TypeOK => Source \in Picture /\ Source # None
BY NoneAssumption DEF TypeOK, SourceType, Source, Picture

\* The empty packet is a packet.
LEMMA NoRecordsType == NoRecords \in [Cell -> Value \cup {None}]
BY DEF NoRecords

\* Every step keeps the types.
LEMMA TypeStep == TypeOK /\ Control /\ Stages /\ [Next]_vars => TypeOK'
<1> SUFFICES ASSUME TypeOK /\ Control /\ Stages, [Next]_vars PROVE TypeOK'
  OBVIOUS
<1> USE SizeAssumption DEF TypeOK, SourceType, ControlType, FrameType, DisplayType, HandType, Control, Stages, Level, Cell, Program, Service, Preparation, AfterFreeze
<1>1. ASSUME NEW c \in Cell, NEW v \in Value, WriteCell(c, v) PROVE TypeOK'
  BY <1>1 DEF WriteCell, sourceVars, controlVars, frameVars, displayVars, handVars, At, Goto, FreezePalette, NoRecords, Shadow
<1>2. ASSUME NEW v \in Value, WritePalette(v) PROVE TypeOK'
  BY <1>2 DEF WritePalette, sourceVars, controlVars, frameVars, displayVars, handVars, At, Goto, FreezePalette, NoRecords, Shadow
<1>3. ASSUME NEW t \in Table, WriteControl(t) PROVE TypeOK'
  BY <1>3 DEF WriteControl, sourceVars, controlVars, frameVars, displayVars, handVars, At, Goto, FreezePalette, NoRecords, Shadow
<1>4. CASE SetBusy
  BY <1>4 DEF SetBusy, sourceVars, controlVars, frameVars, displayVars, handVars, At, Goto, FreezePalette, NoRecords, Shadow
<1>5. CASE ClearBusy
  BY <1>5 DEF ClearBusy, sourceVars, controlVars, frameVars, displayVars, handVars, At, Goto, FreezePalette, NoRecords, Shadow
<1>6. CASE Return
  BY <1>6 DEF Return, sourceVars, controlVars, frameVars, displayVars, handVars, At, Goto, FreezePalette, NoRecords, Shadow
<1>7. ASSUME NEW i \in BOOLEAN, CallHook(i) PROVE TypeOK'
  BY <1>7 DEF CallHook, sourceVars, controlVars, frameVars, displayVars, handVars, At, Goto, FreezePalette, NoRecords, Shadow
<1>8. ASSUME NEW t \in Table, PpuOps(t) PROVE TypeOK'
  BY <1>8 DEF PpuOps, sourceVars, controlVars, frameVars, displayVars, handVars, At, Goto, FreezePalette, NoRecords, Shadow
<1>9. CASE Capture
  <2>1. SourceType' /\ HandType'
    <3>1. CASE Unchanged
      BY <1>9, <3>1 DEF Capture, FreezePalette, handVars
    <3>2. CASE ~Unchanged
      BY <1>9, <3>2 DEF Capture, handVars
    <3>. QED BY <3>1, <3>2
  <2>2. ControlType'
    BY <1>9 DEF Capture, FreezePalette, sourceVars, controlVars, frameVars, displayVars, handVars, At, Goto
  <2>3. FrameType'
    BY <1>9, NoRecordsType DEF Capture, FreezePalette, sourceVars, controlVars, frameVars, displayVars, handVars, At, Goto
  <2>4. DisplayType'
    BY <1>9 DEF Capture, FreezePalette, sourceVars, controlVars, frameVars, displayVars, handVars, At, Goto
  <2>. QED BY <2>1, <2>2, <2>3, <2>4
<1>10. CASE FreezeCell
  BY <1>10 DEF FreezeCell, sourceVars, controlVars, frameVars, displayVars, handVars, At, Goto, FreezePalette, NoRecords, Shadow
<1>11. CASE FreezeLast
  <2>1. SourceType' /\ HandType'
    BY <1>11 DEF FreezeLast, FreezePalette, sourceVars, controlVars, frameVars, displayVars, handVars, At, Goto
  <2>2. ControlType'
    BY <1>11 DEF FreezeLast, FreezePalette, sourceVars, controlVars, frameVars, displayVars, handVars, At, Goto
  <2>3. FrameType'
    BY <1>11, NoRecordsType DEF FreezeLast, FreezePalette, sourceVars, controlVars, frameVars, displayVars, handVars, At, Goto
  <2>4. DisplayType'
    BY <1>11 DEF FreezeLast, FreezePalette, sourceVars, controlVars, frameVars, displayVars, handVars, At, Goto
  <2>. QED BY <2>1, <2>2, <2>3, <2>4
<1>12. CASE ScanCell
  BY <1>12 DEF ScanCell, sourceVars, controlVars, frameVars, displayVars, handVars, At, Goto, FreezePalette, NoRecords, Shadow
<1>13. CASE Blank
  <2>1. SourceType' /\ HandType'
    BY <1>13 DEF Blank, sourceVars, controlVars, frameVars, displayVars, handVars, At, Goto
  <2>2. ControlType'
    BY <1>13 DEF Blank, sourceVars, controlVars, frameVars, displayVars, handVars, At, Goto
  <2>3. FrameType'
    BY <1>13, NoRecordsType DEF Blank, sourceVars, controlVars, frameVars, displayVars, handVars, At, Goto
  <2>4. DisplayType'
    BY <1>13 DEF Blank, sourceVars, controlVars, frameVars, displayVars, handVars, At, Goto
  <2>. QED BY <2>1, <2>2, <2>3, <2>4
<1>14. CASE RebuildCell
  BY <1>14 DEF RebuildCell, sourceVars, controlVars, frameVars, displayVars, handVars, At, Goto, FreezePalette, NoRecords, Shadow
<1>15. CASE BlankForSprites
  BY <1>15 DEF BlankForSprites, sourceVars, controlVars, frameVars, displayVars, handVars, At, Goto, FreezePalette, NoRecords, Shadow
<1>16. CASE Publish
  BY <1>16, SourceIsPicture DEF Publish, Goto, At, sourceVars, frameVars, displayVars
<1>17. ASSUME NEW onTime \in BOOLEAN, Irq(onTime) PROVE TypeOK'
  <2>1. SourceType' /\ HandType'
    BY <1>17 DEF Irq, Shadow, Interruptible, TryPresent, Waiting, Commit, Late, Gate, Deliver, sourceVars, controlVars, frameVars, displayVars, handVars, At, Goto
  <2>2. ControlType'
    BY <1>17 DEF Irq, Shadow, Interruptible, TryPresent, Waiting, Commit, Late, Gate, Deliver, sourceVars, controlVars, frameVars, displayVars, handVars, At, Goto
  <2>3. FrameType'
    BY <1>17, NoRecordsType DEF Irq, Shadow, Interruptible, TryPresent, Waiting, Commit, Late, Gate, Deliver, sourceVars, controlVars, frameVars, displayVars, handVars, At, Goto
  <2>4. DisplayType'
    <3>1. \A c \in Cell : Shadow(c) \in Value
      BY DEF Shadow
    <3>2. CASE Waiting /\ onTime
      <4>1. Commit
        BY <1>17, <3>2 DEF Irq, TryPresent
      <4>2. visible' \in [Cell -> Value]
        BY <3>1, <4>1 DEF Commit
      <4>. QED BY <4>1, <4>2 DEF Commit
    <3>3. CASE ~(Waiting /\ onTime)
      BY <1>17, <3>3 DEF Irq, TryPresent, Late, displayVars
    <3>. QED BY <3>2, <3>3
  <2>. QED BY <2>1, <2>2, <2>3, <2>4
<1>18. CASE UNCHANGED vars
  BY <1>18 DEF vars, sourceVars, controlVars, frameVars, displayVars, handVars, At, Goto, FreezePalette, NoRecords, Shadow
<1>. QED BY <1>1, <1>2, <1>3, <1>4, <1>5, <1>6, <1>7, <1>8, <1>9, <1>10, <1>11, <1>12, <1>13, <1>14, <1>15, <1>16, <1>17, <1>18 DEF Next, Prepare, Body, Write

\* Every step keeps the places of the bodies.
LEMMA ControlStep == TypeOK /\ Control /\ [Next]_vars => Control'
<1> SUFFICES ASSUME TypeOK /\ Control, [Next]_vars PROVE Control'
  OBVIOUS
<1> USE DEF TypeOK, ControlType, HandType, Control, Level, Program, Service, Preparation
<1>1. ASSUME NEW c \in Cell, NEW v \in Value, WriteCell(c, v) PROVE Control'
  BY <1>1 DEF WriteCell, sourceVars, controlVars, frameVars, displayVars, handVars, At, Goto
<1>2. ASSUME NEW v \in Value, WritePalette(v) PROVE Control'
  BY <1>2 DEF WritePalette, sourceVars, controlVars, frameVars, displayVars, handVars, At, Goto
<1>3. ASSUME NEW t \in Table, WriteControl(t) PROVE Control'
  BY <1>3 DEF WriteControl, sourceVars, controlVars, frameVars, displayVars, handVars, At, Goto
<1>4. CASE SetBusy
  BY <1>4 DEF SetBusy, sourceVars, controlVars, frameVars, displayVars, handVars, At, Goto
<1>5. CASE ClearBusy
  BY <1>5 DEF ClearBusy, sourceVars, controlVars, frameVars, displayVars, handVars, At, Goto
<1>6. CASE Return
  BY <1>6 DEF Return, sourceVars, controlVars, frameVars, displayVars, handVars, At, Goto
<1>7. ASSUME NEW i \in BOOLEAN, CallHook(i) PROVE Control'
  BY <1>7 DEF CallHook, sourceVars, controlVars, frameVars, displayVars, handVars, At, Goto
<1>8. ASSUME NEW t \in Table, PpuOps(t) PROVE Control'
  BY <1>8 DEF PpuOps, sourceVars, controlVars, frameVars, displayVars, handVars, At, Goto
<1>9. CASE Capture
  BY <1>9 DEF Capture, sourceVars, controlVars, frameVars, displayVars, handVars, At, Goto
<1>10. CASE FreezeCell
  BY <1>10 DEF FreezeCell, sourceVars, controlVars, frameVars, displayVars, handVars, At, Goto
<1>11. CASE FreezeLast
  BY <1>11 DEF FreezeLast, sourceVars, controlVars, frameVars, displayVars, handVars, At, Goto
<1>12. CASE ScanCell
  BY <1>12 DEF ScanCell, sourceVars, controlVars, frameVars, displayVars, handVars, At, Goto
<1>13. CASE Blank
  BY <1>13 DEF Blank, sourceVars, controlVars, frameVars, displayVars, handVars, At, Goto
<1>14. CASE RebuildCell
  BY <1>14 DEF RebuildCell, sourceVars, controlVars, frameVars, displayVars, handVars, At, Goto
<1>15. CASE BlankForSprites
  BY <1>15 DEF BlankForSprites, sourceVars, controlVars, frameVars, displayVars, handVars, At, Goto
<1>16. CASE Publish
  BY <1>16, SourceIsPicture DEF Publish, Goto, At, sourceVars, frameVars, displayVars
<1>17. ASSUME NEW onTime \in BOOLEAN, Irq(onTime) PROVE Control'
  BY <1>17 DEF Irq, sourceVars, controlVars, frameVars, displayVars, handVars, At, Goto, Interruptible, TryPresent, Waiting, Commit, Late, Gate, Deliver
<1>18. CASE UNCHANGED vars
  BY <1>18 DEF vars, sourceVars, controlVars, frameVars, displayVars, handVars, At, Goto
<1>. QED BY <1>1, <1>2, <1>3, <1>4, <1>5, <1>6, <1>7, <1>8, <1>9, <1>10, <1>11, <1>12, <1>13, <1>14, <1>15, <1>16, <1>17, <1>18 DEF Next, Prepare, Body, Write

\* Every step keeps what the stages owe.
LEMMA StagesStep == TypeOK /\ Control /\ Stages /\ [Next]_vars => Stages'
<1> SUFFICES ASSUME TypeOK /\ Control /\ Stages, [Next]_vars PROVE Stages'
  OBVIOUS
<1> USE SizeAssumption DEF TypeOK, SourceType, ControlType, FrameType, HandType, Control, Stages, Level, Cell, Program, Service, Preparation, AfterFreeze
<1>1. ASSUME NEW c \in Cell, NEW v \in Value, WriteCell(c, v) PROVE Stages'
  BY <1>1 DEF WriteCell, sourceVars, controlVars, frameVars, displayVars, handVars, At, Goto, FreezePalette, NoRecords, ShadowPal, Shadow, Unchanged
<1>2. ASSUME NEW v \in Value, WritePalette(v) PROVE Stages'
  BY <1>2 DEF WritePalette, sourceVars, controlVars, frameVars, displayVars, handVars, At, Goto, FreezePalette, NoRecords, ShadowPal, Shadow, Unchanged
<1>3. ASSUME NEW t \in Table, WriteControl(t) PROVE Stages'
  BY <1>3 DEF WriteControl, sourceVars, controlVars, frameVars, displayVars, handVars, At, Goto, FreezePalette, NoRecords, ShadowPal, Shadow, Unchanged
<1>4. CASE SetBusy
  BY <1>4 DEF SetBusy, sourceVars, controlVars, frameVars, displayVars, handVars, At, Goto, FreezePalette, NoRecords, ShadowPal, Shadow, Unchanged
<1>5. CASE ClearBusy
  BY <1>5 DEF ClearBusy, sourceVars, controlVars, frameVars, displayVars, handVars, At, Goto, FreezePalette, NoRecords, ShadowPal, Shadow, Unchanged
<1>6. CASE Return
  BY <1>6 DEF Return, sourceVars, controlVars, frameVars, displayVars, handVars, At, Goto, FreezePalette, NoRecords, ShadowPal, Shadow, Unchanged
<1>7. ASSUME NEW i \in BOOLEAN, CallHook(i) PROVE Stages'
  BY <1>7 DEF CallHook, sourceVars, controlVars, frameVars, displayVars, handVars, At, Goto, FreezePalette, NoRecords, ShadowPal, Shadow, Unchanged
<1>8. ASSUME NEW t \in Table, PpuOps(t) PROVE Stages'
  BY <1>8 DEF PpuOps, sourceVars, controlVars, frameVars, displayVars, handVars, At, Goto, FreezePalette, NoRecords, ShadowPal, Shadow, Unchanged
<1>9. CASE Capture
  BY <1>9 DEF Capture, sourceVars, controlVars, frameVars, displayVars, handVars, At, Goto, FreezePalette, NoRecords, ShadowPal, Shadow, Unchanged
<1>10. CASE FreezeCell
  BY <1>10 DEF FreezeCell, sourceVars, controlVars, frameVars, displayVars, handVars, At, Goto, FreezePalette, NoRecords, ShadowPal, Shadow, Unchanged
<1>11. CASE FreezeLast
  BY <1>11 DEF FreezeLast, sourceVars, controlVars, frameVars, displayVars, handVars, At, Goto, FreezePalette, NoRecords, ShadowPal, Shadow, Unchanged
<1>12. CASE ScanCell
  BY <1>12 DEF ScanCell, sourceVars, controlVars, frameVars, displayVars, handVars, At, Goto, FreezePalette, NoRecords, ShadowPal, Shadow, Unchanged
<1>13. CASE Blank
  BY <1>13 DEF Blank, sourceVars, controlVars, frameVars, displayVars, handVars, At, Goto, FreezePalette, NoRecords, ShadowPal, Shadow, Unchanged
<1>14. CASE RebuildCell
  BY <1>14 DEF RebuildCell, sourceVars, controlVars, frameVars, displayVars, handVars, At, Goto, FreezePalette, NoRecords, ShadowPal, Shadow, Unchanged
<1>15. CASE BlankForSprites
  BY <1>15 DEF BlankForSprites, sourceVars, controlVars, frameVars, displayVars, handVars, At, Goto, FreezePalette, NoRecords, ShadowPal, Shadow, Unchanged
<1>16. CASE Publish
  BY <1>16 DEF Publish, sourceVars, controlVars, frameVars, displayVars, handVars, At, Goto, FreezePalette, NoRecords, ShadowPal, Shadow, Unchanged
<1>17. ASSUME NEW onTime \in BOOLEAN, Irq(onTime) PROVE Stages'
  BY <1>17 DEF Irq, sourceVars, controlVars, frameVars, displayVars, handVars, At, Goto, FreezePalette, NoRecords, ShadowPal, Shadow, Unchanged, Interruptible, TryPresent, Waiting, Commit, Late, Gate, Deliver
<1>18. CASE UNCHANGED vars
  BY <1>18 DEF vars, sourceVars, controlVars, frameVars, displayVars, handVars, At, Goto, FreezePalette, NoRecords, ShadowPal, Shadow, Unchanged
<1>. QED BY <1>1, <1>2, <1>3, <1>4, <1>5, <1>6, <1>7, <1>8, <1>9, <1>10, <1>11, <1>12, <1>13, <1>14, <1>15, <1>16, <1>17, <1>18 DEF Next, Prepare, Body, Write

\* No step loses a change of a cell.
LEMMA NothingLostStep == TypeOK /\ Control /\ Stages /\ NothingLost /\ [Next]_vars => NothingLost'
<1> SUFFICES ASSUME TypeOK /\ Control /\ Stages /\ NothingLost, [Next]_vars PROVE NothingLost'
  OBVIOUS
<1> USE SizeAssumption, NoneAssumption DEF TypeOK, SourceType, ControlType, FrameType, DisplayType, HandType, Control, Stages, NothingLost, Level, Cell, Program, Service, Preparation, AfterFreeze
<1>1. ASSUME NEW c \in Cell, NEW v \in Value, WriteCell(c, v) PROVE NothingLost'
  BY <1>1 DEF WriteCell, sourceVars, controlVars, frameVars, displayVars, handVars, At, Goto, FreezePalette, NoRecords, Shadow, Unchanged
<1>2. ASSUME NEW v \in Value, WritePalette(v) PROVE NothingLost'
  BY <1>2 DEF WritePalette, sourceVars, controlVars, frameVars, displayVars, handVars, At, Goto, FreezePalette, NoRecords, Shadow, Unchanged
<1>3. ASSUME NEW t \in Table, WriteControl(t) PROVE NothingLost'
  BY <1>3 DEF WriteControl, sourceVars, controlVars, frameVars, displayVars, handVars, At, Goto, FreezePalette, NoRecords, Shadow, Unchanged
<1>4. CASE SetBusy
  BY <1>4 DEF SetBusy, sourceVars, controlVars, frameVars, displayVars, handVars, At, Goto, FreezePalette, NoRecords, Shadow, Unchanged
<1>5. CASE ClearBusy
  BY <1>5 DEF ClearBusy, sourceVars, controlVars, frameVars, displayVars, handVars, At, Goto, FreezePalette, NoRecords, Shadow, Unchanged
<1>6. CASE Return
  BY <1>6 DEF Return, sourceVars, controlVars, frameVars, displayVars, handVars, At, Goto, FreezePalette, NoRecords, Shadow, Unchanged
<1>7. ASSUME NEW i \in BOOLEAN, CallHook(i) PROVE NothingLost'
  BY <1>7 DEF CallHook, sourceVars, controlVars, frameVars, displayVars, handVars, At, Goto, FreezePalette, NoRecords, Shadow, Unchanged
<1>8. ASSUME NEW t \in Table, PpuOps(t) PROVE NothingLost'
  BY <1>8 DEF PpuOps, sourceVars, controlVars, frameVars, displayVars, handVars, At, Goto, FreezePalette, NoRecords, Shadow, Unchanged
<1>9. CASE Capture
  <2>1. records = NoRecords /\ records' = NoRecords
    BY <1>9 DEF Capture, At
  <2>2. \A c \in Cell : Shadow(c)' = Shadow(c)
    BY <1>9, <2>1 DEF Capture, Shadow, displayVars
  <2>3. CASE Unchanged
    BY <1>9, <2>2, <2>3 DEF Capture, Unchanged, At
  <2>4. CASE ~Unchanged
    BY <1>9, <2>2, <2>4 DEF Capture, At, Goto
  <2>. QED BY <2>3, <2>4
<1>10. CASE FreezeCell
  BY <1>10 DEF FreezeCell, sourceVars, controlVars, frameVars, displayVars, handVars, At, Goto, FreezePalette, NoRecords, Shadow, Unchanged
<1>11. CASE FreezeLast
  BY <1>11 DEF FreezeLast, sourceVars, controlVars, frameVars, displayVars, handVars, At, Goto, FreezePalette, NoRecords, Shadow, Unchanged
<1>12. CASE ScanCell
  BY <1>12 DEF ScanCell, sourceVars, controlVars, frameVars, displayVars, handVars, At, Goto, FreezePalette, NoRecords, Shadow, Unchanged
<1>13. CASE Blank
  BY <1>13 DEF Blank, sourceVars, controlVars, frameVars, displayVars, handVars, At, Goto, FreezePalette, NoRecords, Shadow, Unchanged
<1>14. CASE RebuildCell
  BY <1>14 DEF RebuildCell, sourceVars, controlVars, frameVars, displayVars, handVars, At, Goto, FreezePalette, NoRecords, Shadow, Unchanged
<1>15. CASE BlankForSprites
  BY <1>15 DEF BlankForSprites, sourceVars, controlVars, frameVars, displayVars, handVars, At, Goto, FreezePalette, NoRecords, Shadow, Unchanged
<1>16. CASE Publish
  BY <1>16 DEF Publish, sourceVars, controlVars, frameVars, displayVars, handVars, At, Goto, FreezePalette, NoRecords, Shadow, Unchanged
<1>17. ASSUME NEW onTime \in BOOLEAN, Irq(onTime) PROVE NothingLost'
  BY <1>17 DEF Irq, sourceVars, controlVars, frameVars, displayVars, handVars, At, Goto, FreezePalette, NoRecords, Shadow, Unchanged, Interruptible, TryPresent, Waiting, Commit, Late, Gate, Deliver
<1>18. CASE UNCHANGED vars
  BY <1>18 DEF vars, sourceVars, controlVars, frameVars, displayVars, handVars, At, Goto, FreezePalette, NoRecords, Shadow, Unchanged
<1>. QED BY <1>1, <1>2, <1>3, <1>4, <1>5, <1>6, <1>7, <1>8, <1>9, <1>10, <1>11, <1>12, <1>13, <1>14, <1>15, <1>16, <1>17, <1>18 DEF Next, Prepare, Body, Write

\* No step disturbs a waiting frame.
LEMMA FrozenStep == TypeOK /\ Control /\ Stages /\ NothingLost /\ Frozen /\ [Next]_vars => Frozen'
<1> SUFFICES ASSUME TypeOK /\ Control /\ Stages /\ NothingLost /\ Frozen, [Next]_vars PROVE Frozen'
  OBVIOUS
<1> USE NoneAssumption DEF TypeOK, SourceType, ControlType, FrameType, DisplayType, HandType, Control, Stages, Frozen, Level, Program, Service, Preparation, AfterFreeze
<1>1. ASSUME NEW c \in Cell, NEW v \in Value, WriteCell(c, v) PROVE Frozen'
  BY <1>1 DEF WriteCell, sourceVars, controlVars, frameVars, displayVars, handVars, At, Goto, FreezePalette, NoRecords, Shadow, ShadowPal
<1>2. ASSUME NEW v \in Value, WritePalette(v) PROVE Frozen'
  BY <1>2 DEF WritePalette, sourceVars, controlVars, frameVars, displayVars, handVars, At, Goto, FreezePalette, NoRecords, Shadow, ShadowPal
<1>3. ASSUME NEW t \in Table, WriteControl(t) PROVE Frozen'
  BY <1>3 DEF WriteControl, sourceVars, controlVars, frameVars, displayVars, handVars, At, Goto, FreezePalette, NoRecords, Shadow, ShadowPal
<1>4. CASE SetBusy
  BY <1>4 DEF SetBusy, sourceVars, controlVars, frameVars, displayVars, handVars, At, Goto, FreezePalette, NoRecords, Shadow, ShadowPal
<1>5. CASE ClearBusy
  BY <1>5 DEF ClearBusy, sourceVars, controlVars, frameVars, displayVars, handVars, At, Goto, FreezePalette, NoRecords, Shadow, ShadowPal
<1>6. CASE Return
  BY <1>6 DEF Return, sourceVars, controlVars, frameVars, displayVars, handVars, At, Goto, FreezePalette, NoRecords, Shadow, ShadowPal
<1>7. ASSUME NEW i \in BOOLEAN, CallHook(i) PROVE Frozen'
  BY <1>7 DEF CallHook, sourceVars, controlVars, frameVars, displayVars, handVars, At, Goto, FreezePalette, NoRecords, Shadow, ShadowPal
<1>8. ASSUME NEW t \in Table, PpuOps(t) PROVE Frozen'
  BY <1>8 DEF PpuOps, sourceVars, controlVars, frameVars, displayVars, handVars, At, Goto, FreezePalette, NoRecords, Shadow, ShadowPal
<1>9. CASE Capture
  BY <1>9 DEF Capture, sourceVars, controlVars, frameVars, displayVars, handVars, At, Goto, FreezePalette, NoRecords, Shadow, ShadowPal
<1>10. CASE FreezeCell
  BY <1>10 DEF FreezeCell, sourceVars, controlVars, frameVars, displayVars, handVars, At, Goto, FreezePalette, NoRecords, Shadow, ShadowPal
<1>11. CASE FreezeLast
  BY <1>11 DEF FreezeLast, sourceVars, controlVars, frameVars, displayVars, handVars, At, Goto, FreezePalette, NoRecords, Shadow, ShadowPal
<1>12. CASE ScanCell
  BY <1>12 DEF ScanCell, sourceVars, controlVars, frameVars, displayVars, handVars, At, Goto, FreezePalette, NoRecords, Shadow, ShadowPal
<1>13. CASE Blank
  BY <1>13 DEF Blank, sourceVars, controlVars, frameVars, displayVars, handVars, At, Goto, FreezePalette, NoRecords, Shadow, ShadowPal
<1>14. CASE RebuildCell
  BY <1>14 DEF RebuildCell, sourceVars, controlVars, frameVars, displayVars, handVars, At, Goto, FreezePalette, NoRecords, Shadow, ShadowPal
<1>15. CASE BlankForSprites
  BY <1>15 DEF BlankForSprites, sourceVars, controlVars, frameVars, displayVars, handVars, At, Goto, FreezePalette, NoRecords, Shadow, ShadowPal
<1>16. CASE Publish
  BY <1>16 DEF Publish, sourceVars, controlVars, frameVars, displayVars, handVars, At, Goto, FreezePalette, NoRecords, Shadow, ShadowPal, Source, NothingLost
<1>17. ASSUME NEW onTime \in BOOLEAN, Irq(onTime) PROVE Frozen'
  <2>1. CASE Waiting /\ onTime
    BY <1>17, <2>1 DEF Irq, TryPresent, Commit
  <2>2. CASE ~(Waiting /\ onTime)
    <3>1. UNCHANGED <<displayVars, records, palPending, ready, published>>
      BY <1>17, <2>2 DEF Irq, TryPresent, Late
    <3>2. UNCHANGED <<packet, cram>>
      BY <1>17 DEF Irq
    <3>. QED BY <3>1, <3>2 DEF displayVars, Shadow, ShadowPal
  <2>. QED BY <2>1, <2>2
<1>18. CASE UNCHANGED vars
  BY <1>18 DEF vars, sourceVars, controlVars, frameVars, displayVars, handVars, At, Goto, FreezePalette, NoRecords, Shadow, ShadowPal
<1>. QED BY <1>1, <1>2, <1>3, <1>4, <1>5, <1>6, <1>7, <1>8, <1>9, <1>10, <1>11, <1>12, <1>13, <1>14, <1>15, <1>16, <1>17, <1>18 DEF Next, Prepare, Body, Write

\* No packet outgrows its 32 records: one is added only while there is room.
LEMMA PacketStep == TypeOK /\ PacketFits /\ [Next]_vars => PacketFits'
<1> SUFFICES ASSUME TypeOK /\ PacketFits, [Next]_vars PROVE PacketFits'
  OBVIOUS
<1> USE SizeAssumption DEF PacketFits
<1>1. IsFiniteSet(Recorded)
  <2>1. IsFiniteSet(Cell)
    BY FS_Interval DEF Cell
  <2>. QED BY <2>1, FS_Subset DEF Recorded
<1>2. CASE records' = records
  BY <1>2 DEF Recorded
<1>3. CASE records' = NoRecords
  <2>1. Recorded' = {}
    BY <1>3 DEF NoRecords, Recorded
  <2>. QED BY <2>1, FS_EmptySet
<1>4. CASE ScanCell /\ records' # records
  <2>1. Cardinality(Recorded) < MaxRecords /\ Recorded' \subseteq Recorded \cup {scan}
    BY <1>4 DEF ScanCell, Recorded, TypeOK, FrameType
  <2>2. /\ IsFiniteSet(Recorded \cup {scan})
        /\ Cardinality(Recorded \cup {scan}) <= Cardinality(Recorded) + 1
    BY <1>1, FS_AddElement, FS_CardinalityType
  <2>3. Cardinality(Recorded') <= Cardinality(Recorded \cup {scan})
    BY <2>1, <2>2, FS_Subset
  <2>4. Cardinality(Recorded) \in Nat /\ Cardinality(Recorded \cup {scan}) \in Nat
    BY <1>1, <2>2, FS_CardinalityType
  <2>5. Cardinality(Recorded') \in Nat
    BY <2>1, <2>2, FS_Subset, FS_CardinalityType
  <2>. QED BY <2>1, <2>2, <2>3, <2>4, <2>5
<1>5. ScanCell \/ records' = records \/ records' = NoRecords
  <2>1. ASSUME NEW onTime \in BOOLEAN, Irq(onTime)
        PROVE  records' = records \/ records' = NoRecords
    BY <2>1 DEF Irq, TryPresent, Commit, Late
  <2>2. CASE Prepare
    BY <2>2 DEF Prepare, PpuOps, Capture, FreezeCell, FreezeLast, Blank, RebuildCell,
                BlankForSprites, Publish, frameVars
  <2>3. CASE Body
    BY <2>3 DEF Body, SetBusy, ClearBusy, Return, CallHook, frameVars
  <2>4. CASE Write
    BY <2>4 DEF Write, WriteCell, WritePalette, WriteControl, frameVars
  <2>5. CASE UNCHANGED vars
    BY <2>5 DEF vars, frameVars
  <2>. QED BY <2>1, <2>2, <2>3, <2>4, <2>5 DEF Next
<1>. QED BY <1>2, <1>3, <1>4, <1>5

\* The types, the rooms of the packet, the places of the bodies and what each
\* stage owes hold together in every reachable state.
THEOREM Inductive == Spec => []IInv
<1>1. IInv /\ [Next]_vars => IInv'
  BY TypeStep, PacketStep, ControlStep, StagesStep, NothingLostStep, FrozenStep DEF IInv
<1>. QED BY InitIInv, <1>1, PTL DEF Spec

\* Every variable keeps its type, and $CA11 its bound of two.
THEOREM TypeCorrect == Spec => []TypeOK
<1>1. IInv => TypeOK
  BY DEF IInv
<1>. QED BY <1>1, Inductive, PTL

\* A packet never runs over into the HUD's: at most MaxRecords records.
THEOREM PacketBounded == Spec => []PacketFits
<1>1. IInv => PacketFits
  BY DEF IInv
<1>. QED BY <1>1, Inductive, PTL

\* The hook never finds a frame waiting, and is never entered from a nested
\* body: the trap $F8 of the hook is out of reach.
THEOREM HookSafe == Spec => []HookFindsRoom
<1>1. IInv => HookFindsRoom
  BY DEF IInv, Control, HookFindsRoom, TypeOK, ControlType, Level
<1>. QED BY <1>1, Inductive, PTL

\* No change of a cell is lost between the program's write and the display.
THEOREM ChangesKept == Spec => []NothingLost
<1>1. IInv => NothingLost
  BY DEF IInv
<1>. QED BY <1>1, Inductive, PTL

\* Where the abstract hand-over sees the screen.
Screen == IF displayOn THEN [cells |-> visible, pal |-> visPal, table |-> visTable] ELSE Off

\* The frame hand-over of the runtime implements FrameHandover: what comes on
\* the screen is a published picture, whole.
THEOREM ImplementsHandover == Spec => HandoverSpec
<1>1. Init => Handover!Init
  <2> SUFFICES ASSUME Init PROVE Handover!Init
    OBVIOUS
  <2>1. Source \in Picture
    BY DEF Init, Source, Picture
  <2>. QED BY <2>1 DEF Init, Handover!Init
<1>2. IInv /\ IInv' /\ [Next]_vars => [Handover!Next]_(Handover!vars)
  <2> SUFFICES ASSUME IInv, IInv', [Next]_vars
               PROVE  [Handover!Next]_(Handover!vars)
    OBVIOUS
  <2> USE DEF Screen
  <2>0. Source \in Picture /\ Source' \in Picture /\ (ready <=> published # None)
    BY SourceIsPicture, SourceIsPicture DEF IInv, Control, TypeOK, SourceType, Source, Picture
  <2>1. CASE Write \/ \E t \in Table : PpuOps(t)
    <3>1. UNCHANGED <<published, Screen>>
      BY <2>1 DEF Write, WriteCell, WritePalette, WriteControl, PpuOps, handVars, displayVars
    <3>. QED BY <2>0, <3>1 DEF Handover!Next, Handover!Edit
  <2>2. CASE SetBusy \/ ClearBusy \/ Return \/ Capture \/ FreezeCell \/ FreezeLast \/ ScanCell
    <3>1. UNCHANGED <<Source, published, Screen>>
      BY <2>2 DEF SetBusy, ClearBusy, Return, Capture, FreezeCell, FreezeLast, ScanCell,
                  FreezePalette, Source, sourceVars, handVars, displayVars
    <3>. QED BY <3>1 DEF Handover!vars
  <2>3. CASE RebuildCell
    <3>1. pc[1] = "rebuild" /\ ~displayOn
      BY <2>3 DEF RebuildCell, At, IInv, Control, TypeOK, ControlType, Level
    <3>2. UNCHANGED <<Source, published, Screen>>
      BY <2>3, <3>1 DEF RebuildCell, Source, sourceVars, handVars
    <3>. QED BY <3>2 DEF Handover!vars
  <2>4. CASE Blank \/ BlankForSprites \/ \E i \in BOOLEAN : CallHook(i)
    <3>1. published = None
      BY <2>0, <2>4 DEF Blank, BlankForSprites, CallHook, At, IInv, Control, TypeOK,
                        ControlType, Level, Service
    <3>2. UNCHANGED <<Source, published>> /\ (Screen' = Screen \/ Screen' = Off)
      BY <2>4 DEF Blank, BlankForSprites, CallHook, Source, sourceVars, handVars
    <3>. QED BY <3>1, <3>2 DEF Handover!vars, Handover!Next, Handover!TurnOff
  <2>5. CASE Publish
    <3>1. ~ready
      BY <2>5 DEF Publish, At, IInv, Control, TypeOK, ControlType, Level, Service
    <3>2. UNCHANGED <<Source, Screen>> /\ published' = Source
      BY <2>5 DEF Publish, Source, sourceVars, displayVars
    <3>. QED BY <2>0, <3>1, <3>2 DEF Handover!Next, Handover!Publish
  <2>6. ASSUME NEW onTime \in BOOLEAN, Irq(onTime)
        PROVE  [Handover!Next]_(Handover!vars)
    <3>1. UNCHANGED Source
      BY <2>6 DEF Irq, Source, sourceVars
    <3>2. CASE Waiting /\ onTime
      <4>1. Commit
        BY <2>6, <3>2 DEF Irq, TryPresent
      <4>2. ready /\ published # None
        BY <2>0, <3>2 DEF Waiting, IInv, Control
      <4>3. Screen' = published /\ published' = None
        BY <4>1, <4>2 DEF Commit, IInv, Frozen, ShadowPal
      <4>. QED BY <3>1, <4>2, <4>3 DEF Handover!Next, Handover!Show
    <3>3. CASE ~(Waiting /\ onTime)
      <4>1. UNCHANGED <<published, Screen>>
        BY <2>6, <3>3 DEF Irq, TryPresent, Late, displayVars
      <4>. QED BY <3>1, <4>1 DEF Handover!vars
    <3>. QED BY <3>2, <3>3
  <2>7. CASE UNCHANGED vars
    BY <2>7 DEF vars, sourceVars, displayVars, handVars, Source, Handover!vars
  <2>. QED BY <2>1, <2>2, <2>3, <2>4, <2>5, <2>6, <2>7 DEF Next, Prepare, Body
<1>. QED BY <1>1, <1>2, Inductive, PTL DEF Spec, HandoverSpec, Handover!Spec
=============================================================================
