------------------------------- MODULE Cv1Hud -------------------------------
(***************************************************************************)
(* The horizontal HUD split of Castlevania (runtime/hud_cv1.s) against the *)
(* beam.                                                                   *)
(*                                                                         *)
(* The picture has two horizontal scrolls: "pre" above line 38 and "post"  *)
(* below.  VDP register 8 is set to the first in vertical blank and to the *)
(* second by a line interrupt.  The processor meanwhile does work that     *)
(* cannot be interrupted: audio in the handler, which polls for the split  *)
(* between its stages, and steps of frame preparation (frame_cv1.s),       *)
(* which rt_cv1_hud_try_chunk admits by their cost in lines and one sample *)
(* of the beam.                                                            *)
(*                                                                         *)
(* Time is the beam: Tick moves it by one line, and whatever the processor *)
(* does between two ticks takes less than a line.  The beam, its interrupt *)
(* flags and its counter are the VDP in its 224-line NTSC mode.            *)
(***************************************************************************)
EXTENDS Naturals

CONSTANTS
    Chunks,      \* costs of preparation steps, in lines
    CommitLines, \* most lines from admitting a commit to arming its split
    SatLines,    \* lines of the sprite upload, which ends a commit
    StageLines,  \* most lines between two polls of the handler
    GuestLines,  \* most lines translated code and its hooks keep interrupts off
    Epochs       \* number of epochs before the counter wraps

VARIABLES
    line,     \* the beam
    vint,     \* frame interrupt flag
    hint,     \* line interrupt flag
    counter,  \* line counter of the VDP
    r10,      \* its reload value
    ie1,      \* line interrupts enabled
    r8,       \* scroll in force
    hud,      \* committed controls and flags: valid, split, armed, served
    epoch,    \* CV1_HUD_EPOCH
    armedAt,  \* CV1_HUD_ARMED_EPOCH
    cpu,      \* what the processor does
    left,     \* lines for which it goes on with interrupts disabled
    back,     \* what the handler interrupted
    hookIff,  \* CV1_FRAME_HOOK_IFF
    ready,    \* a prepared frame waits
    fence     \* display switched off for a rebuild

beam == <<line, counter>>
vdp == <<r10, ie1, r8>>
work == <<cpu, left, back>>
frame == <<hookIff, ready, fence>>
vars == <<beam, vint, hint, vdp, hud, epoch, armedAt, work, frame>>

\* What the split needs of the costs: after a commit that starts in line 224,
\* and after whatever else holds the frame interrupt back, the beam is still in
\* the 35 lines in which rt_cv1_hud_vblank arms a split.
Costs ==
    /\ Chunks \subseteq Nat
    /\ CommitLines \in Nat /\ SatLines \in Nat /\ StageLines \in Nat /\ GuestLines \in Nat
    /\ CommitLines + SatLines + StageLines < 35 /\ CommitLines < 32 /\ GuestLines < 35
    /\ SatLines > 0 /\ StageLines > 0
    /\ Epochs \in Nat \ {0}

Lines == 262
Split == 38
Blank == 224
Parked == 255
VCounter == IF line <= 234 THEN line ELSE line - 6
\* Whether the sampled counter is one of the first n values from $E0.
EarlyBlank(n) == VCounter >= Blank /\ VCounter - Blank < n

Pending == vint \/ (hint /\ ie1)

Init ==
    /\ line = 0 /\ counter = Parked /\ vint = FALSE /\ hint = FALSE
    /\ r10 = Parked /\ ie1 = FALSE /\ r8 = "post"
    /\ hud = [valid |-> FALSE, split |-> FALSE, armed |-> FALSE, served |-> FALSE]
    /\ epoch = 0 /\ armedAt = 0
    /\ cpu = "guest" /\ left = 0 /\ back = "guest"
    /\ hookIff = TRUE /\ ready = FALSE /\ fence = FALSE

-----------------------------------------------------------------------------
Polls == VCounter \in Split .. Blank - 1 /\ hud.armed

\* The beam moves on unless the processor has something to do at once.
Tick ==
    /\ \/ left > 0
       \/ cpu = "guest" /\ ~ Pending
       \/ cpu = "service" /\ IF hookIff THEN ~ Pending
                             ELSE ~ fence /\ ~ Polls /\ ~ EarlyBlank(13)
    /\ left' = IF left > 0 THEN left - 1 ELSE 0
    /\ line' = (line + 1) % Lines
    /\ counter' = IF line' > Blank \/ counter = 0 THEN r10 ELSE counter - 1
    /\ hint' = (hint \/ (line' <= Blank /\ counter = 0))
    /\ vint' = (vint \/ line' = Blank + 1)
    /\ UNCHANGED <<vdp, hud, epoch, armedAt, cpu, back, frame>>

-----------------------------------------------------------------------------
(***************************************************************************)
(* The split.  A register write is one assignment; IE1 goes last.          *)
(***************************************************************************)
Park == r10' = Parked /\ ie1' = FALSE

Direct(h) == r8' = "post" /\ hud' = [h EXCEPT !.armed = FALSE] /\ Park /\ UNCHANGED armedAt

\* _cv1_hud_arm, in epoch e with flags and controls h.
Arm(h, e) ==
    IF ~ h.valid THEN hud' = h /\ UNCHANGED <<vdp, armedAt>>
    ELSE IF ~ EarlyBlank(29) \/ ~ h.split THEN Direct(h)
    ELSE /\ r8' = "pre" /\ r10' = Split /\ ie1' = TRUE
         /\ hud' = [h EXCEPT !.armed = TRUE, !.served = FALSE]
         /\ armedAt' = e

Begun == [hud EXCEPT !.armed = FALSE, !.served = FALSE]
NextEpoch == (epoch + 1) % Epochs

\* rt_cv1_hud_line
ServeLine ==
    IF hud.armed
    THEN /\ r8' = "post" /\ Park
         /\ hud' = [hud EXCEPT !.armed = FALSE, !.served = TRUE]
    ELSE UNCHANGED <<vdp, hud>>

\* rt_cv1_hud_poll_line
PollLine ==
    IF VCounter \in Split .. Blank - 1 THEN ServeLine ELSE UNCHANGED <<vdp, hud>>

\* rt_cv1_hud_vblank, its epoch and its arming.
Vblank == epoch' = NextEpoch /\ Arm(Begun, NextEpoch)

-----------------------------------------------------------------------------
(***************************************************************************)
(* The handler: the status read acknowledges both interrupts.              *)
(***************************************************************************)
Acknowledge == vint' = FALSE /\ hint' = FALSE

Taken == left = 0 /\ Pending /\ (cpu = "guest" \/ (cpu = "service" /\ hookIff))

FrameIrq ==
    /\ Taken /\ vint
    /\ Acknowledge /\ back' = cpu
    /\ IF ready /\ EarlyBlank(4)
       THEN /\ epoch' = NextEpoch /\ hud' = Begun
            /\ cpu' = "commit" /\ left' \in 0 .. CommitLines
            /\ UNCHANGED <<vdp, armedAt>>
       ELSE /\ Vblank
            /\ cpu' = "stage" /\ left' \in 0 .. StageLines
    /\ UNCHANGED <<beam, frame>>

LineIrq ==
    /\ Taken /\ ~ vint
    /\ Acknowledge /\ ServeLine
    /\ UNCHANGED <<beam, epoch, armedAt, work, frame>>

\* rt_cv1_hud_commit, then the SAT and the display; split or none.
Commit ==
    /\ cpu = "commit" /\ left = 0
    /\ \E split \in BOOLEAN :
          Arm([valid |-> TRUE, split |-> split, armed |-> FALSE, served |-> FALSE], epoch)
    /\ ready' = FALSE /\ fence' = FALSE
    /\ cpu' = "stage" /\ left' \in SatLines .. SatLines + StageLines
    /\ UNCHANGED <<beam, vint, hint, epoch, back, hookIff>>

\* rt_cv1_hud_audio_poll and rt_cv1_hud_tail_ack, between stages and at the end.
Poll ==
    /\ cpu = "stage" /\ left = 0
    /\ Acknowledge
    /\ IF vint THEN Vblank ELSE PollLine /\ UNCHANGED <<epoch, armedAt>>
    /\ \/ cpu' = "stage" /\ left' \in 0 .. StageLines
       \/ cpu' = back /\ left' = 0
    /\ UNCHANGED <<beam, back, frame>>

-----------------------------------------------------------------------------
(***************************************************************************)
(* Translated code, and the rest of the handler after the NMI body.        *)
(***************************************************************************)
Idle == cpu = "guest" /\ left = 0 /\ ~ Pending

\* The longest such stretch is the lag path of rt_cv1_scroll_publish: four
\* accesses of the PPU, which the other path of the same routine admits as a
\* step of 17 lines.
GuestDi ==
    /\ Idle
    /\ left' \in 1 .. GuestLines
    /\ UNCHANGED <<beam, vint, hint, vdp, hud, epoch, armedAt, cpu, back, frame>>

Tail ==
    /\ Idle
    /\ cpu' = "stage" /\ left' \in 0 .. StageLines /\ back' = "guest"
    /\ UNCHANGED <<beam, vint, hint, vdp, hud, epoch, armedAt, frame>>

-----------------------------------------------------------------------------
(***************************************************************************)
(* Preparation of a frame, rt_cv1_frame_prepare_all.  A hook that was      *)
(* entered with interrupts disabled keeps them so, behind a blank display. *)
(***************************************************************************)
Prepare ==
    /\ Idle /\ ~ ready
    /\ cpu' = "service" /\ hookIff' \in BOOLEAN
    /\ UNCHANGED <<beam, vint, hint, vdp, hud, epoch, armedAt, left, back, ready, fence>>

Served == cpu = "service" /\ left = 0 /\ (hookIff => ~ Pending)

\* _cv1_prepare_wait_irq of a hook that keeps interrupts disabled.
WaitDi ==
    /\ cpu = "service" /\ left = 0 /\ ~ hookIff /\ ~ fence
    /\ PollLine
    /\ UNCHANGED <<beam, vint, hint, epoch, armedAt, work, frame>>

\* _cv1_prepare_blank and rt_cv1_sat_blank
BlankDisplay ==
    /\ Served /\ ~ fence /\ EarlyBlank(13)
    /\ fence' = TRUE
    /\ UNCHANGED <<beam, vint, hint, vdp, hud, epoch, armedAt, work, hookIff, ready>>

\* A step is classified after interrupts were served, in less than a line.
Classify ==
    /\ Served /\ (hookIff \/ fence)
    /\ cpu' = "sample" /\ left' \in 0 .. 1
    /\ UNCHANGED <<beam, vint, hint, vdp, hud, epoch, armedAt, back, frame>>

\* rt_cv1_hud_try_chunk, for a step of b lines.
Reserve == 2
Fits(b) == VCounter < Blank /\ VCounter + b + Reserve < Blank
\* A plausible slip: vertical blank admits a step that ends before the split
\* whether or not the split has been armed.
AdmitsUnarmed(b) ==
    \/ fence
    \/ ~ hud.valid
    \/ ~ hud.split /\ Fits(b)
    \/ /\ hud.split
       /\ \/ VCounter >= Blank /\ b + Reserve < Split
          \/ VCounter \in Split .. Blank - 1 /\ hud.served /\ Fits(b)
          \/ VCounter < Split /\ hud.armed /\ VCounter + b + Reserve < Split

\* A plausible slip: below the split line a step is admitted although the split
\* has not been served.
AdmitsUnserved(b) ==
    \/ fence
    \/ ~ hud.valid
    \/ ~ hud.split /\ Fits(b)
    \/ /\ hud.split
       /\ \/ /\ VCounter >= Blank /\ hud.armed /\ ~ hud.served /\ armedAt = epoch
             /\ b + Reserve < Split
          \/ VCounter \in Split .. Blank - 1 /\ Fits(b)
          \/ VCounter < Split /\ hud.armed /\ VCounter + b + Reserve < Split

Admits(b) ==
    \/ fence
    \/ ~ hud.valid
    \/ ~ hud.split /\ Fits(b)
    \/ /\ hud.split
       /\ \/ /\ VCounter >= Blank /\ hud.armed /\ ~ hud.served /\ armedAt = epoch
             /\ b + Reserve < Split
          \/ VCounter \in Split .. Blank - 1 /\ hud.served /\ Fits(b)
          \/ VCounter < Split /\ hud.armed /\ VCounter + b + Reserve < Split

Sample ==
    /\ cpu = "sample" /\ left = 0
    /\ \E b \in Chunks :
          IF Admits(b) THEN cpu' = "chunk" /\ left' = b ELSE cpu' = "service" /\ left' = 0
    /\ UNCHANGED <<beam, vint, hint, vdp, hud, epoch, armedAt, back, frame>>

\* A step may take less than its cost.
ChunkDone ==
    /\ cpu = "chunk"
    /\ left' = 0
    /\ \/ cpu' = "service" /\ UNCHANGED ready
       \/ cpu' = "guest" /\ ready' = TRUE
    /\ UNCHANGED <<beam, vint, hint, vdp, hud, epoch, armedAt, back, hookIff, fence>>

Next ==
    \/ Tick \/ FrameIrq \/ LineIrq \/ Commit \/ Poll \/ GuestDi \/ Tail
    \/ Prepare \/ WaitDi \/ BlankDisplay \/ Classify \/ Sample \/ ChunkDone

Spec == Init /\ [][Next]_vars

-----------------------------------------------------------------------------
TypeOK ==
    /\ line \in 0 .. Lines - 1 /\ counter \in 0 .. Parked
    /\ vint \in BOOLEAN /\ hint \in BOOLEAN
    /\ r10 \in {Split, Parked} /\ ie1 \in BOOLEAN /\ r8 \in {"pre", "post"}
    /\ hud \in [valid : BOOLEAN, split : BOOLEAN, armed : BOOLEAN, served : BOOLEAN]
    /\ epoch \in 0 .. Epochs - 1 /\ armedAt \in 0 .. Epochs - 1
    /\ cpu \in {"guest", "stage", "commit", "service", "sample", "chunk"}
    /\ back \in {"guest", "service"}
    /\ left \in Nat
    /\ hookIff \in BOOLEAN /\ ready \in BOOLEAN /\ fence \in BOOLEAN

\* The playfield is never drawn with the scroll of the HUD for longer than the
\* handler or translated code may hold an interrupt back: no step of
\* preparation ever stands between the beam and the split.
PlayfieldScrolled ==
    LET Held == IF StageLines > GuestLines THEN StageLines ELSE GuestLines IN
    line \in Split + Held .. Blank - 1 /\ ~ fence => r8 = "post"

\* The HUD is drawn with its own scroll in every frame of a split picture: the
\* split was armed in the blank before, and nothing served it early.
BandScrolled ==
    line < Split /\ hud.valid /\ hud.split /\ ~ fence => hud.armed /\ r8 = "pre"
=============================================================================
