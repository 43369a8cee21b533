--------------------------- MODULE MCRuntimeParts ---------------------------
(***************************************************************************)
(* Four parts of the runtime that share no state, checked in one run: the  *)
(* page of the 6502 stack, the HUD split against the beam, the controller  *)
(* ports and the pointer of the return frames.  A behaviour is a behaviour *)
(* of one of them.                                                         *)
(***************************************************************************)
EXTENDS GuestStack

CONSTANTS Chunks, CommitLines, SatLines, StageLines, GuestLines, Epochs,
          Wires, Builds, HoldLimit, Presses

VARIABLES line, vint, hint, counter, r10, ie1, r8, hud, epoch, armedAt,
          cpu, left, back, hookIff, ready, fence,
          build, pad, title, latch, index, inject, held, reader, bit,
          some, every, reads, result,
          trPtr, mark, frames,
          part      \* which of the four the behaviour is of

hudVars == <<line, vint, hint, counter, r10, ie1, r8, hud, epoch, armedAt,
             cpu, left, back, hookIff, ready, fence>>
portVars == <<build, pad, title, latch, index, inject, held, reader, bit,
              some, every, reads, result>>
frameVars == <<trPtr, mark, frames>>

H == INSTANCE Cv1Hud
C == INSTANCE ControllerPorts
T == INSTANCE ReturnFrames

ASSUME PartsAssumption == H!Costs /\ C!PortConstants

MCBuilds ==
    { [action |-> FALSE, pause |-> FALSE, full |-> FALSE],
      [action |-> TRUE, pause |-> TRUE, full |-> FALSE],
      [action |-> TRUE, pause |-> TRUE, full |-> TRUE] }

\* What a part starts from does not matter to the others.
PartsInit ==
    /\ part \in {"stack", "hud", "ports", "frames"}
    /\ Init /\ H!Init /\ T!Init
    /\ IF part = "ports" THEN C!Init
       ELSE C!Init /\ ~ title /\ build = [action |-> TRUE, pause |-> TRUE, full |-> FALSE]

PartsNext ==
    /\ UNCHANGED part
    /\ \/ part = "stack" /\ Next /\ UNCHANGED <<hudVars, portVars, frameVars>>
       \/ part = "hud" /\ H!Next /\ UNCHANGED <<vars, portVars, frameVars>>
       \/ part = "ports" /\ C!Next /\ UNCHANGED <<vars, hudVars, frameVars>>
       \/ part = "frames" /\ T!Next /\ UNCHANGED <<vars, hudVars, portVars>>

PartsSpec == PartsInit /\ [][PartsNext]_<<part, vars, hudVars, portVars, frameVars>>
-----------------------------------------------------------------------------
\* Every variable of the four parts keeps its type: the HUD flags and epochs
\* of hud_cv1.s, the byte, index and counters of input.s, the stack page and the
\* frame pointer of dispatch.s.
TypesOK ==
    CASE part = "stack" -> TypeOK
      [] part = "hud" -> H!TypeOK
      [] part = "ports" -> C!TypeOK
      [] part = "frames" -> T!TypeOK

\* PlayfieldScrolled, BandScrolled, SerialReadExact and FramesExact of the
\* instances: the scroll in force along the beam (hud_cv1.s), what a serial read
\* of the controller returns (input.s), and that the bytes of TR_RET_PTR agree
\* with the frames in use (dispatch.s).
PlayfieldScrolled == H!PlayfieldScrolled
BandScrolled == H!BandScrolled
SerialReadExact == C!SerialReadExact
FramesExact == T!FramesExact
=============================================================================
