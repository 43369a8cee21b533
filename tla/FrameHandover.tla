--------------------------- MODULE FrameHandover ---------------------------
(***************************************************************************)
(* What the graphics hand-over of the Castlevania runtime promises.  The   *)
(* program edits a source picture; at a moment of its own it publishes the *)
(* picture as it stands; the frame interrupt shows a published picture,    *)
(* whole, and only then may another be published.  The screen may be       *)
(* turned off on the way, but it never shows anything that was not         *)
(* published.                                                              *)
(***************************************************************************)
CONSTANTS Picture, None, Off

VARIABLES
    source,      \* the picture the program edits
    published,   \* the picture waiting for the interrupt, or None
    shown        \* the picture on the screen, or Off

vars == <<source, published, shown>>

TypeOK ==
    /\ source \in Picture
    /\ published \in Picture \cup {None}
    /\ shown \in Picture \cup {Off}

Init ==
    /\ source \in Picture
    /\ published = None
    /\ shown = Off

Edit ==
    /\ source' \in Picture
    /\ UNCHANGED <<published, shown>>

Publish ==
    /\ published = None
    /\ published' = source
    /\ UNCHANGED <<source, shown>>

Show ==
    /\ published # None
    /\ shown' = published
    /\ published' = None
    /\ UNCHANGED source

TurnOff ==
    /\ published = None
    /\ shown' = Off
    /\ UNCHANGED <<source, published>>

Next == Edit \/ Publish \/ Show \/ TurnOff

Spec == Init /\ [][Next]_vars
=============================================================================
