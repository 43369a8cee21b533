----------------------------- MODULE ReturnFrames -----------------------------
(***************************************************************************)
(* The pointer of the TR_RET stack, byte by byte.                          *)
(*                                                                         *)
(* The stack of return frames, four bytes each, lies in two segments with  *)
(* other data between them: $D300-$D3FB and $D500-$D5FF.  The code of      *)
(* every call (crates/z80_emit), of the RTS and of the return escape       *)
(* (runtime/dispatch.s) looks at the two bytes of TR_RET_PTR to find the   *)
(* frame, the hop over the hole and both ends.  NmiBridge has the same     *)
(* stack as an index, with its frames and who interrupts whom.             *)
(***************************************************************************)
EXTENDS Naturals, Sequences

VARIABLES
    trPtr,  \* TR_RET_PTR, $CB76/$CB77
    mark,   \* what a refused operation leaves in $CB1D: none, full, escape
    frames  \* ghost: addresses of the frames that are live, oldest first

vars == <<trPtr, mark, frames>>

Word(h, l) == 256 * h + l
High(p) == p \div 256
Low(p) == p % 256

Base   == Word(211, 0)       \* TR_RET_BASE, $D300
Last0  == Word(211, 248)     \* the last frame of segment 0, $D3F8
Seg1   == Word(213, 0)       \* $D500
Last1  == Word(213, 252)     \* the last frame of segment 1, $D5FC
Full   == Word(214, 0)       \* $D600
\* Four bytes from a on lie in one of the segments.
InSegment(a) == a \in Base .. Last0 \/ a \in Seg1 .. Last1

Init == trPtr = Base /\ mark = "none" /\ frames = << >>

-----------------------------------------------------------------------------
(***************************************************************************)
(* JSR: emit_translated_call_frame.                                        *)
(***************************************************************************)
Accepts(p) ==
    \/ High(p) = 211 /\ Low(p) < 249 /\ Low(p) % 4 = 0
    \/ High(p) = 213 /\ Low(p) < 253 /\ Low(p) % 4 = 0

\* A plausible slip: the pointer runs on behind segment 0.
NextFreeNoHop(p) == p + 4

NextFree(p) == IF p = Last0 THEN Seg1 ELSE p + 4

Call ==
    /\ mark = "none" /\ Accepts(trPtr)
    /\ trPtr' = NextFree(trPtr)
    /\ frames' = Append(frames, trPtr)
    /\ UNCHANGED mark

CallTraps ==
    /\ mark = "none" /\ ~ Accepts(trPtr)
    /\ mark' = "full"
    /\ UNCHANGED <<trPtr, frames>>

-----------------------------------------------------------------------------
(***************************************************************************)
(* RTS and the return escape: rt_translated_rts, rt_translated_return_     *)
(* escape.                                                                 *)
(***************************************************************************)
Pops(p) ==
    \/ High(p) = 211 /\ Low(p) >= 1 /\ Low(p) < 249 /\ Low(p) % 4 = 0
    \/ High(p) = 213 /\ Low(p) % 4 = 0
    \/ p = Full

Newest(p) ==
    IF p = Full THEN Last1 ELSE IF p = Seg1 THEN Last0 ELSE p - 4

Dropped == SubSeq(frames, 1, Len(frames) - 1)

Rts ==
    /\ mark = "none" /\ Pops(trPtr)
    /\ trPtr' = Newest(trPtr)
    /\ frames' = Dropped
    /\ UNCHANGED mark

\* An RTS without a frame falls back to the return pair on the guest's stack.
RtsWithoutFrame ==
    /\ mark = "none" /\ ~ Pops(trPtr)
    /\ UNCHANGED vars

\* The escape pops a frame whose continuation it does not take; without one it
\* stops the machine.
Escape ==
    /\ mark = "none"
    /\ IF Pops(trPtr)
          THEN trPtr' = Newest(trPtr) /\ frames' = Dropped /\ UNCHANGED mark
          ELSE mark' = "escape" /\ UNCHANGED <<trPtr, frames>>

\* _rti_dispatch: the frames are thrown away with the native stack.
RtiReset ==
    /\ mark = "none"
    /\ trPtr' = Base /\ frames' = << >>
    /\ UNCHANGED mark

Next == Call \/ CallTraps \/ Rts \/ RtsWithoutFrame \/ Escape \/ RtiReset

Spec == Init /\ [][Next]_vars
-----------------------------------------------------------------------------
TypeOK ==
    /\ trPtr \in 0 .. Word(255, 255)
    /\ mark \in {"none", "full", "escape"}
    /\ frames \in Seq(Nat)

\* The bytes decide what the frames say: a call is refused only with all 127
\* frames in use, an RTS finds none only with none in use and the newest
\* otherwise, and the frame a call is about to fill shares no byte with a live
\* one nor with the data between the segments.
FramesExact ==
    /\ Accepts(trPtr) <=> Len(frames) < 127
    /\ Pops(trPtr) <=> frames # << >>
    /\ frames # << >> => Newest(trPtr) = frames[Len(frames)]
    /\ Accepts(trPtr) =>
          /\ InSegment(trPtr)
          /\ \A i \in 1 .. Len(frames) : frames[i] + 4 <= trPtr
    /\ mark = "full" => Len(frames) = 127
    /\ mark = "escape" => frames = << >>
=============================================================================
