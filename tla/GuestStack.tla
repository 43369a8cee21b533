----------------------------- MODULE GuestStack -----------------------------
(***************************************************************************)
(* The emulated 6502 stack (page $C100, pointer $CB02) and the interrupt   *)
(* frames on it: push and pop (runtime/stack6502.s and their inline forms  *)
(* in crates/lower), the computed RTS, BRK and RTI of runtime/dispatch.s,  *)
(* and the frame the NMI bridge of runtime/boot.s pushes.                  *)
(*                                                                         *)
(* "live" is the number of bridge calls on the native Z80 stack, and so    *)
(* the index of the running context; "depth" is the byte $CA11, the        *)
(* handler's own count of them.  They part when an RTI abandons the native *)
(* stack.  A step is one access to the pointer or the page; an NMI may be  *)
(* delivered before any of them.                                           *)
(***************************************************************************)
EXTENDS Integers, Sequences

CONSTANTS
    Size,      \* bytes of the stack page (256 in the program)
    Data,      \* bytes the program pushes
    FF,        \* the byte $FF of the sentinel PC
    Ret,       \* a byte of a BRK return address
    Flags,     \* a status byte
    NmiResumesAfterBrk  \* whether an NMI body that takes a BRK may return to
                        \* BRK+2 without resetting its stack pointer first

ASSUME SizeAssumption == Size \in Nat \ {0}
ASSUME ByteAssumption == FF \notin Data \cup {Ret, Flags}
ASSUME ResumeAssumption == NmiResumesAfterBrk \in BOOLEAN

Byte == Data \cup {FF, Ret, Flags}
Slot == 0 .. Size - 1
MaxDepth == 2
Level == 0 .. MaxDepth

VARIABLES
    S,         \* $CB02
    page,      \* $C100-$C1FF
    depth,     \* $CA11
    live,      \* bridge calls on the native stack
    nmiOn,     \* bit 7 of $CB08
    nmiStarted,\* $CB1A
    pc,        \* where each context is
    ptr,       \* the copy of S it holds
    bytes,     \* the bytes it is to write, or has read
    op,        \* what it does with the bytes it reads
    nmiBody,   \* whether it runs an NMI body that still owes its RTI
    owned,     \* ghost: bytes it has pushed and not popped
    stack      \* ghost: the 6502 stack, oldest byte first

sharedVars == <<S, page, stack>>
nmiVars    == <<depth, live, nmiOn, nmiStarted>>
ctxVars    == <<pc, ptr, bytes, op, nmiBody, owned>>
vars == <<sharedVars, nmiVars, ctxVars>>

Down(s, n)  == (s - n) % Size
Up(s, n)    == (s + n) % Size
TopOf(s, n) == [i \in 1 .. n |-> s[Len(s) + 1 - i]]   \* the n newest, newest first
Drop(s, n)  == SubSeq(s, 1, Len(s) - n)
Sentinel    == <<FF, FF, Flags>>
Fits(n)     == Len(stack) + n <= Size    \* bound: the program's stack fits the page

Running(p) == pc[live] = p
Set(f, x)  == [f EXCEPT ![live] = x]
Fresh(x)   == [l \in Level |-> x]      \* no context but the first is left

Init ==
    /\ S = Size - 1
    /\ page = [s \in Slot |-> Flags]
    /\ depth = 0 /\ live = 0
    /\ nmiOn = FALSE /\ nmiStarted = FALSE
    /\ pc = Fresh("body")
    /\ ptr = Fresh(0) /\ bytes = Fresh(<< >>) /\ op = Fresh("none")
    /\ nmiBody = Fresh(FALSE)
    /\ owned = Fresh(0)
    /\ stack = << >>
-----------------------------------------------------------------------------
(* Pushing: reserve the slots by publishing the pointer, then write them.   *)

StartPush(bs) ==
    /\ Running("body")
    /\ bytes' = Set(bytes, bs)
    /\ pc' = Set(pc, "push_load")
    /\ UNCHANGED <<sharedVars, nmiVars, ptr, op, nmiBody, owned>>

\* PHA, PHP: one byte.  BRK: return address and flags, reserved together.
Push(v) == StartPush(<<v>>)
Brk     == StartPush(<<Ret, Ret, Flags>>)

PushLoad ==
    /\ Running("push_load")
    /\ ptr' = Set(ptr, S)
    /\ pc' = Set(pc, "push_reserve")
    /\ UNCHANGED <<sharedVars, nmiVars, bytes, op, nmiBody, owned>>

\* A plausible slip: the pointer is published without the wrap of the page.
PushReserveNoWrap ==
    /\ Running("push_reserve")
    /\ Fits(Len(bytes[live]))
    /\ S' = ptr[live] - Len(bytes[live])
    /\ stack' = stack \o bytes[live]
    /\ owned' = Set(owned, owned[live] + Len(bytes[live]))
    /\ pc' = Set(pc, "push_write")
    /\ UNCHANGED <<page, nmiVars, ptr, bytes, op, nmiBody>>

PushReserve ==
    /\ Running("push_reserve")
    /\ Fits(Len(bytes[live]))
    /\ S' = Down(ptr[live], Len(bytes[live]))
    /\ stack' = stack \o bytes[live]
    /\ owned' = Set(owned, owned[live] + Len(bytes[live]))
    /\ pc' = Set(pc, "push_write")
    /\ UNCHANGED <<page, nmiVars, ptr, bytes, op, nmiBody>>

PushWrite ==
    /\ Running("push_write")
    /\ page' = [page EXCEPT ![ptr[live]] = Head(bytes[live])]
    /\ bytes' = Set(bytes, Tail(bytes[live]))
    /\ IF Len(bytes[live]) > 1
          THEN ptr' = Set(ptr, Down(ptr[live], 1)) /\ UNCHANGED pc
          ELSE ptr' = Set(ptr, 0) /\ pc' = Set(pc, "body")
    /\ UNCHANGED <<S, stack, nmiVars, op, nmiBody, owned>>
-----------------------------------------------------------------------------
(* Popping: read at S+1, S+2, ... and publish the pointer last.             *)

Needs(o) == CASE o = "pop" -> 1 [] o = "rts" -> 2 [] o = "rti" -> 3 [] OTHER -> 0

\* A plausible slip: the pointer is published before the bytes are read.
StartPopPublishing(o) ==
    /\ Running("body")
    /\ S' = Up(S, Needs(o))
    /\ ptr' = Set(ptr, S)
    /\ bytes' = Set(bytes, << >>)
    /\ op' = Set(op, o)
    /\ pc' = Set(pc, "pop_read")
    /\ UNCHANGED <<page, stack, nmiVars, nmiBody, owned>>

StartPop(o) ==
    /\ Running("body")
    /\ ptr' = Set(ptr, S)
    /\ bytes' = Set(bytes, << >>)
    /\ op' = Set(op, o)
    /\ pc' = Set(pc, "pop_read")
    /\ UNCHANGED <<sharedVars, nmiVars, nmiBody, owned>>

\* PLA, PLP, and the computed RTS, pop what the context has pushed.
Pop == owned[live] >= 1 /\ StartPop("pop")
Rts == owned[live] >= 2 /\ StartPop("rts")

\* RTI pops a frame the context has pushed itself (BRK, or a recovery), or
\* the frame the bridge pushed for it.
Rti ==
    /\ \/ owned[live] >= 3 /\ (nmiBody[live] => NmiResumesAfterBrk)
       \/ owned[live] = 0 /\ nmiBody[live]
    /\ StartPop("rti")

PopRead ==
    /\ Running("pop_read")
    /\ LET got == Append(bytes[live], page[Up(ptr[live], Len(bytes[live]) + 1)])
       IN /\ bytes' = Set(bytes, got)
          /\ pc' = Set(pc, IF Len(got) = Needs(op[live]) THEN "pop_publish"
                                                         ELSE "pop_read")
    /\ UNCHANGED <<sharedVars, nmiVars, ptr, op, nmiBody, owned>>

IsSentinel(bs) == bs[2] = FF /\ bs[3] = FF      \* P, then PCL, PCH

PopPublish ==
    /\ Running("pop_publish")
    /\ S' = Up(IF op[live] = "rti" THEN S ELSE ptr[live], Needs(op[live]))
    /\ stack' = Drop(stack, Needs(op[live]))
    /\ owned' = Set(owned, IF owned[live] = 0 THEN 0 ELSE owned[live] - Needs(op[live]))
    /\ pc' = Set(pc, IF op[live] = "rti"
                       THEN IF IsSentinel(bytes[live]) THEN "native_ret" ELSE "rti_dispatch"
                       ELSE "body")
    /\ ptr' = Set(ptr, 0)
    /\ bytes' = Set(bytes, << >>)
    /\ op' = Set(op, "none")
    /\ UNCHANGED <<page, nmiVars, nmiBody>>

\* A plausible slip: $CA11 is left as it was.
RtiDispatchKeepingDepth ==
    /\ Running("rti_dispatch")
    /\ live' = 0
    /\ nmiBody' = [Fresh(FALSE) EXCEPT ![0] = nmiBody[live]]
    /\ owned' = [Fresh(0) EXCEPT ![0] = owned[live]]
    /\ pc' = Fresh("body")
    /\ ptr' = Fresh(0) /\ bytes' = Fresh(<< >>) /\ op' = Fresh("none")
    /\ UNCHANGED <<sharedVars, depth, nmiOn, nmiStarted>>

\* A non-sentinel RTI abandons the native stack: every bridge call on it is
\* gone, and $CA11 is brought down to the resident NMI at most.
RtiDispatch ==
    /\ Running("rti_dispatch")
    /\ live' = 0
    /\ depth' = IF depth = 0 THEN 0 ELSE 1
    /\ nmiBody' = [Fresh(FALSE) EXCEPT ![0] = nmiBody[live]]
    /\ owned' = [Fresh(0) EXCEPT ![0] = owned[live]]
    /\ pc' = Fresh("body")
    /\ ptr' = Fresh(0) /\ bytes' = Fresh(<< >>) /\ op' = Fresh("none")
    /\ UNCHANGED <<sharedVars, nmiOn, nmiStarted>>

\* LDX #$FF / TXS: the program discards everything on its stack.
Repair ==
    /\ Running("body")
    /\ S' = Size - 1
    /\ stack' = << >>
    /\ owned' = Set(owned, 0)
    /\ nmiBody' = Set(nmiBody, FALSE)
    /\ UNCHANGED <<page, nmiVars, pc, ptr, bytes, op>>

\* The sentinel RTI returns to the bridge that called the NMI body; without a
\* bridge the RET reads whatever lies above the native stack.
NativeRet ==
    /\ Running("native_ret")
    /\ IF live > 0
          THEN /\ live' = live - 1 /\ depth' = depth - 1
               /\ pc' = Set(pc, "body")
               /\ nmiBody' = Set(nmiBody, FALSE)
          ELSE /\ pc' = Set(pc, "wild")
               /\ UNCHANGED <<live, depth, nmiBody>>
    /\ UNCHANGED <<sharedVars, nmiOn, nmiStarted, ptr, bytes, op, owned>>
-----------------------------------------------------------------------------
(* The frame interrupt, with interrupts disabled up to the NMI body: the    *)
(* sentinel PC and the flags go at S, S-1 and S-2, then S is published.     *)

WriteNmiEnable(b) ==
    /\ Running("body")
    /\ nmiOn # b
    /\ nmiOn' = b
    /\ UNCHANGED <<sharedVars, depth, live, nmiStarted, ctxVars>>

Delivers == IF nmiOn THEN depth < MaxDepth ELSE nmiStarted /\ depth = 0

Deliver ==
    /\ ~Running("wild")
    /\ Delivers
    /\ Fits(3)
    /\ nmiStarted' = (nmiStarted \/ nmiOn)
    /\ page' = [page EXCEPT ![S] = FF, ![Down(S, 1)] = FF, ![Down(S, 2)] = Flags]
    /\ S' = Down(S, 3)
    /\ stack' = stack \o Sentinel
    /\ live' = live + 1 /\ depth' = depth + 1
    /\ pc' = [pc EXCEPT ![live + 1] = "body"]
    /\ nmiBody' = [nmiBody EXCEPT ![live + 1] = TRUE]
    /\ owned' = [owned EXCEPT ![live + 1] = 0]
    /\ UNCHANGED <<nmiOn, ptr, bytes, op>>

Skip ==
    /\ ~Running("wild")
    /\ ~Delivers
    /\ nmiStarted' = (nmiStarted \/ nmiOn)
    /\ UNCHANGED <<sharedVars, depth, live, nmiOn, ctxVars>>

Next ==
    \/ \E v \in Data : Push(v)
    \/ Brk \/ PushLoad \/ PushReserve \/ PushWrite
    \/ Pop \/ Rts \/ Rti \/ PopRead \/ PopPublish
    \/ RtiDispatch \/ NativeRet \/ Repair
    \/ \E b \in BOOLEAN : WriteNmiEnable(b)
    \/ Deliver \/ Skip

Spec == Init /\ [][Next]_vars
-----------------------------------------------------------------------------
Point == {"body", "push_load", "push_reserve", "push_write", "pop_read",
          "pop_publish", "rti_dispatch", "native_ret", "wild"}

TypeOK ==
    /\ S \in Slot
    /\ page \in [Slot -> Byte]
    /\ depth \in Level /\ live \in Level
    /\ nmiOn \in BOOLEAN /\ nmiStarted \in BOOLEAN
    /\ pc \in [Level -> Point]
    /\ ptr \in [Level -> Slot]
    /\ bytes \in [Level -> Seq(Byte)]
    /\ op \in [Level -> {"none", "pop", "rts", "rti"}]
    /\ nmiBody \in [Level -> BOOLEAN]
    /\ owned \in [Level -> Nat]
    /\ stack \in Seq(Byte)

\* "RESERVE the slot first" and "Read at S+1 BEFORE publishing the increment":
\* a pop reads exactly the newest bytes pushed, whatever frame an NMI has put
\* on the page in the middle of a push or of a pop.
PopExact ==
    Running("pop_publish") =>
        bytes[live] = TopOf(stack, Needs(op[live]))

\* The NMI is refused for its depth ($CA11 >= 2) only while a bridge call
\* really is in flight; an abandoned one does not count for ever.
DepthRefusesTruly ==
    depth = MaxDepth => live > 0

\* "sentinel $FFFF (NMI bridge): the frame belongs to the native bridge call
\* - return natively": a sentinel is never popped without its bridge.
SentinelHasBridge ==
    Running("native_ret") => live > 0

=============================================================================
