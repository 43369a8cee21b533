---------------------------- MODULE ControllerPorts ----------------------------
(***************************************************************************)
(* The controller ports of the translated program (runtime/input.s).  The  *)
(* frame interrupt turns the pad into the byte of a NES controller; the    *)
(* program strobes the port and reads the byte serially.  A read takes the *)
(* index and the byte in separate instructions with interrupts enabled, so *)
(* the byte may be replaced between the reads of one poll and within one.  *)
(*                                                                         *)
(* One context polls, the main program or the NMI body.                    *)
(***************************************************************************)
EXTENDS Naturals, Sequences

CONSTANTS
    Wires,     \* wires of the pad that are ever pressed
    Builds,    \* the builds: input mode "action", pause_start, full MMC3
    HoldLimit, \* frames the two buttons are held for Start (30)
    Presses    \* value that arms the injection of Start (4)

VARIABLES
    build,   \* ifdefs of the build
    pad,     \* wires pressed
    title,   \* $C770 is zero
    latch,   \* $CB06
    index,   \* $CB07
    inject,  \* $CB2E
    held,    \* $CB2F
    reader,  \* where a read is: index taken, bit taken or none
    bit,     \* the bit it will return
    some,    \* ghost: buttons in some byte since the strobe
    every,   \* ghost: buttons in every byte since the strobe
    reads,   \* ghost: reads of port 1 since the strobe, 8 standing for more
    result   \* ghost: number (from 0) and bit of the last read that returned

port == <<latch, index>>
ghost == <<some, every, reads, result>>
vars == <<build, pad, title, port, inject, held, reader, bit, ghost>>

Button == <<"A", "B", "Select", "Start", "Up", "Down", "Left", "Right">>
Both == {"one", "two"}
Fired == HoldLimit + 1
PortConstants ==
    /\ Wires \subseteq {Button[i] : i \in 1 .. 8} \cup Both
    /\ HoldLimit \in Nat /\ Presses \in Nat
None == [at |-> 8, bit |-> 1]      \* no read yet: as of the open bus

Init ==
    /\ build \in Builds
    /\ pad = {} /\ title \in BOOLEAN
    /\ latch = {} /\ index = 0 /\ inject = 0 /\ held = 0
    /\ reader = "idle" /\ bit = 0
    /\ some = {} /\ every = {} /\ reads = 0 /\ result = None

-----------------------------------------------------------------------------
(***************************************************************************)
(* The frame interrupt.                                                    *)
(***************************************************************************)
Game == build.action \/ ~ title

\* The wires of the pad as NES buttons, without the injected Start.
Translated(p) ==
    {w \in p : w \notin Both}
        \cup (IF "one" \in p THEN {IF Game THEN "A" ELSE "Select"} ELSE {})
        \cup (IF "two" \in p THEN {IF Game THEN "B" ELSE "Start"} ELSE {})

Chords == build.pause /\ ~ build.full
Completes == Chords /\ Both \subseteq pad /\ held + 1 = HoldLimit

\* The hold counter of the two-button chord; Fired waits for the release.
Held ==
    IF ~ Chords THEN held
    ELSE IF ~ (Both \subseteq pad) THEN 0
    ELSE IF held = Fired \/ Completes THEN Fired ELSE held + 1

\* A plausible slip, which the code once had: the latch rewinds the read.
LatchRewinding(buttons) == latch' = buttons /\ index' = 0

\* The byte is replaced, the index of a read in progress is left alone.
Replace(buttons) == latch' = buttons /\ UNCHANGED index

\* rt_controller_latch
Latch ==
    LET armed == IF Completes THEN Presses ELSE inject
        start == build.pause /\ armed > 0
        buttons == Translated(pad) \cup (IF start THEN {"Start"} ELSE {})
    IN  /\ Replace(buttons)
        /\ held' = Held
        /\ inject' = IF start /\ ~ build.full THEN armed - 1 ELSE armed
        /\ some' = some \cup buttons /\ every' = every \cap buttons
        /\ UNCHANGED <<build, pad, title, reader, bit, reads, result>>

\* The pause button of the console, the Z80 NMI.
Pause ==
    /\ build.pause
    /\ inject' = Presses
    /\ UNCHANGED <<build, pad, title, port, held, reader, bit, ghost>>

-----------------------------------------------------------------------------
(***************************************************************************)
(* The program: rt_controller_strobe and rt_controller_read.               *)
(***************************************************************************)
Strobe ==
    /\ reader = "idle"
    /\ index' = 0
    /\ some' = latch /\ every' = latch /\ reads' = 0 /\ result' = None
    /\ UNCHANGED <<build, pad, title, latch, inject, held, reader, bit>>

\* Port 2 is not connected: 0, and the index stays where it is.
ReadPort2 ==
    /\ reader = "idle"
    /\ bit' = 0
    /\ UNCHANGED <<build, pad, title, port, inject, held, reader, ghost>>

\* What the program counts, whatever the index says: one more read, and its bit.
Counted(b) ==
    /\ reads' = IF reads < 8 THEN reads + 1 ELSE 8
    /\ result' = [at |-> reads, bit |-> b]

ReadOpen ==
    /\ reader = "idle" /\ index >= 8
    /\ bit' = 1 /\ Counted(1)
    /\ UNCHANGED <<build, pad, title, port, inject, held, reader, some, every>>

ReadIndex ==
    /\ reader = "idle" /\ index < 8
    /\ reader' = "index"
    /\ UNCHANGED <<build, pad, title, port, inject, held, bit, ghost>>

ReadBit ==
    /\ reader = "index"
    /\ bit' = IF Button[index + 1] \in latch THEN 1 ELSE 0
    /\ reader' = "bit"
    /\ UNCHANGED <<build, pad, title, port, inject, held, ghost>>

\* In the full MMC3 runtime a complete byte uses up one injected press.
ReadDone ==
    /\ reader = "bit"
    /\ index' = index + 1
    /\ inject' = IF build.full /\ build.pause /\ index' = 8 /\ inject > 0
                 THEN inject - 1 ELSE inject
    /\ Counted(bit)
    /\ reader' = "idle"
    /\ UNCHANGED <<build, pad, title, latch, held, bit, some, every>>

-----------------------------------------------------------------------------
Press ==
    /\ \E w \in Wires : pad' = (pad \cup {w}) \ (pad \cap {w})
    /\ UNCHANGED <<build, title, port, inject, held, reader, bit, ghost>>

\* The game leaves or enters its title mode.
SetMode ==
    /\ reader = "idle"
    /\ title' = ~ title
    /\ UNCHANGED <<build, pad, port, inject, held, reader, bit, ghost>>

Next ==
    \/ Latch \/ Pause \/ Strobe \/ ReadPort2 \/ ReadOpen
    \/ ReadIndex \/ ReadBit \/ ReadDone \/ Press \/ SetMode

Spec == Init /\ [][Next]_vars
-----------------------------------------------------------------------------
TypeOK ==
    /\ build \in Builds /\ pad \subseteq Wires /\ title \in BOOLEAN
    /\ latch \subseteq {Button[i] : i \in 1 .. 8} /\ index \in 0 .. 8
    /\ inject \in 0 .. Presses /\ held \in 0 .. Fired
    /\ reader \in {"idle", "index", "bit"} /\ bit \in 0 .. 1
    /\ every \subseteq some
    /\ reads \in 0 .. 8 /\ result \in [at : 0 .. 8, bit : 0 .. 1]

\* The n-th read of port 1 after the strobe is about button n, whatever was
\* latched between two reads or within one: 1 if the button was down throughout,
\* 0 if it never was.  The ninth read and later ones see the open bus.  The
\* reads are counted by the ghost, not by $CB07.
SerialReadExact ==
    LET n == result.at + 1 IN
    IF n > 8 THEN result.bit = 1
    ELSE /\ Button[n] \in every => result.bit = 1
         /\ Button[n] \notin some => result.bit = 0
=============================================================================
