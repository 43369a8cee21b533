------------------------------ MODULE ScanTimer ------------------------------
(***************************************************************************)
(* What the MMC3 interrupt promises a game: a countdown of qualified A12   *)
(* edges.  From a restart, the edge number latch + 1 raises the line if    *)
(* interrupts are enabled, and so does every (latch + 1)-th edge after it; *)
(* only disabling lowers the line.  A latch written in the middle of a     *)
(* countdown is used by the next one.                                      *)
(***************************************************************************)
EXTENDS Naturals

CONSTANT MaxLatch

VARIABLES
    latch,    \* the period, less one
    running,  \* whether a countdown has used up the latch
    due,      \* the qualified edges up to and including the next expiry
    enabled,
    line,     \* the interrupt line
    beat      \* flips with each qualified edge

timerVars == <<latch, running, due, enabled, line, beat>>

Init ==
    /\ latch = 0 /\ running = FALSE /\ due = 1
    /\ enabled = FALSE /\ line = FALSE /\ beat = FALSE

SetLatch(v) ==
    /\ latch' = v
    /\ due' = IF running THEN due ELSE v + 1
    /\ UNCHANGED <<running, enabled, line, beat>>

Restart ==
    /\ running' = FALSE
    /\ due' = latch + 1
    /\ UNCHANGED <<latch, enabled, line, beat>>

Enable ==
    /\ enabled' = TRUE
    /\ UNCHANGED <<latch, running, due, line, beat>>

Disable ==
    /\ enabled' = FALSE /\ line' = FALSE
    /\ UNCHANGED <<latch, running, due, beat>>

Expire ==
    /\ due = 1
    /\ running' = FALSE
    /\ due' = latch + 1
    /\ line' = (line \/ enabled)
    /\ beat' = ~beat
    /\ UNCHANGED <<latch, enabled>>

CountDown ==
    /\ due > 1
    /\ running' = TRUE
    /\ due' = due - 1
    /\ beat' = ~beat
    /\ UNCHANGED <<latch, enabled, line>>

Next ==
    \/ \E v \in 0 .. MaxLatch : SetLatch(v)
    \/ Restart \/ Enable \/ Disable
    \/ Expire \/ CountDown

Spec == Init /\ [][Next]_timerVars
=============================================================================
