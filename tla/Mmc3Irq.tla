------------------------------- MODULE Mmc3Irq -------------------------------
(***************************************************************************)
(* The interrupt half of the MMC3 board model (crates/nes_rom/src/mmc3.rs): *)
(* the four interrupt registers, the filter on A12 that decides which      *)
(* edges of the PPU address bus count, and the counter they clock.  The    *)
(* bus calls in any order: register writes of the program, address changes *)
(* of the PPU and of $2006/$2007, and M2 falling edges of the CPU.         *)
(***************************************************************************)
EXTENDS Integers

CONSTANT MaxLatch      \* the largest value of the 8-bit latch (255)

Widths == MaxLatch \in Nat

Filter == 3            \* M2 falling edges A12 must stay low

VARIABLES
    latch,     \* irq_latch
    counter,   \* irq_counter
    reload,    \* irq_reload
    enabled,   \* irq_enabled
    pending,   \* irq_pending
    a12High,   \* a12_high
    lowEdges,  \* a12_low_m2_edges
    gap,       \* ghost: M2 falling edges since the last clock, up to Filter
    beat       \* ghost: flips with each clock of the counter

regVars    == <<latch, reload, enabled>>
filterVars == <<a12High, lowEdges, gap, beat>>
vars == <<latch, counter, reload, enabled, pending, a12High, lowEdges, gap, beat>>

\* saturating_add(1).min(3)
AtMost(n) == IF n < Filter THEN n ELSE Filter

Init ==
    /\ latch = 0 /\ counter = 0 /\ reload = FALSE
    /\ enabled = FALSE /\ pending = FALSE
    /\ a12High = FALSE /\ lowEdges = 0
    /\ gap = Filter /\ beat = FALSE

\* $C000, $C001, $E000 and $E001.
WriteLatch(v) ==
    /\ latch' = v
    /\ UNCHANGED <<counter, reload, enabled, pending, filterVars>>

WriteReload ==
    /\ counter' = 0 /\ reload' = TRUE
    /\ UNCHANGED <<latch, enabled, pending, filterVars>>

WriteDisable ==
    /\ enabled' = FALSE /\ pending' = FALSE
    /\ UNCHANGED <<latch, counter, reload, filterVars>>

WriteEnable ==
    /\ enabled' = TRUE
    /\ UNCHANGED <<latch, counter, reload, pending, filterVars>>

\* A plausible slip: the line rises only when the counter is decremented to
\* zero, the behaviour of another revision of the chip.
ClockOnTransition ==
    /\ counter' = IF counter = 0 \/ reload THEN latch ELSE counter - 1
    /\ reload' = FALSE
    /\ pending' = (pending \/ (counter' = 0 /\ counter # 0 /\ enabled))
    /\ UNCHANGED <<latch, enabled>>

\* clock_irq_counter, of the Sharp revision.
Clock ==
    /\ counter' = IF counter = 0 \/ reload THEN latch ELSE counter - 1
    /\ reload' = FALSE
    /\ pending' = (pending \/ (counter' = 0 /\ enabled))
    /\ UNCHANGED <<latch, enabled>>

\* The edge of A12 that clocks the counter.
Qualified(high) == high /\ ~a12High /\ lowEdges >= Filter

\* A plausible slip: the low time is not forgotten while A12 is high.
LowAfterKept(high) == lowEdges

\* The low time left after an observation of A12.
LowAfter(high) == IF high \/ a12High THEN 0 ELSE lowEdges

ObserveAddress(high) ==
    /\ IF Qualified(high) THEN Clock ELSE UNCHANGED <<counter, pending, regVars>>
    /\ gap' = IF Qualified(high) THEN 0 ELSE gap
    /\ beat' = (beat # Qualified(high))
    /\ lowEdges' = LowAfter(high)
    /\ a12High' = high

M2FallingEdge ==
    /\ lowEdges' = IF a12High THEN lowEdges ELSE AtMost(lowEdges + 1)
    /\ gap' = AtMost(gap + 1)
    /\ UNCHANGED <<counter, pending, regVars, a12High, beat>>

Next ==
    \/ \E v \in 0 .. MaxLatch : WriteLatch(v)
    \/ WriteReload \/ WriteDisable \/ WriteEnable
    \/ \E high \in BOOLEAN : ObserveAddress(high)
    \/ M2FallingEdge

Spec == Init /\ [][Next]_vars
-----------------------------------------------------------------------------
TypeOK ==
    /\ latch \in 0 .. MaxLatch /\ counter \in 0 .. MaxLatch
    /\ reload \in BOOLEAN /\ enabled \in BOOLEAN /\ pending \in BOOLEAN
    /\ a12High \in BOOLEAN /\ beat \in BOOLEAN
    /\ lowEdges \in 0 .. Filter /\ gap \in 0 .. Filter

\* The low time the filter has counted began after the last clock.
LowSinceClock == lowEdges <= gap

\* "Repeated high samples and short low pulses do not" clock the counter: two
\* clocks are at least Filter M2 edges apart, however the bus is driven.
Spaced == [][a12High' /\ Qualified(TRUE) => gap = Filter]_vars

\* The registers, the reload flag and the counter are the countdown a game
\* relies on.
Running == counter # 0 /\ ~reload
Timer == INSTANCE ScanTimer WITH
            running <- Running,
            due <- IF Running THEN counter ELSE latch + 1,
            line <- pending

TimerSpec == Timer!Spec
=============================================================================
