------------------------------ MODULE Cv1Sprites ------------------------------
(***************************************************************************)
(* The sprites of the Castlevania profile: runtime/sat_cv1.s.              *)
(*                                                                         *)
(* Patterns of sprites are built on demand into slots of VRAM and cached   *)
(* by (tile, attributes).  A preparation goes over the OAM twice: the      *)
(* first pass pins every slot it can use again, the second builds the      *)
(* patterns that are missing into slots that neither the screen nor the    *)
(* new table uses.  When there are not enough, or the sprite size changes, *)
(* it asks for a dark display and starts over with an empty cache.  The    *)
(* commit writes the sprite table and the display control.                 *)
(*                                                                         *)
(* The program does not run while a preparation does, and no commit comes  *)
(* before it is complete (Cv1Frame).  Positions of sprites are left out.   *)
(***************************************************************************)
EXTENDS Naturals, Sequences, FiniteSets

CONSTANTS
    NSlots,      \* slots of the cache (64)
    NOam,        \* entries of the OAM (64)
    HiddenRun,   \* hidden entries one step may pass over (8)
    Key,         \* (tile, attributes) pairs
    Bits,        \* contents of a tile
    Mode,        \* sprite size and pattern table
    MaxWrites,   \* bound: writes of the program in a behaviour
    None, Off

\* There are as many slots as entries in the OAM.
Sizes ==
    /\ NSlots \in Nat \ {0} /\ NOam \in Nat \ {0} /\ NOam <= NSlots
    /\ HiddenRun \in Nat \ {0}
    /\ None \notin Key

Slot == 0 .. NSlots - 1
Hidden == None
Miss == NSlots            \* $FF in the table under preparation
Pattern == Mode \X Key \X Bits

\* There is a value for no picture.
NoneIsNoPicture == None \notin {Off} \cup Seq(Pattern)

VARIABLES
    oam, chr, mode, mask,     \* the source: OAM, tiles, PPUCTRL, PPUMASK
    chrDirty,                 \* CV1_SAT_CHR_DIRTY
    writes,                   \* how many writes the program has made
    ready, blanked, init, misses, phase,   \* CV1_SAT_FLAGS
    asked,                    \* the last step returned 2
    display,                  \* display enable in CV1_SAT_REG1
    cacheMode, keys, victim,  \* SAT_PAIR_MODE, SAT_PAIR_*_KEYS, CV1_SAT_VICTIM
    current, next,            \* pinned slots: on the screen, of the new table
    index, count, xt,         \* CV1_SAT_OAM_INDEX, CV1_SAT_COUNT, CV1_SAT_XT
    pattern, sat, on,         \* VRAM and the display
    published,                \* ghost: the picture that was prepared
    halted                    \* _cv1_sat_bad

sourceVars == <<oam, chr, mode, mask, chrDirty, writes>>
cacheVars == <<cacheMode, keys, victim, current, pattern>>
tableVars == <<next, index, count, xt, misses>>
screenVars == <<sat, on>>
vars == <<sourceVars, cacheVars, tableVars, screenVars, ready, blanked, init, phase,
          asked, display, published, halted>>

-----------------------------------------------------------------------------
IsVisible(k) == k # Hidden
Shown(k) == <<mode, k, chr[k]>>

\* The visible entries before entry i, and the n-th visible entry.
Seen(i) == {j \in 1 .. i - 1 : IsVisible(oam[j])}
Entry(n) == CHOOSE j \in 1 .. NOam : IsVisible(oam[j]) /\ Cardinality(Seen(j)) = n - 1

\* The sprites the program has set up.
Source ==
    IF mask = "off" THEN Off
    ELSE IF mask = "background" THEN <<>>
    ELSE [n \in 1 .. Cardinality(Seen(NOam + 1)) |-> Shown(oam[Entry(n)])]

Init ==
    /\ oam = [i \in 1 .. NOam |-> Hidden]
    /\ \E b \in Bits : chr = [k \in Key |-> b]
    /\ mode \in Mode /\ mask = "off" /\ chrDirty = FALSE /\ writes = 0
    /\ ready = FALSE /\ blanked = FALSE /\ init = FALSE /\ misses = FALSE
    /\ phase = "idle" /\ asked = FALSE /\ display = FALSE
    /\ cacheMode = mode /\ keys = [s \in Slot |-> None] /\ victim = 0
    /\ current = {} /\ next = {} /\ index = 1 /\ count = 0 /\ xt = <<>>
    /\ \E k \in Key, b \in Bits : pattern = [s \in Slot |-> <<mode, k, b>>]
    /\ sat = <<>> /\ on = FALSE /\ published = None /\ halted = FALSE

-----------------------------------------------------------------------------
(* The program.                                                             *)
Writing ==
    /\ phase = "idle" /\ writes < MaxWrites /\ writes' = writes + 1
    /\ UNCHANGED <<cacheVars, tableVars, screenVars, ready, blanked, init, phase, asked,
                   display, published, halted>>

OamDma == Writing /\ oam' \in [1 .. NOam -> Key \cup {Hidden}] /\ UNCHANGED <<chr, mode, mask, chrDirty>>
WriteChr ==
    /\ Writing
    /\ \E k \in Key, b \in Bits : chr' = [chr EXCEPT ![k] = b]
    /\ chrDirty' = TRUE
    /\ UNCHANGED <<oam, mode, mask>>
WriteControl == Writing /\ mode' \in Mode /\ UNCHANGED <<oam, chr, mask, chrDirty>>
WriteMask == Writing /\ mask' \in {"off", "background", "sprites"} /\ UNCHANGED <<oam, chr, mode, chrDirty>>

-----------------------------------------------------------------------------
(* Begin, and the fence that turns the display off.                         *)

\* rt_cv1_sat_prepare_begin; the background may have turned the display off.
Begin(fenced) ==
    /\ phase = "idle" /\ ~ ready
    /\ phase' = "init" /\ asked' = FALSE
    /\ display' = (mask # "off")
    /\ blanked' = (blanked \/ fenced)
    /\ on' = (on /\ ~ fenced)
    /\ UNCHANGED <<sourceVars, cacheVars, tableVars, sat, ready, init, published, halted>>

Blank ==
    /\ asked
    /\ asked' = FALSE /\ blanked' = TRUE /\ on' = FALSE
    /\ display' = (mask # "off")
    /\ UNCHANGED <<sourceVars, cacheVars, tableVars, sat, ready, init, phase, published, halted>>

Prepared ==
    /\ phase' = "idle" /\ ready' = TRUE /\ published' = Source

Running(p) == phase = p /\ ~ asked /\ ~ halted
StepUnchanged == UNCHANGED <<sourceVars, screenVars, display>>

-----------------------------------------------------------------------------
(* The first step: mode, cache and an empty table.                          *)

\* A plausible slip: the pins of the screen survive an earlier blank.
EmptiesOnChange == blanked /\ (~ init \/ cacheMode # mode)

\* _cv1_sat_reset_cache
Empties == blanked

AskForBlank ==
    /\ Running("init")
    /\ (~ init \/ cacheMode # mode) /\ ~ blanked
    /\ asked' = TRUE
    /\ UNCHANGED <<sourceVars, cacheVars, tableVars, screenVars, ready, blanked, init, phase,
                   display, published, halted>>

StepInit ==
    /\ Running("init")
    /\ (init /\ cacheMode = mode) \/ blanked
    /\ init' = TRUE /\ cacheMode' = mode
    /\ current' = IF Empties THEN {} ELSE current
    /\ victim' = IF Empties THEN 0 ELSE victim
    /\ keys' = IF Empties \/ chrDirty THEN [s \in Slot |-> None] ELSE keys
    /\ chrDirty' = FALSE
    /\ next' = {} /\ xt' = <<>> /\ count' = 0 /\ index' = 1 /\ misses' = FALSE
    /\ IF mask = "sprites" THEN phase' = "a" /\ UNCHANGED <<ready, published>> ELSE Prepared
    /\ UNCHANGED <<oam, chr, mode, mask, writes, pattern, screenVars, display, blanked, asked, halted>>

-----------------------------------------------------------------------------
(* The two passes, an entry or a run of hidden entries at a time.           *)
Holding(k) == {s \in Slot : keys[s] = k}
Cached(k) == CHOOSE s \in Holding(k) : \A r \in Holding(k) : s <= r

\* Where the walk goes on: behind the entry, or the run of hidden ones.
Stops ==
    {j \in index + 1 .. NOam + 1 :
        \/ j > NOam \/ j - index = HiddenRun
        \/ IsVisible(oam[index]) \/ IsVisible(oam[j])}
Onward ==
    CHOOSE j \in Stops : \A i \in Stops : j <= i

\* Pass A goes on, ends the preparation, or is followed by pass B.
AfterA(missed) ==
    IF Onward <= NOam
    THEN index' = Onward /\ UNCHANGED <<phase, ready, published>>
    ELSE index' = 1 /\ IF missed THEN phase' = "b" /\ UNCHANGED <<ready, published>> ELSE Prepared

\* Pass B goes on or ends the preparation.
AfterB ==
    IF Onward <= NOam
    THEN index' = Onward /\ UNCHANGED <<phase, ready, published>>
    ELSE index' = index /\ Prepared

HiddenStep ==
    /\ oam[index] = Hidden
    /\ \/ /\ Running("a") /\ AfterA(misses)
          /\ count' = IF phase' = "b" THEN 0 ELSE count
       \/ Running("b") /\ AfterB /\ UNCHANGED count
    /\ StepUnchanged /\ UNCHANGED <<cacheVars, next, xt, misses, blanked, init, asked, halted>>

StepA ==
    LET k == oam[index] IN
    /\ Running("a") /\ IsVisible(k)
    /\ IF Holding(k) # {}
       THEN next' = next \cup {Cached(k)} /\ xt' = Append(xt, Cached(k)) /\ UNCHANGED misses
       ELSE xt' = Append(xt, Miss) /\ misses' = TRUE /\ UNCHANGED next
    /\ AfterA(misses')
    /\ count' = IF phase' = "b" THEN 0 ELSE count + 1
    /\ StepUnchanged /\ UNCHANGED <<cacheVars, blanked, init, asked, halted>>

\* The slot behind n others, from the victim on.
Wrapped(n) == IF n < NSlots THEN n ELSE n - NSlots
Nth(n) == Wrapped(victim + n)

\* A plausible slip: slots the screen shows are taken for free.
FreeOfNext == {n \in 0 .. NSlots - 1 : Nth(n) \notin next}

Free == {n \in 0 .. NSlots - 1 : Nth(n) \notin current \cup next}
Allocated == Nth(CHOOSE n \in Free : \A m \in Free : n <= m)

\* The entry of the table is known to be in slot s.
Resolved(s) ==
    /\ next' = next \cup {s}
    /\ xt' = [xt EXCEPT ![count + 1] = s]
    /\ count' = count + 1
    /\ AfterB
    /\ UNCHANGED <<asked, halted, misses>>

StepB ==
    LET k == oam[index]
        missing == xt[count + 1] = Miss
    IN  /\ Running("b") /\ IsVisible(k)
        /\ \/ /\ ~ missing
              /\ count' = count + 1 /\ AfterB
              /\ UNCHANGED <<cacheVars, next, xt, misses, asked, halted>>
           \/ missing /\ Holding(k) # {} /\ Resolved(Cached(k)) /\ UNCHANGED cacheVars
           \/ /\ missing /\ Holding(k) = {} /\ Free # {}
              /\ Resolved(Allocated)
              /\ victim' = Wrapped(Allocated + 1)
              /\ pattern' = [pattern EXCEPT ![Allocated] = Shown(k)]
              /\ keys' = [keys EXCEPT ![Allocated] = k]
              /\ UNCHANGED <<cacheMode, current>>
           \/ /\ missing /\ Holding(k) = {} /\ Free = {}
              /\ IF blanked THEN halted' = TRUE /\ UNCHANGED <<phase, asked>>
                 ELSE phase' = "init" /\ asked' = TRUE /\ UNCHANGED halted
              /\ UNCHANGED <<cacheVars, tableVars, ready, published>>
        /\ StepUnchanged /\ UNCHANGED <<blanked, init>>

-----------------------------------------------------------------------------
\* rt_cv1_sat_commit_admitted, whenever the beam admits it.
Commit ==
    /\ ready
    /\ sat' = xt /\ on' = display
    /\ current' = next
    /\ ready' = FALSE /\ blanked' = FALSE /\ misses' = FALSE /\ init' = TRUE
    /\ published' = None
    /\ UNCHANGED <<sourceVars, cacheMode, keys, victim, pattern, next, index, count, xt,
                   phase, asked, display, halted>>

Next ==
    \/ OamDma \/ WriteChr \/ WriteControl \/ WriteMask
    \/ (\E fenced \in BOOLEAN : Begin(fenced)) \/ Blank
    \/ AskForBlank \/ StepInit \/ HiddenStep \/ StepA \/ StepB
    \/ Commit

Spec == Init /\ [][Next]_vars
-----------------------------------------------------------------------------
TypeOK ==
    /\ DOMAIN keys = Slot /\ \A s \in Slot : keys[s] \in Key \cup {None}
    /\ \A s \in Slot : pattern[s] \in Pattern
    /\ victim \in Slot /\ current \subseteq Slot /\ next \subseteq Slot
    /\ index \in 1 .. NOam /\ count \in 0 .. NOam
    /\ xt \in Seq(Slot \cup {Miss}) /\ Len(xt) <= NOam
    /\ sat \in Seq(Slot)
    /\ phase \in {"idle", "init", "a", "b"}

\* The sprites on the screen are those of a frame that was prepared, whole and
\* with the patterns their tiles had then, whatever is built meanwhile; or the
\* screen is dark.
Hand == INSTANCE FrameHandover WITH
            Picture <- {Off} \cup Seq(Pattern),
            source <- Source,
            shown <- IF on THEN [i \in DOMAIN sat |-> pattern[sat[i]]] ELSE Off
HandoverSpec == Hand!Spec

\* "An empty retry MUST fit": with the display dark and the cache empty there
\* is a slot for every pattern, whoever turned the display off.
RetryFits == ~ halted
=============================================================================
