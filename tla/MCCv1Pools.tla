----------------------------- MODULE MCCv1Pools -----------------------------
(***************************************************************************)
(* The two pools of patterns of the Castlevania profile, checked in one    *)
(* run: the background slots of bg_cv1.s and the sprite slots of           *)
(* sat_cv1.s.  They lie in different parts of VRAM and share no state; a   *)
(* behaviour is a behaviour of one of them.                                *)
(***************************************************************************)
EXTENDS Cv1Slots

CONSTANTS NOam, HiddenRun, SpriteKey, Mode

VARIABLES
    oam, tiles, mode, mask, tilesDirty, updates, satReady, blanked, satInit,
    misses, satPhase, asked, display, cacheMode, keys, victim, current, next,
    oamIndex, entries, xt, built, sat, on, prepared, halted,
    part      \* which of the two the behaviour is of

spriteVars ==
    <<oam, tiles, mode, mask, tilesDirty, updates, satReady, blanked, satInit,
      misses, satPhase, asked, display, cacheMode, keys, victim, current, next,
      oamIndex, entries, xt, built, sat, on, prepared, halted>>

Sp == INSTANCE Cv1Sprites WITH
          Key <- SpriteKey, chr <- tiles, chrDirty <- tilesDirty, writes <- updates,
          ready <- satReady, init <- satInit, phase <- satPhase, index <- oamIndex,
          count <- entries, pattern <- built, published <- prepared

ASSUME PoolsAssumption == Sp!Sizes /\ Sp!NoneIsNoPicture

\* What a part starts from does not matter to the other.
PoolsInit ==
    /\ part \in {"background", "sprites"}
    /\ Init /\ Sp!Init
    /\ LET b == CHOOSE x \in Base : TRUE
           s == CHOOSE x \in Sub : TRUE
           k == CHOOSE x \in SpriteKey : TRUE
           v == CHOOSE x \in Bits : TRUE
           m == CHOOSE x \in Mode : TRUE
       IN  IF part = "background" THEN mode = m /\ tiles[k] = v /\ built[0] = <<m, k, v>>
           ELSE key = <<b, s>> /\ chr[<<Table0, b>>] = v

PoolsNext ==
    /\ UNCHANGED part
    /\ \/ part = "background" /\ Next /\ UNCHANGED spriteVars
       \/ part = "sprites" /\ Sp!Next /\ UNCHANGED vars

PoolsSpec == PoolsInit /\ [][PoolsNext]_<<part, vars, spriteVars>>
-----------------------------------------------------------------------------
\* The metadata of both pools keeps its types: the phase, cells, slots and
\* packet of bg_cv1.s, the keys, pins and table of sat_cv1.s.
TypesOK == IF part = "background" THEN TypeOK ELSE Sp!TypeOK

\* HandoverSpec of the instance: the sprites on the screen are those of a
\* prepared frame, whatever is built meanwhile (sat_cv1.s).
SpritesHandover == Sp!HandoverSpec

\* RetryFits of the instance: a restart in the dark always has room.
RetryFits == Sp!RetryFits
=============================================================================
