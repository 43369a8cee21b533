# nes-to-sms in TLA+

nes-to-sms translates an NES program to Z80 and links it with a runtime that
plays the rest of the NES on a Master System.  Most of the program is a
sequential compiler and is well served by its differential tests.  What tests
hardly reach is the runtime: one Z80 executes translated code, switches code
banks under itself, and is interrupted between any two instructions by a
handler that runs *more translated code* over the same stacks, bank shadows and
scratch bytes.  This directory models that part first, then the two passes of
the translator whose correctness is a statement about every path of a program
(which code is translated, which flags are kept), model-checks them with TLC,
and proves the main invariants with TLAPS.

## 1. Inventory

### The translator (crates/)

| component | state | operations | what would make it wrong |
|---|---|---|---|
| `nes_rom` board models | mapper registers, IRQ counters | register writes, PPU/CPU bus observation | an IRQ at the wrong edge, a bank outside the ROM |
| `analysis`, `cli::pipeline`, `ir::lift_range` | queue of roots, functions found so far, ranges | walk a function, ask for continuation roots and start again, trim ranges, scan a range twice | code that is executed and in no routine; a repetition that never ends |
| `lower` | the routine being emitted, scans over it | one expansion per IR operation; which flags are written to shadow P, kept in the Z80, or dropped | a flag dropped that some path reads |
| `z80_emit` | the program being emitted | call frames, jumps | an expansion that is not safe to interrupt |
| `cpu6502`, `profile`, `assets`, `sms_project` | none (pure passes) | decode, convert, emit | wrong output for an input: functional testing |
| `oracle_6502`, `z80_emu`, `nes_ref` | reference interpreters | step | wrong flags or cycles |
| `validation`, `cli` | none | differential tests, tracing tools, the pipeline | tooling only |

### The runtime (runtime/*.s)

| component | state | operations | interacts with |
|---|---|---|---|
| boot | flags `$CB28`, `$CB7E`, stack pointers | clear, configure, enter `translated_reset` | IRQ handler |
| IRQ handler / NMI bridge (`boot.s`) | depth `$CA11`, started `$CB1A`, in-handler `$CB7E`, saved banks `$CB25/26` | acknowledge, present, deliver or skip the NMI, line split | everything |
| transfers (`dispatch.s`, frames of `z80_emit`) | TR_RET stack, far LIFO, bank shadow `$CB14`, MRU entry, `$CB15`, `$CB73` | JSR, RTS, far gate, banked dispatch, indirect jump, computed RTS, RTI, BRK | the bridge, by shared memory |
| 6502 stack (`stack6502.s`) | page `$C100`, pointer `$CB02` | push, pop, interrupt frames | the bridge, by shared memory |
| PPU registers (`ppu.s`, `vbuf.s`, `ntmap.s`, `chrmap.s`) | VRAM address, latches, shadows of CIRAM and CHR, dirty bits | register reads and writes, materialisation | presentation |
| sprites (`sat.s`) | OAM shadow, resolver cache | DMA, rebuild, upload | presentation |
| Castlevania frame (`frame_cv1.s`, `bg_cv1.s`) | dirty map, shadow records, READY, PENDING, palettes, slot pool | capture, prepare, install, commit, suspend/resume | IRQ handler, game's busy flag |
| Castlevania sprites (`sat_cv1.s`) | pattern cache, pins of the screen and of the new table, OAM cursor | begin, step, blank, commit | the frame's preparation and commit |
| Castlevania HUD split (`hud_cv1.s`) | epoch, armed and served flags, line counter of the VDP | arm, serve the line interrupt, poll, admit a step of preparation | IRQ handler, preparation |
| SMB hooks (`hooks_smb.s`) | split and scroll state | per-frame hooks, HUD line | IRQ handler |
| MMC3 mapper (`mapper_mmc3.s`) | bank registers, windows, MRU, interrupt emulation | register write, window update, PRG read | transfers |
| MMC3 frame (`frame_mmc3.s`, `ppu_mmc3.s`, `present_mmc3.s`, `render_mmc3.s`) | draw lists, epochs, publication state | capture, schedule, publish | IRQ handler |
| CNROM (`frame_cnrom.s`, `cpu_bus_cnrom.s`) | packet queue, CHR bank | produce, publish | source clock |
| source clock (`source_clock.s`, `source_ppu.s`, `source_apu.s`, `source_input.s`) | cycle counters, domains | advance, flush | CNROM |
| input (`input.s`) | latched buttons, serial index, hold and injection counters | latch per frame, strobe, read | IRQ handler |
| audio (`apu_stub.s`) | channel shadows, frame sequencer | register writes, tick | IRQ handler |
| slot-2 guard (`boot.s`, `wram.s`) | guard depth `$D47F`, SRAM control | begin, end, around data in slot 2 | PPU, CHR, IRQ handler |
| diagnostics, `flags.s`, `nz_table.s`, `vdp.s` | none, or the VDP | leaf helpers | - |

### Hard behaviours

* **Interruption by more of the same program.**  The NMI body is translated
  code; it makes the same calls through the same memory as what it interrupts,
  up to two deep.  Every helper is written reserve-then-fill or
  read-then-publish, byte by byte, to survive that.
* **Enabling interrupts under one's feet.**  Helpers that disable interrupts
  enable them again unless the in-handler flag says they run in the handler.
* **Abandoned contexts.**  RTI to a PC that is not the sentinel throws the
  native stack away, with all that lived on it.
* **Hand-over to the display.**  Frames are prepared by the game side and
  committed by the interrupt, at a beam position that admits it or not.
* **The beam.**  Work that cannot be interrupted is admitted by one sample of
  the beam and has to be over before a line interrupt that falls due meanwhile.
* **Pools that run dry.**  Patterns are rebuilt in video memory that is on the
  screen; what is free depends on the last frame, the next one and a cache.
* **Static scans against dynamic paths.**  The translator leaves out what a
  linear scan says nobody reads, and what discovery says nobody executes; a
  program gets there by a branch the scan did not follow.
* **Counters at their limits.**  63 + 64 frames of TR_RET, an unchecked far
  LIFO, a page-wrapping stack, an 8-bit IRQ counter behind an edge filter.

The hazards, each at its line, with the properties that would catch it, are in
`PROJECT.json`.

## 2. Modules and the code

One Z80 step that touches shared memory is one action wherever an interrupt may
fall between two of them; a stretch of code that runs with interrupts disabled
is one action.  `PROJECT.json` maps every definition to its lines.

### NmiBridge - transfers and the interrupt that delivers NMIs

The build is the banked one with the software stack discipline (the profiles of
Super Mario Bros. and Castlevania).  The Z80 is a stack of at most three
*contexts*: the main program at level 0, an NMI body at level 1 and another at
level 2; `depth` (`$CA11`) is the one that runs.  The others are frozen in
the middle of whatever they did, so each keeps its own program point and
registers, and all share memory:

| variable | code |
|---|---|
| `bankShadow`, `slot1` | `$CB14`, `$FFFE` |
| `trPtr`, `trMem` | TR_RET, the continuation frames, as an index and an array (its bytes are `ReturnFrames`) |
| `farPtr`, `farMem` | the far-bank LIFO, a pointer without a bound and what has been written |
| `farA`, `scratchA` | `$CB15`, `$CB73` |
| `mru` | the last dispatch, `$CA08`-`$CA0E` |
| `iff`, `inHandler`, `depth`, `nmiOn`, `nmiStarted`, `runtimeReady` | the flip-flop, `$CB7E`, `$CA11`, `$CB08` bit 7, `$CB1A`, `$CB28` |
| `native` | the `_far_after` words a context has on the native stack |
| `want`, `wantA`, `entry` | ghosts: the routines and accumulator 6502 semantics names, the stack pointers at delivery |

`Jsr ... CallEnter` is the call frame emitted by `z80_emit` and
`rt_translated_call_gate`; `Rts ... RtsPublish` is `rt_translated_rts`;
`BankedDispatch ... FarEnter` is `rt_banked_dispatch` and `rt_far_gate`;
`IndirectJmp`, `RtsDispatch`, `TailDispatch` are the computed jumps; `Rti ...
AfterSlot` is `rt_rti` with `_far_after`; `FrameIrqDeliver`, `BridgeReturn`,
`FrameIrqSkip`, `LineIrq` are the handler of `boot.s` (interrupts disabled up to
the EI before the body).  The program itself is free: it makes any of the
transfers a run allows it, in any order.

### ReturnFrames - the pointer of TR_RET

The two bytes `$CB76/77` as the code looks at them: what a call accepts
(`Accepts`, emitted by `z80_emit`), where it goes on (`NextFree`, with the hop from
`$D3F8` to `$D500`), what an RTS or a return escape pops (`Pops`, `Newest`), and
the reset of `_rti_dispatch`.  The ghost `frames` lists the live frames, which the
code keeps nowhere; `FramesExact` says that the bytes agree with it up to both
ends of both segments, all 127 frames.  A reservation is one store of the pointer,
so there is nothing to interleave here that `NmiBridge` does not.

### GuestStack - the emulated 6502 stack

Page `$C100` and pointer `$CB02` under pushes, pops, BRK, computed RTS and RTI,
with the three-byte sentinel frames of the bridge.  `depth` is the byte
`$CA11`; `live` is the number of bridge calls really on the native stack.  They
part when `_rti_dispatch` abandons the native stack.

### Mmc3Irq and ScanTimer - the interrupt counter of the MMC3 board

`Mmc3Irq` is `mmc3.rs`: one action per register write, per address change on
the PPU bus and per M2 falling edge.  `ScanTimer` is what a game is promised: a
countdown of latch + 1 qualified edges.  `Mmc3Irq` implements it; the mapping
(`due`, `running`) reads the counter and the reload flag.

### FrameHandover, Cv1Frame, Cv1Slots and Cv1Sprites - the picture of Castlevania

`FrameHandover` is the promise: the program edits a source picture, publishes
it as it stands at a moment of its own, and the interrupt shows published
pictures, whole, one at a time; the screen may be dark in between.

`Cv1Frame` implements it as a matter of *control*: the hook that the NMI body
calls (`rt_cv1_scroll_publish`), freezing and scanning of dirty bits, blanked
restarts, READY and PENDING, the gates of `boot.s` 1114-1150, and the commit by
the interrupt.  Between its steps preparation is interrupted by frame
interrupts, and those may deliver nested NMI bodies.  The busy protocol of the
game (`$C01B` set after the prologue, cleared before RTI) is translated program,
modelled as the gate relies on it (`boot.s` 1141-1150).

`Cv1Slots` implements the same promise as a matter of *memory*: patterns are
built into a pool of slots, with a cache from (tile, sub-palette) to slot, a
reverse key per slot, two copies of the cell-to-slot shadow and of the counts,
pins for the frame in preparation, and a packet of records.  Every state of
the preparation machine of `bg_cv1.s` is an action.  The commit may come at any
later moment, as `Cv1Frame` establishes, and the source may change as soon as
the frame is published.  The two modules meet in
`FrameHandover`: what `Cv1Frame` calls a cell and its value is in `Cv1Slots` a
folded cell and the pattern of the slot it names.

What `Cv1Slots` leaves out: one cell per column of the window stands for its
rows; the fixed HUD band, whose coming and going forces a full drawing as a
change of table does; the cutting of freezes, copies and resets into 64-byte
chunks, which nothing can come between that touches the same data.

`Cv1Sprites` is the sibling for sprites (`sat_cv1.s`): the two passes over the
OAM, the cache from (tile, attributes) to slot, `current` and `next` (the pins
at `$D440` and `$D448`), the search for a free slot from `victim` on, the demand
for a dark display, and the commit that turns `next` into `current`.  It relies
on `Cv1Frame` twice: the source is frozen while a preparation runs, and no
commit comes before it is complete.  `Begin(fenced)` covers the background
having turned the display off for the same frame.  There are as many slots as
entries in the OAM, as in the code (64 of each), which is what makes
"an empty retry MUST fit" true.

### Cv1Hud - the split against the beam

Time is the beam: `Tick` moves it by a line of 262, and the processor does what
takes less than a line in no time.  `cpu` says whether it runs translated code,
the stages of the handler, a commit, a preparation waiting (`service`) or a
sampled and admitted step, and `left` for how many lines it will not look at
interrupts.  `Arm`, `ServeLine`, `Vblank`, `Poll`, `Admits` are the routines of
`hud_cv1.s`; `Commit` is the admission of `frame_cv1.s`; `LineIrq` and
`FrameIrq` are the entries of `boot.s`.  The VDP (counter, flags, status read)
is external.

The costs are the code's: steps of 4, 35 and 131 lines, with the two lines of
reserve in `Fits`; 16 lines for a commit up to the arming, of which the sprite
burst takes 13; 3 lines between two polls of the handler; 17 lines for which
the program may hold interrupts back.  The last is the lag path of
`rt_cv1_scroll_publish`, which keeps them off from `frame_cv1.s` 81 through four
PPU accesses to 162; the other path admits the same accesses as a step of 17 lines
(102).  `PlayfieldScrolled` allows the split to be late by the larger of the last
two, which is therefore this path: a lag frame may draw up to 17 lines of the
playfield with the scroll of the HUD, and no step of preparation adds to that.  `Costs` says which costs the split
bears: any for which a commit, a sprite burst and a stage of the handler
together take fewer than 35 lines, and translated code holds interrupts back for
fewer.  `Epochs` = 2 stands for the wrap at 256: armed
and current epoch are only ever compared, and differ by at most one.

### ControllerPorts - latch and serial reads

`Latch` is `rt_controller_latch` of every frame, with mapping, chord, hold
counter and injected Start, in three builds; `Strobe`, `ReadPort2`, `ReadOpen`
and `ReadIndex`, `ReadBit`, `ReadDone` are the port as the program sees it, a
serial read in three parts because interrupts are enabled between them.
The ghosts `reads`, `some` and `every` are the program's side: how many reads it
has made since the strobe, and which buttons some or every latch since then had.
`SerialReadExact` is about them and not about `$CB07`, so an index that is rewound,
stuck or moved twice between two reads breaks it.
`HoldLimit` 2 stands for 30 and `Presses` 2 for 4.  One context polls, the main
program or the NMI body: two that poll at once share one index, and nothing
in the code keeps them apart.

### FlagScans, FlagLowering - the flags that are not written

`crates/lower` writes shadow P only where a scan says the flag may be read.
`FlagScans` has the scans as operators over a program (`Dead`, `ShadowDead`,
`PlainDead`, `LiveAfter`, `Follows`, `Chained`, the summary of a callee), and
`FlagLowering` runs the lowered program: `stale` is the set of flags in which
shadow P differs from the 6502, `z80F` the flags the Z80 register still has,
`nzInA` whether N and Z are those of A, `aLost` whether Z80 A is not the 6502
accumulator.  Values are left out: a conditional branch may go either way.

The scans are linear.  Three hypotheses say which programs they are enough for:
`JoinsCovered` (a branch passed with N and Z pending leads to where they are
dead as well), `TailsCounted` (a callee does not jump away into something that
reads incoming flags, which its summary `routine_incoming_flag_reads`,
`lib.rs` 1863-1869, does not count), and `ComputedReturnsLast` (`RtsDispatch` is
no boundary to the scans).  The first is no formality: finding 3.

### Discovery - which code is translated

`walk_function` an instruction at a time (`Step`, `Stop`), the queue of
`analyze_in_window`, the turns of `analyze_with_continuation_roots`, the trimming
of ranges that overlap, and the two scans of `lift_range`.  An address holds one
instruction, a byte of data, or a byte of an inline jump table; instructions do
not overlap.  `ReachableTranslated` has four hypotheses, each a limit of the
code: `Continues` (the program does not run into data), `Uncut`
(`MAX_FUNCTION_BYTES`), `RefsOwned` (static builds do not make a branch that
leaves its function into unowned code a root), `LabelsVisited` (no branch leads
into a gap that the walk of the function owning it has passed over: the walk
does not come back to it, cf. `analysis/src/lib.rs` 241, and no range but the
owner's is translated there).  The last is no formality: finding 5.  What a scan
comes to is `Reached`, the least set closed under where it goes on.

Modules ending in `_proofs` hold the theorems; `MCNmiBridge` gives programs to
the module it is named for, and `FlagPrograms` those that `FlagLowering` is
checked with: in `MCCrates` the ones that satisfy its hypotheses, in
`MCFlagLowering`, for findings 3 and 4, all of them.  `MCRuntimeParts`,
`MCCv1Pools` and `MCCrates` check modules that share no state in one run: a
behaviour picks a part and is a behaviour of that part.  The other modules are
checked under their own names.

## 3. Runs

| run | instance | distinct states | what it shows |
|---|---|---|---|
| `NmiBridge_code` | banked dispatch, indirect jumps and computed RTS at level 0, JSR in bodies, 1 frame | 3.0 M | code only ever runs from its own bank; a transfer reaches the routine asked for; interrupts come back on |
| `NmiBridge_far` | JSR and banked dispatch at level 0, banked dispatch in bodies, 1 frame, two accumulator values, spurious interrupts in boot | 5.8 M (symmetry) | each context owns its share of both stacks and finds it unchanged; no stack is popped empty; A survives |
| `NmiBridge_rts_scratch` | computed RTS below, indirect jumps in bodies | violation | finding 1 |
| `NmiBridge_mru_torn` | banked dispatch at both levels, two targets | violation | finding 2 |
| `RuntimeParts` | a stack page of 7 bytes; 262 lines with steps of 4, 35 and 131; three builds of the ports; all 127 return frames | 7.2 M | pops are exact, every sentinel has its bridge, the depth byte never refuses for ever; both halves of the picture have their scroll; the n-th serial read returns button n; the TR_RET pointer agrees with its frames |
| `Cv1Frame_handover` | 2 cells, packet of 1, 2 tables | 2.6 M | hand-over, no change lost, the hook finds room |
| `Cv1Frame_live` | 2 cells, packet of 1, 1 table | 0.5 M | READY frames are shown, preparation ends, backpressure ends |
| `Cv1Pools` | background: 3 columns, pool of 2, packet of 1, 3 writes; sprites: 2 entries, 3 keys, 2 slots, 3 writes | 4.9 M | both pictures are right, counts and cache exact, the background pool fails only when it must and the sprite pool never |
| `FlagLowering_join` | programs of 4 operations out of 5, without `JoinsCovered` | violation | finding 3 |
| `FlagLowering_store_x` | programs with STX to hardware and TSX | violation | finding 4 |
| `Crates` | discovery: every program of 4 free addresses and a return; lowering: every supported program of 4 operations out of 18, and 5 callees; board: latches up to 4 | 2.4 M | every label is owned, every executed instruction translated, discovery never stops short of its end and comes nearer to it with each step; every flag read, from shadow P or the Z80, is the 6502's; the MMC3 counter is ScanTimer and its clocks are three M2 edges apart |
| `Crates_embedded` | a function of 7 addresses around one it calls, where the branches and the call lead is free | violation | finding 5 |

All bounds are CONSTANTS or guards named where they stand.

* **Depth.**  Two levels of NMI is the handler's own limit, not a bound.
* **TR_RET and the far LIFO.**  The hole between the two segments of TR_RET is
  in `ReturnFrames`, at its full size; in `NmiBridge` TR_RET is an index.  With one
  frame of TR_RET and two of the far LIFO a body is delivered between reservation and
  filling of a frame of either kind, far frames of two contexts lie on each
  other, and the `$EF` trap of TR_RET is reached.  TR_RET frames of two contexts
  at once need two, which is too many states together with the jumps: a JSR of
  a body inside a JSR of the program is left to the theorems, which hold for any
  capacity.  The far LIFO has no check in the code and none in
  the module; TLC explores states up to `FarCap` entries (`FarBound`, a CONSTRAINT of
  the runs), and the theorems hold for any number.
* **A page of 7 bytes** holds two sentinel frames and a byte, so every wrap at
  the top and bottom of the page happens with frames of every kind across it.
* **Latches up to 4** make reload, zero latch and several decrements differ.
  The proofs hold for every latch width.
* **Cv1Frame, two cells and one record:** a packet that is exactly full and one
  too many are both reached; the proofs hold for every number.
* **Cv1Slots, three columns, two slots:** a window needs up to three pairs, so
  the pool is exhausted and resets, fails, and is refilled; a scroll by one
  column is incremental and by two is not; `MaxWrites` = 3 lets a tile, its
  pattern and the window change between two frames and again during the commit.
* **Cv1Sprites, two entries, two slots, three keys:** the union of an old and a
  new table needs up to four slots, so the pool runs dry with the display on
  and the retry is taken; two entries of one key share a slot; with `HiddenRun`
  2 a run of hidden entries ends at its bound, at a visible entry and at the
  end of the OAM.
* **Cv1Hud** has no bound but the epochs: the beam, the costs and the split are
  those of the code.
* **FlagLowering, four operations:** enough for a producer, a branch over an
  overwrite and a reader, for a run of two fused branches, and for a shift
  chain with its rotate.  The proofs hold for programs of any length.
* **Discovery, five addresses:** enough for a function inside another that is
  trimmed, a label in the part cut off, and a table behind its call.
* **Computed jumps of NMI bodies** are in no run with `CodeVisible`: that they are
  safe there is the theorem `CodeInItsBank`.

Deadlock is checked except where the system stops by itself: `NmiBridge`
(the traps, and the edge `FarBound`), `RuntimeParts` (in `GuestStack`, a native
RET with nothing to return to; in `ReturnFrames`, the traps), `Cv1Pools` (the pool's halt, and `MaxWrites`), and the
two runs of `FlagLowering` (a lowered program ends; in `Crates` it stutters then,
`Stopped`, and nowhere else).

**Fairness** (`Cv1Frame_live`): weak fairness of the steps of a preparation
(translated code goes on when nothing interrupts it) and strong fairness of
`Irq(TRUE)`: infinitely many of the frame interrupts find the beam in the
window that `rt_cv1_frame_try_present` admits.  The handler runs once per frame
and the admission window lies at the top of the frame, so an interrupt is late
only when it was held back by a section with interrupts disabled; the code has
no answer to being held back for ever, and none is claimed.  No fairness is
assumed of the program.  That discovery ends needs none: `Advances` bounds the
number of its steps, and `Crates` shows that it is never stuck.

## 4. Findings

1. **A computed RTS can lose the accumulator** (`NmiBridge_rts_scratch`).
   `rt_rts_dispatch` parks A in `$CB73` at `dispatch.s` 1467 with interrupts
   enabled; the RTI of an NMI body parks its own A in the same byte.
2. **A torn MRU entry** (`NmiBridge_mru_torn`).  `rt_banked_dispatch` compares
   the key and then reads label and bank; an NMI body that dispatches in
   between sends the program into its own target.
3. **A join the flag scan does not follow** (`FlagLowering_join`).
   `nz_shadow_live_after` steps over a branch on N or Z that A decides; an
   overwrite behind the branch then makes the flags dead although the taken
   path skips it.  LDA, BNE over another LDA, RTS: the caller gets stale N and Z.  The
   comment at `crates/lower/src/lib.rs` 1917 calls the scan sound.
4. **Storing X to hardware loses A** (`FlagLowering_store_x`).  `PpuWrite` with
   value X goes through Z80 A (`lib.rs` 5708) and so does TSX (4631), and
   nothing puts the accumulator back; the comment at 4556 says of the same 6502
   instruction that it must not modify A.
5. **An owned label that nobody translates** (`Crates_embedded`).
   `analyze_with_continuation_roots` makes a label a root only if it lies in no
   range (`pipeline.rs` 677), but `lift_range` translates what it comes to from
   the entry of the range.  A branches over the function B it calls to a label
   behind B's RTS; B's range, which has taken over the rest of A's, holds the
   label, but B branches over it too.  The label becomes a stub that traps,
   which is what the passes are repeated to avoid (the comment at 636).

Observations that are not findings:

* A frame interrupt during boot sets the in-handler flag and leaves without
  clearing it (`boot.s` 687, 730); the next ready interrupt clears it, and until
  then helpers leave interrupts disabled.  `InterruptsReturn` is about the other
  exits: it is checked and proved for programs no interrupt enters before boot is
  over (`SpuriousIrq` = FALSE), and is false without that.
* The READY gate of `boot.s` 1131-1139 is never the one that refuses: the
  interrupt has just presented the frame or set PENDING.  What keeps a body off a
  waiting frame (`HookFindsRoom`) is the gate of PENDING and that of the busy flag.
* The comment at `dispatch.s` 209, that a far frame is retired by the RET of its
  target, holds for targets that end in a native RET.  Those that end in a
  software RTS leave it until an RTI unwinds it, and those of the main program
  leave it for good, so the far LIFO may grow without end.  Its pointer is moved
  unchecked (`dispatch.s` 236-237): no property claims a bound.
* If an NMI body took a BRK whose handler returned (`NmiResumesAfterBrk` = TRUE),
  `_rti_dispatch` would throw away the native stack with the bridge's return
  address.  The runs assume that no body does.
* Two contexts that both poll the controller share one serial index; a pause NMI
  between load and store of `$CB2E` merges two presses into one.
* `mmc5.rs` compares `self.scanline as u8` with the compare register, so lines
  256 to 261 count as 0 to 5 and small compare values match twice a frame.
  Found by reading; the board is not modelled.
* The slot-2 guard, the mapper's MRU invalidation and the guarded PRG read run
  with interrupts disabled throughout; no interleaving was found to model.

## 5. Proofs

TLAPS checks, for every value of the constants (with the named assumptions):

* `NmiBridge_proofs`: `Inductive`, `TypeCorrect`, `Ownership`, `Balanced`,
  `NeverUnderflows`, `ContextsFrozen`, `FarEntriesSaved`.  The invariant is `TypeOK /\
  StacksOwned`.  `TypeCorrect` bounds the index of TR_RET, which the code checks, and
  not the pointer of the far LIFO, which it does not; what `FarEntriesSaved` says
  of the LIFO is that every entry below the pointer was written, at any height.  That a body hands the stacks back is not inductive alone: what
  makes it so is that each context's share, computed from where it stands
  (`TrOwned`, `FarOwned`), lies on top of the shares of the contexts it
  interrupted, and that the index it holds in HL is the top of its share.  Types
  need ownership too, since only it says that an index is inside its array.
  Whatever step is taken writes at or above the share of the running context,
  and the shares of the others lie below (`WritesOwnShare`).
  - `CodeInItsBank`, for a program whose NMI body makes no banked dispatch; with
    one, the torn MRU entry of `NmiBridge_mru_torn` refutes it, so the assumption
    is needed.  Its invariant `Visible` says for each context, at each point of a
    transfer, which of the bank shadow and the mapper register must already hold
    the target's bank (`Mapped`).  For an interrupted context the bank saved by
    the bridge above it stands for both.
  - `TransfersArrive`, under the same assumption: at each point of a transfer the
    registers that matter there name the routine that 6502 semantics asks for
    (`Headed`), and every continuation in a context's share is the one its caller
    pushed (`Returns`).
  - `AccumulatorKept`, for programs that take no computed RTS (with one, finding 1
    refutes it): where the accumulator is, at each point, in a register, in
    `$CB15`, `$CB73` or the frame, it is the one the program had.
  - `InterruptsStayOpen`, if no interrupt enters the handler before boot is over;
    with one, the in-handler flag it leaves behind keeps interrupts disabled (see
    the observations above).
* `RuntimeParts_proofs`: the four parts of the run, each by an invariant of its
  own, and `PartsCompose`, which says that a behaviour of the run is one of each;
  `PartsTyped` and `PartsSafe` then hold of the run.
  - `StackLayout`, `PopsExact`, `DepthTrue` and `SentinelsBridged`, for a page of
    any size.  `Nested` says that the shares of the contexts lie on the page one
    above the other, each on the frame the bridge pushed for it; how many bytes
    lay there when a context was interrupted is the witness `t`.  A context runs
    again only if every body above it still owes its RTI (`Resumable`).
    `SentinelsBridged` assumes that a body that took a BRK does not resume.
  - `PortsHeld`, `SerialReads`: the index is the number of reads the program has
    made since the strobe, at most 8, and what a read has taken of the byte is right
    about the button of that number, as some latch since the strobe had it (`Taken`).
  - `FramesHeld`, `FramesFound`: n live frames lie at the first n addresses of the
    two segments (`Filled`) and the pointer is the next (`Address`, which is `Full`
    for 127), so what the bytes say is what the number of frames says.
  - `HudHeld`, `HudScrolled`, for any lengths of steps and any costs within
    `Costs`.  While the split is armed the line counter and the beam run together
    (`Counting`), whatever holds the processor ends before the split or within the
    delay allowed (`Reach`, `Chunking`), and a picture with a split has it armed
    from the end of the blank on (`Drawn`).
* `Crates_proofs`, about the behaviours the run checks (`StepIsOfEach` says that
  each is one of all three parts):
  - `LabelsAreOwned` and `ReachableIsTranslated`, for windows of any size, any
    programs, vectors and `MAX_FUNCTION_BYTES`.  The invariant says of a walk, and
    of the function it leaves, how it came to each address it holds (`Came`: from
    the instruction before, or by a jump from further up), that it holds what
    follows each instruction (`Covers`), and that the target of each is the entry,
    a label, or a reference that is a root if it was called (`Noticed`).  A
    function ends behind an instruction that ends the flow, or is `Blocked`, which
    in a program that keeps to the hypotheses cannot happen (`NoneBlocked`).  So
    what owners have walked of their ranges (`Served`) holds the vectors and is
    closed under what can follow an instruction, and what is executed, the least
    such set, lies in it.  That the second scan of `lift_range` comes to all that
    was walked is shown at the least address it would lose (`CodeIsLifted`): it
    would lie behind an instruction translated, or be a target that the linear
    scan has found.  The least address stands in for an induction along the scan.
  - `DiscoveryAdvances`: the passes come to an end, stated as what each step
    gains.  A function is found once per turn since a walk is begun only where
    there is none (`Fresh`), and a walk goes forward since what is pending lies
    behind it.
  - `ClocksSpaced` and `ImplementsTimer`: the invariant of the board adds
    `LowSinceClock`, which ties the filter to the edges since the last clock.
  - `FlagsAreExact` and `NativeFlagsAreExact`: a behaviour of the run is one of
    `FlagLowering` (`LowersByRule`), so the theorems below hold of it.
  - `CratesTyped`, the types of all three.
* `FlagLowering_proofs`: `TypeCorrect`, `ShadowIsExact`, `NativeIsExact`, for
  programs of any length and number of routines that satisfy the three
  hypotheses above (`Supported`).  The invariant is that every stale flag is
  `Settled` where execution stands, that is, one of the four elisions proved it
  dead and execution is still on the ground its scan covered; or the running
  routine is `Quiet` about it and it is settled in the caller.  Besides, what a
  fused branch or a rotate needs is in the Z80 on every path that leads there.
* `Cv1Frame_proofs`: `TypeCorrect`, `PacketBounded`, `HookSafe`, `ChangesKept`,
  `ImplementsHandover`, for any number of cells and size of packet.  `Control`
  says which body can run where, so that only one prepares; `Stages` what bits
  and records may be at each stage; `NothingLost` what the frame still owes; and
  `Frozen` that a waiting frame, laid over the display, is the picture
  published, which is what the refinement needs at the commit.
* `Cv1Sprites_proofs`: `TypeCorrect`, `RetryAlwaysFits` and
  `SpritesImplementHandover`, for any number of OAM entries and at least as many
  slots (64 and 64 in the code).  The cursor of the table counts the visible
  entries the walk has passed (`Table`), so an entry that is missing lies inside
  the table (`CursorInside`); every pinned slot stands in the table, and the
  missing entry holds none, so by the pigeonhole principle a slot is left
  (`RoomInTheDark`).  For the hand-over, a key names what its slot holds as long
  as no tile has changed (`CacheTrue`), so what a pass finds cached is what the
  entry shows (`TableTrue`); the slots of the table and of the screen are pinned
  (`TablePinned`, `ScreenPinned`), so no pattern is built over either; and a
  complete table is the picture published (`Waiting`).  That the n-th entry of
  the table is the n-th visible one, and exists, follows from the count growing
  by one at a time (`EntryAt`, `EntryExists`).
* `Cv1Slots_proofs`: `TypeCorrect`, `CountsAreExact`, `CacheIsCurrent`,
  `FailsOnlyWhenFull`, for any number of columns, slots and records.  Both
  copies of the metadata are exact at all times, which is more than the run
  asks (`Exact`).  A cached pair is named by its slot (`Named`), so a slot that
  is taken over has left the cache before it is drawn into (`Reserved`).  In a
  full drawing every pinned slot has another pair of the window (`Pinned`) and
  the allocator has found each slot it passed pinned (`Probed`): when it has
  passed all, the window has a pair for each slot and the one in hand besides.
* `Cv1Pools_proofs`: `ImplementsHandover`, for the background and the same
  constants.  The invariant is what each stage of a preparation still owes (`Owed`): between
  frames a cell is right unless its column, its attribute byte or the tile of
  its slot is dirty; the freeze takes these bits over; invalidation turns tiles
  into columns, the scroll adds the columns that come in (`ExposedCovers`, the
  arithmetic of the ring of columns), the attributes add theirs; and the scan
  comes by every such column of the window once (`Untouched`), with a slot in
  hand that shows its pair (`InHand`).  What is not dirty has to be *known* not
  to be, which is why raised flags are part of it (`Raised`, and `Still` for the
  program that waits).  The records laid over the name table are then the frame
  (`Overlaid`), and the waiting frame is the picture published (`Frozen`).
  `Untouched` also says that no cell is queued twice in a frame, so the branch
  of `Queue` that replaces a record is never taken, in the model at least, which
  leaves out the fixed band of the HUD.  The last section puts the two pools
  together (`PoolsCompose`): `PoolsTyped`, `RetriesFit`, `SpritesSafe` and
  `BackgroundSafe` are about the behaviours the run checks.

Facts about the least element of a set of numbers, which the choices of slots,
cursors and entries need, come from the well-foundedness of < on Nat
(`LeastExists`) and stand in for induction.

Only model-checked: liveness, which is beyond the prover (`Presented`,
`PreparationEnds`, `BackpressureEnds`).  Every invariant, action
property and refinement that a passing run checks is a theorem.  `FarSaved` alone is
proved and in no run.

## 6. What is not modelled

Per component in `PROJECT.json`, with the reason.  In short: decoding, emission
and conversion are functions and tested as such; the interpreters are oracles;
conversions of tiles and sound are data; and the rest of the runtime is in the
plan.  The transfers of the wide-frame MMC3 build differ in the frame (owner
flag, guest pointer) and are not those modelled.  Of `lower` the arithmetic of
the expansions, the lifted idioms and the full-bus builds are left out; of
`analysis` the report, the class map and windows beyond one.  The modules cover
a small part of the repository's lines by design: most of them are expansions
and interpreters with a case per opcode, tracing tools, and tests.

## 7. Plan

In this order:

1. **Return escape**: owner bits on the frames of `NmiBridge`, underflow
   recovery of `rt_translated_rts`.
2. **MMC3 mapper and frame**: the windows of `mapper_mmc3.s` refining those of
   `mmc3.rs`; draw lists, epochs and publication.
3. **Other boards**: the serial port of MMC1, the latches of MMC2, the scanline
   counter of MMC5, the down counters of FME-7 and VRC.
4. **PPU registers, source clock, CNROM packets, SMB hooks**, as small modules.
