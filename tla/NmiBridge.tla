------------------------------ MODULE NmiBridge ------------------------------
(***************************************************************************)
(* Translated 6502 code, the transfers between its code banks, and the     *)
(* frame interrupt that delivers the translated NMI in the middle of them  *)
(* (runtime/boot.s, runtime/dispatch.s and the call frames emitted by      *)
(* crates/z80_emit).                                                       *)
(*                                                                         *)
(* One Z80 runs a stack of contexts: the main program at level 0 and, above *)
(* it, the translated NMI bodies that interrupt each other.  Level "depth" *)
(* (the byte $CA11) runs; the levels below are frozen in the middle of     *)
(* whatever they were doing, their registers on the native stack.  All of  *)
(* them share the slot-1 bank and its shadow $CB14, the continuation stack *)
(* TR_RET, the far-bank LIFO, and the scratch bytes $CB15 and $CB73.       *)
(*                                                                         *)
(* A context step is one memory access of the code, so an interrupt may    *)
(* fall between any two of them while IFF is set.  The handler itself runs *)
(* with interrupts disabled and is one action up to its EI.                *)
(***************************************************************************)
EXTENDS Integers, Sequences, FiniteSets

CONSTANTS
    Routine,     \* translated routines (labels); a target of a banked dispatch
                 \* stands for an address together with the live NES bank
    Bank,        \* SMS code banks
    Home,        \* Home[r]: the bank the label r was emitted in
    Reset,       \* translated_reset
    Nmi,         \* translated_nmi
    Callee,      \* routines the program calls and jumps to
    Acc,         \* values of the 6502 accumulator
    Junk,        \* a byte of $CB73 that is part of a diagnostic pointer
    MainOps,     \* transfers the main program makes: subset of Op
    NmiOps,      \* transfers an NMI body makes: subset of Op
    SpuriousIrq, \* whether irq_handler may be entered before boot has finished
    TrCap        \* frames of the TR_RET stack ($D300-$D3FB and $D500-$D5FF)

Op == {"jsr", "banked", "indirect", "rtsdispatch"}

ASSUME RoutineAssumption ==
    /\ Home \in [Routine -> Bank]
    /\ Reset \in Routine /\ Nmi \in Routine
    /\ Callee \subseteq Routine
ASSUME AccAssumption == Acc # {} /\ Junk \notin Acc
ASSUME OpsAssumption == MainOps \subseteq Op /\ NmiOps \subseteq Op
ASSUME SpuriousAssumption == SpuriousIrq \in BOOLEAN
ASSUME CapAssumption == TrCap \in Nat

MaxDepth == 2            \* the handler's limit on $CA11
Level == 0 .. MaxDepth

VARIABLES
    \* Shared memory.
    bankShadow,  \* $CB14
    slot1,       \* $FFFE, the bank mapped in slot 1
    trPtr,       \* TR_RET_PTR, as a frame index
    trMem,       \* the frames of the TR_RET stack
    farPtr,      \* FAR_BANK_STACK_PTR, as an index; nothing limits it
    farMem,      \* the banks of the far LIFO, where one has been saved
    farA,        \* $CB15
    scratchA,    \* TR_RET_SCRATCH_A = TR_RET_DIAG_PTR = $CB73
    mru,         \* DISPATCH_MRU_BASE $CA08-$CA0E
    \* Interrupt state.
    iff,         \* the Z80's interrupt-enable flip-flop
    inHandler,   \* $CB7E
    depth,       \* $CA11
    nmiOn,       \* bit 7 of $CB08
    nmiStarted,  \* $CB1A
    runtimeReady,\* $CB28
    savedBank,   \* $CB25/$CB26, by level delivered
    savedA,      \* the word of $CB15 on the native stack, by level delivered
    \* Per context.
    pc,          \* where the context is
    acc,         \* the 6502 accumulator, in A (or parked in C)
    hl,          \* the stack index held in HL
    to,          \* the label in BC
    bk,          \* the bank in A or C
    at,          \* the routine the context executes
    native,      \* its _far_after words on the native stack; each word carries
                 \* the call depth at which it was pushed
    \* Ghosts: what 6502 semantics says.
    want,        \* the routines of the context, innermost last
    wantA,       \* the accumulator the program left
    entry        \* the stack pointers found when the level was delivered

memVars  == <<bankShadow, slot1, trPtr, trMem, farPtr, farMem, farA, scratchA, mru>>
irqVars  == <<iff, inHandler, depth, nmiOn, nmiStarted, runtimeReady, savedBank, savedA>>
regVars  == <<acc, hl, to, bk, at, native>>
specVars == <<want, wantA, entry>>
vars == <<memVars, irqVars, pc, regVars, specVars>>

NoMru == [valid |-> FALSE, tgt |-> Reset, label |-> Reset, bank |-> Home[Reset]]

\* Program points of a context.
CallPoint == {"call_ptr", "call_reserve", "call_fill", "call_shadow", "call_slot", "call_enter"}
RtsPoint  == {"rts_pop", "rts_slot", "rts_publish"}
FarPoint  == {"bd_spill", "bd_key", "bd_label", "bd_bank", "bd_slow",
              "fg_ptr", "fg_reserve", "fg_save", "fg_shadow", "fg_slot", "fg_enter"}
AfterPoint == {"ret", "fa_read", "fa_publish", "fa_shadow", "fa_slot", "bridge"}
TailPoint == {"rd_spill", "rd_load", "td"}
Point == {"boot", "idle", "body", "trap", "underflow"} \cup CallPoint \cup RtsPoint
             \cup FarPoint \cup AfterPoint \cup TailPoint

Running(p) == pc[depth] = p
Goto(p)    == pc' = [pc EXCEPT ![depth] = p]
Ops        == IF depth = 0 THEN MainOps ELSE NmiOps
Innermost(s) == s[Len(s)]
Become(s, r) == [s EXCEPT ![Len(s)] = r]   \* a jump replaces the innermost routine
-----------------------------------------------------------------------------
(* Boot, from the clear of the flags to the jump into translated_reset.    *)

Init ==
    /\ bankShadow = Home[Reset] /\ slot1 = Home[Reset]
    /\ trPtr = 0
    /\ trMem = [i \in 0 .. TrCap - 1 |->
                  [a |-> Junk, cont |-> Reset, bank |-> Home[Reset]]]
    /\ farPtr = 0
    /\ farMem = [i \in {} |-> Home[Reset]]
    /\ farA = Junk /\ scratchA = Junk
    /\ mru = NoMru
    /\ iff = FALSE /\ inHandler = FALSE
    /\ depth = 0
    /\ nmiOn = FALSE /\ nmiStarted = FALSE
    /\ runtimeReady = FALSE
    /\ savedBank = [l \in 1 .. MaxDepth |-> Home[Reset]]
    /\ savedA = [l \in 1 .. MaxDepth |-> Junk]
    /\ pc = [l \in Level |-> IF l = 0 THEN "boot" ELSE "idle"]
    /\ acc = [l \in Level |-> Junk]
    /\ hl = [l \in Level |-> 0]
    /\ to = [l \in Level |-> Reset]
    /\ bk = [l \in Level |-> Home[Reset]]
    /\ at = [l \in Level |-> Reset]
    /\ native = [l \in Level |-> << >>]
    /\ want = [l \in Level |-> <<Reset>>]
    /\ wantA = [l \in Level |-> Junk]
    /\ entry = [l \in Level |-> [tr |-> 0, far |-> 0]]

\* irq_handler entered before boot has finished: it sets the in-handler flag,
\* acknowledges the VDP and leaves without EI.
SpuriousEntry ==
    /\ SpuriousIrq
    /\ ~runtimeReady
    /\ inHandler' = TRUE
    /\ UNCHANGED <<memVars, iff, depth, nmiOn, nmiStarted, runtimeReady,
                   savedBank, savedA, pc, regVars, specVars>>

\* Map the reset bank, set $CB28, EI, jump.
BootDone ==
    /\ Running("boot")
    /\ runtimeReady' = TRUE
    /\ iff' = TRUE
    /\ Goto("body")
    /\ UNCHANGED <<memVars, inHandler, depth, nmiOn, nmiStarted, savedBank,
                   savedA, regVars, specVars>>
-----------------------------------------------------------------------------
(* JSR: emit_translated_call_frame reserves a TR_RET frame, fills it with   *)
(* A, the continuation and the caller's bank, and rt_translated_call_gate   *)
(* maps the callee's bank.                                                  *)

Jsr(r, v) ==
    /\ Running("body") /\ "jsr" \in Ops
    /\ acc' = [acc EXCEPT ![depth] = v]
    /\ to' = [to EXCEPT ![depth] = r]
    /\ want' = [want EXCEPT ![depth] = Append(@, r)]
    /\ wantA' = [wantA EXCEPT ![depth] = v]
    /\ Goto("call_ptr")
    /\ UNCHANGED <<memVars, irqVars, hl, bk, at, native, entry>>

\* A plausible slip: the capacity of the stack is not checked.
CallLoadUnchecked ==
    /\ Running("call_ptr")
    /\ hl' = [hl EXCEPT ![depth] = trPtr]
    /\ scratchA' = Junk
    /\ Goto("call_reserve")
    /\ UNCHANGED <<bankShadow, slot1, trPtr, trMem, farPtr, farMem, farA, mru,
                   irqVars, acc, to, bk, at, native, specVars>>

\* Read TR_RET_PTR and leave the attempted pointer in the diagnostic word.
CallLoad ==
    /\ Running("call_ptr")
    /\ hl' = [hl EXCEPT ![depth] = trPtr]
    /\ scratchA' = Junk
    /\ Goto(IF trPtr < TrCap THEN "call_reserve" ELSE "trap")
    /\ iff' = IF trPtr < TrCap THEN iff ELSE FALSE
    /\ UNCHANGED <<bankShadow, slot1, trPtr, trMem, farPtr, farMem, farA, mru,
                   inHandler, depth, nmiOn, nmiStarted, runtimeReady,
                   savedBank, savedA, acc, to, bk, at, native, specVars>>

\* A plausible slip: the frame is filled before the pointer moves past it.
CallReserveLate ==
    /\ Running("call_reserve")
    /\ Goto("call_fill")
    /\ UNCHANGED <<memVars, irqVars, regVars, specVars>>

CallReserve ==
    /\ Running("call_reserve")
    /\ trPtr' = hl[depth] + 1
    /\ Goto("call_fill")
    /\ UNCHANGED <<bankShadow, slot1, trMem, farPtr, farMem, farA, scratchA, mru,
                   irqVars, regVars, specVars>>

CallFill ==
    /\ Running("call_fill")
    /\ trMem' = [trMem EXCEPT ![hl[depth]] =
                   [a |-> acc[depth], cont |-> at[depth], bank |-> bankShadow]]
    /\ Goto("call_shadow")
    /\ UNCHANGED <<bankShadow, slot1, trPtr, farPtr, farMem, farA, scratchA, mru,
                   irqVars, regVars, specVars>>

CallShadow ==
    /\ Running("call_shadow")
    /\ bankShadow' = Home[to[depth]]
    /\ Goto("call_slot")
    /\ UNCHANGED <<slot1, trPtr, trMem, farPtr, farMem, farA, scratchA, mru,
                   irqVars, regVars, specVars>>

CallSlot ==
    /\ Running("call_slot")
    /\ slot1' = Home[to[depth]]
    /\ Goto("call_enter")
    /\ UNCHANGED <<bankShadow, trPtr, trMem, farPtr, farMem, farA, scratchA, mru,
                   irqVars, regVars, specVars>>

\* The accumulator comes back from frame[0], and the gate jumps to BC.
CallEnter ==
    /\ Running("call_enter")
    /\ acc' = [acc EXCEPT ![depth] = trMem[hl[depth]].a]
    /\ at' = [at EXCEPT ![depth] = to[depth]]
    /\ Goto("body")
    /\ UNCHANGED <<memVars, irqVars, hl, to, bk, native, specVars>>
-----------------------------------------------------------------------------
(* RTS: rt_translated_rts pops a TR_RET frame, publishing the pop last.     *)
(* Only a routine with a caller returns; the pop still checks the pointer   *)
(* and leaves for the guest-stack fallback ($E3) when there is no frame.    *)

Rts(v) ==
    /\ Running("body") /\ Len(want[depth]) > 1
    /\ acc' = [acc EXCEPT ![depth] = v]
    /\ wantA' = [wantA EXCEPT ![depth] = v]
    /\ want' = [want EXCEPT ![depth] = SubSeq(@, 1, Len(@) - 1)]
    /\ hl' = [hl EXCEPT ![depth] = trPtr - 1]
    /\ scratchA' = Junk
    /\ Goto(IF trPtr > 0 THEN "rts_pop" ELSE "underflow")
    /\ UNCHANGED <<bankShadow, slot1, trPtr, trMem, farPtr, farMem, farA, mru,
                   irqVars, to, bk, at, native, entry>>

\* Park A in frame[0], read the continuation and the bank, set the shadow.
RtsPop ==
    /\ Running("rts_pop")
    /\ trMem' = [trMem EXCEPT ![hl[depth]].a = acc[depth]]
    /\ to' = [to EXCEPT ![depth] = trMem[hl[depth]].cont]
    /\ bk' = [bk EXCEPT ![depth] = trMem[hl[depth]].bank]
    /\ bankShadow' = trMem[hl[depth]].bank
    /\ Goto("rts_slot")
    /\ UNCHANGED <<slot1, trPtr, farPtr, farMem, farA, scratchA, mru, irqVars,
                   acc, hl, at, native, specVars>>

RtsSlot ==
    /\ Running("rts_slot")
    /\ slot1' = bk[depth]
    /\ Goto("rts_publish")
    /\ UNCHANGED <<bankShadow, trPtr, trMem, farPtr, farMem, farA, scratchA, mru,
                   irqVars, regVars, specVars>>

RtsPublish ==
    /\ Running("rts_publish")
    /\ acc' = [acc EXCEPT ![depth] = trMem[hl[depth]].a]
    /\ trPtr' = hl[depth]
    /\ at' = [at EXCEPT ![depth] = to[depth]]
    /\ Goto("body")
    /\ UNCHANGED <<bankShadow, slot1, trMem, farPtr, farMem, farA, scratchA, mru,
                   irqVars, hl, to, bk, native, specVars>>
-----------------------------------------------------------------------------
(* A transfer into the switchable window: rt_banked_dispatch looks the      *)
(* target up and enters it through rt_far_gate.  The routine that makes it  *)
(* is a stub without a frame of its own, so for the 6502 it is a jump.      *)

BankedDispatch(r, v) ==
    /\ Running("body") /\ "banked" \in Ops
    /\ acc' = [acc EXCEPT ![depth] = v]
    /\ to' = [to EXCEPT ![depth] = r]
    /\ want' = [want EXCEPT ![depth] = Become(@, r)]
    /\ wantA' = [wantA EXCEPT ![depth] = v]
    /\ Goto("bd_spill")
    /\ UNCHANGED <<memVars, irqVars, hl, bk, at, native, entry>>

DispatchSpill ==
    /\ Running("bd_spill")
    /\ farA' = acc[depth]
    /\ Goto("bd_key")
    /\ UNCHANGED <<bankShadow, slot1, trPtr, trMem, farPtr, farMem, scratchA, mru,
                   irqVars, regVars, specVars>>

\* A plausible slip: any valid entry is taken for a hit.
DispatchKeyAnyHit ==
    /\ Running("bd_key")
    /\ Goto(IF mru.valid THEN "bd_label" ELSE "bd_slow")
    /\ UNCHANGED <<memVars, irqVars, regVars, specVars>>

\* Compare the MRU key; nothing disables interrupts on this path.
DispatchKey ==
    /\ Running("bd_key")
    /\ Goto(IF mru.valid /\ mru.tgt = to[depth] THEN "bd_label" ELSE "bd_slow")
    /\ UNCHANGED <<memVars, irqVars, regVars, specVars>>

DispatchLabel ==
    /\ Running("bd_label")
    /\ to' = [to EXCEPT ![depth] = mru.label]
    /\ Goto("bd_bank")
    /\ UNCHANGED <<memVars, irqVars, acc, hl, bk, at, native, specVars>>

DispatchBank ==
    /\ Running("bd_bank")
    /\ bk' = [bk EXCEPT ![depth] = mru.bank]
    /\ Goto("fg_ptr")
    /\ UNCHANGED <<memVars, irqVars, acc, hl, to, at, native, specVars>>

\* The table scan: DI, slot 1 borrowed for the table and given back, the MRU
\* entry rewritten, and EI unless the in-handler flag is set.
DispatchSlow ==
    /\ Running("bd_slow")
    /\ mru' = [valid |-> TRUE, tgt |-> to[depth], label |-> to[depth],
               bank |-> Home[to[depth]]]
    /\ slot1' = bankShadow
    /\ bk' = [bk EXCEPT ![depth] = Home[to[depth]]]
    /\ iff' = ~inHandler
    /\ Goto("fg_ptr")
    /\ UNCHANGED <<bankShadow, trPtr, trMem, farPtr, farMem, farA, scratchA,
                   inHandler, depth, nmiOn, nmiStarted, runtimeReady, savedBank,
                   savedA, acc, hl, to, at, native, specVars>>

\* The pointer of the far LIFO is moved without a look at where it is.
FarLoad ==
    /\ Running("fg_ptr")
    /\ hl' = [hl EXCEPT ![depth] = farPtr]
    /\ Goto("fg_reserve")
    /\ UNCHANGED <<memVars, irqVars, acc, to, bk, at, native, specVars>>

FarReserve ==
    /\ Running("fg_reserve")
    /\ farPtr' = hl[depth] + 1
    /\ Goto("fg_save")
    /\ UNCHANGED <<bankShadow, slot1, trPtr, trMem, farMem, farA, scratchA, mru,
                   irqVars, regVars, specVars>>

\* The bank saved in entry i, if there is one.
FarEntry(i) == IF i \in DOMAIN farMem THEN {farMem[i]} ELSE {}

\* The far LIFO with the mapped bank as entry i.
WithEntry(i) ==
    [j \in DOMAIN farMem \cup {i} |-> IF j = i THEN bankShadow ELSE farMem[j]]

\* A plausible slip: the entry below the reserved one is written.
FarSaveBelow ==
    /\ Running("fg_save")
    /\ farMem' = WithEntry(hl[depth] - 1)
    /\ Goto("fg_shadow")
    /\ UNCHANGED <<bankShadow, slot1, trPtr, trMem, farPtr, farA, scratchA, mru,
                   irqVars, regVars, specVars>>

FarSave ==
    /\ Running("fg_save")
    /\ farMem' = WithEntry(hl[depth])
    /\ Goto("fg_shadow")
    /\ UNCHANGED <<bankShadow, slot1, trPtr, trMem, farPtr, farA, scratchA, mru,
                   irqVars, regVars, specVars>>

FarShadow ==
    /\ Running("fg_shadow")
    /\ bankShadow' = bk[depth]
    /\ Goto("fg_slot")
    /\ UNCHANGED <<slot1, trPtr, trMem, farPtr, farMem, farA, scratchA, mru,
                   irqVars, regVars, specVars>>

FarSlot ==
    /\ Running("fg_slot")
    /\ slot1' = bk[depth]
    /\ Goto("fg_enter")
    /\ UNCHANGED <<bankShadow, trPtr, trMem, farPtr, farMem, farA, scratchA, mru,
                   irqVars, regVars, specVars>>

\* Push _far_after, take A back from $CB15, jump.
FarEnter ==
    /\ Running("fg_enter")
    /\ native' = [native EXCEPT ![depth] = Append(@, Len(want[depth]))]
    /\ acc' = [acc EXCEPT ![depth] = farA]
    /\ at' = [at EXCEPT ![depth] = to[depth]]
    /\ Goto("body")
    /\ UNCHANGED <<memVars, irqVars, hl, to, bk, specVars>>
-----------------------------------------------------------------------------
(* Computed jumps.  rt_indirect_jmp disables interrupts before it touches  *)
(* the scratch byte; rt_rts_dispatch parks A in it first.                   *)

IndirectJmp(r, v) ==
    /\ Running("body") /\ "indirect" \in Ops
    /\ acc' = [acc EXCEPT ![depth] = v]
    /\ to' = [to EXCEPT ![depth] = r]
    /\ want' = [want EXCEPT ![depth] = Become(@, r)]
    /\ wantA' = [wantA EXCEPT ![depth] = v]
    /\ Goto("td")
    /\ UNCHANGED <<memVars, irqVars, hl, bk, at, native, entry>>

RtsDispatch(r, v) ==
    /\ Running("body") /\ "rtsdispatch" \in Ops
    /\ acc' = [acc EXCEPT ![depth] = v]
    /\ to' = [to EXCEPT ![depth] = r]
    /\ want' = [want EXCEPT ![depth] = Become(@, r)]
    /\ wantA' = [wantA EXCEPT ![depth] = v]
    /\ Goto("rd_spill")
    /\ UNCHANGED <<memVars, irqVars, hl, bk, at, native, entry>>

RtsDispatchSpill ==
    /\ Running("rd_spill")
    /\ scratchA' = acc[depth]
    /\ Goto("rd_load")
    /\ UNCHANGED <<bankShadow, slot1, trPtr, trMem, farPtr, farMem, farA, mru,
                   irqVars, regVars, specVars>>

\* After the return pair has been popped, A comes back from the scratch byte.
RtsDispatchLoad ==
    /\ Running("rd_load")
    /\ acc' = [acc EXCEPT ![depth] = scratchA]
    /\ Goto("td")
    /\ UNCHANGED <<memVars, irqVars, hl, to, bk, at, native, specVars>>

\* rt_banked_tail_dispatch: DI, park A, scan, map, EI unless in the handler.
TailDispatch ==
    /\ Running("td")
    /\ scratchA' = acc[depth]
    /\ bankShadow' = Home[to[depth]]
    /\ slot1' = Home[to[depth]]
    /\ at' = [at EXCEPT ![depth] = to[depth]]
    /\ iff' = ~inHandler
    /\ Goto("body")
    /\ UNCHANGED <<trPtr, trMem, farPtr, farMem, farA, mru, inHandler, depth,
                   nmiOn, nmiStarted, runtimeReady, savedBank, savedA,
                   acc, hl, to, bk, native, specVars>>
-----------------------------------------------------------------------------
(* RTI of an NMI body: the sentinel PC makes rt_rti execute a native RET.   *)
(* Each _far_after word the body left behind is unwound before the bridge   *)
(* is reached.                                                              *)

Rti ==
    /\ Running("body") /\ depth > 0 /\ Len(want[depth]) = 1
    /\ scratchA' = acc[depth]
    /\ Goto("ret")
    /\ UNCHANGED <<bankShadow, slot1, trPtr, trMem, farPtr, farMem, farA, mru,
                   irqVars, regVars, specVars>>

\* A plausible slip: the thunks an NMI body left behind are not unwound.
NativeRetPastThunks ==
    /\ Running("ret")
    /\ Goto("bridge")
    /\ native' = [native EXCEPT ![depth] = << >>]
    /\ UNCHANGED <<memVars, irqVars, acc, hl, to, bk, at, specVars>>

NativeRet ==
    /\ Running("ret")
    /\ IF native[depth] = << >>
          THEN Goto("bridge") /\ UNCHANGED native
          ELSE /\ native' = [native EXCEPT ![depth] = SubSeq(@, 1, Len(@) - 1)]
               /\ Goto("fa_read")
    /\ UNCHANGED <<memVars, irqVars, acc, hl, to, bk, at, specVars>>

\* The newest entry of the far LIFO; one that nobody saved holds any bank.
AfterRead ==
    /\ Running("fa_read")
    /\ hl' = [hl EXCEPT ![depth] = farPtr - 1]
    /\ \E b \in IF FarEntry(farPtr - 1) = {} THEN Bank ELSE FarEntry(farPtr - 1) :
          bk' = [bk EXCEPT ![depth] = b]
    /\ Goto("fa_publish")
    /\ UNCHANGED <<memVars, irqVars, acc, to, at, native, specVars>>

AfterPublish ==
    /\ Running("fa_publish")
    /\ farPtr' = hl[depth]
    /\ Goto("fa_shadow")
    /\ UNCHANGED <<bankShadow, slot1, trPtr, trMem, farMem, farA, scratchA, mru,
                   irqVars, regVars, specVars>>

AfterShadow ==
    /\ Running("fa_shadow")
    /\ bankShadow' = bk[depth]
    /\ Goto("fa_slot")
    /\ UNCHANGED <<slot1, trPtr, trMem, farPtr, farMem, farA, scratchA, mru,
                   irqVars, regVars, specVars>>

AfterSlot ==
    /\ Running("fa_slot")
    /\ slot1' = bk[depth]
    /\ Goto("ret")
    /\ UNCHANGED <<bankShadow, trPtr, trMem, farPtr, farMem, farA, scratchA, mru,
                   irqVars, regVars, specVars>>

\* A plausible slip: $CB15 is not given back.
BridgeReturnKeepingScratch ==
    /\ Running("bridge")
    /\ depth' = depth - 1
    /\ bankShadow' = savedBank[depth]
    /\ slot1' = savedBank[depth]
    /\ inHandler' = FALSE
    /\ iff' = TRUE
    /\ Goto("idle")
    /\ acc' = [acc EXCEPT ![depth] = Junk]
    /\ hl' = [hl EXCEPT ![depth] = 0]
    /\ to' = [to EXCEPT ![depth] = Reset]
    /\ bk' = [bk EXCEPT ![depth] = Home[Reset]]
    /\ at' = [at EXCEPT ![depth] = Reset]
    /\ want' = [want EXCEPT ![depth] = <<Reset>>]
    /\ wantA' = [wantA EXCEPT ![depth] = Junk]
    /\ entry' = [entry EXCEPT ![depth] = [tr |-> 0, far |-> 0]]
    /\ UNCHANGED <<trPtr, trMem, farPtr, farMem, farA, scratchA, mru, nmiOn, nmiStarted,
                   runtimeReady, savedBank, savedA, native>>

\* A plausible slip: the in-handler flag stays set.
BridgeReturnInHandler ==
    /\ Running("bridge")
    /\ depth' = depth - 1
    /\ bankShadow' = savedBank[depth]
    /\ slot1' = savedBank[depth]
    /\ farA' = savedA[depth]
    /\ inHandler' = TRUE
    /\ iff' = TRUE
    /\ Goto("idle")
    /\ acc' = [acc EXCEPT ![depth] = Junk]
    /\ hl' = [hl EXCEPT ![depth] = 0]
    /\ to' = [to EXCEPT ![depth] = Reset]
    /\ bk' = [bk EXCEPT ![depth] = Home[Reset]]
    /\ at' = [at EXCEPT ![depth] = Reset]
    /\ want' = [want EXCEPT ![depth] = <<Reset>>]
    /\ wantA' = [wantA EXCEPT ![depth] = Junk]
    /\ entry' = [entry EXCEPT ![depth] = [tr |-> 0, far |-> 0]]
    /\ UNCHANGED <<trPtr, trMem, farPtr, farMem, scratchA, mru, nmiOn, nmiStarted,
                   runtimeReady, savedBank, savedA, native>>

\* The bridge after the body: DI, depth, the interrupted bank, the handler's
\* exit with its restored scratch byte, EI.  The registers of the finished
\* context are gone; they are given the values they had before it existed.
BridgeReturn ==
    /\ Running("bridge")
    /\ depth' = depth - 1
    /\ bankShadow' = savedBank[depth]
    /\ slot1' = savedBank[depth]
    /\ farA' = savedA[depth]
    /\ inHandler' = FALSE
    /\ iff' = TRUE
    /\ Goto("idle")
    /\ acc' = [acc EXCEPT ![depth] = Junk]
    /\ hl' = [hl EXCEPT ![depth] = 0]
    /\ to' = [to EXCEPT ![depth] = Reset]
    /\ bk' = [bk EXCEPT ![depth] = Home[Reset]]
    /\ at' = [at EXCEPT ![depth] = Reset]
    /\ want' = [want EXCEPT ![depth] = <<Reset>>]
    /\ wantA' = [wantA EXCEPT ![depth] = Junk]
    /\ entry' = [entry EXCEPT ![depth] = [tr |-> 0, far |-> 0]]
    /\ UNCHANGED <<trPtr, trMem, farPtr, farMem, scratchA, mru, nmiOn, nmiStarted,
                   runtimeReady, savedBank, savedA, native>>
-----------------------------------------------------------------------------
(* The program writes PPUCTRL.                                              *)

WriteNmiEnable(b) ==
    /\ Running("body")
    /\ nmiOn # b
    /\ nmiOn' = b
    /\ UNCHANGED <<memVars, iff, inHandler, depth, nmiStarted, runtimeReady,
                   savedBank, savedA, pc, regVars, specVars>>

(* The frame interrupt.  With PPUCTRL bit 7 set the NMI is started and is   *)
(* delivered at most MaxDepth deep; with it clear only a started driver at  *)
(* level 0 is kept alive.                                                   *)

Delivers == IF nmiOn THEN depth < MaxDepth ELSE nmiStarted /\ depth = 0

\* A plausible slip: one cell for the interrupted bank, not one per depth.
FrameIrqDeliverOneCell ==
    /\ iff /\ runtimeReady
    /\ Delivers
    /\ nmiStarted' = (nmiStarted \/ nmiOn)
    /\ depth' = depth + 1
    /\ savedBank' = [l \in 1 .. MaxDepth |-> bankShadow]
    /\ savedA' = [savedA EXCEPT ![depth + 1] = farA]
    /\ bankShadow' = Home[Nmi]
    /\ slot1' = Home[Nmi]
    /\ inHandler' = FALSE
    /\ iff' = TRUE
    /\ pc' = [pc EXCEPT ![depth + 1] = "body"]
    /\ at' = [at EXCEPT ![depth + 1] = Nmi]
    /\ native' = [native EXCEPT ![depth + 1] = << >>]
    /\ want' = [want EXCEPT ![depth + 1] = <<Nmi>>]
    /\ wantA' = [wantA EXCEPT ![depth + 1] = acc[depth + 1]]
    /\ entry' = [entry EXCEPT ![depth + 1] = [tr |-> trPtr, far |-> farPtr]]
    /\ UNCHANGED <<trPtr, trMem, farPtr, farMem, farA, scratchA, mru, nmiOn,
                   runtimeReady, acc, hl, to, bk>>

FrameIrqDeliver ==
    /\ iff /\ runtimeReady
    /\ Delivers
    /\ nmiStarted' = (nmiStarted \/ nmiOn)
    /\ depth' = depth + 1
    /\ savedBank' = [savedBank EXCEPT ![depth + 1] = bankShadow]
    /\ savedA' = [savedA EXCEPT ![depth + 1] = farA]
    /\ bankShadow' = Home[Nmi]
    /\ slot1' = Home[Nmi]
    /\ inHandler' = FALSE
    /\ iff' = TRUE
    /\ pc' = [pc EXCEPT ![depth + 1] = "body"]
    /\ at' = [at EXCEPT ![depth + 1] = Nmi]
    /\ native' = [native EXCEPT ![depth + 1] = << >>]
    /\ want' = [want EXCEPT ![depth + 1] = <<Nmi>>]
    /\ wantA' = [wantA EXCEPT ![depth + 1] = acc[depth + 1]]
    /\ entry' = [entry EXCEPT ![depth + 1] = [tr |-> trPtr, far |-> farPtr]]
    /\ UNCHANGED <<trPtr, trMem, farPtr, farMem, farA, scratchA, mru, nmiOn,
                   runtimeReady, acc, hl, to, bk>>

\* A frame interrupt whose NMI is skipped, and a line interrupt: the handler
\* restores what it saved and leaves with EI.
FrameIrqSkip ==
    /\ iff /\ runtimeReady
    /\ ~Delivers
    /\ nmiStarted' = (nmiStarted \/ nmiOn)
    /\ inHandler' = FALSE
    /\ UNCHANGED <<memVars, iff, depth, nmiOn, runtimeReady, savedBank, savedA,
                   pc, regVars, specVars>>

LineIrq ==
    /\ iff /\ runtimeReady
    /\ inHandler' = FALSE
    /\ UNCHANGED <<memVars, iff, depth, nmiOn, nmiStarted, runtimeReady,
                   savedBank, savedA, pc, regVars, specVars>>
-----------------------------------------------------------------------------
Transfer ==
    \/ \E r \in Callee, v \in Acc :
         Jsr(r, v) \/ BankedDispatch(r, v) \/ IndirectJmp(r, v) \/ RtsDispatch(r, v)
    \/ \E v \in Acc : Rts(v)
    \/ Rti
    \/ \E b \in BOOLEAN : WriteNmiEnable(b)

CallStep  == CallLoad \/ CallReserve \/ CallFill \/ CallShadow \/ CallSlot \/ CallEnter
RtsStep   == RtsPop \/ RtsSlot \/ RtsPublish
FarStep   == \/ DispatchSpill \/ DispatchKey \/ DispatchLabel \/ DispatchBank
             \/ DispatchSlow \/ FarLoad \/ FarReserve \/ FarSave \/ FarShadow
             \/ FarSlot \/ FarEnter
TailStep  == RtsDispatchSpill \/ RtsDispatchLoad \/ TailDispatch
AfterStep == NativeRet \/ AfterRead \/ AfterPublish \/ AfterShadow \/ AfterSlot
Irq       == FrameIrqDeliver \/ FrameIrqSkip \/ LineIrq

Next ==
    \/ SpuriousEntry \/ BootDone
    \/ Transfer
    \/ CallStep \/ RtsStep \/ FarStep \/ TailStep \/ AfterStep
    \/ BridgeReturn
    \/ Irq

Spec == Init /\ [][Next]_vars
-----------------------------------------------------------------------------
(* What each context owns of the shared stacks, by where it stands.         *)

TrOwned(l) ==
    Len(want[l]) - IF pc[l] \in {"call_ptr", "call_reserve", "trap"} THEN 2
                   ELSE IF pc[l] \in RtsPoint THEN 0 ELSE 1

FarOwned(l) ==
    Len(native[l])
      + IF pc[l] \in {"fg_save", "fg_shadow", "fg_slot", "fg_enter",
                      "fa_read", "fa_publish"} THEN 1 ELSE 0

\* The index a context holds in HL is still its own, and what it may hold
\* follows from where it stands.
Context(l) ==
    /\ Len(want[l]) >= 1
    /\ pc[l] # "underflow"
    /\ pc[l] \in CallPoint \cup {"trap"} => Len(want[l]) >= 2
    /\ pc[l] = "call_reserve" => /\ hl[l] = entry[l].tr + TrOwned(l)
                                 /\ hl[l] < TrCap
    /\ pc[l] \in {"call_fill", "call_shadow", "call_slot", "call_enter"} \cup RtsPoint
          => hl[l] = entry[l].tr + TrOwned(l) - 1
    /\ pc[l] = "fg_reserve" => hl[l] = entry[l].far + FarOwned(l)
    /\ pc[l] \in {"fg_save", "fa_publish"} => hl[l] = entry[l].far + FarOwned(l) - 1
    /\ pc[l] \in AfterPoint => l > 0 /\ Len(want[l]) = 1
    /\ pc[l] = "bridge" => native[l] = << >>

\* Each context's share of the two stacks lies on top of the shares of the
\* contexts it interrupted.
StacksOwned ==
    /\ \A l \in Level : Context(l)
    /\ trPtr = entry[depth].tr + TrOwned(depth)
    /\ farPtr = entry[depth].far + FarOwned(depth)
    /\ \A l \in Level : l < depth =>
          /\ entry[l + 1].tr = entry[l].tr + TrOwned(l)
          /\ entry[l + 1].far = entry[l].far + FarOwned(l)

\* Below the pointer of the far LIFO every entry has been written by a far gate,
\* but for those that a context is about to write: however far the pointer has
\* moved, no _far_after maps a byte that boot left there.
FarSaved ==
    \A i \in 0 .. farPtr - 1 :
        \/ i \in DOMAIN farMem
        \/ \E l \in 0 .. depth : pc[l] = "fg_save" /\ hl[l] = i

TypeOK ==
    /\ bankShadow \in Bank /\ slot1 \in Bank
    /\ trPtr \in 0 .. TrCap
    /\ trMem \in [0 .. TrCap - 1 ->
                    [a : Acc \cup {Junk}, cont : Routine, bank : Bank]]
    /\ farPtr \in Nat
    /\ DOMAIN farMem \subseteq Nat /\ farMem \in [DOMAIN farMem -> Bank]
    /\ farA \in Acc \cup {Junk} /\ scratchA \in Acc \cup {Junk}
    /\ mru \in [valid : BOOLEAN, tgt : Routine, label : Routine, bank : Bank]
    /\ iff \in BOOLEAN /\ inHandler \in BOOLEAN
    /\ depth \in Level
    /\ nmiOn \in BOOLEAN /\ nmiStarted \in BOOLEAN /\ runtimeReady \in BOOLEAN
    /\ savedBank \in [1 .. MaxDepth -> Bank]
    /\ savedA \in [1 .. MaxDepth -> Acc \cup {Junk}]
    /\ pc \in [Level -> Point]
    /\ acc \in [Level -> Acc \cup {Junk}]
    /\ hl \in [Level -> Int]
    /\ to \in [Level -> Routine]
    /\ bk \in [Level -> Bank]
    /\ at \in [Level -> Routine]
    /\ native \in [Level -> Seq(Nat)]
    /\ want \in [Level -> Seq(Routine)]
    /\ wantA \in [Level -> Acc \cup {Junk}]
    /\ entry \in [Level -> [tr : Nat, far : Nat]]

\* Translated code runs only from the bank it was emitted in, and $CB14 tells
\* the truth about slot 1: what rt_far_gate, rt_translated_rts and the bridge
\* are for.
CodeVisible ==
    Running("body") => slot1 = Home[at[depth]] /\ bankShadow = slot1

\* Every transfer and every return lands on the routine 6502 semantics names,
\* whatever NMI ran in the middle of it.
ReachesTarget ==
    Running("body") => at[depth] = Innermost(want[depth])

\* ... and with the accumulator the program had.
AccumulatorSurvives ==
    Running("body") => acc[depth] = wantA[depth]

\* An NMI body hands the continuation stack and the far LIFO back exactly as
\* it found them, however many frames and far thunks it left on the way.
NmiBalanced ==
    Running("bridge") => /\ trPtr = entry[depth].tr
                         /\ farPtr = entry[depth].far

\* No RTS of a routine that has a caller meets an empty continuation stack.
NoUnderflow == ~Running("underflow")

\* Outside the handler interrupts are enabled ("Interrupts return below").
InterruptsReturn == Running("body") => iff

\* A context that is interrupted finds, when it runs again, its own part of
\* both stacks and its saved banks as it left them.
FrozenContext ==
    [][\A l \in Level : l < depth =>
          /\ \A i \in 0 .. entry[l + 1].tr - 1 : trMem'[i] = trMem[i]
          /\ \A i \in 0 .. entry[l + 1].far - 1 : FarEntry(i)' = FarEntry(i)]_vars
=============================================================================
