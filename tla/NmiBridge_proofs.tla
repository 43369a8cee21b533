--------------------------- MODULE NmiBridge_proofs ---------------------------
(***************************************************************************)
(* For every program, every bank layout and every capacity: the types, and *)
(* the ownership of the two shared stacks, which gives that an NMI body    *)
(* hands them back as it found them, that no RTS of a called routine meets *)
(* an empty continuation stack, and that an interrupted context finds its  *)
(* frames as it left them.  On that stand, each for the programs it is     *)
(* true of: code runs only from the bank it was emitted in, transfers and  *)
(* returns arrive, the accumulator survives, and interrupts stay enabled.  *)
(***************************************************************************)
EXTENDS NmiBridge, SequenceTheorems, TLAPS

IInv == TypeOK /\ StacksOwned

\* Replacing the innermost routine leaves a sequence of the same length.
LEMMA BecomeType ==
    ASSUME NEW s \in Seq(Routine), s # << >>, NEW r \in Routine
    PROVE  Become(s, r) \in Seq(Routine) /\ Len(Become(s, r)) = Len(s)
BY ExceptSeq DEF Become

\* Dropping the innermost element leaves a sequence one shorter.
LEMMA DropType ==
    ASSUME NEW T, NEW s \in Seq(T), Len(s) >= 1
    PROVE  /\ SubSeq(s, 1, Len(s) - 1) \in Seq(T)
           /\ Len(SubSeq(s, 1, Len(s) - 1)) = Len(s) - 1
<1>1. ASSUME NEW n \in Int, n = Len(s) - 1
      PROVE  SubSeq(s, 1, n) \in Seq(T) /\ Len(SubSeq(s, 1, n)) = n
  <2>1. 1 \in Int /\ (\A i \in 1 .. n : s[i] \in T)
    BY <1>1
  <2>2. /\ SubSeq(s, 1, n) \in Seq(T)
        /\ Len(SubSeq(s, 1, n)) = IF 1 <= n THEN n - 1 + 1 ELSE 0
    BY <2>1, SubSeqProperties
  <2> QED BY <1>1, <2>2
<1>2. Len(s) - 1 \in Int
  OBVIOUS
<1> QED BY <1>1, <1>2, Zenon

\* A step of the running context that keeps its shares of the stacks in line
\* with the two pointers keeps all shares in line.
LEMMA OneContext ==
    ASSUME TypeOK, StacksOwned,
           depth' = depth, entry' = entry,
           \A l \in Level : l # depth =>
               /\ pc'[l] = pc[l] /\ hl'[l] = hl[l]
               /\ want'[l] = want[l] /\ native'[l] = native[l],
           Context(depth)',
           trPtr' = entry'[depth].tr + TrOwned(depth)',
           farPtr' = entry'[depth].far + FarOwned(depth)'
    PROVE  StacksOwned'
<1>1. ASSUME NEW l \in Level PROVE Context(l)'
  <2>1. CASE l = depth BY <2>1
  <2>2. CASE l # depth
    <3>1. /\ pc'[l] = pc[l] /\ hl'[l] = hl[l] /\ entry'[l] = entry[l]
          /\ want'[l] = want[l] /\ native'[l] = native[l]
      BY <2>2
    <3>2. TrOwned(l)' = TrOwned(l) /\ FarOwned(l)' = FarOwned(l)
      BY <3>1 DEF TrOwned, FarOwned
    <3>3. Context(l)
      BY DEF StacksOwned
    <3> QED BY <3>1, <3>2, <3>3 DEF Context
  <2> QED BY <2>1, <2>2
<1>2. ASSUME NEW l \in Level, l < depth'
      PROVE  /\ entry'[l + 1].tr = entry'[l].tr + TrOwned(l)'
             /\ entry'[l + 1].far = entry'[l].far + FarOwned(l)'
  <2>1. /\ entry[l + 1].tr = entry[l].tr + TrOwned(l)
        /\ entry[l + 1].far = entry[l].far + FarOwned(l)
    BY <1>2 DEF StacksOwned
  <2>2. l # depth
    BY <1>2 DEF TypeOK, Level
  <2>3. TrOwned(l)' = TrOwned(l) /\ FarOwned(l)' = FarOwned(l)
    BY <2>2 DEF TrOwned, FarOwned
  <2> QED BY <2>1, <2>3
<1> QED BY <1>1, <1>2 DEF StacksOwned

\* The index in HL, and the pointer it was read from, where each is used.
LEMMA Indices ==
    ASSUME TypeOK, StacksOwned
    PROVE  /\ pc[depth] = "call_reserve" => hl[depth] = trPtr /\ trPtr < TrCap
           /\ pc[depth] \in {"call_fill", "call_shadow", "call_slot", "call_enter"}
                              \cup RtsPoint
                 => hl[depth] = trPtr - 1 /\ hl[depth] \in 0 .. TrCap - 1
           /\ pc[depth] = "fg_reserve" => hl[depth] = farPtr
           /\ pc[depth] \in {"fg_save", "fa_publish"}
                 => hl[depth] = farPtr - 1 /\ hl[depth] \in Nat
           /\ pc[depth] = "fa_read" => farPtr - 1 \in Nat
           /\ pc[depth] \in AfterPoint => depth > 0 /\ Len(want[depth]) = 1
<1>1. /\ depth \in Level /\ Context(depth)
      /\ trPtr = entry[depth].tr + TrOwned(depth)
      /\ farPtr = entry[depth].far + FarOwned(depth)
  BY DEF StacksOwned, TypeOK
<1>2. /\ trPtr \in 0 .. TrCap /\ farPtr \in Nat
      /\ entry[depth].tr \in Nat /\ entry[depth].far \in Nat
      /\ Len(want[depth]) \in Nat /\ Len(native[depth]) \in Nat
      /\ hl[depth] \in Int /\ TrCap \in Nat
  BY <1>1, CapAssumption DEF TypeOK
<1>3. pc[depth] = "call_reserve" => hl[depth] = trPtr /\ trPtr < TrCap
  BY <1>1, <1>2 DEF Context, TrOwned
<1>4. ASSUME TrOwned(depth) \in Int, TrOwned(depth) >= 1
      PROVE  trPtr - 1 = entry[depth].tr + TrOwned(depth) - 1 /\ trPtr - 1 \in 0 .. TrCap - 1
  <2>1. trPtr = entry[depth].tr + TrOwned(depth)
    BY <1>1
  <2>2. trPtr >= 1 /\ trPtr <= TrCap
    BY <1>2, <1>4, <2>1
  <2> QED BY <1>2, <1>4, <2>1, <2>2, SMTT(40)
<1>5. ASSUME FarOwned(depth) \in Int, FarOwned(depth) >= 1
      PROVE  farPtr - 1 = entry[depth].far + FarOwned(depth) - 1 /\ farPtr - 1 \in Nat
  <2>1. farPtr = entry[depth].far + FarOwned(depth)
    BY <1>1
  <2>2. farPtr >= 1
    BY <1>2, <1>5, <2>1
  <2> QED BY <1>2, <1>5, <2>1, <2>2, SMTT(40)
<1>6. ASSUME pc[depth] \in {"call_fill", "call_shadow", "call_slot", "call_enter"}
                              \cup RtsPoint
      PROVE  hl[depth] = trPtr - 1 /\ hl[depth] \in 0 .. TrCap - 1
  <2>1. TrOwned(depth) \in Int /\ TrOwned(depth) >= 1
    BY <1>1, <1>2, <1>6 DEF Context, TrOwned, RtsPoint, CallPoint
  <2>2. hl[depth] = entry[depth].tr + TrOwned(depth) - 1
    BY <1>1, <1>6 DEF Context
  <2> QED BY <1>4, <2>1, <2>2
<1>7. /\ pc[depth] = "fg_reserve" => hl[depth] = farPtr
      /\ pc[depth] = "fa_read" => farPtr - 1 \in Nat
      /\ pc[depth] \in {"fg_save", "fa_publish"}
            => hl[depth] = farPtr - 1 /\ hl[depth] \in Nat
  <2>1. ASSUME pc[depth] \in {"fg_save", "fa_read", "fa_publish"}
        PROVE  FarOwned(depth) \in Int /\ FarOwned(depth) >= 1
    <3>1. FarOwned(depth) = Len(native[depth]) + 1
      BY <2>1 DEF FarOwned
    <3> QED BY <1>2, <3>1
  <2>2. /\ pc[depth] = "fg_reserve" => hl[depth] = farPtr
        /\ pc[depth] \in {"fg_save", "fa_publish"}
             => hl[depth] = entry[depth].far + FarOwned(depth) - 1
    BY <1>1, <1>2 DEF Context
  <2> QED BY <1>5, <2>1, <2>2
<1>8. pc[depth] \in AfterPoint => depth > 0 /\ Len(want[depth]) = 1
  BY <1>1 DEF Context
<1> QED BY <1>3, <1>6, <1>7, <1>8

\* A step keeps the types; the indices it uses come from the ownership.
LEMMA TypeStep == TypeOK /\ StacksOwned /\ [Next]_vars => TypeOK'
<1> SUFFICES ASSUME TypeOK, StacksOwned, [Next]_vars PROVE TypeOK'
  OBVIOUS
<1> USE RoutineAssumption, AccAssumption, CapAssumption
<1>1. CASE SpuriousEntry
  BY <1>1 DEF SpuriousEntry, TypeOK, Point, CallPoint, RtsPoint, FarPoint, AfterPoint, TailPoint, Running, Goto, memVars, irqVars, regVars, specVars
<1>2. CASE BootDone
  BY <1>2 DEF BootDone, TypeOK, Point, CallPoint, RtsPoint, FarPoint, AfterPoint, TailPoint, Running, Goto, memVars, irqVars, regVars, specVars
<1>3. CASE CallLoad
  <2>1. trPtr < TrCap \/ ~(trPtr < TrCap)
    OBVIOUS
  <2>2. iff' \in BOOLEAN
    BY <1>3, <2>1, Zenon DEF CallLoad, TypeOK
  <2>3. /\ hl' \in [Level -> Int] /\ pc' \in [Level -> Point]
    BY <1>3 DEF CallLoad, TypeOK, Point, CallPoint, RtsPoint, FarPoint, AfterPoint, TailPoint, Running, Goto, memVars, irqVars, regVars, specVars
  <2> QED BY <1>3, <2>2, <2>3 DEF CallLoad, TypeOK, Point, CallPoint, RtsPoint, FarPoint, AfterPoint, TailPoint, Running, Goto, memVars, irqVars, regVars, specVars
<1>4. CASE CallReserve
  <2>1. hl[depth] = trPtr /\ trPtr < TrCap /\ trPtr \in 0 .. TrCap
    BY <1>4, Indices DEF CallReserve, Running, TypeOK
  <2>2. trPtr' = trPtr + 1 /\ TrCap \in Nat
    BY <1>4, <2>1, CapAssumption DEF CallReserve
  <2>3. trPtr' \in 0 .. TrCap
    BY <2>1, <2>2
  <2> QED BY <1>4, <2>3 DEF CallReserve, TypeOK, Point, CallPoint, RtsPoint, FarPoint, AfterPoint, TailPoint, Running, Goto, memVars, irqVars, regVars, specVars
<1>5. CASE CallFill
  BY <1>5 DEF CallFill, TypeOK, Point, CallPoint, RtsPoint, FarPoint, AfterPoint, TailPoint, Running, Goto, memVars, irqVars, regVars, specVars
<1>6. CASE CallShadow
  BY <1>6 DEF CallShadow, TypeOK, Point, CallPoint, RtsPoint, FarPoint, AfterPoint, TailPoint, Running, Goto, memVars, irqVars, regVars, specVars
<1>7. CASE CallSlot
  BY <1>7 DEF CallSlot, TypeOK, Point, CallPoint, RtsPoint, FarPoint, AfterPoint, TailPoint, Running, Goto, memVars, irqVars, regVars, specVars
<1>8. CASE CallEnter
  <2>1. hl[depth] \in 0 .. TrCap - 1
    BY <1>8, Indices DEF CallEnter, Running
  <2>2. trMem[hl[depth]].a \in Acc \cup {Junk}
    BY <2>1 DEF TypeOK
  <2> QED BY <1>8, <2>2 DEF CallEnter, TypeOK, Point, CallPoint, RtsPoint, FarPoint, AfterPoint, TailPoint, Running, Goto, memVars, irqVars, regVars, specVars
<1>9. CASE RtsPop
  <2>1. hl[depth] \in 0 .. TrCap - 1
    BY <1>9, Indices DEF RtsPop, Running, RtsPoint
  <2>2. trMem[hl[depth]] \in [a : Acc \cup {Junk}, cont : Routine, bank : Bank]
    BY <2>1 DEF TypeOK
  <2>3. [trMem[hl[depth]] EXCEPT !.a = acc[depth]]
           \in [a : Acc \cup {Junk}, cont : Routine, bank : Bank]
    BY <2>2 DEF TypeOK
  <2>4. trMem' \in [0 .. TrCap - 1 ->
                     [a : Acc \cup {Junk}, cont : Routine, bank : Bank]]
    BY <1>9, <2>3 DEF RtsPop, TypeOK
  <2> QED BY <1>9, <2>2, <2>4, SMTT(30) DEF RtsPop, TypeOK, Point, CallPoint, RtsPoint, FarPoint, AfterPoint, TailPoint, Running, Goto, memVars, irqVars, regVars, specVars
<1>10. CASE RtsSlot
  BY <1>10 DEF RtsSlot, TypeOK, Point, CallPoint, RtsPoint, FarPoint, AfterPoint, TailPoint, Running, Goto, memVars, irqVars, regVars, specVars
<1>11. CASE RtsPublish
  <2>1. hl[depth] \in 0 .. TrCap - 1
    BY <1>11, Indices DEF RtsPublish, Running, RtsPoint
  <2>2. trMem[hl[depth]].a \in Acc \cup {Junk}
    BY <2>1 DEF TypeOK
  <2>3. hl[depth] \in 0 .. TrCap
    BY <2>1, CapAssumption
  <2> QED BY <1>11, <2>2, <2>3 DEF RtsPublish, TypeOK, Point, CallPoint, RtsPoint, FarPoint, AfterPoint, TailPoint, Running, Goto, memVars, irqVars, regVars, specVars
<1>12. CASE DispatchSpill
  BY <1>12 DEF DispatchSpill, TypeOK, Point, CallPoint, RtsPoint, FarPoint, AfterPoint, TailPoint, Running, Goto, memVars, irqVars, regVars, specVars
<1>13. CASE DispatchKey
  BY <1>13 DEF DispatchKey, TypeOK, Point, CallPoint, RtsPoint, FarPoint, AfterPoint, TailPoint, Running, Goto, memVars, irqVars, regVars, specVars
<1>14. CASE DispatchLabel
  BY <1>14 DEF DispatchLabel, TypeOK, Point, CallPoint, RtsPoint, FarPoint, AfterPoint, TailPoint, Running, Goto, memVars, irqVars, regVars, specVars
<1>15. CASE DispatchBank
  BY <1>15 DEF DispatchBank, TypeOK, Point, CallPoint, RtsPoint, FarPoint, AfterPoint, TailPoint, Running, Goto, memVars, irqVars, regVars, specVars
<1>16. CASE DispatchSlow
  BY <1>16 DEF DispatchSlow, TypeOK, Point, CallPoint, RtsPoint, FarPoint, AfterPoint, TailPoint, Running, Goto, memVars, irqVars, regVars, specVars
<1>17. CASE FarLoad
  BY <1>17 DEF FarLoad, TypeOK, Point, CallPoint, RtsPoint, FarPoint, AfterPoint, TailPoint, Running, Goto, memVars, irqVars, regVars, specVars
<1>18. CASE FarReserve
  <2>1. hl[depth] = farPtr /\ farPtr + 1 \in Nat
    BY <1>18, Indices DEF FarReserve, Running, TypeOK
  <2> QED BY <1>18, <2>1 DEF FarReserve, TypeOK, Point, CallPoint, RtsPoint, FarPoint, AfterPoint, TailPoint, Running, Goto, memVars, irqVars, regVars, specVars
<1>19. CASE FarSave
  <2>1. hl[depth] \in Nat
    BY <1>19, Indices DEF FarSave, Running
  <2>2. DOMAIN farMem' \subseteq Nat /\ farMem' \in [DOMAIN farMem' -> Bank]
    BY <1>19, <2>1 DEF FarSave, WithEntry, TypeOK
  <2> QED BY <1>19, <2>2 DEF FarSave, TypeOK, Point, CallPoint, RtsPoint, FarPoint, AfterPoint, TailPoint, Running, Goto, memVars, irqVars, regVars, specVars
<1>20. CASE FarShadow
  BY <1>20 DEF FarShadow, TypeOK, Point, CallPoint, RtsPoint, FarPoint, AfterPoint, TailPoint, Running, Goto, memVars, irqVars, regVars, specVars
<1>21. CASE FarSlot
  BY <1>21 DEF FarSlot, TypeOK, Point, CallPoint, RtsPoint, FarPoint, AfterPoint, TailPoint, Running, Goto, memVars, irqVars, regVars, specVars
<1>22. CASE FarEnter
  BY <1>22 DEF FarEnter, TypeOK, Point, CallPoint, RtsPoint, FarPoint, AfterPoint, TailPoint, Running, Goto, memVars, irqVars, regVars, specVars
<1>23. CASE RtsDispatchSpill
  BY <1>23 DEF RtsDispatchSpill, TypeOK, Point, CallPoint, RtsPoint, FarPoint, AfterPoint, TailPoint, Running, Goto, memVars, irqVars, regVars, specVars
<1>24. CASE RtsDispatchLoad
  BY <1>24 DEF RtsDispatchLoad, TypeOK, Point, CallPoint, RtsPoint, FarPoint, AfterPoint, TailPoint, Running, Goto, memVars, irqVars, regVars, specVars
<1>25. CASE TailDispatch
  BY <1>25 DEF TailDispatch, TypeOK, Point, CallPoint, RtsPoint, FarPoint, AfterPoint, TailPoint, Running, Goto, memVars, irqVars, regVars, specVars
<1>26. CASE Rti
  BY <1>26 DEF Rti, TypeOK, Point, CallPoint, RtsPoint, FarPoint, AfterPoint, TailPoint, Running, Goto, memVars, irqVars, regVars, specVars
<1>27. CASE NativeRet
  <2>1. native' \in [Level -> Seq(Nat)]
    <3>1. CASE native[depth] = << >>
      BY <1>27, <3>1 DEF NativeRet, TypeOK
    <3>2. CASE native[depth] # << >>
      <4>1. native[depth] \in Seq(Nat) /\ Len(native[depth]) >= 1
        BY <3>2 DEF TypeOK
      <4>2. SubSeq(native[depth], 1, Len(native[depth]) - 1) \in Seq(Nat)
        BY <4>1, DropType
      <4> QED BY <1>27, <3>2, <4>2 DEF NativeRet, TypeOK
    <3> QED BY <3>1, <3>2
  <2>2. pc' = [pc EXCEPT ![depth] = "bridge"] \/ pc' = [pc EXCEPT ![depth] = "fa_read"]
    BY <1>27 DEF NativeRet, Goto
  <2> QED BY <1>27, <2>1, <2>2, ZenonT(40) DEF NativeRet, TypeOK, Point, CallPoint, RtsPoint, FarPoint, AfterPoint, TailPoint, Running, Goto, memVars, irqVars, regVars, specVars
<1>28. CASE AfterRead
  <2>1. PICK b \in IF FarEntry(farPtr - 1) = {} THEN Bank ELSE FarEntry(farPtr - 1) :
          bk' = [bk EXCEPT ![depth] = b]
    BY <1>28 DEF AfterRead
  <2>2. b \in Bank
    BY <2>1 DEF FarEntry, TypeOK
  <2>3. farPtr - 1 \in Nat
    BY <1>28, Indices DEF AfterRead, Running
  <2> QED BY <1>28, <2>1, <2>2, <2>3, SMTT(30) DEF AfterRead, TypeOK, Point, CallPoint, RtsPoint, FarPoint, AfterPoint, TailPoint, Running, Goto, memVars, irqVars, regVars, specVars
<1>29. CASE AfterPublish
  BY <1>29, Indices, SMTT(30) DEF AfterPublish, TypeOK, Point, CallPoint, RtsPoint, FarPoint, AfterPoint, TailPoint, Running, Goto, memVars, irqVars, regVars, specVars
<1>30. CASE AfterShadow
  BY <1>30 DEF AfterShadow, TypeOK, Point, CallPoint, RtsPoint, FarPoint, AfterPoint, TailPoint, Running, Goto, memVars, irqVars, regVars, specVars
<1>31. CASE AfterSlot
  BY <1>31 DEF AfterSlot, TypeOK, Point, CallPoint, RtsPoint, FarPoint, AfterPoint, TailPoint, Running, Goto, memVars, irqVars, regVars, specVars
<1>32. CASE BridgeReturn
  <2>1. depth' \in Level /\ depth \in 1 .. MaxDepth
    <3>1. pc[depth] \in AfterPoint
      BY <1>32 DEF BridgeReturn, Running, AfterPoint
    <3> QED BY <1>32, <3>1, Indices, SMTT(40) DEF BridgeReturn, TypeOK, Level, MaxDepth
  <2>2. /\ farA' \in Acc \cup {Junk}
        /\ bankShadow' \in Bank /\ slot1' \in Bank
    BY <1>32, <2>1 DEF BridgeReturn, TypeOK
  <2>3. <<Reset>> \in Seq(Routine)
    OBVIOUS
  <2>4. /\ want' \in [Level -> Seq(Routine)]
        /\ entry' \in [Level -> [tr : Nat, far : Nat]]
        /\ to' \in [Level -> Routine] /\ at' \in [Level -> Routine]
        /\ bk' \in [Level -> Bank] /\ hl' \in [Level -> Int]
        /\ acc' \in [Level -> Acc \cup {Junk}]
        /\ wantA' \in [Level -> Acc \cup {Junk}]
        /\ pc' \in [Level -> Point]
    BY <1>32, <2>3 DEF BridgeReturn, Goto, TypeOK, Point
  <2> QED BY <1>32, <2>1, <2>2, <2>4 DEF BridgeReturn, TypeOK, Point, CallPoint, RtsPoint, FarPoint, AfterPoint, TailPoint, Running, Goto, memVars, irqVars, regVars, specVars
<1>33. CASE FrameIrqDeliver
  <2>1. depth + 1 \in Level /\ depth + 1 \in 1 .. MaxDepth
    BY <1>33, SMTT(40) DEF FrameIrqDeliver, Delivers, TypeOK, Level, MaxDepth
  <2>2. nmiStarted' \in BOOLEAN
    BY <1>33, Zenon DEF FrameIrqDeliver, TypeOK
  <2>3. /\ want' \in [Level -> Seq(Routine)] /\ native' \in [Level -> Seq(Nat)]
    BY <1>33, <2>1, SMTT(30) DEF FrameIrqDeliver, TypeOK
  <2>4. entry' \in [Level -> [tr : Nat, far : Nat]]
    BY <1>33, <2>1 DEF FrameIrqDeliver, TypeOK
  <2> QED BY <1>33, <2>1, <2>2, <2>3, <2>4 DEF FrameIrqDeliver, TypeOK, Point, CallPoint, RtsPoint, FarPoint, AfterPoint, TailPoint, Running, Goto, memVars, irqVars, regVars, specVars
<1>34. CASE FrameIrqSkip
  BY <1>34 DEF FrameIrqSkip, TypeOK, Point, CallPoint, RtsPoint, FarPoint, AfterPoint, TailPoint, Running, Goto, memVars, irqVars, regVars, specVars
<1>35. CASE LineIrq
  BY <1>35 DEF LineIrq, TypeOK, Point, CallPoint, RtsPoint, FarPoint, AfterPoint, TailPoint, Running, Goto, memVars, irqVars, regVars, specVars
<1>36. ASSUME NEW r \in Callee, NEW v \in Acc, Jsr(r, v) PROVE TypeOK'
  BY <1>36, SMTT(30) DEF Jsr, TypeOK, Point, CallPoint, RtsPoint, FarPoint, AfterPoint, TailPoint, Running, Goto, memVars, irqVars, regVars, specVars
<1>37. ASSUME NEW r \in Callee, NEW v \in Acc, BankedDispatch(r, v) PROVE TypeOK'
  <2>1. want[depth] \in Seq(Routine) /\ want[depth] # << >> /\ r \in Routine
    BY DEF TypeOK, StacksOwned, Context
  <2>2. Become(want[depth], r) \in Seq(Routine)
    BY <2>1, BecomeType
  <2>3. want' \in [Level -> Seq(Routine)]
    BY <1>37, <2>2 DEF BankedDispatch, TypeOK
  <2> QED BY <1>37, <2>3, SMTT(30) DEF BankedDispatch, TypeOK, Point, CallPoint, RtsPoint, FarPoint, AfterPoint, TailPoint, Running, Goto, memVars, irqVars, regVars, specVars
<1>38. ASSUME NEW r \in Callee, NEW v \in Acc, IndirectJmp(r, v) PROVE TypeOK'
  <2>1. want[depth] \in Seq(Routine) /\ want[depth] # << >> /\ r \in Routine
    BY DEF TypeOK, StacksOwned, Context
  <2>2. Become(want[depth], r) \in Seq(Routine)
    BY <2>1, BecomeType
  <2>3. want' \in [Level -> Seq(Routine)]
    BY <1>38, <2>2 DEF IndirectJmp, TypeOK
  <2> QED BY <1>38, <2>3, SMTT(30) DEF IndirectJmp, TypeOK, Point, CallPoint, RtsPoint, FarPoint, AfterPoint, TailPoint, Running, Goto, memVars, irqVars, regVars, specVars
<1>39. ASSUME NEW r \in Callee, NEW v \in Acc, RtsDispatch(r, v) PROVE TypeOK'
  <2>1. want[depth] \in Seq(Routine) /\ want[depth] # << >> /\ r \in Routine
    BY DEF TypeOK, StacksOwned, Context
  <2>2. Become(want[depth], r) \in Seq(Routine)
    BY <2>1, BecomeType
  <2>3. want' \in [Level -> Seq(Routine)]
    BY <1>39, <2>2 DEF RtsDispatch, TypeOK
  <2> QED BY <1>39, <2>3, SMTT(30) DEF RtsDispatch, TypeOK, Point, CallPoint, RtsPoint, FarPoint, AfterPoint, TailPoint, Running, Goto, memVars, irqVars, regVars, specVars
<1>40. ASSUME NEW v \in Acc, Rts(v) PROVE TypeOK'
  BY <1>40, SMTT(40) DEF Rts, TypeOK, Point, CallPoint, RtsPoint, FarPoint, AfterPoint, TailPoint, Running, Goto, memVars, irqVars, regVars, specVars
<1>41. ASSUME NEW b \in BOOLEAN, WriteNmiEnable(b) PROVE TypeOK'
  BY <1>41 DEF WriteNmiEnable, TypeOK, Point, CallPoint, RtsPoint, FarPoint, AfterPoint, TailPoint, Running, Goto, memVars, irqVars, regVars, specVars
<1>42. CASE UNCHANGED vars
  BY <1>42 DEF vars, TypeOK, Point, CallPoint, RtsPoint, FarPoint, AfterPoint, TailPoint, Running, Goto, memVars, irqVars, regVars, specVars
<1> QED
  BY <1>1, <1>2, <1>3, <1>4, <1>5, <1>6, <1>7, <1>8, <1>9, <1>10, <1>11, <1>12, <1>13, <1>14, <1>15, <1>16, <1>17, <1>18, <1>19, <1>20, <1>21, <1>22, <1>23, <1>24, <1>25, <1>26, <1>27, <1>28, <1>29, <1>30, <1>31, <1>32, <1>33, <1>34, <1>35, <1>36, <1>37, <1>38, <1>39, <1>40, <1>41, <1>42
     DEF Next, Transfer, CallStep, RtsStep, FarStep, TailStep, AfterStep, Irq

\* A step of the running context changes only its own share of the stacks; an
\* interrupt starts a context with an empty share on top of it.
LEMMA StacksStep == TypeOK /\ StacksOwned /\ [Next]_vars => StacksOwned'
<1> SUFFICES ASSUME TypeOK, StacksOwned, [Next]_vars PROVE StacksOwned'
  OBVIOUS
<1> USE CapAssumption
<1> DEFINE Elsewhere ==
      /\ depth' = depth /\ entry' = entry
      /\ \A l \in Level : l # depth =>
            /\ pc'[l] = pc[l] /\ hl'[l] = hl[l]
            /\ want'[l] = want[l] /\ native'[l] = native[l]
<1> DEFINE InLine ==
      /\ trPtr' = entry'[depth].tr + TrOwned(depth)'
      /\ farPtr' = entry'[depth].far + FarOwned(depth)'
<1>0. /\ depth \in Level /\ Context(depth)
      /\ pc \in [Level -> Point] /\ hl \in [Level -> Int]
      /\ want \in [Level -> Seq(Routine)] /\ native \in [Level -> Seq(Nat)]
      /\ Len(want[depth]) \in Nat /\ Len(native[depth]) \in Nat
      /\ trPtr \in 0 .. TrCap /\ farPtr \in Nat
      /\ entry[depth].tr \in Nat /\ entry[depth].far \in Nat
      /\ trPtr = entry[depth].tr + TrOwned(depth)
      /\ farPtr = entry[depth].far + FarOwned(depth)
  BY SMTT(30) DEF StacksOwned, TypeOK
<1>same. ASSUME UNCHANGED <<trPtr, farPtr, depth, pc, hl, native, want, entry>>
         PROVE  StacksOwned'
  BY <1>same, ZenonT(40) DEF StacksOwned, Context, TrOwned, FarOwned
<1>1. CASE SpuriousEntry
  BY <1>1, <1>same DEF SpuriousEntry, memVars, irqVars, regVars, specVars
<1>2. CASE FrameIrqSkip
  BY <1>2, <1>same DEF FrameIrqSkip, memVars, irqVars, regVars, specVars
<1>3. CASE LineIrq
  BY <1>3, <1>same DEF LineIrq, memVars, irqVars, regVars, specVars
<1>4. ASSUME NEW b \in BOOLEAN, WriteNmiEnable(b) PROVE StacksOwned'
  BY <1>4, <1>same DEF WriteNmiEnable, memVars, irqVars, regVars, specVars
<1>5. CASE UNCHANGED vars
  BY <1>5, <1>same DEF vars, memVars, irqVars, regVars, specVars
<1>6. CASE CallLoad
  <2>1. Elsewhere
    BY <1>6, <1>0 DEF CallLoad, Goto, memVars, irqVars, regVars, specVars
  <2>2. InLine
    BY <1>6, <1>0, Indices DEF CallLoad, Goto, Running, memVars, irqVars, regVars, specVars, TrOwned, FarOwned, CallPoint, RtsPoint, AfterPoint
  <2>3. Context(depth)'
    BY <1>6, <1>0, Indices DEF CallLoad, Goto, Running, memVars, irqVars, regVars, specVars, Context, TrOwned, FarOwned, CallPoint, RtsPoint, AfterPoint
  <2> QED BY <2>1, <2>2, <2>3, OneContext
<1>7. CASE CallReserve
  <2>1. Elsewhere
    BY <1>7, <1>0 DEF CallReserve, Goto, memVars, irqVars, regVars, specVars
  <2>2. InLine
    BY <1>7, <1>0, Indices, SMTT(40) DEF CallReserve, Goto, Running, memVars, irqVars, regVars, specVars, TrOwned, FarOwned, CallPoint, RtsPoint, AfterPoint
  <2>3. Context(depth)'
    BY <1>7, <1>0, Indices DEF CallReserve, Goto, Running, memVars, irqVars, regVars, specVars, Context, TrOwned, FarOwned, CallPoint, RtsPoint, AfterPoint
  <2> QED BY <2>1, <2>2, <2>3, OneContext
<1>8. CASE CallFill
  <2>1. Elsewhere
    BY <1>8, <1>0 DEF CallFill, Goto, memVars, irqVars, regVars, specVars
  <2>2. InLine
    BY <1>8, <1>0, Indices DEF CallFill, Goto, Running, memVars, irqVars, regVars, specVars, TrOwned, FarOwned, CallPoint, RtsPoint, AfterPoint
  <2>3. Context(depth)'
    BY <1>8, <1>0, Indices DEF CallFill, Goto, Running, memVars, irqVars, regVars, specVars, Context, TrOwned, FarOwned, CallPoint, RtsPoint, AfterPoint
  <2> QED BY <2>1, <2>2, <2>3, OneContext
<1>9. CASE CallShadow
  <2>1. Elsewhere
    BY <1>9, <1>0 DEF CallShadow, Goto, memVars, irqVars, regVars, specVars
  <2>2. InLine
    BY <1>9, <1>0, Indices DEF CallShadow, Goto, Running, memVars, irqVars, regVars, specVars, TrOwned, FarOwned, CallPoint, RtsPoint, AfterPoint
  <2>3. Context(depth)'
    BY <1>9, <1>0, Indices DEF CallShadow, Goto, Running, memVars, irqVars, regVars, specVars, Context, TrOwned, FarOwned, CallPoint, RtsPoint, AfterPoint
  <2> QED BY <2>1, <2>2, <2>3, OneContext
<1>10. CASE CallSlot
  <2>1. Elsewhere
    BY <1>10, <1>0 DEF CallSlot, Goto, memVars, irqVars, regVars, specVars
  <2>2. InLine
    BY <1>10, <1>0, Indices DEF CallSlot, Goto, Running, memVars, irqVars, regVars, specVars, TrOwned, FarOwned, CallPoint, RtsPoint, AfterPoint
  <2>3. Context(depth)'
    BY <1>10, <1>0, Indices DEF CallSlot, Goto, Running, memVars, irqVars, regVars, specVars, Context, TrOwned, FarOwned, CallPoint, RtsPoint, AfterPoint
  <2> QED BY <2>1, <2>2, <2>3, OneContext
<1>11. CASE CallEnter
  <2>1. Elsewhere
    BY <1>11, <1>0 DEF CallEnter, Goto, memVars, irqVars, regVars, specVars
  <2>2. InLine
    BY <1>11, <1>0, Indices DEF CallEnter, Goto, Running, memVars, irqVars, regVars, specVars, TrOwned, FarOwned, CallPoint, RtsPoint, AfterPoint
  <2>3. Context(depth)'
    BY <1>11, <1>0, Indices DEF CallEnter, Goto, Running, memVars, irqVars, regVars, specVars, Context, TrOwned, FarOwned, CallPoint, RtsPoint, AfterPoint
  <2> QED BY <2>1, <2>2, <2>3, OneContext
<1>12. CASE RtsPop
  <2>1. Elsewhere
    BY <1>12, <1>0 DEF RtsPop, Goto, memVars, irqVars, regVars, specVars
  <2>2. InLine
    BY <1>12, <1>0, Indices DEF RtsPop, Goto, Running, memVars, irqVars, regVars, specVars, TrOwned, FarOwned, CallPoint, RtsPoint, AfterPoint
  <2>3. Context(depth)'
    BY <1>12, <1>0, Indices DEF RtsPop, Goto, Running, memVars, irqVars, regVars, specVars, Context, TrOwned, FarOwned, CallPoint, RtsPoint, AfterPoint
  <2> QED BY <2>1, <2>2, <2>3, OneContext
<1>13. CASE RtsSlot
  <2>1. Elsewhere
    BY <1>13, <1>0 DEF RtsSlot, Goto, memVars, irqVars, regVars, specVars
  <2>2. InLine
    BY <1>13, <1>0, Indices DEF RtsSlot, Goto, Running, memVars, irqVars, regVars, specVars, TrOwned, FarOwned, CallPoint, RtsPoint, AfterPoint
  <2>3. Context(depth)'
    BY <1>13, <1>0, Indices DEF RtsSlot, Goto, Running, memVars, irqVars, regVars, specVars, Context, TrOwned, FarOwned, CallPoint, RtsPoint, AfterPoint
  <2> QED BY <2>1, <2>2, <2>3, OneContext
<1>14. CASE RtsPublish
  <2>1. Elsewhere
    BY <1>14, <1>0 DEF RtsPublish, Goto, memVars, irqVars, regVars, specVars
  <2>2. InLine
    BY <1>14, <1>0, Indices, SMTT(30) DEF RtsPublish, Goto, Running, memVars, irqVars, regVars, specVars, TrOwned, FarOwned, CallPoint, RtsPoint, AfterPoint
  <2>3. Context(depth)'
    BY <1>14, <1>0, Indices DEF RtsPublish, Goto, Running, memVars, irqVars, regVars, specVars, Context, TrOwned, FarOwned, CallPoint, RtsPoint, AfterPoint
  <2> QED BY <2>1, <2>2, <2>3, OneContext
<1>15. CASE DispatchSpill
  <2>1. Elsewhere
    BY <1>15, <1>0 DEF DispatchSpill, Goto, memVars, irqVars, regVars, specVars
  <2>2. InLine
    BY <1>15, <1>0, Indices DEF DispatchSpill, Goto, Running, memVars, irqVars, regVars, specVars, TrOwned, FarOwned, CallPoint, RtsPoint, AfterPoint
  <2>3. Context(depth)'
    BY <1>15, <1>0, Indices DEF DispatchSpill, Goto, Running, memVars, irqVars, regVars, specVars, Context, TrOwned, FarOwned, CallPoint, RtsPoint, AfterPoint
  <2> QED BY <2>1, <2>2, <2>3, OneContext
<1>16. CASE DispatchKey
  <2>1. Elsewhere
    BY <1>16, <1>0 DEF DispatchKey, Goto, memVars, irqVars, regVars, specVars
  <2>2. InLine
    BY <1>16, <1>0, Indices DEF DispatchKey, Goto, Running, memVars, irqVars, regVars, specVars, TrOwned, FarOwned, CallPoint, RtsPoint, AfterPoint
  <2>3. Context(depth)'
    BY <1>16, <1>0, Indices DEF DispatchKey, Goto, Running, memVars, irqVars, regVars, specVars, Context, TrOwned, FarOwned, CallPoint, RtsPoint, AfterPoint
  <2> QED BY <2>1, <2>2, <2>3, OneContext
<1>17. CASE DispatchLabel
  <2>1. Elsewhere
    BY <1>17, <1>0 DEF DispatchLabel, Goto, memVars, irqVars, regVars, specVars
  <2>2. InLine
    BY <1>17, <1>0, Indices DEF DispatchLabel, Goto, Running, memVars, irqVars, regVars, specVars, TrOwned, FarOwned, CallPoint, RtsPoint, AfterPoint
  <2>3. Context(depth)'
    BY <1>17, <1>0, Indices DEF DispatchLabel, Goto, Running, memVars, irqVars, regVars, specVars, Context, TrOwned, FarOwned, CallPoint, RtsPoint, AfterPoint
  <2> QED BY <2>1, <2>2, <2>3, OneContext
<1>18. CASE DispatchBank
  <2>1. Elsewhere
    BY <1>18, <1>0 DEF DispatchBank, Goto, memVars, irqVars, regVars, specVars
  <2>2. InLine
    BY <1>18, <1>0, Indices DEF DispatchBank, Goto, Running, memVars, irqVars, regVars, specVars, TrOwned, FarOwned, CallPoint, RtsPoint, AfterPoint
  <2>3. Context(depth)'
    BY <1>18, <1>0, Indices DEF DispatchBank, Goto, Running, memVars, irqVars, regVars, specVars, Context, TrOwned, FarOwned, CallPoint, RtsPoint, AfterPoint
  <2> QED BY <2>1, <2>2, <2>3, OneContext
<1>19. CASE DispatchSlow
  <2>1. Elsewhere
    BY <1>19, <1>0 DEF DispatchSlow, Goto, memVars, irqVars, regVars, specVars
  <2>2. InLine
    BY <1>19, <1>0, Indices DEF DispatchSlow, Goto, Running, memVars, irqVars, regVars, specVars, TrOwned, FarOwned, CallPoint, RtsPoint, AfterPoint
  <2>3. Context(depth)'
    BY <1>19, <1>0, Indices DEF DispatchSlow, Goto, Running, memVars, irqVars, regVars, specVars, Context, TrOwned, FarOwned, CallPoint, RtsPoint, AfterPoint
  <2> QED BY <2>1, <2>2, <2>3, OneContext
<1>20. CASE FarLoad
  <2>1. Elsewhere
    BY <1>20, <1>0 DEF FarLoad, Goto, memVars, irqVars, regVars, specVars
  <2>2. InLine
    BY <1>20, <1>0, Indices DEF FarLoad, Goto, Running, memVars, irqVars, regVars, specVars, TrOwned, FarOwned, CallPoint, RtsPoint, AfterPoint
  <2>3. Context(depth)'
    BY <1>20, <1>0, Indices DEF FarLoad, Goto, Running, memVars, irqVars, regVars, specVars, Context, TrOwned, FarOwned, CallPoint, RtsPoint, AfterPoint
  <2> QED BY <2>1, <2>2, <2>3, OneContext
<1>21. CASE FarReserve
  <2>1. Elsewhere
    BY <1>21, <1>0 DEF FarReserve, Goto, memVars, irqVars, regVars, specVars
  <2>2. hl[depth] = farPtr
    BY <1>21, Indices DEF FarReserve, Running
  <2>3. FarOwned(depth)' = FarOwned(depth) + 1 /\ TrOwned(depth)' = TrOwned(depth)
    BY <1>21, <1>0 DEF FarReserve, Goto, Running, memVars, irqVars, regVars, specVars, TrOwned, FarOwned, RtsPoint
  <2>4. farPtr' = farPtr + 1 /\ trPtr' = trPtr /\ entry' = entry
    BY <1>21, <2>2 DEF FarReserve, memVars, irqVars, regVars, specVars
  <2>5. FarOwned(depth) \in Int
    BY <1>0 DEF FarOwned
  <2>6. InLine
    <3>1. /\ farPtr = entry[depth].far + FarOwned(depth) /\ entry[depth].far \in Nat
          /\ trPtr = entry[depth].tr + TrOwned(depth)
      BY <1>0
    <3>2. farPtr' = entry[depth].far + (FarOwned(depth) + 1)
      BY <2>4, <2>5, <3>1
    <3> QED BY <2>3, <2>4, <3>1, <3>2
  <2>7. Context(depth)'
    BY <1>21, <1>0, Indices DEF FarReserve, Goto, Running, memVars, irqVars, regVars, specVars, Context, TrOwned, FarOwned, CallPoint, RtsPoint, AfterPoint
  <2> QED BY <2>1, <2>6, <2>7, OneContext
<1>22. CASE FarSave
  <2>1. Elsewhere
    BY <1>22, <1>0 DEF FarSave, Goto, memVars, irqVars, regVars, specVars
  <2>2. InLine
    BY <1>22, <1>0, Indices DEF FarSave, Goto, Running, memVars, irqVars, regVars, specVars, TrOwned, FarOwned, CallPoint, RtsPoint, AfterPoint
  <2>3. Context(depth)'
    BY <1>22, <1>0, Indices DEF FarSave, Goto, Running, memVars, irqVars, regVars, specVars, Context, TrOwned, FarOwned, CallPoint, RtsPoint, AfterPoint
  <2> QED BY <2>1, <2>2, <2>3, OneContext
<1>23. CASE FarShadow
  <2>1. Elsewhere
    BY <1>23, <1>0 DEF FarShadow, Goto, memVars, irqVars, regVars, specVars
  <2>2. InLine
    BY <1>23, <1>0, Indices DEF FarShadow, Goto, Running, memVars, irqVars, regVars, specVars, TrOwned, FarOwned, CallPoint, RtsPoint, AfterPoint
  <2>3. Context(depth)'
    BY <1>23, <1>0, Indices DEF FarShadow, Goto, Running, memVars, irqVars, regVars, specVars, Context, TrOwned, FarOwned, CallPoint, RtsPoint, AfterPoint
  <2> QED BY <2>1, <2>2, <2>3, OneContext
<1>24. CASE FarSlot
  <2>1. Elsewhere
    BY <1>24, <1>0 DEF FarSlot, Goto, memVars, irqVars, regVars, specVars
  <2>2. InLine
    BY <1>24, <1>0, Indices DEF FarSlot, Goto, Running, memVars, irqVars, regVars, specVars, TrOwned, FarOwned, CallPoint, RtsPoint, AfterPoint
  <2>3. Context(depth)'
    BY <1>24, <1>0, Indices DEF FarSlot, Goto, Running, memVars, irqVars, regVars, specVars, Context, TrOwned, FarOwned, CallPoint, RtsPoint, AfterPoint
  <2> QED BY <2>1, <2>2, <2>3, OneContext
<1>25. CASE FarEnter
  <2>1. Elsewhere
    BY <1>25, <1>0 DEF FarEnter, Goto, memVars, irqVars, regVars, specVars
  <2>2. InLine
    BY <1>25, <1>0, Indices DEF FarEnter, Goto, Running, memVars, irqVars, regVars, specVars, TrOwned, FarOwned, CallPoint, RtsPoint, AfterPoint
  <2>3. Context(depth)'
    BY <1>25, <1>0, Indices DEF FarEnter, Goto, Running, memVars, irqVars, regVars, specVars, Context, TrOwned, FarOwned, CallPoint, RtsPoint, AfterPoint
  <2> QED BY <2>1, <2>2, <2>3, OneContext
<1>26. CASE RtsDispatchSpill
  <2>1. Elsewhere
    BY <1>26, <1>0 DEF RtsDispatchSpill, Goto, memVars, irqVars, regVars, specVars
  <2>2. InLine
    BY <1>26, <1>0, Indices DEF RtsDispatchSpill, Goto, Running, memVars, irqVars, regVars, specVars, TrOwned, FarOwned, CallPoint, RtsPoint, AfterPoint
  <2>3. Context(depth)'
    BY <1>26, <1>0, Indices DEF RtsDispatchSpill, Goto, Running, memVars, irqVars, regVars, specVars, Context, TrOwned, FarOwned, CallPoint, RtsPoint, AfterPoint
  <2> QED BY <2>1, <2>2, <2>3, OneContext
<1>27. CASE RtsDispatchLoad
  <2>1. Elsewhere
    BY <1>27, <1>0 DEF RtsDispatchLoad, Goto, memVars, irqVars, regVars, specVars
  <2>2. InLine
    BY <1>27, <1>0, Indices DEF RtsDispatchLoad, Goto, Running, memVars, irqVars, regVars, specVars, TrOwned, FarOwned, CallPoint, RtsPoint, AfterPoint
  <2>3. Context(depth)'
    BY <1>27, <1>0, Indices DEF RtsDispatchLoad, Goto, Running, memVars, irqVars, regVars, specVars, Context, TrOwned, FarOwned, CallPoint, RtsPoint, AfterPoint
  <2> QED BY <2>1, <2>2, <2>3, OneContext
<1>28. CASE TailDispatch
  <2>1. Elsewhere
    BY <1>28, <1>0 DEF TailDispatch, Goto, memVars, irqVars, regVars, specVars
  <2>2. InLine
    BY <1>28, <1>0, Indices DEF TailDispatch, Goto, Running, memVars, irqVars, regVars, specVars, TrOwned, FarOwned, CallPoint, RtsPoint, AfterPoint
  <2>3. Context(depth)'
    BY <1>28, <1>0, Indices DEF TailDispatch, Goto, Running, memVars, irqVars, regVars, specVars, Context, TrOwned, FarOwned, CallPoint, RtsPoint, AfterPoint
  <2> QED BY <2>1, <2>2, <2>3, OneContext
<1>29. CASE Rti
  <2>1. Elsewhere
    BY <1>29, <1>0 DEF Rti, Goto, memVars, irqVars, regVars, specVars
  <2>2. InLine
    BY <1>29, <1>0, Indices DEF Rti, Goto, Running, memVars, irqVars, regVars, specVars, TrOwned, FarOwned, CallPoint, RtsPoint, AfterPoint
  <2>3. Context(depth)'
    BY <1>29, <1>0, Indices DEF Rti, Goto, Running, memVars, irqVars, regVars, specVars, Context, TrOwned, FarOwned, CallPoint, RtsPoint, AfterPoint
  <2> QED BY <2>1, <2>2, <2>3, OneContext
<1>30. CASE NativeRet
  <2>1. Elsewhere
    BY <1>30, <1>0 DEF NativeRet, Goto, memVars, irqVars, regVars, specVars
  <2>2. TrOwned(depth)' = TrOwned(depth) /\ FarOwned(depth)' = FarOwned(depth)
    <3>1. CASE native[depth] = << >>
      BY <1>30, <1>0, <3>1 DEF NativeRet, Goto, Running, memVars, irqVars, regVars, specVars, TrOwned, FarOwned, RtsPoint
    <3>2. CASE native[depth] # << >>
      <4>1. Len(native[depth]) >= 1
        BY <1>0, <3>2
      <4>2. Len(SubSeq(native[depth], 1, Len(native[depth]) - 1)) = Len(native[depth]) - 1
        BY <1>0, <4>1, DropType
      <4>3. Len(native'[depth]) = Len(native[depth]) - 1 /\ pc'[depth] = "fa_read"
        BY <1>30, <1>0, <3>2, <4>2 DEF NativeRet, Goto
      <4> QED BY <1>30, <1>0, <4>3 DEF NativeRet, Running, memVars, irqVars, regVars, specVars, TrOwned, FarOwned, RtsPoint
    <3> QED BY <3>1, <3>2
  <2>3. InLine
    BY <1>30, <1>0, <2>2 DEF NativeRet, memVars, irqVars, regVars, specVars
  <2>4. Context(depth)'
    BY <1>30, <1>0, Indices, ZenonT(40) DEF NativeRet, Goto, Running, memVars, irqVars, regVars, specVars, Context, TrOwned, FarOwned, CallPoint, RtsPoint, AfterPoint
  <2> QED BY <2>1, <2>3, <2>4, OneContext
<1>31. CASE AfterRead
  <2>1. Elsewhere
    BY <1>31, <1>0 DEF AfterRead, Goto, memVars, irqVars, regVars, specVars
  <2>2. InLine
    BY <1>31, <1>0 DEF AfterRead, Goto, Running, memVars, irqVars, regVars, specVars, TrOwned, FarOwned, CallPoint, RtsPoint, AfterPoint
  <2>3. FarOwned(depth)' = FarOwned(depth) /\ FarOwned(depth) \in Int
    BY <1>31, <1>0 DEF AfterRead, Goto, Running, memVars, irqVars, regVars, specVars, FarOwned
  <2>4. /\ hl'[depth] = farPtr - 1 /\ pc'[depth] = "fa_publish"
        /\ UNCHANGED <<depth, entry, want, native>>
    BY <1>31, <1>0 DEF AfterRead, Goto, memVars, irqVars, regVars, specVars
  <2>5. hl'[depth] = entry[depth].far + FarOwned(depth)' - 1
    <3>1. farPtr = entry[depth].far + FarOwned(depth) /\ entry[depth].far \in Nat
      BY <1>0
    <3> QED BY <2>3, <2>4, <3>1
  <2>6. /\ pc[depth] \in AfterPoint
        /\ Len(want[depth]) = 1 /\ depth > 0
    BY <1>31, Indices DEF AfterRead, Running, AfterPoint
  <2>7. Context(depth)'
    BY <1>0, <2>4, <2>5, <2>6 DEF Context, CallPoint, RtsPoint, AfterPoint
  <2> QED BY <2>1, <2>2, <2>7, OneContext
<1>32. CASE AfterPublish
  <2>1. Elsewhere
    BY <1>32, <1>0 DEF AfterPublish, Goto, memVars, irqVars, regVars, specVars
  <2>2. hl[depth] = farPtr - 1
    BY <1>32, Indices DEF AfterPublish, Running
  <2>3. FarOwned(depth)' = FarOwned(depth) - 1 /\ TrOwned(depth)' = TrOwned(depth)
    BY <1>32, <1>0 DEF AfterPublish, Goto, Running, memVars, irqVars, regVars, specVars, TrOwned, FarOwned, RtsPoint
  <2>4. farPtr' = farPtr - 1 /\ trPtr' = trPtr /\ entry' = entry
    BY <1>32, <2>2 DEF AfterPublish, memVars, irqVars, regVars, specVars
  <2>5. FarOwned(depth) \in Int
    BY <1>0 DEF FarOwned
  <2>6. InLine
    <3>1. /\ farPtr = entry[depth].far + FarOwned(depth) /\ entry[depth].far \in Nat
          /\ trPtr = entry[depth].tr + TrOwned(depth)
      BY <1>0
    <3>2. farPtr' = entry[depth].far + (FarOwned(depth) - 1)
      BY <2>4, <2>5, <3>1
    <3> QED BY <2>3, <2>4, <3>1, <3>2
  <2>7. Context(depth)'
    BY <1>32, <1>0, Indices DEF AfterPublish, Goto, Running, memVars, irqVars, regVars, specVars, Context, TrOwned, FarOwned, CallPoint, RtsPoint, AfterPoint
  <2> QED BY <2>1, <2>6, <2>7, OneContext
<1>33. CASE AfterShadow
  <2>1. Elsewhere
    BY <1>33, <1>0 DEF AfterShadow, Goto, memVars, irqVars, regVars, specVars
  <2>2. InLine
    BY <1>33, <1>0, Indices DEF AfterShadow, Goto, Running, memVars, irqVars, regVars, specVars, TrOwned, FarOwned, CallPoint, RtsPoint, AfterPoint
  <2>3. Context(depth)'
    BY <1>33, <1>0, Indices DEF AfterShadow, Goto, Running, memVars, irqVars, regVars, specVars, Context, TrOwned, FarOwned, CallPoint, RtsPoint, AfterPoint
  <2> QED BY <2>1, <2>2, <2>3, OneContext
<1>34. CASE AfterSlot
  <2>1. Elsewhere
    BY <1>34, <1>0 DEF AfterSlot, Goto, memVars, irqVars, regVars, specVars
  <2>2. InLine
    BY <1>34, <1>0, Indices DEF AfterSlot, Goto, Running, memVars, irqVars, regVars, specVars, TrOwned, FarOwned, CallPoint, RtsPoint, AfterPoint
  <2>3. Context(depth)'
    BY <1>34, <1>0, Indices DEF AfterSlot, Goto, Running, memVars, irqVars, regVars, specVars, Context, TrOwned, FarOwned, CallPoint, RtsPoint, AfterPoint
  <2> QED BY <2>1, <2>2, <2>3, OneContext
<1>35. CASE BootDone
  <2>1. Elsewhere
    BY <1>35, <1>0 DEF BootDone, Goto, memVars, irqVars, regVars, specVars
  <2>2. InLine
    BY <1>35, <1>0, Indices DEF BootDone, Goto, Running, memVars, irqVars, regVars, specVars, TrOwned, FarOwned, CallPoint, RtsPoint, AfterPoint
  <2>3. Context(depth)'
    BY <1>35, <1>0, Indices DEF BootDone, Goto, Running, memVars, irqVars, regVars, specVars, Context, TrOwned, FarOwned, CallPoint, RtsPoint, AfterPoint
  <2> QED BY <2>1, <2>2, <2>3, OneContext
<1>36. ASSUME NEW r \in Callee, NEW v \in Acc, Jsr(r, v) PROVE StacksOwned'
  <2>1. Elsewhere
    BY <1>36, <1>0 DEF Jsr, Goto, memVars, irqVars, regVars, specVars
  <2>2. InLine
    BY <1>36, <1>0 DEF Jsr, Goto, Running, memVars, irqVars, regVars, specVars, TrOwned, FarOwned, CallPoint, RtsPoint, AfterPoint
  <2>3. Context(depth)'
    BY <1>36, <1>0 DEF Jsr, Goto, Running, memVars, irqVars, regVars, specVars, Context, TrOwned, FarOwned, CallPoint, RtsPoint, AfterPoint
  <2> QED BY <2>1, <2>2, <2>3, OneContext
<1>37. ASSUME NEW r \in Callee, NEW v \in Acc, BankedDispatch(r, v) PROVE StacksOwned'
  <2>1. Elsewhere
    BY <1>37, <1>0 DEF BankedDispatch, Goto, memVars, irqVars, regVars, specVars
  <2>a. want[depth] \in Seq(Routine) /\ want[depth] # << >> /\ r \in Routine
    BY <1>0, RoutineAssumption DEF Context
  <2>b. Len(Become(want[depth], r)) = Len(want[depth])
    BY <2>a, BecomeType
  <2>c. Len(want'[depth]) = Len(want[depth])
    BY <1>37, <1>0, <2>b DEF BankedDispatch
  <2>2. InLine
    BY <1>37, <1>0, <2>c DEF BankedDispatch, Goto, Running, memVars, irqVars, regVars, specVars, TrOwned, FarOwned, CallPoint, RtsPoint, AfterPoint
  <2>3. Context(depth)'
    BY <1>37, <1>0, <2>c DEF BankedDispatch, Goto, Running, memVars, irqVars, regVars, specVars, Context, TrOwned, FarOwned, CallPoint, RtsPoint, AfterPoint
  <2> QED BY <2>1, <2>2, <2>3, OneContext
<1>38. ASSUME NEW r \in Callee, NEW v \in Acc, IndirectJmp(r, v) PROVE StacksOwned'
  <2>1. Elsewhere
    BY <1>38, <1>0 DEF IndirectJmp, Goto, memVars, irqVars, regVars, specVars
  <2>a. want[depth] \in Seq(Routine) /\ want[depth] # << >> /\ r \in Routine
    BY <1>0, RoutineAssumption DEF Context
  <2>b. Len(Become(want[depth], r)) = Len(want[depth])
    BY <2>a, BecomeType
  <2>c. Len(want'[depth]) = Len(want[depth])
    BY <1>38, <1>0, <2>b DEF IndirectJmp
  <2>2. InLine
    BY <1>38, <1>0, <2>c DEF IndirectJmp, Goto, Running, memVars, irqVars, regVars, specVars, TrOwned, FarOwned, CallPoint, RtsPoint, AfterPoint
  <2>3. Context(depth)'
    BY <1>38, <1>0, <2>c DEF IndirectJmp, Goto, Running, memVars, irqVars, regVars, specVars, Context, TrOwned, FarOwned, CallPoint, RtsPoint, AfterPoint
  <2> QED BY <2>1, <2>2, <2>3, OneContext
<1>39. ASSUME NEW r \in Callee, NEW v \in Acc, RtsDispatch(r, v) PROVE StacksOwned'
  <2>1. Elsewhere
    BY <1>39, <1>0 DEF RtsDispatch, Goto, memVars, irqVars, regVars, specVars
  <2>a. want[depth] \in Seq(Routine) /\ want[depth] # << >> /\ r \in Routine
    BY <1>0, RoutineAssumption DEF Context
  <2>b. Len(Become(want[depth], r)) = Len(want[depth])
    BY <2>a, BecomeType
  <2>c. Len(want'[depth]) = Len(want[depth])
    BY <1>39, <1>0, <2>b DEF RtsDispatch
  <2>2. InLine
    BY <1>39, <1>0, <2>c DEF RtsDispatch, Goto, Running, memVars, irqVars, regVars, specVars, TrOwned, FarOwned, CallPoint, RtsPoint, AfterPoint
  <2>3. Context(depth)'
    BY <1>39, <1>0, <2>c DEF RtsDispatch, Goto, Running, memVars, irqVars, regVars, specVars, Context, TrOwned, FarOwned, CallPoint, RtsPoint, AfterPoint
  <2> QED BY <2>1, <2>2, <2>3, OneContext
<1>40. ASSUME NEW v \in Acc, Rts(v) PROVE StacksOwned'
  <2>1. Elsewhere
    BY <1>40, <1>0 DEF Rts, Goto, memVars, irqVars, regVars, specVars
  <2>2. /\ pc[depth] = "body" /\ Len(want[depth]) > 1
        /\ want'[depth] = SubSeq(want[depth], 1, Len(want[depth]) - 1)
        /\ hl'[depth] = trPtr - 1
        /\ UNCHANGED <<trPtr, farPtr, depth, native, entry>>
    BY <1>40, <1>0 DEF Rts, Running, memVars, irqVars, regVars, specVars
  <2>3. Len(want'[depth]) = Len(want[depth]) - 1
    BY <1>0, <2>2, DropType
  <2>4. TrOwned(depth) = Len(want[depth]) - 1
    BY <2>2 DEF TrOwned, RtsPoint
  <2>5. trPtr > 0
    BY <1>0, <2>2, <2>4, SMTT(30)
  <2>6. pc'[depth] = "rts_pop"
    BY <1>40, <1>0, <2>5 DEF Rts, Goto
  <2>7. TrOwned(depth)' = TrOwned(depth) /\ FarOwned(depth)' = FarOwned(depth)
    BY <1>0, <2>2, <2>3, <2>4, <2>6, SMTT(30) DEF TrOwned, FarOwned, RtsPoint
  <2>8. InLine
    BY <1>0, <2>2, <2>7
  <2>9. hl'[depth] = entry[depth].tr + TrOwned(depth)' - 1
    <3>1. /\ trPtr = entry[depth].tr + TrOwned(depth)
          /\ entry[depth].tr \in Nat /\ TrOwned(depth) \in Int
      BY <1>0, <2>4
    <3> QED BY <2>2, <2>7, <3>1, SMTT(40)
  <2>10. Context(depth)'
    BY <1>0, <2>2, <2>3, <2>6, <2>9 DEF Context, CallPoint, RtsPoint, AfterPoint
  <2> QED BY <2>1, <2>8, <2>10, OneContext
<1>41. CASE BridgeReturn
  <2>1. /\ pc[depth] = "bridge" /\ depth' = depth - 1
        /\ UNCHANGED <<trPtr, farPtr, native>>
        /\ hl' = [hl EXCEPT ![depth] = 0]
        /\ pc' = [pc EXCEPT ![depth] = "idle"]
        /\ want' = [want EXCEPT ![depth] = <<Reset>>]
        /\ entry' = [entry EXCEPT ![depth] = [tr |-> 0, far |-> 0]]
    BY <1>41 DEF BridgeReturn, Running, Goto
  <2>2. depth \in 1 .. MaxDepth /\ Len(want[depth]) = 1 /\ native[depth] = << >>
    BY <1>0, <2>1 DEF Context, AfterPoint, Level
  <2>3. TrOwned(depth) = 0 /\ FarOwned(depth) = 0
    BY <2>1, <2>2 DEF TrOwned, FarOwned, RtsPoint
  <2>4. ASSUME NEW l \in Level, l # depth
        PROVE  /\ TrOwned(l)' = TrOwned(l) /\ FarOwned(l)' = FarOwned(l)
               /\ entry'[l] = entry[l] /\ hl'[l] = hl[l] /\ pc'[l] = pc[l]
               /\ want'[l] = want[l] /\ native'[l] = native[l]
    BY <2>1, <2>4 DEF TrOwned, FarOwned, TypeOK
  <2>5. ASSUME NEW l \in Level PROVE Context(l)'
    <3>1. CASE l = depth
      <4>1. pc'[l] = "idle" /\ Len(want'[l]) = 1
        BY <1>0, <2>1, <3>1
      <4> QED BY <4>1 DEF Context, CallPoint, RtsPoint, AfterPoint
    <3>2. CASE l # depth
      <4>1. Context(l)
        BY DEF StacksOwned
      <4> QED BY <2>4, <3>2, <4>1 DEF Context
    <3> QED BY <3>1, <3>2
  <2>6. depth - 1 \in Level /\ depth - 1 # depth /\ depth - 1 < depth /\ depth - 1 + 1 = depth
    BY <2>2 DEF Level, MaxDepth
  <2>7. /\ entry[depth].tr = entry[depth - 1].tr + TrOwned(depth - 1)
        /\ entry[depth].far = entry[depth - 1].far + FarOwned(depth - 1)
    BY <2>6 DEF StacksOwned
  <2>8. trPtr = entry[depth].tr /\ farPtr = entry[depth].far
    BY <1>0, <2>3
  <2>9. /\ trPtr' = entry'[depth'].tr + TrOwned(depth)'
        /\ farPtr' = entry'[depth'].far + FarOwned(depth)'
    <3>1. PICK k \in Level : k = depth - 1
      BY <2>6
    <3>2. /\ TrOwned(k)' = TrOwned(k) /\ FarOwned(k)' = FarOwned(k)
          /\ entry'[k] = entry[k] /\ k = depth'
      BY <2>1, <2>4, <2>6, <3>1
    <3>3. TrOwned(depth)' = TrOwned(k)' /\ FarOwned(depth)' = FarOwned(k)'
      BY <3>2 DEF TrOwned, FarOwned
    <3>4. trPtr = entry[k].tr + TrOwned(k) /\ farPtr = entry[k].far + FarOwned(k)
      BY <2>7, <2>8, <3>1
    <3> QED BY <2>1, <3>2, <3>3, <3>4
  <2>10. ASSUME NEW l \in Level, l < depth'
         PROVE  /\ entry'[l + 1].tr = entry'[l].tr + TrOwned(l)'
                /\ entry'[l + 1].far = entry'[l].far + FarOwned(l)'
    <3>1. l + 1 \in Level /\ l + 1 # depth /\ l # depth /\ l < depth
      BY <2>1, <2>2, <2>10 DEF Level, MaxDepth
    <3>2. /\ entry[l + 1].tr = entry[l].tr + TrOwned(l)
          /\ entry[l + 1].far = entry[l].far + FarOwned(l)
      BY <3>1 DEF StacksOwned
    <3> QED BY <2>4, <3>1, <3>2
  <2> QED BY <2>5, <2>9, <2>10 DEF StacksOwned
<1>42. CASE FrameIrqDeliver
  <2>1. /\ depth' = depth + 1
        /\ UNCHANGED <<trPtr, farPtr, hl>>
        /\ pc' = [pc EXCEPT ![depth + 1] = "body"]
        /\ native' = [native EXCEPT ![depth + 1] = << >>]
        /\ want' = [want EXCEPT ![depth + 1] = <<Nmi>>]
        /\ entry' = [entry EXCEPT ![depth + 1] = [tr |-> trPtr, far |-> farPtr]]
    BY <1>42 DEF FrameIrqDeliver
  <2>2. depth + 1 \in Level /\ depth \in 0 .. MaxDepth - 1
    BY <1>42, SMTT(40) DEF FrameIrqDeliver, Delivers, TypeOK, Level, MaxDepth
  <2>3. ASSUME NEW l \in Level, l # depth + 1
        PROVE  /\ TrOwned(l)' = TrOwned(l) /\ FarOwned(l)' = FarOwned(l)
               /\ entry'[l] = entry[l] /\ hl'[l] = hl[l] /\ pc'[l] = pc[l]
               /\ want'[l] = want[l] /\ native'[l] = native[l]
    BY <2>1, <2>3 DEF TrOwned, FarOwned, TypeOK
  <2>0. PICK k \in Level : k = depth + 1
    BY <2>2
  <2>4. /\ pc'[k] = "body" /\ Len(want'[k]) = 1
        /\ native'[k] = << >> /\ Len(native'[k]) = 0
        /\ entry'[k].tr = trPtr /\ entry'[k].far = farPtr
    BY <1>0, <2>0, <2>1 DEF TypeOK
  <2>9. pc'[k] = "body" /\ Len(want'[k]) = 1
    BY <2>4, Zenon
  <2>5. TrOwned(k)' = 0 /\ FarOwned(k)' = 0
    BY <2>4 DEF TrOwned, FarOwned, RtsPoint
  <2>6. ASSUME NEW l \in Level PROVE Context(l)'
    <3>1. CASE l = k
      <4>0. pc'[l] = pc'[k] /\ want'[l] = want'[k]
        BY <3>1
      <4>1. pc'[l] = "body" /\ Len(want'[l]) = 1
        BY <2>9, <4>0
      <4> QED BY <4>1 DEF Context, CallPoint, RtsPoint, AfterPoint
    <3>2. CASE l # k
      <4>1. Context(l)
        BY DEF StacksOwned
      <4> QED BY <2>0, <2>3, <3>2, <4>1 DEF Context
    <3> QED BY <3>1, <3>2
  <2>7. /\ trPtr' = entry'[depth'].tr + TrOwned(depth)'
        /\ farPtr' = entry'[depth'].far + FarOwned(depth)'
    <3>1. TrOwned(depth)' = 0 /\ FarOwned(depth)' = 0
      BY <2>0, <2>1, <2>5 DEF TrOwned, FarOwned
    <3> QED BY <1>0, <2>0, <2>1, <2>4, <3>1, SMTT(40)
  <2>8. ASSUME NEW l \in Level, l < depth'
        PROVE  /\ entry'[l + 1].tr = entry'[l].tr + TrOwned(l)'
               /\ entry'[l + 1].far = entry'[l].far + FarOwned(l)'
    <3>0. l # depth + 1
      BY <2>1, <2>2, <2>8 DEF Level
    <3>1. CASE l = depth
      BY <1>0, <2>0, <2>3, <2>4, <3>0, <3>1
    <3>2. CASE l # depth
      <4>1. l + 1 \in Level /\ l + 1 # depth + 1 /\ l < depth
        BY <2>1, <2>2, <2>8, <3>2 DEF Level, MaxDepth
      <4>2. /\ entry[l + 1].tr = entry[l].tr + TrOwned(l)
            /\ entry[l + 1].far = entry[l].far + FarOwned(l)
        BY <4>1 DEF StacksOwned
      <4> QED BY <2>3, <3>0, <4>1, <4>2
    <3> QED BY <3>1, <3>2
  <2> QED BY <2>6, <2>7, <2>8 DEF StacksOwned
<1> QED
  BY <1>1, <1>2, <1>3, <1>4, <1>5, <1>6, <1>7, <1>8, <1>9, <1>10, <1>11, <1>12, <1>13, <1>14, <1>15, <1>16, <1>17, <1>18, <1>19, <1>20, <1>21, <1>22, <1>23, <1>24, <1>25, <1>26, <1>27, <1>28, <1>29, <1>30, <1>31, <1>32, <1>33, <1>34, <1>35, <1>36, <1>37, <1>38, <1>39, <1>40, <1>41, <1>42
     DEF Next, Transfer, CallStep, RtsStep, FarStep, TailStep, AfterStep, Irq

\* Boot has called nothing and owns nothing of either stack.
LEMMA Initially == Init => IInv
<1> SUFFICES ASSUME Init PROVE IInv
  OBVIOUS
<1> USE RoutineAssumption, AccAssumption, CapAssumption
<1>1. TypeOK
  <2>1. << >> \in Seq(Nat) /\ <<Reset>> \in Seq(Routine)
    OBVIOUS
  <2>2. /\ native \in [Level -> Seq(Nat)]
        /\ want \in [Level -> Seq(Routine)]
        /\ entry \in [Level -> [tr : Nat, far : Nat]]
    BY <2>1 DEF Init
  <2>3. /\ pc \in [Level -> Point] /\ acc \in [Level -> Acc \cup {Junk}]
        /\ hl \in [Level -> Int] /\ to \in [Level -> Routine]
        /\ bk \in [Level -> Bank] /\ at \in [Level -> Routine]
        /\ wantA \in [Level -> Acc \cup {Junk}]
    BY DEF Init, Point
  <2>4. /\ bankShadow \in Bank /\ slot1 \in Bank
        /\ farA \in Acc \cup {Junk} /\ scratchA \in Acc \cup {Junk}
        /\ mru \in [valid : BOOLEAN, tgt : Routine, label : Routine, bank : Bank]
        /\ iff \in BOOLEAN /\ inHandler \in BOOLEAN
        /\ nmiOn \in BOOLEAN /\ nmiStarted \in BOOLEAN /\ runtimeReady \in BOOLEAN
        /\ savedBank \in [1 .. MaxDepth -> Bank]
        /\ savedA \in [1 .. MaxDepth -> Acc \cup {Junk}]
    BY DEF Init, NoMru
  <2>5. /\ trPtr \in 0 .. TrCap /\ farPtr \in Nat /\ depth \in Level
        /\ trMem \in [0 .. TrCap - 1 ->
                        [a : Acc \cup {Junk}, cont : Routine, bank : Bank]]
        /\ DOMAIN farMem = {} /\ farMem \in [DOMAIN farMem -> Bank]
    BY DEF Init, Level, MaxDepth
  <2> QED BY <2>2, <2>3, <2>4, <2>5 DEF TypeOK
<1>2. ASSUME NEW l \in Level
      PROVE  /\ pc[l] \in {"boot", "idle"} /\ Len(want[l]) = 1
             /\ Len(native[l]) = 0
             /\ entry[l].tr = 0 /\ entry[l].far = 0
  <2>1. /\ pc[l] \in {"boot", "idle"} /\ want[l] = <<Reset>> /\ native[l] = << >>
        /\ entry[l].tr = 0 /\ entry[l].far = 0
    BY DEF Init
  <2>2. Len(<<Reset>>) = 1 /\ Len(<< >>) = 0
    OBVIOUS
  <2> QED BY <2>1, <2>2
<1>3. ASSUME NEW l \in Level PROVE TrOwned(l) = 0 /\ FarOwned(l) = 0
  <2>1. pc[l] \in {"boot", "idle"} /\ Len(want[l]) = 1 /\ Len(native[l]) = 0
    BY <1>2
  <2> QED BY <2>1 DEF TrOwned, FarOwned, RtsPoint
<1>4. ASSUME NEW l \in Level PROVE Context(l)
  <2>1. pc[l] \in {"boot", "idle"} /\ Len(want[l]) = 1
    BY <1>2
  <2> QED BY <2>1 DEF Context, CallPoint, RtsPoint, AfterPoint
<1>5. depth = 0 /\ trPtr = 0 /\ farPtr = 0 /\ 0 \in Level
  BY DEF Init, Level, MaxDepth
<1>6. /\ trPtr = entry[depth].tr + TrOwned(depth)
      /\ farPtr = entry[depth].far + FarOwned(depth)
  BY <1>2, <1>3, <1>5
<1>7. ASSUME NEW l \in Level, l < depth PROVE FALSE
  BY <1>5, <1>7 DEF Level
<1> QED BY <1>1, <1>4, <1>6, <1>7 DEF IInv, StacksOwned

\* When a body reaches the bridge its context owns nothing any more, and a
\* context never stands at the underflow exit.
LEMMA OwnershipImplies == IInv => NmiBalanced /\ NoUnderflow
<1> SUFFICES ASSUME TypeOK, StacksOwned PROVE NmiBalanced /\ NoUnderflow
  BY DEF IInv
<1>1. /\ depth \in Level /\ Context(depth)
      /\ trPtr = entry[depth].tr + TrOwned(depth)
      /\ farPtr = entry[depth].far + FarOwned(depth)
      /\ entry[depth].tr \in Nat /\ entry[depth].far \in Nat
  BY DEF StacksOwned, TypeOK
<1>2. NoUnderflow
  BY <1>1 DEF NoUnderflow, Running, Context
<1>3. ASSUME Running("bridge")
      PROVE  trPtr = entry[depth].tr /\ farPtr = entry[depth].far
  <2>1. pc[depth] = "bridge" /\ Len(want[depth]) = 1 /\ native[depth] = << >>
    BY <1>1, <1>3 DEF Running, Context, AfterPoint
  <2>2. Len(native[depth]) = 0
    BY <2>1
  <2>3. TrOwned(depth) = 0 /\ FarOwned(depth) = 0
    BY <2>1, <2>2 DEF TrOwned, FarOwned, RtsPoint
  <2> QED BY <1>1, <2>3
<1> QED BY <1>2, <1>3 DEF NmiBalanced

\* The types and the ownership of the stacks hold together: neither is
\* inductive alone, since the capacity of a stack bounds an index only through
\* the share the context owns.
THEOREM Inductive == Spec => []IInv
<1>1. Init => IInv
  BY Initially
<1>2. IInv /\ [Next]_vars => IInv'
  BY TypeStep, StacksStep DEF IInv
<1> QED BY <1>1, <1>2, PTL DEF Spec

\* Every variable keeps its type, for every program, layout and capacity: no
\* index leaves the TR_RET stack.  The pointer of the far LIFO is any number, as
\* rt_far_gate moves it without a look at where it is.
THEOREM TypeCorrect == Spec => []TypeOK
<1>1. IInv => TypeOK
  BY DEF IInv
<1> QED BY <1>1, Inductive, PTL

\* The share of each context lies on top of the shares of those it
\* interrupted, at every step of every interleaving.
THEOREM Ownership == Spec => []StacksOwned
<1>1. IInv => StacksOwned
  BY DEF IInv
<1> QED BY <1>1, Inductive, PTL

\* An NMI body hands TR_RET and the far LIFO back as it found them.
THEOREM Balanced == Spec => []NmiBalanced
<1>1. IInv => NmiBalanced
  BY OwnershipImplies
<1> QED BY <1>1, Inductive, PTL

\* No RTS of a routine with a caller finds the continuation stack empty.
THEOREM NeverUnderflows == Spec => []NoUnderflow
<1>1. IInv => NoUnderflow
  BY OwnershipImplies
<1> QED BY <1>1, Inductive, PTL
-----------------------------------------------------------------------------

\* What a context at level l relies on, with BANK_SLOT1_SHADOW = shadow and
\* mapper register 1 = mapped: which of the two has been written already.
Mapped(l, shadow, mapped) ==
    /\ pc[l] \in {"boot", "body", "call_ptr", "call_reserve", "call_fill", "call_shadow"}
          => shadow = Home[at[l]]
    /\ pc[l] \in {"call_slot", "call_enter", "rts_slot", "rts_publish", "fg_slot", "fg_enter"}
          => shadow = Home[to[l]]
    /\ pc[l] \in {"rts_slot", "fg_ptr", "fg_reserve", "fg_save", "fg_shadow", "fg_slot"}
          => bk[l] = Home[to[l]]
    /\ pc[l] \in {"boot", "body", "call_enter", "rts_publish", "fg_enter"}
          => mapped = shadow
    /\ pc[l] = "bd_bank" => to[l] = mru.label

\* Every trampoline frame, live or dead, and the MRU entry pair a label with
\* the label's own bank.
Stored ==
    /\ \A i \in 0 .. TrCap - 1 : trMem[i].bank = Home[trMem[i].cont]
    /\ mru.bank = Home[mru.label]

\* No NMI body is inside a banked dispatch: the MRU entry is level 0's alone.
Quiet == \A l \in Level : l > 0 => pc[l] \notin FarPoint

\* The running context sees its bank, and an interrupted one will when the
\* bridge that interrupted it restores the bank it saved.
Visible ==
    /\ Stored /\ Quiet
    /\ Mapped(depth, bankShadow, slot1)
    /\ \A l \in Level : l < depth => Mapped(l, savedBank[l + 1], savedBank[l + 1])
-----------------------------------------------------------------------------
\* A step that touches only the running context's place leaves the interrupted
\* ones mapped, if it writes the MRU entry at level 0 only.
LEMMA OneMapped ==
    ASSUME TypeOK, Visible, Stored', Quiet',
           depth' = depth, savedBank' = savedBank,
           \A l \in Level : l # depth =>
               /\ pc'[l] = pc[l] /\ at'[l] = at[l] /\ to'[l] = to[l] /\ bk'[l] = bk[l],
           mru' = mru \/ depth = 0,
           Mapped(depth, bankShadow, slot1)'
    PROVE  Visible'
<1>1. ASSUME NEW l \in Level, l < depth
      PROVE  Mapped(l, savedBank[l + 1], savedBank[l + 1])'
  <2>1. /\ Mapped(l, savedBank[l + 1], savedBank[l + 1])
        /\ pc'[l] = pc[l] /\ at'[l] = at[l] /\ to'[l] = to[l] /\ bk'[l] = bk[l]
        /\ mru' = mru
    BY <1>1 DEF Visible, TypeOK, Level
  <2> QED BY <2>1 DEF Mapped
<1> QED BY <1>1 DEF Visible

\* A step keeps every context's bank where it needs it.
LEMMA VisibleStep ==
    ASSUME "banked" \notin NmiOps
    PROVE  TypeOK /\ StacksOwned /\ Visible /\ [Next]_vars => Visible'
<1> SUFFICES ASSUME TypeOK, StacksOwned, Visible, [Next]_vars PROVE Visible'
  OBVIOUS
<1> USE RoutineAssumption
<1>1. CASE CallLoad
  BY <1>1, OneMapped DEF CallLoad, Visible, Stored, Quiet, Mapped, TypeOK, FarPoint, Running, Goto, memVars, irqVars, regVars, specVars
<1>2. CASE CallReserve
  BY <1>2, OneMapped DEF CallReserve, Visible, Stored, Quiet, Mapped, TypeOK, FarPoint, Running, Goto, memVars, irqVars, regVars, specVars
<1>3. CASE CallFill
  BY <1>3, OneMapped DEF CallFill, Visible, Stored, Quiet, Mapped, TypeOK, FarPoint, Running, Goto, memVars, irqVars, regVars, specVars
<1>4. CASE CallShadow
  BY <1>4, OneMapped DEF CallShadow, Visible, Stored, Quiet, Mapped, TypeOK, FarPoint, Running, Goto, memVars, irqVars, regVars, specVars
<1>5. CASE CallSlot
  BY <1>5, OneMapped DEF CallSlot, Visible, Stored, Quiet, Mapped, TypeOK, FarPoint, Running, Goto, memVars, irqVars, regVars, specVars
<1>6. CASE CallEnter
  BY <1>6, OneMapped DEF CallEnter, Visible, Stored, Quiet, Mapped, TypeOK, FarPoint, Running, Goto, memVars, irqVars, regVars, specVars
<1>7. CASE RtsPop
  <2>1. hl[depth] \in 0 .. TrCap - 1
    BY <1>7, Indices DEF RtsPop, Running, RtsPoint
  <2>2. /\ trMem[hl[depth]].bank = Home[trMem[hl[depth]].cont]
        /\ trMem[hl[depth]] \in [a : Acc \cup {Junk}, cont : Routine, bank : Bank]
    BY <2>1 DEF Visible, Stored, TypeOK
  <2>3. Stored'
    BY <1>7, <2>1, <2>2 DEF RtsPop, Visible, Stored, TypeOK
  <2>4. Quiet'
    BY <1>7 DEF RtsPop, Visible, Quiet, TypeOK, FarPoint, Running, Goto
  <2>5. Mapped(depth, bankShadow, slot1)'
    BY <1>7, <2>2 DEF RtsPop, Mapped, TypeOK, Running, Goto, irqVars
  <2> QED BY <1>7, <2>3, <2>4, <2>5, OneMapped DEF RtsPop, TypeOK, Goto, irqVars
<1>8. CASE RtsSlot
  BY <1>8, OneMapped DEF RtsSlot, Visible, Stored, Quiet, Mapped, TypeOK, FarPoint, Running, Goto, memVars, irqVars, regVars, specVars
<1>9. CASE RtsPublish
  BY <1>9, OneMapped DEF RtsPublish, Visible, Stored, Quiet, Mapped, TypeOK, FarPoint, Running, Goto, memVars, irqVars, regVars, specVars
<1>10. CASE DispatchSpill
  BY <1>10, OneMapped DEF DispatchSpill, Visible, Stored, Quiet, Mapped, TypeOK, FarPoint, Running, Goto, memVars, irqVars, regVars, specVars
<1>11. CASE DispatchKey
  BY <1>11, OneMapped DEF DispatchKey, Visible, Stored, Quiet, Mapped, TypeOK, FarPoint, Running, Goto, memVars, irqVars, regVars, specVars
<1>12. CASE DispatchLabel
  BY <1>12, OneMapped DEF DispatchLabel, Visible, Stored, Quiet, Mapped, TypeOK, FarPoint, Running, Goto, memVars, irqVars, regVars, specVars
<1>13. CASE DispatchBank
  BY <1>13, OneMapped, SMTT(30) DEF DispatchBank, Visible, Stored, Quiet, Mapped, TypeOK, FarPoint, Running, Goto, memVars, irqVars, regVars, specVars
<1>14. CASE DispatchSlow
  <2>1. depth = 0 /\ depth' = depth /\ pc' = [pc EXCEPT ![depth] = "fg_ptr"]
    BY <1>14 DEF DispatchSlow, Visible, Quiet, TypeOK, Level, FarPoint, Running, Goto
  <2>2. Stored'
    BY <1>14 DEF DispatchSlow, Visible, Stored, TypeOK
  <2>3. Quiet'
    BY <2>1 DEF Visible, Quiet, TypeOK, Level
  <2>4. Mapped(depth, bankShadow, slot1)'
    BY <1>14, <2>1 DEF DispatchSlow, Mapped, TypeOK
  <2> QED BY <1>14, <2>1, <2>2, <2>3, <2>4, OneMapped DEF DispatchSlow, TypeOK
<1>15. CASE FarLoad
  BY <1>15, OneMapped DEF FarLoad, Visible, Stored, Quiet, Mapped, TypeOK, FarPoint, Running, Goto, memVars, irqVars, regVars, specVars
<1>16. CASE FarReserve
  BY <1>16, OneMapped DEF FarReserve, Visible, Stored, Quiet, Mapped, TypeOK, FarPoint, Running, Goto, memVars, irqVars, regVars, specVars
<1>17. CASE FarSave
  BY <1>17, OneMapped DEF FarSave, Visible, Stored, Quiet, Mapped, TypeOK, FarPoint, Running, Goto, memVars, irqVars, regVars, specVars
<1>18. CASE FarShadow
  BY <1>18, OneMapped DEF FarShadow, Visible, Stored, Quiet, Mapped, TypeOK, FarPoint, Running, Goto, memVars, irqVars, regVars, specVars
<1>19. CASE FarSlot
  BY <1>19, OneMapped DEF FarSlot, Visible, Stored, Quiet, Mapped, TypeOK, FarPoint, Running, Goto, memVars, irqVars, regVars, specVars
<1>20. CASE FarEnter
  BY <1>20, OneMapped DEF FarEnter, Visible, Stored, Quiet, Mapped, TypeOK, FarPoint, Running, Goto, memVars, irqVars, regVars, specVars
<1>21. CASE RtsDispatchSpill
  BY <1>21, OneMapped DEF RtsDispatchSpill, Visible, Stored, Quiet, Mapped, TypeOK, FarPoint, Running, Goto, memVars, irqVars, regVars, specVars
<1>22. CASE RtsDispatchLoad
  BY <1>22, OneMapped DEF RtsDispatchLoad, Visible, Stored, Quiet, Mapped, TypeOK, FarPoint, Running, Goto, memVars, irqVars, regVars, specVars
<1>23. CASE TailDispatch
  BY <1>23, OneMapped DEF TailDispatch, Visible, Stored, Quiet, Mapped, TypeOK, FarPoint, Running, Goto, memVars, irqVars, regVars, specVars
<1>24. CASE NativeRet
  <2>1. pc'[depth] \in {"bridge", "fa_read"} /\ \A l \in Level : l # depth => pc'[l] = pc[l]
    BY <1>24 DEF NativeRet, TypeOK, Goto
  <2>2. Stored' /\ Quiet'
    BY <1>24, <2>1 DEF NativeRet, Visible, Stored, Quiet, TypeOK, FarPoint, memVars, irqVars
  <2>3. Mapped(depth, bankShadow, slot1)'
    BY <1>24, <2>1 DEF NativeRet, Mapped, irqVars
  <2> QED BY <1>24, <2>1, <2>2, <2>3, OneMapped DEF NativeRet, memVars, irqVars
<1>25. CASE AfterRead
  BY <1>25, OneMapped DEF AfterRead, Visible, Stored, Quiet, Mapped, TypeOK, FarPoint, Running, Goto, memVars, irqVars, regVars, specVars
<1>26. CASE AfterPublish
  BY <1>26, OneMapped DEF AfterPublish, Visible, Stored, Quiet, Mapped, TypeOK, FarPoint, Running, Goto, memVars, irqVars, regVars, specVars
<1>27. CASE AfterShadow
  BY <1>27, OneMapped DEF AfterShadow, Visible, Stored, Quiet, Mapped, TypeOK, FarPoint, Running, Goto, memVars, irqVars, regVars, specVars
<1>28. CASE AfterSlot
  BY <1>28, OneMapped DEF AfterSlot, Visible, Stored, Quiet, Mapped, TypeOK, FarPoint, Running, Goto, memVars, irqVars, regVars, specVars
<1>29. CASE BootDone
  BY <1>29, OneMapped DEF BootDone, Visible, Stored, Quiet, Mapped, TypeOK, FarPoint, Running, Goto, memVars, irqVars, regVars, specVars
<1>30. CASE Rti
  BY <1>30, OneMapped DEF Rti, Visible, Stored, Quiet, Mapped, TypeOK, FarPoint, Running, Goto, memVars, irqVars, regVars, specVars
<1>31. ASSUME NEW r \in Callee, NEW v \in Acc, Jsr(r, v) PROVE Visible'
  BY <1>31, OneMapped DEF Jsr, Visible, Stored, Quiet, Mapped, TypeOK, FarPoint, Running, Goto, Ops, memVars, irqVars, regVars, specVars
<1>32. ASSUME NEW r \in Callee, NEW v \in Acc, BankedDispatch(r, v) PROVE Visible'
  BY <1>32, OneMapped DEF BankedDispatch, Visible, Stored, Quiet, Mapped, TypeOK, FarPoint, Running, Goto, Ops, memVars, irqVars, regVars, specVars
<1>33. ASSUME NEW r \in Callee, NEW v \in Acc, IndirectJmp(r, v) PROVE Visible'
  BY <1>33, OneMapped DEF IndirectJmp, Visible, Stored, Quiet, Mapped, TypeOK, FarPoint, Running, Goto, Ops, memVars, irqVars, regVars, specVars
<1>34. ASSUME NEW r \in Callee, NEW v \in Acc, RtsDispatch(r, v) PROVE Visible'
  <2>1. Stored' /\ Quiet'
    BY <1>34 DEF RtsDispatch, Visible, Stored, Quiet, TypeOK, FarPoint, Goto, memVars
  <2>2. Mapped(depth, bankShadow, slot1)'
    BY <1>34 DEF RtsDispatch, Mapped, TypeOK, Goto, memVars, irqVars
  <2> QED BY <1>34, <2>1, <2>2, OneMapped DEF RtsDispatch, TypeOK, Goto, memVars, irqVars
<1>35. ASSUME NEW v \in Acc, Rts(v) PROVE Visible'
  BY <1>35, OneMapped DEF Rts, Visible, Stored, Quiet, Mapped, TypeOK, FarPoint, Running, Goto, Ops, memVars, irqVars, regVars, specVars
<1>36. ASSUME NEW b \in BOOLEAN, WriteNmiEnable(b) PROVE Visible'
  BY <1>36, OneMapped DEF WriteNmiEnable, Visible, Stored, Quiet, Mapped, TypeOK, FarPoint, Running, Goto, Ops, memVars, irqVars, regVars, specVars
<1>37. CASE SpuriousEntry
  BY <1>37 DEF SpuriousEntry, Visible, Stored, Quiet, Mapped, TypeOK, Level, MaxDepth, FarPoint, Running, Goto, memVars, irqVars, regVars, specVars
<1>38. CASE FrameIrqSkip
  BY <1>38 DEF FrameIrqSkip, Visible, Stored, Quiet, Mapped, TypeOK, Level, MaxDepth, FarPoint, Running, Goto, memVars, irqVars, regVars, specVars
<1>39. CASE LineIrq
  BY <1>39 DEF LineIrq, Visible, Stored, Quiet, Mapped, TypeOK, Level, MaxDepth, FarPoint, Running, Goto, memVars, irqVars, regVars, specVars
<1>40. CASE UNCHANGED vars
  BY <1>40 DEF vars, Visible, Stored, Quiet, Mapped, TypeOK, Level, MaxDepth, FarPoint, Running, Goto, memVars, irqVars, regVars, specVars
<1>41. CASE BridgeReturn
  <2>1. /\ depth \in Level /\ pc[depth] = "bridge" /\ StacksOwned
        /\ depth' = depth - 1 /\ pc' = [pc EXCEPT ![depth] = "idle"]
        /\ at' = [at EXCEPT ![depth] = Reset] /\ to' = [to EXCEPT ![depth] = Reset]
        /\ bk' = [bk EXCEPT ![depth] = Home[Reset]]
        /\ savedBank' = savedBank /\ mru' = mru /\ trMem' = trMem
        /\ bankShadow' = savedBank[depth] /\ slot1' = savedBank[depth]
    BY <1>41 DEF BridgeReturn, TypeOK, Running, Goto
  <2>2. depth > 0
    BY <2>1 DEF StacksOwned, Context, AfterPoint
  <2>3. Stored' /\ Quiet'
    BY <2>1 DEF Visible, Stored, Quiet, TypeOK, FarPoint
  <2>4. ASSUME NEW l \in Level, l < depth
        PROVE  Mapped(l, savedBank[l + 1], savedBank[l + 1])'
    <3>1. l # depth
      BY <2>1, <2>4 DEF Level
    <3>2. pc'[l] = pc[l] /\ at'[l] = at[l] /\ to'[l] = to[l] /\ bk'[l] = bk[l]
      BY <2>1, <3>1 DEF TypeOK
    <3>3. Mapped(l, savedBank[l + 1], savedBank[l + 1])
      BY <2>4 DEF Visible
    <3> QED BY <2>1, <3>2, <3>3 DEF Mapped
  <2>5. Mapped(depth, bankShadow, slot1)'
    <3>1. PICK k \in Level : k < depth /\ k + 1 = depth
      BY <2>1, <2>2 DEF Level, MaxDepth
    <3>2. Mapped(k, savedBank[k + 1], savedBank[k + 1])'
      BY <2>4, <3>1
    <3>3. depth' = k /\ bankShadow' = savedBank'[k + 1] /\ slot1' = savedBank'[k + 1]
      BY <2>1, <3>1 DEF Level
    <3> QED BY <3>2, <3>3 DEF Mapped
  <2> QED BY <2>1, <2>2, <2>3, <2>4, <2>5 DEF Visible, Level, MaxDepth
<1>42. CASE FrameIrqDeliver
  <2>1. /\ depth \in Level /\ depth < MaxDepth
        /\ depth' = depth + 1 /\ pc' = [pc EXCEPT ![depth + 1] = "body"]
        /\ at' = [at EXCEPT ![depth + 1] = Nmi] /\ to' = to /\ bk' = bk
        /\ savedBank' = [savedBank EXCEPT ![depth + 1] = bankShadow]
        /\ mru' = mru /\ trMem' = trMem
        /\ bankShadow' = Home[Nmi] /\ slot1' = Home[Nmi]
    BY <1>42 DEF FrameIrqDeliver, Delivers, TypeOK, MaxDepth
  <2>2. depth + 1 \in Level
    BY <2>1 DEF Level, MaxDepth
  <2>3. Stored' /\ Quiet'
    BY <2>1, <2>2 DEF Visible, Stored, Quiet, TypeOK, FarPoint
  <2>4. Mapped(depth, bankShadow, slot1)'
    BY <2>1, <2>2 DEF Mapped, TypeOK
  <2>5. ASSUME NEW l \in Level, l < depth'
        PROVE  Mapped(l, savedBank[l + 1], savedBank[l + 1])'
    <3>1. /\ pc'[l] = pc[l] /\ at'[l] = at[l] /\ to'[l] = to[l] /\ bk'[l] = bk[l]
      BY <2>1, <2>5 DEF TypeOK, Level
    <3>2. CASE l = depth
      <4>1. Mapped(l, bankShadow, slot1) /\ savedBank'[l + 1] = bankShadow
        BY <2>1, <3>2 DEF Visible, TypeOK, Level, MaxDepth
      <4> QED BY <2>1, <3>1, <4>1 DEF Mapped
    <3>3. CASE l < depth
      <4>1. Mapped(l, savedBank[l + 1], savedBank[l + 1])
        BY <3>3 DEF Visible
      <4>2. savedBank'[l + 1] = savedBank[l + 1]
        BY <2>1, <3>3 DEF TypeOK, Level, MaxDepth
      <4> QED BY <2>1, <3>1, <4>1, <4>2 DEF Mapped
    <3> QED BY <2>1, <2>5, <3>2, <3>3 DEF Level
  <2> QED BY <2>3, <2>4, <2>5 DEF Visible
<1> QED
  BY <1>1, <1>2, <1>3, <1>4, <1>5, <1>6, <1>7, <1>8, <1>9, <1>10, <1>11, <1>12, <1>13, <1>14, <1>15, <1>16, <1>17, <1>18, <1>19, <1>20, <1>21, <1>22, <1>23, <1>24, <1>25, <1>26, <1>27, <1>28, <1>29, <1>30, <1>31, <1>32, <1>33, <1>34, <1>35, <1>36, <1>37, <1>38, <1>39, <1>40, <1>41, <1>42 DEF Next, Transfer, CallStep, RtsStep, FarStep, TailStep, AfterStep, Irq

\* Boot starts in its own bank, with an empty stack and no MRU entry.
LEMMA VisibleInit == Init => Visible
BY RoutineAssumption DEF Init, Visible, Stored, Quiet, Mapped, Level, MaxDepth, NoMru, FarPoint

\* In a program whose NMI body makes no banked dispatch, whatever it
\* interrupts: translated code runs only from its own bank, and $CB14 is true.
THEOREM CodeInItsBank ==
    ASSUME "banked" \notin NmiOps
    PROVE  Spec => []CodeVisible
<1>1. Init => Visible
  BY VisibleInit
<1>2. IInv /\ Visible /\ [Next]_vars => Visible'
  BY VisibleStep DEF IInv
<1>3. Visible => CodeVisible
  BY DEF Visible, Mapped, CodeVisible, Running
<1> QED BY <1>1, <1>2, <1>3, Inductive, PTL DEF Spec
-----------------------------------------------------------------------------
\* Where a call has a frame of its own, which HL points at.
Filling == {"call_fill", "call_shadow", "call_slot", "call_enter"}

\* The size of a share: never negative, and it holds what is being written.
LEMMA Shares ==
    ASSUME TypeOK, StacksOwned, NEW l \in Level
    PROVE  /\ TrOwned(l) \in Nat /\ FarOwned(l) \in Nat
           /\ pc[l] \in Filling \cup RtsPoint => TrOwned(l) >= 1
           /\ pc[l] = "fg_save" => FarOwned(l) >= 1
<1>1. Context(l) /\ Len(want[l]) \in Nat /\ Len(native[l]) \in Nat
  BY DEF StacksOwned, TypeOK
<1>2. Len(want[l]) >= 1 /\ (pc[l] \in CallPoint \cup {"trap"} => Len(want[l]) >= 2)
  BY <1>1 DEF Context
<1>3. FarOwned(l) \in Nat /\ (pc[l] = "fg_save" => FarOwned(l) >= 1)
  <2>1. /\ FarOwned(l) = Len(native[l]) + 1 \/ FarOwned(l) = Len(native[l]) + 0
        /\ pc[l] = "fg_save" => FarOwned(l) = Len(native[l]) + 1
    BY DEF FarOwned
  <2> QED BY <1>1, <2>1
<1>4. TrOwned(l) \in Nat /\ (pc[l] \in Filling \cup RtsPoint => TrOwned(l) >= 1)
  <2>1. CASE pc[l] \in {"call_ptr", "call_reserve", "trap"}
    <3>1. TrOwned(l) = Len(want[l]) - 2
      BY <2>1 DEF TrOwned
    <3>2. Len(want[l]) >= 2 /\ pc[l] \notin Filling \cup RtsPoint
      BY <1>2, <2>1 DEF CallPoint, RtsPoint, Filling
    <3> QED BY <1>1, <3>1, <3>2
  <2>2. CASE pc[l] \in RtsPoint
    <3>1. TrOwned(l) = Len(want[l]) - 0
      BY <2>2 DEF TrOwned, RtsPoint
    <3> QED BY <1>1, <1>2, <3>1
  <2>3. CASE pc[l] \notin {"call_ptr", "call_reserve", "trap"} \cup RtsPoint
    <3>1. TrOwned(l) = Len(want[l]) - 1
      BY <2>3 DEF TrOwned
    <3>2. pc[l] \in Filling \cup RtsPoint => Len(want[l]) >= 2
      BY <1>2, <2>3 DEF CallPoint, Filling
    <3> QED BY <1>1, <1>2, <3>1, <3>2
  <2> QED BY <2>1, <2>2, <2>3
<1> QED BY <1>3, <1>4

\* The shares of interrupted contexts lie below the one that runs.
LEMMA Below ==
    ASSUME TypeOK, StacksOwned, NEW l \in Level, l < depth
    PROVE  entry[l + 1].tr <= entry[depth].tr /\ entry[l + 1].far <= entry[depth].far
<1>1. depth \in Level /\ entry \in [Level -> [tr : Nat, far : Nat]]
  BY DEF TypeOK
<1>2. CASE l + 1 = depth
  BY <1>1, <1>2
<1>3. CASE l = 0 /\ depth = 2
  <2>1. 1 \in Level /\ 1 < depth
    BY <1>3 DEF Level, MaxDepth
  <2>2. /\ entry[1 + 1].tr = entry[1].tr + TrOwned(1)
        /\ entry[1 + 1].far = entry[1].far + FarOwned(1)
    BY <2>1 DEF StacksOwned
  <2>3. TrOwned(1) \in Nat /\ FarOwned(1) \in Nat
    BY <2>1, Shares
  <2>4. entry[1].tr \in Nat /\ entry[1].far \in Nat
    BY <1>1, <2>1
  <2> QED BY <1>3, <2>2, <2>3, <2>4
<1> QED BY <1>1, <1>2, <1>3 DEF Level, MaxDepth

\* The top entry of a stack is none of those below the share of its owner.
LEMMA TopIsOwned ==
    ASSUME NEW below \in Nat, NEW owned \in Nat, owned >= 1
    PROVE  \A i \in 0 .. below - 1 : i # below + owned - 1
OBVIOUS

\* A step writes nothing below the share of the context that runs.
LEMMA WritesOwnShare ==
    ASSUME TypeOK, StacksOwned, [Next]_vars
    PROVE  /\ \A i \in 0 .. entry[depth].tr - 1 : trMem'[i] = trMem[i]
           /\ \A i \in 0 .. entry[depth].far - 1 : FarEntry(i)' = FarEntry(i)
<1> DEFINE Kept ==
      /\ \A i \in 0 .. entry[depth].tr - 1 : trMem'[i] = trMem[i]
      /\ \A i \in 0 .. entry[depth].far - 1 : FarEntry(i)' = FarEntry(i)
<1>0. /\ depth \in Level /\ Context(depth) /\ hl[depth] \in Int
      /\ entry[depth].tr \in Nat /\ entry[depth].far \in Nat
      /\ Len(want[depth]) \in Nat /\ Len(native[depth]) \in Nat
      /\ trPtr \in 0 .. TrCap /\ TrCap \in Nat
      /\ trMem \in [0 .. TrCap - 1 -> [a : Acc \cup {Junk}, cont : Routine, bank : Bank]]
      /\ trPtr = entry[depth].tr + TrOwned(depth)
      /\ farPtr = entry[depth].far + FarOwned(depth)
  BY CapAssumption, SMTT(30) DEF StacksOwned, TypeOK
<1>far. ASSUME UNCHANGED farMem
        PROVE  \A i \in 0 .. entry[depth].far - 1 : FarEntry(i)' = FarEntry(i)
  BY <1>far DEF FarEntry
<1>same. ASSUME UNCHANGED <<trMem, farMem>> PROVE Kept
  BY <1>far, <1>same
<1>1. ASSUME pc[depth] \in {"call_fill"} \cup RtsPoint
      PROVE  \A i \in 0 .. entry[depth].tr - 1 : i # hl[depth] /\ i \in 0 .. TrCap - 1
  <2>1. TrOwned(depth) \in Nat /\ TrOwned(depth) >= 1
    BY <1>0, <1>1, Shares DEF Filling
  <2>2. hl[depth] = entry[depth].tr + TrOwned(depth) - 1
    BY <1>0, <1>1 DEF Context
  <2>3. \A i \in 0 .. entry[depth].tr - 1 : i # hl[depth]
    BY <1>0, <2>1, <2>2, TopIsOwned
  <2>4. entry[depth].tr + TrOwned(depth) <= TrCap
    BY <1>0
  <2> QED BY <1>0, <2>1, <2>3, <2>4
<1>2. ASSUME pc[depth] = "fg_save"
      PROVE  \A i \in 0 .. entry[depth].far - 1 : i # hl[depth]
  <2>1. FarOwned(depth) \in Nat /\ FarOwned(depth) >= 1
    BY <1>0, <1>2, Shares
  <2>2. hl[depth] = entry[depth].far + FarOwned(depth) - 1
    BY <1>0, <1>2 DEF Context
  <2> QED BY <1>0, <2>1, <2>2, TopIsOwned
<1>3. CASE CallFill
  BY <1>0, <1>1, <1>3, <1>far DEF CallFill, Running
<1>4. CASE RtsPop
  BY <1>0, <1>1, <1>4, <1>far DEF RtsPop, Running, RtsPoint
<1>5. CASE FarSave
  <2>1. \A i \in 0 .. entry[depth].far - 1 : FarEntry(i)' = FarEntry(i)
    <3> TAKE i \in 0 .. entry[depth].far - 1
    <3>1. i # hl[depth] /\ farMem' = WithEntry(hl[depth])
      BY <1>2, <1>5 DEF FarSave, Running
    <3> QED BY <3>1 DEF FarEntry, WithEntry
  <2> QED BY <1>5, <2>1 DEF FarSave
<1>6. CASE CallLoad
  BY <1>6, <1>same DEF CallLoad, memVars
<1>7. CASE CallReserve
  BY <1>7, <1>same DEF CallReserve, memVars
<1>8. CASE CallShadow
  BY <1>8, <1>same DEF CallShadow, memVars
<1>9. CASE CallSlot
  BY <1>9, <1>same DEF CallSlot, memVars
<1>10. CASE CallEnter
  BY <1>10, <1>same DEF CallEnter, memVars
<1>11. CASE RtsSlot
  BY <1>11, <1>same DEF RtsSlot, memVars
<1>12. CASE RtsPublish
  BY <1>12, <1>same DEF RtsPublish, memVars
<1>13. CASE DispatchSpill
  BY <1>13, <1>same DEF DispatchSpill, memVars
<1>14. CASE DispatchKey
  BY <1>14, <1>same DEF DispatchKey, memVars
<1>15. CASE DispatchLabel
  BY <1>15, <1>same DEF DispatchLabel, memVars
<1>16. CASE DispatchBank
  BY <1>16, <1>same DEF DispatchBank, memVars
<1>17. CASE DispatchSlow
  BY <1>17, <1>same DEF DispatchSlow, memVars
<1>18. CASE FarLoad
  BY <1>18, <1>same DEF FarLoad, memVars
<1>19. CASE FarReserve
  BY <1>19, <1>same DEF FarReserve, memVars
<1>20. CASE FarShadow
  BY <1>20, <1>same DEF FarShadow, memVars
<1>21. CASE FarSlot
  BY <1>21, <1>same DEF FarSlot, memVars
<1>22. CASE FarEnter
  BY <1>22, <1>same DEF FarEnter, memVars
<1>23. CASE RtsDispatchSpill
  BY <1>23, <1>same DEF RtsDispatchSpill, memVars
<1>24. CASE RtsDispatchLoad
  BY <1>24, <1>same DEF RtsDispatchLoad, memVars
<1>25. CASE TailDispatch
  BY <1>25, <1>same DEF TailDispatch, memVars
<1>26. CASE NativeRet
  BY <1>26, <1>same DEF NativeRet, memVars
<1>27. CASE AfterRead
  BY <1>27, <1>same DEF AfterRead, memVars
<1>28. CASE AfterPublish
  BY <1>28, <1>same DEF AfterPublish, memVars
<1>29. CASE AfterShadow
  BY <1>29, <1>same DEF AfterShadow, memVars
<1>30. CASE AfterSlot
  BY <1>30, <1>same DEF AfterSlot, memVars
<1>31. CASE BootDone
  BY <1>31, <1>same DEF BootDone, memVars
<1>32. CASE Rti
  BY <1>32, <1>same DEF Rti, memVars
<1>33. CASE SpuriousEntry
  BY <1>33, <1>same DEF SpuriousEntry, memVars
<1>34. CASE FrameIrqSkip
  BY <1>34, <1>same DEF FrameIrqSkip, memVars
<1>35. CASE LineIrq
  BY <1>35, <1>same DEF LineIrq, memVars
<1>36. CASE BridgeReturn
  BY <1>36, <1>same DEF BridgeReturn, memVars
<1>37. CASE FrameIrqDeliver
  BY <1>37, <1>same DEF FrameIrqDeliver, memVars
<1>38. ASSUME NEW r \in Callee, NEW v \in Acc, Jsr(r, v) PROVE Kept
  BY <1>38, <1>same DEF Jsr, memVars
<1>39. ASSUME NEW r \in Callee, NEW v \in Acc, BankedDispatch(r, v) PROVE Kept
  BY <1>39, <1>same DEF BankedDispatch, memVars
<1>40. ASSUME NEW r \in Callee, NEW v \in Acc, IndirectJmp(r, v) PROVE Kept
  BY <1>40, <1>same DEF IndirectJmp, memVars
<1>41. ASSUME NEW r \in Callee, NEW v \in Acc, RtsDispatch(r, v) PROVE Kept
  BY <1>41, <1>same DEF RtsDispatch, memVars
<1>42. ASSUME NEW v \in Acc, Rts(v) PROVE Kept
  BY <1>42, <1>same DEF Rts, memVars
<1>43. ASSUME NEW b \in BOOLEAN, WriteNmiEnable(b) PROVE Kept
  BY <1>43, <1>same DEF WriteNmiEnable, memVars
<1>44. CASE UNCHANGED vars
  BY <1>44, <1>same DEF vars, memVars
<1> QED
  BY <1>3, <1>4, <1>5, <1>6, <1>7, <1>8, <1>9, <1>10, <1>11, <1>12, <1>13, <1>14, <1>15, <1>16, <1>17, <1>18, <1>19, <1>20, <1>21, <1>22, <1>23, <1>24, <1>25, <1>26, <1>27, <1>28, <1>29, <1>30, <1>31, <1>32, <1>33, <1>34, <1>35, <1>36, <1>37, <1>38, <1>39, <1>40, <1>41, <1>42, <1>43, <1>44 DEF Next, Transfer, CallStep, RtsStep, FarStep, TailStep, AfterStep, Irq

\* Whatever a body does, a context it interrupted finds its frames and its
\* saved banks unchanged.
THEOREM ContextsFrozen == Spec => FrozenContext
<1>1. ASSUME IInv, [Next]_vars
      PROVE  \A l \in Level : l < depth =>
                /\ \A i \in 0 .. entry[l + 1].tr - 1 : trMem'[i] = trMem[i]
                /\ \A i \in 0 .. entry[l + 1].far - 1 : FarEntry(i)' = FarEntry(i)
  <2>1. /\ \A i \in 0 .. entry[depth].tr - 1 : trMem'[i] = trMem[i]
        /\ \A i \in 0 .. entry[depth].far - 1 : FarEntry(i)' = FarEntry(i)
        /\ depth \in Level /\ entry \in [Level -> [tr : Nat, far : Nat]]
    BY <1>1, WritesOwnShare DEF IInv, TypeOK
  <2> SUFFICES ASSUME NEW l \in Level, l < depth
               PROVE  /\ \A i \in 0 .. entry[l + 1].tr - 1 : trMem'[i] = trMem[i]
                      /\ \A i \in 0 .. entry[l + 1].far - 1 : FarEntry(i)' = FarEntry(i)
    OBVIOUS
  <2>2. entry[l + 1].tr <= entry[depth].tr /\ entry[l + 1].far <= entry[depth].far
    BY <1>1, Below DEF IInv
  <2>3. l + 1 \in Level
    BY <2>1 DEF Level, MaxDepth
  <2> QED BY <2>1, <2>2, <2>3
<1> QED BY <1>1, Inductive, PTL DEF Spec, FrozenContext

\* The entries below the pointer of the far LIFO are written, but for the one a
\* context is about to write: the pointer moves up by that entry, and only its
\* owner leaves the point where it writes it.
LEMMA FarSavedStep ==
    ASSUME TypeOK, StacksOwned, FarSaved, [Next]_vars
    PROVE  FarSaved'
<1>0. /\ depth \in Level /\ pc \in [Level -> Point] /\ hl \in [Level -> Int]
      /\ farPtr \in Nat /\ 0 .. depth \subseteq Level
  <2>1. /\ depth \in Level /\ pc \in [Level -> Point] /\ hl \in [Level -> Int]
        /\ farPtr \in Nat
    BY DEF TypeOK
  <2>2. 0 .. depth \subseteq Level
    BY <2>1 DEF Level, MaxDepth
  <2> QED BY <2>1, <2>2
<1>1. ASSUME farPtr' = farPtr \/ (farPtr' \in Int /\ farPtr' <= farPtr), DOMAIN farMem \subseteq DOMAIN farMem',
             \A l \in 0 .. depth : pc[l] = "fg_save" =>
                 \/ hl[l] \in DOMAIN farMem'
                 \/ l \in 0 .. depth' /\ pc'[l] = "fg_save" /\ hl'[l] = hl[l]
      PROVE  FarSaved'
  <2> SUFFICES ASSUME NEW i \in 0 .. farPtr' - 1, i \notin DOMAIN farMem'
               PROVE  \E l \in 0 .. depth' : pc'[l] = "fg_save" /\ hl'[l] = i
    BY DEF FarSaved
  <2>1. i \in 0 .. farPtr - 1 /\ i \notin DOMAIN farMem
    BY <1>0, <1>1
  <2>2. PICK l \in 0 .. depth : pc[l] = "fg_save" /\ hl[l] = i
    BY <2>1 DEF FarSaved
  <2> QED BY <1>1, <2>2
<1>2. ASSUME UNCHANGED <<farPtr, farMem, depth>>, pc[depth] # "fg_save",
             \A l \in Level : l # depth => pc'[l] = pc[l] /\ hl'[l] = hl[l]
      PROVE  FarSaved'
  BY <1>0, <1>1, <1>2
<1>3. ASSUME UNCHANGED <<farPtr, farMem, depth, pc, hl>> PROVE FarSaved'
  BY <1>1, <1>3
<1>4. CASE CallLoad
  BY <1>0, <1>2, <1>4 DEF CallLoad, Running, Goto, memVars, irqVars, regVars, specVars
<1>5. CASE CallReserve
  BY <1>0, <1>2, <1>5 DEF CallReserve, Running, Goto, memVars, irqVars, regVars, specVars
<1>6. CASE CallFill
  BY <1>0, <1>2, <1>6 DEF CallFill, Running, Goto, memVars, irqVars, regVars, specVars
<1>7. CASE CallShadow
  BY <1>0, <1>2, <1>7 DEF CallShadow, Running, Goto, memVars, irqVars, regVars, specVars
<1>8. CASE CallSlot
  BY <1>0, <1>2, <1>8 DEF CallSlot, Running, Goto, memVars, irqVars, regVars, specVars
<1>9. CASE CallEnter
  BY <1>0, <1>2, <1>9 DEF CallEnter, Running, Goto, memVars, irqVars, regVars, specVars
<1>10. CASE RtsPop
  BY <1>0, <1>2, <1>10 DEF RtsPop, Running, Goto, memVars, irqVars, regVars, specVars
<1>11. CASE RtsSlot
  BY <1>0, <1>2, <1>11 DEF RtsSlot, Running, Goto, memVars, irqVars, regVars, specVars
<1>12. CASE RtsPublish
  BY <1>0, <1>2, <1>12 DEF RtsPublish, Running, Goto, memVars, irqVars, regVars, specVars
<1>13. CASE DispatchSpill
  BY <1>0, <1>2, <1>13 DEF DispatchSpill, Running, Goto, memVars, irqVars, regVars, specVars
<1>14. CASE DispatchKey
  BY <1>0, <1>2, <1>14 DEF DispatchKey, Running, Goto, memVars, irqVars, regVars, specVars
<1>15. CASE DispatchLabel
  BY <1>0, <1>2, <1>15 DEF DispatchLabel, Running, Goto, memVars, irqVars, regVars, specVars
<1>16. CASE DispatchBank
  BY <1>0, <1>2, <1>16 DEF DispatchBank, Running, Goto, memVars, irqVars, regVars, specVars
<1>17. CASE DispatchSlow
  BY <1>0, <1>2, <1>17 DEF DispatchSlow, Running, Goto, memVars, irqVars, regVars, specVars
<1>18. CASE FarLoad
  BY <1>0, <1>2, <1>18 DEF FarLoad, Running, Goto, memVars, irqVars, regVars, specVars
<1>19. CASE FarShadow
  BY <1>0, <1>2, <1>19 DEF FarShadow, Running, Goto, memVars, irqVars, regVars, specVars
<1>20. CASE FarSlot
  BY <1>0, <1>2, <1>20 DEF FarSlot, Running, Goto, memVars, irqVars, regVars, specVars
<1>21. CASE FarEnter
  BY <1>0, <1>2, <1>21 DEF FarEnter, Running, Goto, memVars, irqVars, regVars, specVars
<1>22. CASE RtsDispatchSpill
  BY <1>0, <1>2, <1>22 DEF RtsDispatchSpill, Running, Goto, memVars, irqVars, regVars, specVars
<1>23. CASE RtsDispatchLoad
  BY <1>0, <1>2, <1>23 DEF RtsDispatchLoad, Running, Goto, memVars, irqVars, regVars, specVars
<1>24. CASE TailDispatch
  BY <1>0, <1>2, <1>24 DEF TailDispatch, Running, Goto, memVars, irqVars, regVars, specVars
<1>25. CASE Rti
  BY <1>0, <1>2, <1>25 DEF Rti, Running, Goto, memVars, irqVars, regVars, specVars
<1>26. CASE NativeRet
  BY <1>0, <1>2, <1>26 DEF NativeRet, Running, Goto, memVars, irqVars, regVars, specVars
<1>27. CASE AfterRead
  BY <1>0, <1>2, <1>27 DEF AfterRead, Running, Goto, memVars, irqVars, regVars, specVars
<1>28. CASE AfterShadow
  BY <1>0, <1>2, <1>28 DEF AfterShadow, Running, Goto, memVars, irqVars, regVars, specVars
<1>29. CASE AfterSlot
  BY <1>0, <1>2, <1>29 DEF AfterSlot, Running, Goto, memVars, irqVars, regVars, specVars
<1>30. CASE BootDone
  BY <1>0, <1>2, <1>30 DEF BootDone, Running, Goto, memVars, irqVars, regVars, specVars
<1>31. ASSUME NEW r \in Callee, NEW v \in Acc, Jsr(r, v) PROVE FarSaved'
  BY <1>0, <1>2, <1>31 DEF Jsr, Running, Goto, memVars, irqVars, regVars, specVars
<1>32. ASSUME NEW r \in Callee, NEW v \in Acc, BankedDispatch(r, v) PROVE FarSaved'
  BY <1>0, <1>2, <1>32 DEF BankedDispatch, Running, Goto, memVars, irqVars, regVars, specVars
<1>33. ASSUME NEW r \in Callee, NEW v \in Acc, IndirectJmp(r, v) PROVE FarSaved'
  BY <1>0, <1>2, <1>33 DEF IndirectJmp, Running, Goto, memVars, irqVars, regVars, specVars
<1>34. ASSUME NEW r \in Callee, NEW v \in Acc, RtsDispatch(r, v) PROVE FarSaved'
  BY <1>0, <1>2, <1>34 DEF RtsDispatch, Running, Goto, memVars, irqVars, regVars, specVars
<1>35. ASSUME NEW v \in Acc, Rts(v) PROVE FarSaved'
  BY <1>0, <1>2, <1>35 DEF Rts, Running, Goto, memVars, irqVars, regVars, specVars
<1>36. ASSUME NEW b \in BOOLEAN, WriteNmiEnable(b) PROVE FarSaved'
  BY <1>3, <1>36 DEF WriteNmiEnable, memVars, regVars
<1>37. CASE SpuriousEntry
  BY <1>3, <1>37 DEF SpuriousEntry, memVars, regVars
<1>38. CASE FrameIrqSkip
  BY <1>3, <1>38 DEF FrameIrqSkip, memVars, regVars
<1>39. CASE LineIrq
  BY <1>3, <1>39 DEF LineIrq, memVars, regVars
<1>40. CASE UNCHANGED vars
  BY <1>3, <1>40 DEF vars, memVars, irqVars, regVars
<1>41. CASE FarReserve
  <2>1. hl[depth] = farPtr
    BY <1>41, Indices DEF FarReserve, Running
  <2>2. /\ farPtr' = farPtr + 1 /\ UNCHANGED <<farMem, depth, hl>>
        /\ pc' = [pc EXCEPT ![depth] = "fg_save"] /\ pc[depth] = "fg_reserve"
    BY <1>41, <2>1 DEF FarReserve, Running, Goto, irqVars, regVars
  <2> SUFFICES ASSUME NEW i \in 0 .. farPtr, i \notin DOMAIN farMem
               PROVE  \E l \in 0 .. depth : pc'[l] = "fg_save" /\ hl[l] = i
    BY <1>0, <2>2 DEF FarSaved
  <2>3. CASE i = farPtr
    <3>1. pc'[depth] = "fg_save" /\ depth \in 0 .. depth
      BY <1>0, <2>2 DEF Level
    <3> QED BY <2>1, <2>3, <3>1
  <2>4. CASE i # farPtr
    <3>1. i \in 0 .. farPtr - 1
      BY <1>0, <2>4
    <3>2. PICK l \in 0 .. depth : pc[l] = "fg_save" /\ hl[l] = i
      BY <3>1 DEF FarSaved
    <3>3. pc'[l] = "fg_save"
      BY <1>0, <2>2, <3>2
    <3> QED BY <3>2, <3>3
  <2> QED BY <2>3, <2>4
<1>42. CASE FarSave
  <2>1. /\ UNCHANGED <<farPtr, depth, hl>> /\ farMem' = WithEntry(hl[depth])
        /\ pc' = [pc EXCEPT ![depth] = "fg_shadow"]
    BY <1>42 DEF FarSave, Goto, irqVars, regVars
  <2>2. DOMAIN farMem \subseteq DOMAIN farMem' /\ hl[depth] \in DOMAIN farMem'
    BY <2>1 DEF WithEntry
  <2>3. \A l \in 0 .. depth : l # depth => pc'[l] = pc[l]
    BY <1>0, <2>1
  <2> QED BY <1>1, <2>1, <2>2, <2>3
<1>43. CASE AfterPublish
  <2>1. hl[depth] = farPtr - 1
    BY <1>43, Indices DEF AfterPublish, Running
  <2>2. /\ farPtr' = farPtr - 1 /\ UNCHANGED <<farMem, depth, hl>>
        /\ pc' = [pc EXCEPT ![depth] = "fa_shadow"] /\ pc[depth] = "fa_publish"
    BY <1>43, <2>1 DEF AfterPublish, Running, Goto, irqVars, regVars
  <2>3. \A l \in 0 .. depth : pc[l] = "fg_save" => pc'[l] = "fg_save"
    BY <1>0, <2>2
  <2> QED BY <1>0, <1>1, <2>2, <2>3
<1>44. CASE BridgeReturn
  <2>1. /\ UNCHANGED <<farPtr, farMem>> /\ pc[depth] = "bridge" /\ depth' = depth - 1
        /\ pc' = [pc EXCEPT ![depth] = "idle"] /\ hl' = [hl EXCEPT ![depth] = 0]
    BY <1>44 DEF BridgeReturn, Running, Goto
  <2>2. ASSUME NEW l \in 0 .. depth, pc[l] = "fg_save"
        PROVE  l \in 0 .. depth' /\ pc'[l] = "fg_save" /\ hl'[l] = hl[l]
    <3>1. l # depth /\ l \in Level
      BY <1>0, <2>1, <2>2
    <3>2. l \in 0 .. depth - 1
      BY <1>0, <3>1 DEF Level
    <3> QED BY <1>0, <2>1, <2>2, <3>1, <3>2
  <2> QED BY <1>1, <2>1, <2>2
<1>45. CASE FrameIrqDeliver
  <2>1. /\ UNCHANGED <<farPtr, farMem, hl>> /\ depth' = depth + 1
        /\ pc' = [pc EXCEPT ![depth + 1] = "body"]
    BY <1>45 DEF FrameIrqDeliver
  <2>2. ASSUME NEW l \in 0 .. depth, pc[l] = "fg_save"
        PROVE  l \in 0 .. depth' /\ pc'[l] = "fg_save" /\ hl'[l] = hl[l]
    <3>1. l # depth + 1 /\ l \in Level /\ l \in 0 .. depth + 1
      BY <1>0, <2>2 DEF Level
    <3> QED BY <1>0, <2>1, <2>2, <3>1
  <2> QED BY <1>1, <2>1, <2>2
<1> QED
  BY <1>4, <1>5, <1>6, <1>7, <1>8, <1>9, <1>10, <1>11, <1>12, <1>13, <1>14, <1>15, <1>16,
     <1>17, <1>18, <1>19, <1>20, <1>21, <1>22, <1>23, <1>24, <1>25, <1>26, <1>27, <1>28,
     <1>29, <1>30, <1>31, <1>32, <1>33, <1>34, <1>35, <1>36, <1>37, <1>38, <1>39, <1>40,
     <1>41, <1>42, <1>43, <1>44, <1>45
     DEF Next, Transfer, CallStep, RtsStep, FarStep, TailStep, AfterStep, Irq

\* No _far_after maps a byte of the far LIFO that no far gate ever wrote, however
\* gates and NMI bodies interrupt each other and however far the unchecked pointer
\* has moved (dispatch.s, rt_far_gate).
THEOREM FarEntriesSaved == Spec => []FarSaved
<1>1. Init => FarSaved
  BY DEF Init, FarSaved
<1>2. IInv /\ FarSaved /\ [Next]_vars => FarSaved'
  BY FarSavedStep DEF IInv
<1> QED BY <1>1, <1>2, Inductive, PTL DEF Spec

\* Replacing the innermost routine leaves those that wait for it.
LEMMA BecomeInnermost ==
    ASSUME NEW s \in Seq(Routine), Len(s) >= 1, NEW r \in Routine
    PROVE  /\ Len(Become(s, r)) = Len(s) /\ Become(s, r)[Len(s)] = r
           /\ \A i \in 1 .. Len(s) - 1 : Become(s, r)[i] = s[i]
<1>1. s # << >>
  OBVIOUS
<1>2. Len(Become(s, r)) = Len(s)
  BY <1>1, BecomeType
<1>3. \A i \in 1 .. Len(s) : Become(s, r)[i] = IF i = Len(s) THEN r ELSE s[i]
  BY DEF Become
<1> QED BY <1>2, <1>3

\* Dropping the innermost routine leaves those below it.
LEMMA DropKeeps ==
    ASSUME NEW s \in Seq(Routine), Len(s) > 1
    PROVE  /\ Len(SubSeq(s, 1, Len(s) - 1)) = Len(s) - 1
           /\ \A i \in 1 .. Len(s) - 1 : SubSeq(s, 1, Len(s) - 1)[i] = s[i]
<1>1. Len(SubSeq(s, 1, Len(s) - 1)) = Len(s) - 1
  BY DropType
<1>2. \A i \in 1 .. Len(s) - 1 : SubSeq(s, 1, Len(s) - 1)[i] = s[i]
  OBVIOUS
<1> QED BY <1>1, <1>2
-----------------------------------------------------------------------------
\* Where a context is going: the routine it executes, or the register that
\* holds the label it transfers to, is the routine 6502 semantics names.
Headed(l) ==
    /\ pc[l] \in {"boot", "body"} => at[l] = Innermost(want[l])
    /\ pc[l] \in {"call_ptr", "call_reserve", "call_fill"}
          => at[l] = want[l][Len(want[l]) - 1]
    /\ pc[l] \in (CallPoint \cup FarPoint \cup TailPoint \cup {"rts_slot", "rts_publish"})
                    \ {"bd_label"}
          => to[l] = Innermost(want[l])
    /\ pc[l] = "bd_label" => mru.label = Innermost(want[l])

\* Every frame of a context's share, unless it is still to be written, holds
\* the routine that waits for the return.
Returns(l) ==
    \A i \in 1 .. TrOwned(l) :
        (pc[l] = "call_fill" => i < TrOwned(l))
            => trMem[entry[l].tr + i - 1].cont = want[l][i]

\* The MRU entry answers for the label it was keyed with, and every context
\* that runs or was interrupted is on its way.
Headings ==
    /\ mru.label = mru.tgt
    /\ \A l \in Level : l <= depth => Headed(l) /\ Returns(l)

\* The frames of an interrupted context lie below the share that runs.
LEMMA FrozenShare ==
    ASSUME TypeOK, StacksOwned, NEW l \in Level, l < depth
    PROVE  /\ entry[l].tr \in Nat /\ TrOwned(l) \in Nat
           /\ entry[l].tr + TrOwned(l) <= entry[depth].tr
<1>1. entry[l + 1].tr <= entry[depth].tr
  BY Below
<1>2. entry[l + 1].tr = entry[l].tr + TrOwned(l)
  BY DEF StacksOwned
<1>3. entry[l].tr \in Nat /\ TrOwned(l) \in Nat
  BY Shares DEF TypeOK
<1> QED BY <1>1, <1>2, <1>3

\* A step of the running context that keeps to its own share, and to the MRU
\* entry at level 0 only, leaves the interrupted contexts on their way.
LEMMA OneHeaded ==
    ASSUME TypeOK, StacksOwned, Headings,
           depth' = depth, entry' = entry, mru' = mru \/ depth = 0,
           mru'.label = mru'.tgt,
           \A l \in Level : l # depth =>
               /\ pc'[l] = pc[l] /\ at'[l] = at[l] /\ to'[l] = to[l] /\ want'[l] = want[l],
           \A i \in 0 .. entry[depth].tr - 1 : trMem'[i] = trMem[i],
           Headed(depth)', Returns(depth)'
    PROVE  Headings'
<1>1. ASSUME NEW l \in Level, l < depth
      PROVE  Headed(l)' /\ Returns(l)'
  <2>1. /\ pc'[l] = pc[l] /\ at'[l] = at[l] /\ to'[l] = to[l] /\ want'[l] = want[l]
        /\ mru' = mru /\ entry'[l] = entry[l]
    BY <1>1 DEF TypeOK, Level
  <2>2. Headed(l) /\ Returns(l)
    BY <1>1 DEF Headings, TypeOK, Level
  <2>3. Headed(l)'
    BY <2>1, <2>2 DEF Headed
  <2>4. TrOwned(l)' = TrOwned(l)
    BY <2>1 DEF TrOwned
  <2>5. ASSUME NEW i \in 1 .. TrOwned(l)
        PROVE  trMem'[entry[l].tr + i - 1] = trMem[entry[l].tr + i - 1]
    <3>1. /\ entry[l].tr \in Nat /\ TrOwned(l) \in Nat /\ entry[depth].tr \in Nat
          /\ entry[l].tr + TrOwned(l) <= entry[depth].tr
      BY <1>1, FrozenShare DEF TypeOK
    <3>2. entry[l].tr + i - 1 \in 0 .. entry[depth].tr - 1
      BY <3>1
    <3> QED BY <3>2
  <2>6. Returns(l)'
    BY <2>1, <2>2, <2>4, <2>5 DEF Returns
  <2> QED BY <2>3, <2>6
<1>2. ASSUME NEW l \in Level, l <= depth' PROVE l < depth \/ l = depth
  BY <1>2 DEF TypeOK, Level, MaxDepth
<1> QED BY <1>1, <1>2 DEF Headings

\* A step between points of equal share, that writes no continuation, keeps
\* the frames of the context that takes it.
LEMMA SameReturns ==
    ASSUME Returns(depth), depth' = depth, entry' = entry, want'[depth] = want[depth],
           trMem' = trMem, TrOwned(depth)' = TrOwned(depth),
           pc[depth] # "call_fill"
    PROVE  Returns(depth)'
BY DEF Returns

\* A step of the transfers keeps every context on its way.
LEMMA HeadingsStep ==
    ASSUME "banked" \notin NmiOps
    PROVE  TypeOK /\ StacksOwned /\ Visible /\ Headings /\ [Next]_vars => Headings'
<1> SUFFICES ASSUME TypeOK, StacksOwned, Visible, Headings, [Next]_vars PROVE Headings'
  OBVIOUS
<1> DEFINE Elsewhere ==
      /\ depth' = depth /\ entry' = entry
      /\ mru' = mru \/ depth = 0
      /\ mru'.label = mru'.tgt
      /\ \A l \in Level : l # depth =>
             /\ pc'[l] = pc[l] /\ at'[l] = at[l] /\ to'[l] = to[l] /\ want'[l] = want[l]
<1>0. /\ depth \in Level /\ Headed(depth) /\ Returns(depth) /\ Context(depth)
      /\ mru.label = mru.tgt
      /\ pc \in [Level -> Point] /\ at \in [Level -> Routine] /\ to \in [Level -> Routine]
      /\ want \in [Level -> Seq(Routine)] /\ Len(want[depth]) \in Nat
      /\ entry[depth].tr \in Nat /\ hl[depth] \in Int
      /\ TrCap \in Nat
      /\ trMem \in [0 .. TrCap - 1 -> [a : Acc \cup {Junk}, cont : Routine, bank : Bank]]
  <2>1. /\ depth \in Level
        /\ pc \in [Level -> Point] /\ at \in [Level -> Routine] /\ to \in [Level -> Routine]
        /\ want \in [Level -> Seq(Routine)]
        /\ trMem \in [0 .. TrCap - 1 -> [a : Acc \cup {Junk}, cont : Routine, bank : Bank]]
    BY DEF TypeOK
  <2>2. depth <= depth
    BY <2>1 DEF Level
  <2>3. Headed(depth) /\ Returns(depth) /\ mru.label = mru.tgt
    BY <2>1, <2>2, Zenon DEF Headings
  <2>4. Context(depth)
    BY <2>1, <2>2 DEF StacksOwned
  <2>5. Len(want[depth]) \in Nat
    <3>1. want[depth] \in Seq(Routine)
      BY <2>1
    <3> QED BY <3>1, LenProperties
  <2>6. entry[depth].tr \in Nat /\ hl[depth] \in Int /\ TrCap \in Nat
    BY <2>1, CapAssumption DEF TypeOK
  <2> QED BY <2>1, <2>3, <2>4, <2>5, <2>6
<1>w. \A i \in 0 .. entry[depth].tr - 1 : trMem'[i] = trMem[i]
  BY WritesOwnShare
<1>one. ASSUME Elsewhere, Headed(depth)', Returns(depth)' PROVE Headings'
  BY <1>w, <1>one, OneHeaded
<1>same. ASSUME UNCHANGED <<depth, entry, mru, pc, at, to, want, trMem>> PROVE Headings'
  <2>1. \A l \in Level : TrOwned(l)' = TrOwned(l)
    BY <1>same DEF TrOwned
  <2> QED BY <1>same, <2>1 DEF Headings, Headed, Returns
<1>1. CASE CallLoad
  <2>1. Elsewhere
    BY <1>1, <1>0 DEF CallLoad, Goto, memVars, irqVars, regVars, specVars
  <2>2. Headed(depth)'
    BY <1>1, <1>0 DEF CallLoad, Goto, Running, memVars, irqVars, regVars, specVars, Headed, Innermost, CallPoint, RtsPoint, FarPoint, TailPoint, AfterPoint
  <2>3. TrOwned(depth)' = TrOwned(depth)
    BY <1>1, <1>0 DEF CallLoad, Goto, Running, memVars, irqVars, regVars, specVars, TrOwned, RtsPoint
  <2>4. Returns(depth)'
    BY <1>1, <1>0, <2>1, <2>3, SameReturns DEF CallLoad, Goto, Running, memVars, irqVars, regVars, specVars
  <2> QED BY <2>1, <2>2, <2>4, <1>one
<1>2. CASE CallShadow
  <2>1. Elsewhere
    BY <1>2, <1>0 DEF CallShadow, Goto, memVars, irqVars, regVars, specVars
  <2>2. Headed(depth)'
    BY <1>2, <1>0 DEF CallShadow, Goto, Running, memVars, irqVars, regVars, specVars, Headed, Innermost, CallPoint, RtsPoint, FarPoint, TailPoint, AfterPoint
  <2>3. TrOwned(depth)' = TrOwned(depth)
    BY <1>2, <1>0 DEF CallShadow, Goto, Running, memVars, irqVars, regVars, specVars, TrOwned, RtsPoint
  <2>4. Returns(depth)'
    BY <1>2, <1>0, <2>1, <2>3, SameReturns DEF CallShadow, Goto, Running, memVars, irqVars, regVars, specVars
  <2> QED BY <2>1, <2>2, <2>4, <1>one
<1>3. CASE CallSlot
  <2>1. Elsewhere
    BY <1>3, <1>0 DEF CallSlot, Goto, memVars, irqVars, regVars, specVars
  <2>2. Headed(depth)'
    BY <1>3, <1>0 DEF CallSlot, Goto, Running, memVars, irqVars, regVars, specVars, Headed, Innermost, CallPoint, RtsPoint, FarPoint, TailPoint, AfterPoint
  <2>3. TrOwned(depth)' = TrOwned(depth)
    BY <1>3, <1>0 DEF CallSlot, Goto, Running, memVars, irqVars, regVars, specVars, TrOwned, RtsPoint
  <2>4. Returns(depth)'
    BY <1>3, <1>0, <2>1, <2>3, SameReturns DEF CallSlot, Goto, Running, memVars, irqVars, regVars, specVars
  <2> QED BY <2>1, <2>2, <2>4, <1>one
<1>4. CASE CallEnter
  <2>1. Elsewhere
    BY <1>4, <1>0 DEF CallEnter, Goto, memVars, irqVars, regVars, specVars
  <2>2. Headed(depth)'
    BY <1>4, <1>0 DEF CallEnter, Goto, Running, memVars, irqVars, regVars, specVars, Headed, Innermost, CallPoint, RtsPoint, FarPoint, TailPoint, AfterPoint
  <2>3. TrOwned(depth)' = TrOwned(depth)
    BY <1>4, <1>0 DEF CallEnter, Goto, Running, memVars, irqVars, regVars, specVars, TrOwned, RtsPoint
  <2>4. Returns(depth)'
    BY <1>4, <1>0, <2>1, <2>3, SameReturns DEF CallEnter, Goto, Running, memVars, irqVars, regVars, specVars
  <2> QED BY <2>1, <2>2, <2>4, <1>one
<1>5. CASE RtsSlot
  <2>1. Elsewhere
    BY <1>5, <1>0 DEF RtsSlot, Goto, memVars, irqVars, regVars, specVars
  <2>2. Headed(depth)'
    BY <1>5, <1>0 DEF RtsSlot, Goto, Running, memVars, irqVars, regVars, specVars, Headed, Innermost, CallPoint, RtsPoint, FarPoint, TailPoint, AfterPoint
  <2>3. TrOwned(depth)' = TrOwned(depth)
    BY <1>5, <1>0 DEF RtsSlot, Goto, Running, memVars, irqVars, regVars, specVars, TrOwned, RtsPoint
  <2>4. Returns(depth)'
    BY <1>5, <1>0, <2>1, <2>3, SameReturns DEF RtsSlot, Goto, Running, memVars, irqVars, regVars, specVars
  <2> QED BY <2>1, <2>2, <2>4, <1>one
<1>6. CASE DispatchSpill
  <2>1. Elsewhere
    BY <1>6, <1>0 DEF DispatchSpill, Goto, memVars, irqVars, regVars, specVars
  <2>2. Headed(depth)'
    BY <1>6, <1>0 DEF DispatchSpill, Goto, Running, memVars, irqVars, regVars, specVars, Headed, Innermost, CallPoint, RtsPoint, FarPoint, TailPoint, AfterPoint
  <2>3. TrOwned(depth)' = TrOwned(depth)
    BY <1>6, <1>0 DEF DispatchSpill, Goto, Running, memVars, irqVars, regVars, specVars, TrOwned, RtsPoint
  <2>4. Returns(depth)'
    BY <1>6, <1>0, <2>1, <2>3, SameReturns DEF DispatchSpill, Goto, Running, memVars, irqVars, regVars, specVars
  <2> QED BY <2>1, <2>2, <2>4, <1>one
<1>7. CASE DispatchKey
  <2>1. Elsewhere
    BY <1>7, <1>0 DEF DispatchKey, Goto, memVars, irqVars, regVars, specVars
  <2>2. Headed(depth)'
    BY <1>7, <1>0 DEF DispatchKey, Goto, Running, memVars, irqVars, regVars, specVars, Headed, Innermost, CallPoint, RtsPoint, FarPoint, TailPoint, AfterPoint
  <2>3. TrOwned(depth)' = TrOwned(depth)
    BY <1>7, <1>0 DEF DispatchKey, Goto, Running, memVars, irqVars, regVars, specVars, TrOwned, RtsPoint
  <2>4. Returns(depth)'
    BY <1>7, <1>0, <2>1, <2>3, SameReturns DEF DispatchKey, Goto, Running, memVars, irqVars, regVars, specVars
  <2> QED BY <2>1, <2>2, <2>4, <1>one
<1>8. CASE DispatchLabel
  <2>1. Elsewhere
    BY <1>8, <1>0 DEF DispatchLabel, Goto, memVars, irqVars, regVars, specVars
  <2>2. Headed(depth)'
    BY <1>8, <1>0 DEF DispatchLabel, Goto, Running, memVars, irqVars, regVars, specVars, Headed, Innermost, CallPoint, RtsPoint, FarPoint, TailPoint, AfterPoint
  <2>3. TrOwned(depth)' = TrOwned(depth)
    BY <1>8, <1>0 DEF DispatchLabel, Goto, Running, memVars, irqVars, regVars, specVars, TrOwned, RtsPoint
  <2>4. Returns(depth)'
    BY <1>8, <1>0, <2>1, <2>3, SameReturns DEF DispatchLabel, Goto, Running, memVars, irqVars, regVars, specVars
  <2> QED BY <2>1, <2>2, <2>4, <1>one
<1>9. CASE DispatchBank
  <2>1. Elsewhere
    BY <1>9, <1>0 DEF DispatchBank, Goto, memVars, irqVars, regVars, specVars
  <2>2. Headed(depth)'
    BY <1>9, <1>0 DEF DispatchBank, Goto, Running, memVars, irqVars, regVars, specVars, Headed, Innermost, CallPoint, RtsPoint, FarPoint, TailPoint, AfterPoint
  <2>3. TrOwned(depth)' = TrOwned(depth)
    BY <1>9, <1>0 DEF DispatchBank, Goto, Running, memVars, irqVars, regVars, specVars, TrOwned, RtsPoint
  <2>4. Returns(depth)'
    BY <1>9, <1>0, <2>1, <2>3, SameReturns DEF DispatchBank, Goto, Running, memVars, irqVars, regVars, specVars
  <2> QED BY <2>1, <2>2, <2>4, <1>one
<1>10. CASE DispatchSlow
  <2>0. depth = 0
    BY <1>10, <1>0 DEF DispatchSlow, Visible, Quiet, Level, FarPoint, Running
  <2>1. Elsewhere
    BY <1>10, <1>0, <2>0 DEF DispatchSlow, Goto, specVars
  <2>2. Headed(depth)'
    BY <1>10, <1>0 DEF DispatchSlow, Goto, Running, specVars, Headed, Innermost, CallPoint, RtsPoint, FarPoint, TailPoint, AfterPoint
  <2>3. TrOwned(depth)' = TrOwned(depth)
    BY <1>10, <1>0 DEF DispatchSlow, Goto, Running, specVars, TrOwned, RtsPoint
  <2>4. Returns(depth)'
    BY <1>10, <1>0, <2>1, <2>3, SameReturns DEF DispatchSlow, Goto, Running, specVars
  <2> QED BY <2>1, <2>2, <2>4, <1>one
<1>11. CASE FarLoad
  <2>1. Elsewhere
    BY <1>11, <1>0 DEF FarLoad, Goto, memVars, irqVars, regVars, specVars
  <2>2. Headed(depth)'
    BY <1>11, <1>0 DEF FarLoad, Goto, Running, memVars, irqVars, regVars, specVars, Headed, Innermost, CallPoint, RtsPoint, FarPoint, TailPoint, AfterPoint
  <2>3. TrOwned(depth)' = TrOwned(depth)
    BY <1>11, <1>0 DEF FarLoad, Goto, Running, memVars, irqVars, regVars, specVars, TrOwned, RtsPoint
  <2>4. Returns(depth)'
    BY <1>11, <1>0, <2>1, <2>3, SameReturns DEF FarLoad, Goto, Running, memVars, irqVars, regVars, specVars
  <2> QED BY <2>1, <2>2, <2>4, <1>one
<1>12. CASE FarReserve
  <2>1. Elsewhere
    BY <1>12, <1>0 DEF FarReserve, Goto, memVars, irqVars, regVars, specVars
  <2>2. Headed(depth)'
    BY <1>12, <1>0 DEF FarReserve, Goto, Running, memVars, irqVars, regVars, specVars, Headed, Innermost, CallPoint, RtsPoint, FarPoint, TailPoint, AfterPoint
  <2>3. TrOwned(depth)' = TrOwned(depth)
    BY <1>12, <1>0 DEF FarReserve, Goto, Running, memVars, irqVars, regVars, specVars, TrOwned, RtsPoint
  <2>4. Returns(depth)'
    BY <1>12, <1>0, <2>1, <2>3, SameReturns DEF FarReserve, Goto, Running, memVars, irqVars, regVars, specVars
  <2> QED BY <2>1, <2>2, <2>4, <1>one
<1>13. CASE FarSave
  <2>1. Elsewhere
    BY <1>13, <1>0 DEF FarSave, Goto, memVars, irqVars, regVars, specVars
  <2>2. Headed(depth)'
    BY <1>13, <1>0 DEF FarSave, Goto, Running, memVars, irqVars, regVars, specVars, Headed, Innermost, CallPoint, RtsPoint, FarPoint, TailPoint, AfterPoint
  <2>3. TrOwned(depth)' = TrOwned(depth)
    BY <1>13, <1>0 DEF FarSave, Goto, Running, memVars, irqVars, regVars, specVars, TrOwned, RtsPoint
  <2>4. Returns(depth)'
    BY <1>13, <1>0, <2>1, <2>3, SameReturns DEF FarSave, Goto, Running, memVars, irqVars, regVars, specVars
  <2> QED BY <2>1, <2>2, <2>4, <1>one
<1>14. CASE FarShadow
  <2>1. Elsewhere
    BY <1>14, <1>0 DEF FarShadow, Goto, memVars, irqVars, regVars, specVars
  <2>2. Headed(depth)'
    BY <1>14, <1>0 DEF FarShadow, Goto, Running, memVars, irqVars, regVars, specVars, Headed, Innermost, CallPoint, RtsPoint, FarPoint, TailPoint, AfterPoint
  <2>3. TrOwned(depth)' = TrOwned(depth)
    BY <1>14, <1>0 DEF FarShadow, Goto, Running, memVars, irqVars, regVars, specVars, TrOwned, RtsPoint
  <2>4. Returns(depth)'
    BY <1>14, <1>0, <2>1, <2>3, SameReturns DEF FarShadow, Goto, Running, memVars, irqVars, regVars, specVars
  <2> QED BY <2>1, <2>2, <2>4, <1>one
<1>15. CASE FarSlot
  <2>1. Elsewhere
    BY <1>15, <1>0 DEF FarSlot, Goto, memVars, irqVars, regVars, specVars
  <2>2. Headed(depth)'
    BY <1>15, <1>0 DEF FarSlot, Goto, Running, memVars, irqVars, regVars, specVars, Headed, Innermost, CallPoint, RtsPoint, FarPoint, TailPoint, AfterPoint
  <2>3. TrOwned(depth)' = TrOwned(depth)
    BY <1>15, <1>0 DEF FarSlot, Goto, Running, memVars, irqVars, regVars, specVars, TrOwned, RtsPoint
  <2>4. Returns(depth)'
    BY <1>15, <1>0, <2>1, <2>3, SameReturns DEF FarSlot, Goto, Running, memVars, irqVars, regVars, specVars
  <2> QED BY <2>1, <2>2, <2>4, <1>one
<1>16. CASE FarEnter
  <2>1. Elsewhere
    BY <1>16, <1>0 DEF FarEnter, Goto, memVars, irqVars, regVars, specVars
  <2>2. Headed(depth)'
    BY <1>16, <1>0 DEF FarEnter, Goto, Running, memVars, irqVars, regVars, specVars, Headed, Innermost, CallPoint, RtsPoint, FarPoint, TailPoint, AfterPoint
  <2>3. TrOwned(depth)' = TrOwned(depth)
    BY <1>16, <1>0 DEF FarEnter, Goto, Running, memVars, irqVars, regVars, specVars, TrOwned, RtsPoint
  <2>4. Returns(depth)'
    BY <1>16, <1>0, <2>1, <2>3, SameReturns DEF FarEnter, Goto, Running, memVars, irqVars, regVars, specVars
  <2> QED BY <2>1, <2>2, <2>4, <1>one
<1>17. CASE RtsDispatchSpill
  <2>1. Elsewhere
    BY <1>17, <1>0 DEF RtsDispatchSpill, Goto, memVars, irqVars, regVars, specVars
  <2>2. Headed(depth)'
    BY <1>17, <1>0 DEF RtsDispatchSpill, Goto, Running, memVars, irqVars, regVars, specVars, Headed, Innermost, CallPoint, RtsPoint, FarPoint, TailPoint, AfterPoint
  <2>3. TrOwned(depth)' = TrOwned(depth)
    BY <1>17, <1>0 DEF RtsDispatchSpill, Goto, Running, memVars, irqVars, regVars, specVars, TrOwned, RtsPoint
  <2>4. Returns(depth)'
    BY <1>17, <1>0, <2>1, <2>3, SameReturns DEF RtsDispatchSpill, Goto, Running, memVars, irqVars, regVars, specVars
  <2> QED BY <2>1, <2>2, <2>4, <1>one
<1>18. CASE RtsDispatchLoad
  <2>1. Elsewhere
    BY <1>18, <1>0 DEF RtsDispatchLoad, Goto, memVars, irqVars, regVars, specVars
  <2>2. Headed(depth)'
    BY <1>18, <1>0 DEF RtsDispatchLoad, Goto, Running, memVars, irqVars, regVars, specVars, Headed, Innermost, CallPoint, RtsPoint, FarPoint, TailPoint, AfterPoint
  <2>3. TrOwned(depth)' = TrOwned(depth)
    BY <1>18, <1>0 DEF RtsDispatchLoad, Goto, Running, memVars, irqVars, regVars, specVars, TrOwned, RtsPoint
  <2>4. Returns(depth)'
    BY <1>18, <1>0, <2>1, <2>3, SameReturns DEF RtsDispatchLoad, Goto, Running, memVars, irqVars, regVars, specVars
  <2> QED BY <2>1, <2>2, <2>4, <1>one
<1>19. CASE TailDispatch
  <2>1. Elsewhere
    BY <1>19, <1>0 DEF TailDispatch, Goto, memVars, irqVars, regVars, specVars
  <2>2. Headed(depth)'
    BY <1>19, <1>0 DEF TailDispatch, Goto, Running, memVars, irqVars, regVars, specVars, Headed, Innermost, CallPoint, RtsPoint, FarPoint, TailPoint, AfterPoint
  <2>3. TrOwned(depth)' = TrOwned(depth)
    BY <1>19, <1>0 DEF TailDispatch, Goto, Running, memVars, irqVars, regVars, specVars, TrOwned, RtsPoint
  <2>4. Returns(depth)'
    BY <1>19, <1>0, <2>1, <2>3, SameReturns DEF TailDispatch, Goto, Running, memVars, irqVars, regVars, specVars
  <2> QED BY <2>1, <2>2, <2>4, <1>one
<1>20. CASE NativeRet
  <2>1. Elsewhere
    BY <1>20, <1>0 DEF NativeRet, Goto, memVars, irqVars, regVars, specVars
  <2>2. Headed(depth)'
    BY <1>20, <1>0 DEF NativeRet, Goto, Running, memVars, irqVars, regVars, specVars, Headed, Innermost, CallPoint, RtsPoint, FarPoint, TailPoint, AfterPoint
  <2>3. TrOwned(depth)' = TrOwned(depth)
    BY <1>20, <1>0 DEF NativeRet, Goto, Running, memVars, irqVars, regVars, specVars, TrOwned, RtsPoint
  <2>4. Returns(depth)'
    BY <1>20, <1>0, <2>1, <2>3, SameReturns DEF NativeRet, Goto, Running, memVars, irqVars, regVars, specVars
  <2> QED BY <2>1, <2>2, <2>4, <1>one
<1>21. CASE AfterRead
  <2>1. Elsewhere
    BY <1>21, <1>0 DEF AfterRead, Goto, memVars, irqVars, regVars, specVars
  <2>2. Headed(depth)'
    BY <1>21, <1>0 DEF AfterRead, Goto, Running, memVars, irqVars, regVars, specVars, Headed, Innermost, CallPoint, RtsPoint, FarPoint, TailPoint, AfterPoint
  <2>3. TrOwned(depth)' = TrOwned(depth)
    BY <1>21, <1>0 DEF AfterRead, Goto, Running, memVars, irqVars, regVars, specVars, TrOwned, RtsPoint
  <2>4. Returns(depth)'
    BY <1>21, <1>0, <2>1, <2>3, SameReturns DEF AfterRead, Goto, Running, memVars, irqVars, regVars, specVars
  <2> QED BY <2>1, <2>2, <2>4, <1>one
<1>22. CASE AfterPublish
  <2>1. Elsewhere
    BY <1>22, <1>0 DEF AfterPublish, Goto, memVars, irqVars, regVars, specVars
  <2>2. Headed(depth)'
    BY <1>22, <1>0 DEF AfterPublish, Goto, Running, memVars, irqVars, regVars, specVars, Headed, Innermost, CallPoint, RtsPoint, FarPoint, TailPoint, AfterPoint
  <2>3. TrOwned(depth)' = TrOwned(depth)
    BY <1>22, <1>0 DEF AfterPublish, Goto, Running, memVars, irqVars, regVars, specVars, TrOwned, RtsPoint
  <2>4. Returns(depth)'
    BY <1>22, <1>0, <2>1, <2>3, SameReturns DEF AfterPublish, Goto, Running, memVars, irqVars, regVars, specVars
  <2> QED BY <2>1, <2>2, <2>4, <1>one
<1>23. CASE AfterShadow
  <2>1. Elsewhere
    BY <1>23, <1>0 DEF AfterShadow, Goto, memVars, irqVars, regVars, specVars
  <2>2. Headed(depth)'
    BY <1>23, <1>0 DEF AfterShadow, Goto, Running, memVars, irqVars, regVars, specVars, Headed, Innermost, CallPoint, RtsPoint, FarPoint, TailPoint, AfterPoint
  <2>3. TrOwned(depth)' = TrOwned(depth)
    BY <1>23, <1>0 DEF AfterShadow, Goto, Running, memVars, irqVars, regVars, specVars, TrOwned, RtsPoint
  <2>4. Returns(depth)'
    BY <1>23, <1>0, <2>1, <2>3, SameReturns DEF AfterShadow, Goto, Running, memVars, irqVars, regVars, specVars
  <2> QED BY <2>1, <2>2, <2>4, <1>one
<1>24. CASE AfterSlot
  <2>1. Elsewhere
    BY <1>24, <1>0 DEF AfterSlot, Goto, memVars, irqVars, regVars, specVars
  <2>2. Headed(depth)'
    BY <1>24, <1>0 DEF AfterSlot, Goto, Running, memVars, irqVars, regVars, specVars, Headed, Innermost, CallPoint, RtsPoint, FarPoint, TailPoint, AfterPoint
  <2>3. TrOwned(depth)' = TrOwned(depth)
    BY <1>24, <1>0 DEF AfterSlot, Goto, Running, memVars, irqVars, regVars, specVars, TrOwned, RtsPoint
  <2>4. Returns(depth)'
    BY <1>24, <1>0, <2>1, <2>3, SameReturns DEF AfterSlot, Goto, Running, memVars, irqVars, regVars, specVars
  <2> QED BY <2>1, <2>2, <2>4, <1>one
<1>25. CASE BootDone
  <2>1. Elsewhere
    BY <1>25, <1>0 DEF BootDone, Goto, memVars, irqVars, regVars, specVars
  <2>2. Headed(depth)'
    BY <1>25, <1>0 DEF BootDone, Goto, Running, memVars, irqVars, regVars, specVars, Headed, Innermost, CallPoint, RtsPoint, FarPoint, TailPoint, AfterPoint
  <2>3. TrOwned(depth)' = TrOwned(depth)
    BY <1>25, <1>0 DEF BootDone, Goto, Running, memVars, irqVars, regVars, specVars, TrOwned, RtsPoint
  <2>4. Returns(depth)'
    BY <1>25, <1>0, <2>1, <2>3, SameReturns DEF BootDone, Goto, Running, memVars, irqVars, regVars, specVars
  <2> QED BY <2>1, <2>2, <2>4, <1>one
<1>26. CASE Rti
  <2>1. Elsewhere
    BY <1>26, <1>0 DEF Rti, Goto, memVars, irqVars, regVars, specVars
  <2>2. Headed(depth)'
    BY <1>26, <1>0 DEF Rti, Goto, Running, memVars, irqVars, regVars, specVars, Headed, Innermost, CallPoint, RtsPoint, FarPoint, TailPoint, AfterPoint
  <2>3. TrOwned(depth)' = TrOwned(depth)
    BY <1>26, <1>0 DEF Rti, Goto, Running, memVars, irqVars, regVars, specVars, TrOwned, RtsPoint
  <2>4. Returns(depth)'
    BY <1>26, <1>0, <2>1, <2>3, SameReturns DEF Rti, Goto, Running, memVars, irqVars, regVars, specVars
  <2> QED BY <2>1, <2>2, <2>4, <1>one
<1>27. CASE CallReserve
  <2>1. Elsewhere
    BY <1>27, <1>0 DEF CallReserve, Goto, memVars, irqVars, regVars, specVars
  <2>2. Headed(depth)'
    BY <1>27, <1>0 DEF CallReserve, Goto, Running, memVars, irqVars, regVars, specVars, Headed, Innermost, CallPoint, RtsPoint, FarPoint, TailPoint, AfterPoint
  <2>3. /\ pc[depth] = "call_reserve" /\ pc'[depth] = "call_fill"
        /\ trMem' = trMem /\ want' = want
    BY <1>27, <1>0 DEF CallReserve, Goto, Running, memVars, irqVars, regVars, specVars
  <2>4. /\ TrOwned(depth) = Len(want[depth]) - 2 /\ TrOwned(depth)' = Len(want[depth]) - 1
    BY <2>1, <2>3 DEF TrOwned, RtsPoint
  <2>5. ASSUME NEW i \in 1 .. TrOwned(depth)', i < TrOwned(depth)'
        PROVE  i \in 1 .. TrOwned(depth)
    BY <1>0, <2>4, <2>5
  <2>6. Returns(depth)'
    BY <1>0, <2>1, <2>3, <2>5 DEF Returns
  <2> QED BY <2>1, <2>2, <2>6, <1>one
<1>28. CASE CallFill
  <2>1. Elsewhere
    BY <1>28, <1>0 DEF CallFill, Goto, memVars, irqVars, regVars, specVars
  <2>2. Headed(depth)'
    BY <1>28, <1>0 DEF CallFill, Goto, Running, memVars, irqVars, regVars, specVars, Headed, Innermost, CallPoint, RtsPoint, FarPoint, TailPoint, AfterPoint
  <2>3. /\ pc[depth] = "call_fill" /\ pc'[depth] = "call_shadow" /\ want' = want
        /\ trMem' = [trMem EXCEPT ![hl[depth]] =
                        [a |-> acc[depth], cont |-> at[depth], bank |-> bankShadow]]
    BY <1>28, <1>0 DEF CallFill, Goto, Running, memVars, irqVars, regVars, specVars
  <2>4. TrOwned(depth) = Len(want[depth]) - 1 /\ TrOwned(depth)' = Len(want[depth]) - 1
    BY <2>1, <2>3 DEF TrOwned, RtsPoint
  <2>5. hl[depth] = entry[depth].tr + TrOwned(depth) - 1 /\ hl[depth] \in 0 .. TrCap - 1
    BY <1>0, <2>3, Indices DEF Context
  <2>6. at[depth] = want[depth][Len(want[depth]) - 1]
    BY <1>0, <2>3 DEF Headed
  <2>7. ASSUME NEW i \in 1 .. TrOwned(depth)
        PROVE  trMem'[entry[depth].tr + i - 1].cont = want[depth][i]
    <3>1. CASE i = TrOwned(depth)
      <4>1. entry[depth].tr + i - 1 = hl[depth]
        BY <2>5, <3>1
      <4>2. trMem'[hl[depth]].cont = at[depth]
        BY <1>0, <2>3, <2>5
      <4>3. at[depth] = want[depth][i]
        BY <2>4, <2>6, <3>1
      <4> QED BY <4>1, <4>2, <4>3
    <3>2. CASE i # TrOwned(depth)
      <4>1. i < TrOwned(depth) /\ entry[depth].tr + i - 1 # hl[depth]
        BY <1>0, <2>4, <2>5, <3>2
      <4>2. trMem[entry[depth].tr + i - 1].cont = want[depth][i]
        BY <1>0, <2>3, <4>1 DEF Returns
      <4>3. trMem'[entry[depth].tr + i - 1] = trMem[entry[depth].tr + i - 1]
        <5>1. entry[depth].tr + i - 1 \in 0 .. TrCap - 1
          BY <1>0, <2>4, <2>5, <4>1, SMTT(30)
        <5> QED BY <1>0, <2>3, <4>1, <5>1
      <4> QED BY <4>2, <4>3
    <3> QED BY <3>1, <3>2
  <2>8. Returns(depth)'
    BY <2>1, <2>3, <2>4, <2>7 DEF Returns
  <2> QED BY <2>1, <2>2, <2>8, <1>one
<1>29. CASE RtsPop
  <2>1. Elsewhere
    BY <1>29, <1>0 DEF RtsPop, Goto, memVars, irqVars, regVars, specVars
  <2>2. /\ pc[depth] = "rts_pop" /\ pc'[depth] = "rts_slot" /\ want' = want
        /\ trMem' = [trMem EXCEPT ![hl[depth]].a = acc[depth]]
        /\ to'[depth] = trMem[hl[depth]].cont
    BY <1>29, <1>0 DEF RtsPop, Goto, Running, memVars, irqVars, regVars, specVars
  <2>3. TrOwned(depth) = Len(want[depth]) /\ TrOwned(depth)' = Len(want[depth])
    BY <1>0, <2>1, <2>2 DEF TrOwned, RtsPoint
  <2>4. hl[depth] = entry[depth].tr + TrOwned(depth) - 1 /\ hl[depth] \in 0 .. TrCap - 1
    BY <1>0, <2>2, Indices DEF Context, RtsPoint
  <2>5. \A i \in 0 .. TrCap - 1 : trMem'[i].cont = trMem[i].cont
    BY <1>0, <2>2, <2>4
  <2>6. Len(want[depth]) \in 1 .. TrOwned(depth)
    BY <1>0, <2>3 DEF Context
  <2>7. trMem[hl[depth]].cont = want[depth][Len(want[depth])]
    BY <1>0, <2>2, <2>3, <2>4, <2>6 DEF Returns
  <2>8. Headed(depth)'
    BY <2>1, <2>2, <2>7 DEF Headed, Innermost, CallPoint, RtsPoint, FarPoint, TailPoint, AfterPoint
  <2>9. ASSUME NEW i \in 1 .. TrOwned(depth)
        PROVE  trMem'[entry[depth].tr + i - 1].cont = want[depth][i]
    <3>1. entry[depth].tr + i - 1 \in 0 .. TrCap - 1
      BY <1>0, <2>3, <2>4, SMTT(30)
    <3>2. trMem[entry[depth].tr + i - 1].cont = want[depth][i]
      BY <1>0, <2>2 DEF Returns
    <3> QED BY <2>5, <3>1, <3>2
  <2>10. Returns(depth)'
    BY <2>1, <2>2, <2>3, <2>9 DEF Returns
  <2> QED BY <2>1, <2>8, <2>10, <1>one
<1>30. CASE RtsPublish
  <2>1. Elsewhere
    BY <1>30, <1>0 DEF RtsPublish, Goto, memVars, irqVars, regVars, specVars
  <2>2. Headed(depth)'
    BY <1>30, <1>0 DEF RtsPublish, Goto, Running, memVars, irqVars, regVars, specVars, Headed, Innermost, CallPoint, RtsPoint, FarPoint, TailPoint, AfterPoint
  <2>3. /\ pc[depth] = "rts_publish" /\ pc'[depth] = "body" /\ trMem' = trMem /\ want' = want
    BY <1>30, <1>0 DEF RtsPublish, Goto, Running, memVars, irqVars, regVars, specVars
  <2>4. TrOwned(depth) = Len(want[depth]) /\ TrOwned(depth)' = Len(want[depth]) - 1
    BY <1>0, <2>1, <2>3 DEF TrOwned, RtsPoint
  <2>5. ASSUME NEW i \in 1 .. TrOwned(depth)' PROVE i \in 1 .. TrOwned(depth)
    BY <1>0, <2>4
  <2>6. Returns(depth)'
    BY <1>0, <2>1, <2>3, <2>5 DEF Returns
  <2> QED BY <2>1, <2>2, <2>6, <1>one
<1>31. CASE SpuriousEntry
  BY <1>31, <1>same DEF SpuriousEntry, memVars, regVars, specVars
<1>32. CASE FrameIrqSkip
  BY <1>32, <1>same DEF FrameIrqSkip, memVars, regVars, specVars
<1>33. CASE LineIrq
  BY <1>33, <1>same DEF LineIrq, memVars, regVars, specVars
<1>34. CASE UNCHANGED vars
  BY <1>34, <1>same DEF vars, memVars, irqVars, regVars, specVars
<1>35. ASSUME NEW b \in BOOLEAN, WriteNmiEnable(b) PROVE Headings'
  BY <1>35, <1>same DEF WriteNmiEnable, memVars, regVars, specVars
<1>36. ASSUME NEW r \in Callee, NEW v \in Acc, Jsr(r, v) PROVE Headings'
  <2>1. Elsewhere
    BY <1>36, <1>0 DEF Jsr, Goto, memVars, irqVars, regVars, specVars
  <2>2. /\ pc[depth] = "body" /\ pc'[depth] = "call_ptr" /\ trMem' = trMem /\ at' = at
        /\ want'[depth] = Append(want[depth], r) /\ to'[depth] = r
    BY <1>36, <1>0 DEF Jsr, Goto, Running, memVars, irqVars, regVars, specVars
  <2>3. r \in Routine
    BY RoutineAssumption
  <2>4. /\ Len(want'[depth]) = Len(want[depth]) + 1 /\ want'[depth][Len(want[depth]) + 1] = r
        /\ \A i \in 1 .. Len(want[depth]) : want'[depth][i] = want[depth][i]
    BY <1>0, <2>2, <2>3
  <2>5. Len(want[depth]) >= 1 /\ at[depth] = want[depth][Len(want[depth])]
    BY <1>0, <2>2 DEF Headed, Innermost, Context
  <2>6. /\ to'[depth] = want'[depth][Len(want'[depth])]
        /\ at'[depth] = want'[depth][Len(want'[depth]) - 1]
    <3>1. Len(want'[depth]) - 1 = Len(want[depth]) /\ Len(want[depth]) \in 1 .. Len(want[depth])
      BY <1>0, <2>4, <2>5
    <3> QED BY <2>2, <2>4, <2>5, <3>1
  <2>7. Headed(depth)'
    BY <2>1, <2>2, <2>6 DEF Headed, Innermost, CallPoint, RtsPoint, FarPoint, TailPoint, AfterPoint
  <2>8. TrOwned(depth) = Len(want[depth]) - 1 /\ TrOwned(depth)' = Len(want[depth]) - 1
    BY <1>0, <2>1, <2>2, <2>4 DEF TrOwned, RtsPoint
  <2>9. ASSUME NEW i \in 1 .. TrOwned(depth) PROVE want'[depth][i] = want[depth][i]
    BY <1>0, <2>4, <2>8
  <2>10. Returns(depth)'
    BY <1>0, <2>1, <2>2, <2>8, <2>9 DEF Returns
  <2> QED BY <2>1, <2>7, <2>10, <1>one
<1>37. ASSUME NEW r \in Callee, NEW v \in Acc, BankedDispatch(r, v) PROVE Headings'
  <2>1. Elsewhere
    BY <1>37, <1>0 DEF BankedDispatch, Goto, memVars, irqVars, regVars, specVars
  <2>2. /\ pc[depth] = "body" /\ pc'[depth] = "bd_spill" /\ trMem' = trMem
        /\ want'[depth] = Become(want[depth], r) /\ to'[depth] = r
    BY <1>37, <1>0 DEF BankedDispatch, Goto, Running, memVars, irqVars, regVars, specVars
  <2>3. r \in Routine /\ want[depth] \in Seq(Routine) /\ Len(want[depth]) >= 1
    BY <1>0, RoutineAssumption DEF Context
  <2>4. /\ Len(want'[depth]) = Len(want[depth]) /\ want'[depth][Len(want[depth])] = r
        /\ \A i \in 1 .. Len(want[depth]) - 1 : want'[depth][i] = want[depth][i]
    BY <2>2, <2>3, BecomeInnermost
  <2>5. Headed(depth)'
    BY <2>1, <2>2, <2>4 DEF Headed, Innermost, CallPoint, RtsPoint, FarPoint, TailPoint, AfterPoint
  <2>6. TrOwned(depth) = Len(want[depth]) - 1 /\ TrOwned(depth)' = Len(want[depth]) - 1
    BY <1>0, <2>1, <2>2, <2>4 DEF TrOwned, RtsPoint
  <2>7. Returns(depth)'
    BY <1>0, <2>1, <2>2, <2>4, <2>6 DEF Returns
  <2> QED BY <2>1, <2>5, <2>7, <1>one
<1>38. ASSUME NEW r \in Callee, NEW v \in Acc, IndirectJmp(r, v) PROVE Headings'
  <2>1. Elsewhere
    BY <1>38, <1>0 DEF IndirectJmp, Goto, memVars, irqVars, regVars, specVars
  <2>2. /\ pc[depth] = "body" /\ pc'[depth] = "td" /\ trMem' = trMem
        /\ want'[depth] = Become(want[depth], r) /\ to'[depth] = r
    BY <1>38, <1>0 DEF IndirectJmp, Goto, Running, memVars, irqVars, regVars, specVars
  <2>3. r \in Routine /\ want[depth] \in Seq(Routine) /\ Len(want[depth]) >= 1
    BY <1>0, RoutineAssumption DEF Context
  <2>4. /\ Len(want'[depth]) = Len(want[depth]) /\ want'[depth][Len(want[depth])] = r
        /\ \A i \in 1 .. Len(want[depth]) - 1 : want'[depth][i] = want[depth][i]
    BY <2>2, <2>3, BecomeInnermost
  <2>5. Headed(depth)'
    BY <2>1, <2>2, <2>4 DEF Headed, Innermost, CallPoint, RtsPoint, FarPoint, TailPoint, AfterPoint
  <2>6. TrOwned(depth) = Len(want[depth]) - 1 /\ TrOwned(depth)' = Len(want[depth]) - 1
    BY <1>0, <2>1, <2>2, <2>4 DEF TrOwned, RtsPoint
  <2>7. Returns(depth)'
    BY <1>0, <2>1, <2>2, <2>4, <2>6 DEF Returns
  <2> QED BY <2>1, <2>5, <2>7, <1>one
<1>39. ASSUME NEW r \in Callee, NEW v \in Acc, RtsDispatch(r, v) PROVE Headings'
  <2>1. Elsewhere
    BY <1>39, <1>0 DEF RtsDispatch, Goto, memVars, irqVars, regVars, specVars
  <2>2. /\ pc[depth] = "body" /\ pc'[depth] = "rd_spill" /\ trMem' = trMem
        /\ want'[depth] = Become(want[depth], r) /\ to'[depth] = r
    BY <1>39, <1>0 DEF RtsDispatch, Goto, Running, memVars, irqVars, regVars, specVars
  <2>3. r \in Routine /\ want[depth] \in Seq(Routine) /\ Len(want[depth]) >= 1
    BY <1>0, RoutineAssumption DEF Context
  <2>4. /\ Len(want'[depth]) = Len(want[depth]) /\ want'[depth][Len(want[depth])] = r
        /\ \A i \in 1 .. Len(want[depth]) - 1 : want'[depth][i] = want[depth][i]
    BY <2>2, <2>3, BecomeInnermost
  <2>5. Headed(depth)'
    BY <2>1, <2>2, <2>4 DEF Headed, Innermost, CallPoint, RtsPoint, FarPoint, TailPoint, AfterPoint
  <2>6. TrOwned(depth) = Len(want[depth]) - 1 /\ TrOwned(depth)' = Len(want[depth]) - 1
    BY <1>0, <2>1, <2>2, <2>4 DEF TrOwned, RtsPoint
  <2>7. Returns(depth)'
    BY <1>0, <2>1, <2>2, <2>4, <2>6 DEF Returns
  <2> QED BY <2>1, <2>5, <2>7, <1>one
<1>40. ASSUME NEW v \in Acc, Rts(v) PROVE Headings'
  <2>1. Elsewhere
    BY <1>40, <1>0 DEF Rts, Goto, memVars, irqVars, regVars, specVars
  <2>2. /\ pc[depth] = "body" /\ pc'[depth] \in {"rts_pop", "underflow"} /\ trMem' = trMem
        /\ want'[depth] = SubSeq(want[depth], 1, Len(want[depth]) - 1)
        /\ Len(want[depth]) > 1
    BY <1>40, <1>0 DEF Rts, Goto, Running, memVars, irqVars, regVars, specVars
  <2>3. /\ Len(want'[depth]) = Len(want[depth]) - 1
        /\ \A i \in 1 .. Len(want[depth]) - 1 : want'[depth][i] = want[depth][i]
    BY <1>0, <2>2, DropKeeps
  <2>4. Headed(depth)'
    BY <2>1, <2>2 DEF Headed, CallPoint, RtsPoint, FarPoint, TailPoint, AfterPoint
  <2>5. TrOwned(depth) = Len(want[depth]) - 1
    BY <2>2 DEF TrOwned, RtsPoint
  <2>6. TrOwned(depth)' \in {Len(want[depth]) - 1, Len(want[depth]) - 1 - 1}
    <3>1. TrOwned(depth)' \in {Len(want'[depth]) - 0, Len(want'[depth]) - 1}
      BY <2>1, <2>2 DEF TrOwned, RtsPoint
    <3> QED BY <1>0, <2>3, <3>1
  <2>7. ASSUME NEW i \in 1 .. TrOwned(depth)' PROVE i \in 1 .. TrOwned(depth)
    BY <1>0, <2>5, <2>6
  <2>8. Returns(depth)'
    BY <1>0, <2>1, <2>2, <2>3, <2>5, <2>7 DEF Returns
  <2> QED BY <2>1, <2>4, <2>8, <1>one
<1>41. CASE BridgeReturn
  <2>1. /\ pc[depth] = "bridge" /\ depth' = depth - 1 /\ mru' = mru /\ trMem' = trMem
        /\ pc' = [pc EXCEPT ![depth] = "idle"] /\ at' = [at EXCEPT ![depth] = Reset]
        /\ to' = [to EXCEPT ![depth] = Reset] /\ want' = [want EXCEPT ![depth] = <<Reset>>]
        /\ entry' = [entry EXCEPT ![depth] = [tr |-> 0, far |-> 0]]
    BY <1>41 DEF BridgeReturn, Running, Goto
  <2>2. depth > 0
    BY <1>0, <2>1 DEF Context, AfterPoint
  <2> SUFFICES ASSUME NEW l \in Level, l <= depth' PROVE Headed(l)' /\ Returns(l)'
    BY <1>0, <2>1 DEF Headings
  <2>3. l # depth /\ l <= depth
    BY <1>0, <2>1, <2>2 DEF Level
  <2>4. /\ pc'[l] = pc[l] /\ at'[l] = at[l] /\ to'[l] = to[l] /\ want'[l] = want[l]
        /\ entry'[l] = entry[l]
    BY <1>0, <2>1, <2>3 DEF TypeOK
  <2>5. TrOwned(l)' = TrOwned(l)
    BY <2>4 DEF TrOwned
  <2>6. Headed(l) /\ Returns(l)
    BY <2>3 DEF Headings
  <2> QED BY <2>1, <2>4, <2>5, <2>6 DEF Headed, Returns
<1>42. CASE FrameIrqDeliver
  <2>1. /\ depth' = depth + 1 /\ mru' = mru /\ trMem' = trMem /\ to' = to
        /\ pc' = [pc EXCEPT ![depth + 1] = "body"] /\ at' = [at EXCEPT ![depth + 1] = Nmi]
        /\ want' = [want EXCEPT ![depth + 1] = <<Nmi>>]
        /\ entry' = [entry EXCEPT ![depth + 1] = [tr |-> trPtr, far |-> farPtr]]
        /\ depth < MaxDepth
    BY <1>42 DEF FrameIrqDeliver, Delivers, MaxDepth, TypeOK
  <2>2. PICK k \in Level : k = depth + 1
    BY <1>0, <2>1 DEF Level, MaxDepth
  <2>3. pc'[k] = "body" /\ at'[k] = Nmi /\ want'[k] = <<Nmi>>
    BY <1>0, <2>1, <2>2
  <2>4. Len(want'[k]) = 1 /\ Innermost(want'[k]) = Nmi
    BY <2>3 DEF Innermost
  <2>5. Headed(k)'
    BY <2>3, <2>4 DEF Headed, CallPoint, FarPoint, TailPoint
  <2>6. TrOwned(k)' = 0
    BY <2>3, <2>4 DEF TrOwned, RtsPoint
  <2>7. Returns(k)'
    BY <2>6 DEF Returns
  <2> SUFFICES ASSUME NEW l \in Level, l <= depth', l # k PROVE Headed(l)' /\ Returns(l)'
    BY <1>0, <2>1, <2>5, <2>7 DEF Headings
  <2>8. l <= depth
    BY <1>0, <2>1, <2>2 DEF Level
  <2>9. /\ pc'[l] = pc[l] /\ at'[l] = at[l] /\ to'[l] = to[l] /\ want'[l] = want[l]
        /\ entry'[l] = entry[l]
    BY <1>0, <2>1, <2>2 DEF TypeOK
  <2>10. TrOwned(l)' = TrOwned(l)
    BY <2>9 DEF TrOwned
  <2>11. Headed(l) /\ Returns(l)
    BY <2>8 DEF Headings
  <2> QED BY <2>1, <2>9, <2>10, <2>11 DEF Headed, Returns
<1> QED
  BY <1>1, <1>2, <1>3, <1>4, <1>5, <1>6, <1>7, <1>8, <1>9, <1>10, <1>11, <1>12, <1>13, <1>14, <1>15, <1>16, <1>17, <1>18, <1>19, <1>20, <1>21, <1>22, <1>23, <1>24, <1>25, <1>26, <1>27, <1>28, <1>29, <1>30, <1>31, <1>32, <1>33, <1>34, <1>35, <1>36, <1>37, <1>38, <1>39, <1>40, <1>41, <1>42
     DEF Next, Transfer, CallStep, RtsStep, FarStep, TailStep, AfterStep, Irq

\* Boot jumps to translated_reset.
LEMMA HeadingsInit == Init => Headings
<1> SUFFICES ASSUME Init PROVE Headings
  OBVIOUS
<1>1. ASSUME NEW l \in Level, l <= depth
      PROVE  /\ pc[l] = "boot" /\ at[l] = Reset /\ want[l] = <<Reset>>
             /\ Len(want[l]) = 1 /\ Innermost(want[l]) = Reset /\ TrOwned(l) = 0
  <2>1. pc[l] = "boot" /\ at[l] = Reset /\ want[l] = <<Reset>>
    BY <1>1 DEF Init, Level
  <2>2. Len(want[l]) = 1 /\ Innermost(want[l]) = Reset
    BY <2>1 DEF Innermost
  <2> QED BY <2>1, <2>2 DEF TrOwned, RtsPoint
<1>2. ASSUME NEW l \in Level, l <= depth PROVE Headed(l) /\ Returns(l)
  BY <1>1, <1>2 DEF Headed, Returns, CallPoint, FarPoint, TailPoint
<1> QED BY <1>2 DEF Headings, Init, NoMru

\* In a program whose NMI body makes no banked dispatch: every transfer and
\* every return lands on the routine 6502 semantics names, whatever NMI ran in
\* the middle of it.
THEOREM TransfersArrive ==
    ASSUME "banked" \notin NmiOps
    PROVE  Spec => []ReachesTarget
<1>1. Init => Visible /\ Headings
  BY VisibleInit, HeadingsInit
<1>2. IInv /\ Visible /\ [Next]_vars => Visible'
  BY VisibleStep DEF IInv
<1>3. IInv /\ Visible /\ Headings /\ [Next]_vars => Headings'
  BY HeadingsStep DEF IInv
<1>4. IInv /\ Headings => ReachesTarget
  BY DEF Headings, Headed, ReachesTarget, Running, IInv, TypeOK, Level
<1> QED BY <1>1, <1>2, <1>3, <1>4, Inductive, PTL DEF Spec
-----------------------------------------------------------------------------
\* Where a context keeps the accumulator of the program: in A, in the frame it
\* has reserved, or in $CB15.  None stands in rt_rts_dispatch, which keeps it
\* in a byte that the NMI writes.
Held(l, spilled) ==
    /\ pc[l] \in {"boot", "body", "call_ptr", "call_reserve", "call_fill", "rts_pop",
                  "bd_spill", "td"}
          => acc[l] = wantA[l]
    /\ pc[l] \in {"call_shadow", "call_slot", "call_enter", "rts_slot", "rts_publish"}
          => trMem[hl[l]].a = wantA[l]
    /\ pc[l] \in FarPoint \ {"bd_spill"} => spilled = wantA[l]
    /\ pc[l] \notin {"rd_spill", "rd_load"}

\* $CB15 belongs to the running context; the handler keeps that of each
\* interrupted one on the native stack.
Holding ==
    /\ Held(depth, farA)
    /\ \A l \in Level : l < depth => Held(l, savedA[l + 1])

\* The frame an interrupted context holds in HL lies below the share that runs.
LEMMA FrozenFrame ==
    ASSUME TypeOK, StacksOwned, NEW l \in Level, l < depth,
           pc[l] \in {"call_shadow", "call_slot", "call_enter", "rts_slot", "rts_publish"}
    PROVE  hl[l] \in 0 .. entry[depth].tr - 1
<1>1. /\ entry[l].tr \in Nat /\ TrOwned(l) \in Nat /\ entry[depth].tr \in Nat
      /\ entry[l].tr + TrOwned(l) <= entry[depth].tr
  BY FrozenShare DEF TypeOK
<1>2. TrOwned(l) >= 1
  BY Shares DEF RtsPoint, Filling
<1>3. hl[l] = entry[l].tr + TrOwned(l) - 1
  BY DEF StacksOwned, Context, RtsPoint
<1> QED BY <1>1, <1>2, <1>3

\* A step of the running context that keeps to its own share leaves the
\* accumulators of the interrupted contexts where they are.
LEMMA OneHeld ==
    ASSUME TypeOK, StacksOwned, Holding, depth' = depth, savedA' = savedA,
           \A l \in Level : l # depth =>
               /\ pc'[l] = pc[l] /\ acc'[l] = acc[l] /\ hl'[l] = hl[l] /\ wantA'[l] = wantA[l],
           \A i \in 0 .. entry[depth].tr - 1 : trMem'[i] = trMem[i],
           Held(depth, farA)'
    PROVE  Holding'
<1>1. ASSUME NEW l \in Level, l < depth
      PROVE  Held(l, savedA[l + 1])'
  <2>1. /\ pc'[l] = pc[l] /\ acc'[l] = acc[l] /\ hl'[l] = hl[l] /\ wantA'[l] = wantA[l]
    BY <1>1 DEF TypeOK, Level
  <2>2. Held(l, savedA[l + 1])
    BY <1>1 DEF Holding
  <2>3. pc[l] \in {"call_shadow", "call_slot", "call_enter", "rts_slot", "rts_publish"}
           => trMem'[hl[l]] = trMem[hl[l]]
    BY <1>1, FrozenFrame
  <2> QED BY <2>1, <2>2, <2>3 DEF Held
<1> QED BY <1>1 DEF Holding

\* A step keeps every accumulator where its context will look for it.
LEMMA HoldingStep ==
    ASSUME "rtsdispatch" \notin MainOps \cup NmiOps
    PROVE  TypeOK /\ StacksOwned /\ Holding /\ [Next]_vars => Holding'
<1> SUFFICES ASSUME TypeOK, StacksOwned, Holding, [Next]_vars PROVE Holding'
  OBVIOUS
<1> DEFINE Elsewhere ==
      /\ depth' = depth /\ savedA' = savedA
      /\ \A l \in Level : l # depth =>
             /\ pc'[l] = pc[l] /\ acc'[l] = acc[l] /\ hl'[l] = hl[l] /\ wantA'[l] = wantA[l]
<1>0. /\ depth \in Level /\ Held(depth, farA)
      /\ pc \in [Level -> Point] /\ acc \in [Level -> Acc \cup {Junk}]
      /\ hl \in [Level -> Int] /\ wantA \in [Level -> Acc \cup {Junk}]
      /\ trMem \in [0 .. TrCap - 1 -> [a : Acc \cup {Junk}, cont : Routine, bank : Bank]]
  BY DEF Holding, TypeOK
<1>w. \A i \in 0 .. entry[depth].tr - 1 : trMem'[i] = trMem[i]
  BY WritesOwnShare
<1>one. ASSUME Elsewhere, Held(depth, farA)' PROVE Holding'
  BY <1>w, <1>one, OneHeld
<1>same. ASSUME UNCHANGED <<depth, savedA, farA, pc, acc, hl, wantA, trMem>> PROVE Holding'
  BY <1>same DEF Holding, Held
<1>1. CASE CallLoad
  <2>1. Elsewhere
    BY <1>1, <1>0 DEF CallLoad, Goto, memVars, irqVars, regVars, specVars
  <2>2. Held(depth, farA)'
    BY <1>1, <1>0 DEF CallLoad, Goto, Running, memVars, irqVars, regVars, specVars, Held, CallPoint, RtsPoint, FarPoint, TailPoint, AfterPoint
  <2> QED BY <2>1, <2>2, <1>one
<1>2. CASE CallShadow
  <2>1. Elsewhere
    BY <1>2, <1>0 DEF CallShadow, Goto, memVars, irqVars, regVars, specVars
  <2>2. Held(depth, farA)'
    BY <1>2, <1>0 DEF CallShadow, Goto, Running, memVars, irqVars, regVars, specVars, Held, CallPoint, RtsPoint, FarPoint, TailPoint, AfterPoint
  <2> QED BY <2>1, <2>2, <1>one
<1>3. CASE CallSlot
  <2>1. Elsewhere
    BY <1>3, <1>0 DEF CallSlot, Goto, memVars, irqVars, regVars, specVars
  <2>2. Held(depth, farA)'
    BY <1>3, <1>0 DEF CallSlot, Goto, Running, memVars, irqVars, regVars, specVars, Held, CallPoint, RtsPoint, FarPoint, TailPoint, AfterPoint
  <2> QED BY <2>1, <2>2, <1>one
<1>4. CASE CallEnter
  <2>1. Elsewhere
    BY <1>4, <1>0 DEF CallEnter, Goto, memVars, irqVars, regVars, specVars
  <2>2. Held(depth, farA)'
    BY <1>4, <1>0 DEF CallEnter, Goto, Running, memVars, irqVars, regVars, specVars, Held, CallPoint, RtsPoint, FarPoint, TailPoint, AfterPoint
  <2> QED BY <2>1, <2>2, <1>one
<1>5. CASE RtsSlot
  <2>1. Elsewhere
    BY <1>5, <1>0 DEF RtsSlot, Goto, memVars, irqVars, regVars, specVars
  <2>2. Held(depth, farA)'
    BY <1>5, <1>0 DEF RtsSlot, Goto, Running, memVars, irqVars, regVars, specVars, Held, CallPoint, RtsPoint, FarPoint, TailPoint, AfterPoint
  <2> QED BY <2>1, <2>2, <1>one
<1>6. CASE RtsPublish
  <2>1. Elsewhere
    BY <1>6, <1>0 DEF RtsPublish, Goto, memVars, irqVars, regVars, specVars
  <2>2. Held(depth, farA)'
    BY <1>6, <1>0 DEF RtsPublish, Goto, Running, memVars, irqVars, regVars, specVars, Held, CallPoint, RtsPoint, FarPoint, TailPoint, AfterPoint
  <2> QED BY <2>1, <2>2, <1>one
<1>7. CASE DispatchSpill
  <2>1. Elsewhere
    BY <1>7, <1>0 DEF DispatchSpill, Goto, memVars, irqVars, regVars, specVars
  <2>2. Held(depth, farA)'
    BY <1>7, <1>0 DEF DispatchSpill, Goto, Running, memVars, irqVars, regVars, specVars, Held, CallPoint, RtsPoint, FarPoint, TailPoint, AfterPoint
  <2> QED BY <2>1, <2>2, <1>one
<1>8. CASE DispatchKey
  <2>1. Elsewhere
    BY <1>8, <1>0 DEF DispatchKey, Goto, memVars, irqVars, regVars, specVars
  <2>2. Held(depth, farA)'
    BY <1>8, <1>0 DEF DispatchKey, Goto, Running, memVars, irqVars, regVars, specVars, Held, CallPoint, RtsPoint, FarPoint, TailPoint, AfterPoint
  <2> QED BY <2>1, <2>2, <1>one
<1>9. CASE DispatchLabel
  <2>1. Elsewhere
    BY <1>9, <1>0 DEF DispatchLabel, Goto, memVars, irqVars, regVars, specVars
  <2>2. Held(depth, farA)'
    BY <1>9, <1>0 DEF DispatchLabel, Goto, Running, memVars, irqVars, regVars, specVars, Held, CallPoint, RtsPoint, FarPoint, TailPoint, AfterPoint
  <2> QED BY <2>1, <2>2, <1>one
<1>10. CASE DispatchBank
  <2>1. Elsewhere
    BY <1>10, <1>0 DEF DispatchBank, Goto, memVars, irqVars, regVars, specVars
  <2>2. Held(depth, farA)'
    BY <1>10, <1>0 DEF DispatchBank, Goto, Running, memVars, irqVars, regVars, specVars, Held, CallPoint, RtsPoint, FarPoint, TailPoint, AfterPoint
  <2> QED BY <2>1, <2>2, <1>one
<1>11. CASE DispatchSlow
  <2>1. Elsewhere
    BY <1>11, <1>0 DEF DispatchSlow, Goto, memVars, irqVars, regVars, specVars
  <2>2. Held(depth, farA)'
    BY <1>11, <1>0 DEF DispatchSlow, Goto, Running, memVars, irqVars, regVars, specVars, Held, CallPoint, RtsPoint, FarPoint, TailPoint, AfterPoint
  <2> QED BY <2>1, <2>2, <1>one
<1>12. CASE FarLoad
  <2>1. Elsewhere
    BY <1>12, <1>0 DEF FarLoad, Goto, memVars, irqVars, regVars, specVars
  <2>2. Held(depth, farA)'
    BY <1>12, <1>0 DEF FarLoad, Goto, Running, memVars, irqVars, regVars, specVars, Held, CallPoint, RtsPoint, FarPoint, TailPoint, AfterPoint
  <2> QED BY <2>1, <2>2, <1>one
<1>13. CASE FarReserve
  <2>1. Elsewhere
    BY <1>13, <1>0 DEF FarReserve, Goto, memVars, irqVars, regVars, specVars
  <2>2. Held(depth, farA)'
    BY <1>13, <1>0 DEF FarReserve, Goto, Running, memVars, irqVars, regVars, specVars, Held, CallPoint, RtsPoint, FarPoint, TailPoint, AfterPoint
  <2> QED BY <2>1, <2>2, <1>one
<1>14. CASE FarSave
  <2>1. Elsewhere
    BY <1>14, <1>0 DEF FarSave, Goto, memVars, irqVars, regVars, specVars
  <2>2. Held(depth, farA)'
    BY <1>14, <1>0 DEF FarSave, Goto, Running, memVars, irqVars, regVars, specVars, Held, CallPoint, RtsPoint, FarPoint, TailPoint, AfterPoint
  <2> QED BY <2>1, <2>2, <1>one
<1>15. CASE FarShadow
  <2>1. Elsewhere
    BY <1>15, <1>0 DEF FarShadow, Goto, memVars, irqVars, regVars, specVars
  <2>2. Held(depth, farA)'
    BY <1>15, <1>0 DEF FarShadow, Goto, Running, memVars, irqVars, regVars, specVars, Held, CallPoint, RtsPoint, FarPoint, TailPoint, AfterPoint
  <2> QED BY <2>1, <2>2, <1>one
<1>16. CASE FarSlot
  <2>1. Elsewhere
    BY <1>16, <1>0 DEF FarSlot, Goto, memVars, irqVars, regVars, specVars
  <2>2. Held(depth, farA)'
    BY <1>16, <1>0 DEF FarSlot, Goto, Running, memVars, irqVars, regVars, specVars, Held, CallPoint, RtsPoint, FarPoint, TailPoint, AfterPoint
  <2> QED BY <2>1, <2>2, <1>one
<1>17. CASE FarEnter
  <2>1. Elsewhere
    BY <1>17, <1>0 DEF FarEnter, Goto, memVars, irqVars, regVars, specVars
  <2>2. Held(depth, farA)'
    BY <1>17, <1>0 DEF FarEnter, Goto, Running, memVars, irqVars, regVars, specVars, Held, CallPoint, RtsPoint, FarPoint, TailPoint, AfterPoint
  <2> QED BY <2>1, <2>2, <1>one
<1>18. CASE RtsDispatchSpill
  <2>1. Elsewhere
    BY <1>18, <1>0 DEF RtsDispatchSpill, Goto, memVars, irqVars, regVars, specVars
  <2>2. Held(depth, farA)'
    BY <1>18, <1>0 DEF RtsDispatchSpill, Goto, Running, memVars, irqVars, regVars, specVars, Held, CallPoint, RtsPoint, FarPoint, TailPoint, AfterPoint
  <2> QED BY <2>1, <2>2, <1>one
<1>19. CASE RtsDispatchLoad
  <2>1. Elsewhere
    BY <1>19, <1>0 DEF RtsDispatchLoad, Goto, memVars, irqVars, regVars, specVars
  <2>2. Held(depth, farA)'
    BY <1>19, <1>0 DEF RtsDispatchLoad, Goto, Running, memVars, irqVars, regVars, specVars, Held, CallPoint, RtsPoint, FarPoint, TailPoint, AfterPoint
  <2> QED BY <2>1, <2>2, <1>one
<1>20. CASE TailDispatch
  <2>1. Elsewhere
    BY <1>20, <1>0 DEF TailDispatch, Goto, memVars, irqVars, regVars, specVars
  <2>2. Held(depth, farA)'
    BY <1>20, <1>0 DEF TailDispatch, Goto, Running, memVars, irqVars, regVars, specVars, Held, CallPoint, RtsPoint, FarPoint, TailPoint, AfterPoint
  <2> QED BY <2>1, <2>2, <1>one
<1>21. CASE NativeRet
  <2>1. Elsewhere
    BY <1>21, <1>0 DEF NativeRet, Goto, memVars, irqVars, regVars, specVars
  <2>2. Held(depth, farA)'
    BY <1>21, <1>0 DEF NativeRet, Goto, Running, memVars, irqVars, regVars, specVars, Held, CallPoint, RtsPoint, FarPoint, TailPoint, AfterPoint
  <2> QED BY <2>1, <2>2, <1>one
<1>22. CASE AfterRead
  <2>1. Elsewhere
    BY <1>22, <1>0 DEF AfterRead, Goto, memVars, irqVars, regVars, specVars
  <2>2. Held(depth, farA)'
    BY <1>22, <1>0 DEF AfterRead, Goto, Running, memVars, irqVars, regVars, specVars, Held, CallPoint, RtsPoint, FarPoint, TailPoint, AfterPoint
  <2> QED BY <2>1, <2>2, <1>one
<1>23. CASE AfterPublish
  <2>1. Elsewhere
    BY <1>23, <1>0 DEF AfterPublish, Goto, memVars, irqVars, regVars, specVars
  <2>2. Held(depth, farA)'
    BY <1>23, <1>0 DEF AfterPublish, Goto, Running, memVars, irqVars, regVars, specVars, Held, CallPoint, RtsPoint, FarPoint, TailPoint, AfterPoint
  <2> QED BY <2>1, <2>2, <1>one
<1>24. CASE AfterShadow
  <2>1. Elsewhere
    BY <1>24, <1>0 DEF AfterShadow, Goto, memVars, irqVars, regVars, specVars
  <2>2. Held(depth, farA)'
    BY <1>24, <1>0 DEF AfterShadow, Goto, Running, memVars, irqVars, regVars, specVars, Held, CallPoint, RtsPoint, FarPoint, TailPoint, AfterPoint
  <2> QED BY <2>1, <2>2, <1>one
<1>25. CASE AfterSlot
  <2>1. Elsewhere
    BY <1>25, <1>0 DEF AfterSlot, Goto, memVars, irqVars, regVars, specVars
  <2>2. Held(depth, farA)'
    BY <1>25, <1>0 DEF AfterSlot, Goto, Running, memVars, irqVars, regVars, specVars, Held, CallPoint, RtsPoint, FarPoint, TailPoint, AfterPoint
  <2> QED BY <2>1, <2>2, <1>one
<1>26. CASE BootDone
  <2>1. Elsewhere
    BY <1>26, <1>0 DEF BootDone, Goto, memVars, irqVars, regVars, specVars
  <2>2. Held(depth, farA)'
    BY <1>26, <1>0 DEF BootDone, Goto, Running, memVars, irqVars, regVars, specVars, Held, CallPoint, RtsPoint, FarPoint, TailPoint, AfterPoint
  <2> QED BY <2>1, <2>2, <1>one
<1>27. CASE Rti
  <2>1. Elsewhere
    BY <1>27, <1>0 DEF Rti, Goto, memVars, irqVars, regVars, specVars
  <2>2. Held(depth, farA)'
    BY <1>27, <1>0 DEF Rti, Goto, Running, memVars, irqVars, regVars, specVars, Held, CallPoint, RtsPoint, FarPoint, TailPoint, AfterPoint
  <2> QED BY <2>1, <2>2, <1>one
<1>28. CASE CallReserve
  <2>1. Elsewhere
    BY <1>28, <1>0 DEF CallReserve, Goto, memVars, irqVars, regVars, specVars
  <2>2. Held(depth, farA)'
    BY <1>28, <1>0 DEF CallReserve, Goto, Running, memVars, irqVars, regVars, specVars, Held, CallPoint, RtsPoint, FarPoint, TailPoint, AfterPoint
  <2> QED BY <2>1, <2>2, <1>one
<1>29. CASE CallFill
  <2>1. Elsewhere
    BY <1>29, <1>0 DEF CallFill, Goto, memVars, irqVars, regVars, specVars
  <2>2. hl[depth] \in 0 .. TrCap - 1
    BY <1>29, Indices DEF CallFill, Running, RtsPoint
  <2>3. /\ trMem'[hl'[depth]].a = wantA'[depth] /\ pc'[depth] = "call_shadow"
    BY <1>29, <1>0, <2>2 DEF CallFill, Goto, Running, memVars, irqVars, regVars, specVars, Held
  <2>4. Held(depth, farA)'
    BY <2>1, <2>3 DEF Held, FarPoint
  <2> QED BY <2>1, <2>4, <1>one
<1>30. CASE RtsPop
  <2>1. Elsewhere
    BY <1>30, <1>0 DEF RtsPop, Goto, memVars, irqVars, regVars, specVars
  <2>2. hl[depth] \in 0 .. TrCap - 1
    BY <1>30, Indices DEF RtsPop, Running, RtsPoint
  <2>3. /\ trMem'[hl'[depth]].a = wantA'[depth] /\ pc'[depth] = "rts_slot"
    BY <1>30, <1>0, <2>2 DEF RtsPop, Goto, Running, memVars, irqVars, regVars, specVars, Held
  <2>4. Held(depth, farA)'
    BY <2>1, <2>3 DEF Held, FarPoint
  <2> QED BY <2>1, <2>4, <1>one
<1>31. CASE SpuriousEntry
  BY <1>31, <1>same DEF SpuriousEntry, memVars, regVars, specVars
<1>32. CASE FrameIrqSkip
  BY <1>32, <1>same DEF FrameIrqSkip, memVars, regVars, specVars
<1>33. CASE LineIrq
  BY <1>33, <1>same DEF LineIrq, memVars, regVars, specVars
<1>34. CASE UNCHANGED vars
  BY <1>34, <1>same DEF vars, memVars, irqVars, regVars, specVars
<1>35. ASSUME NEW b \in BOOLEAN, WriteNmiEnable(b) PROVE Holding'
  BY <1>35, <1>same DEF WriteNmiEnable, memVars, regVars, specVars
<1>36. ASSUME NEW r \in Callee, NEW v \in Acc, Jsr(r, v) PROVE Holding'
  <2>1. Elsewhere
    BY <1>36, <1>0 DEF Jsr, Goto, memVars, irqVars, regVars, specVars
  <2>2. Held(depth, farA)'
    BY <1>36, <1>0 DEF Jsr, Goto, Running, memVars, irqVars, regVars, specVars, Held, CallPoint, RtsPoint, FarPoint, TailPoint, AfterPoint
  <2> QED BY <2>1, <2>2, <1>one
<1>37. ASSUME NEW r \in Callee, NEW v \in Acc, BankedDispatch(r, v) PROVE Holding'
  <2>1. Elsewhere
    BY <1>37, <1>0 DEF BankedDispatch, Goto, memVars, irqVars, regVars, specVars
  <2>2. Held(depth, farA)'
    BY <1>37, <1>0 DEF BankedDispatch, Goto, Running, memVars, irqVars, regVars, specVars, Held, CallPoint, RtsPoint, FarPoint, TailPoint, AfterPoint
  <2> QED BY <2>1, <2>2, <1>one
<1>38. ASSUME NEW r \in Callee, NEW v \in Acc, IndirectJmp(r, v) PROVE Holding'
  <2>1. Elsewhere
    BY <1>38, <1>0 DEF IndirectJmp, Goto, memVars, irqVars, regVars, specVars
  <2>2. Held(depth, farA)'
    BY <1>38, <1>0 DEF IndirectJmp, Goto, Running, memVars, irqVars, regVars, specVars, Held, CallPoint, RtsPoint, FarPoint, TailPoint, AfterPoint
  <2> QED BY <2>1, <2>2, <1>one
<1>39. ASSUME NEW r \in Callee, NEW v \in Acc, RtsDispatch(r, v) PROVE Holding'
  BY <1>39 DEF RtsDispatch, Ops
<1>40. ASSUME NEW v \in Acc, Rts(v) PROVE Holding'
  <2>1. Elsewhere
    BY <1>40, <1>0 DEF Rts, Goto, memVars, irqVars, regVars, specVars
  <2>2. Held(depth, farA)'
    BY <1>40, <1>0 DEF Rts, Goto, Running, memVars, irqVars, regVars, specVars, Held, CallPoint, RtsPoint, FarPoint, TailPoint, AfterPoint
  <2> QED BY <2>1, <2>2, <1>one
<1>41. CASE BridgeReturn
  <2>1. /\ pc[depth] = "bridge" /\ depth' = depth - 1 /\ trMem' = trMem
        /\ savedA' = savedA /\ farA' = savedA[depth]
        /\ pc' = [pc EXCEPT ![depth] = "idle"] /\ acc' = [acc EXCEPT ![depth] = Junk]
        /\ hl' = [hl EXCEPT ![depth] = 0] /\ wantA' = [wantA EXCEPT ![depth] = Junk]
    BY <1>41 DEF BridgeReturn, Running, Goto
  <2>2. depth > 0
    BY <2>1 DEF StacksOwned, Context, AfterPoint, TypeOK
  <2>3. ASSUME NEW l \in Level, l < depth
        PROVE  Held(l, savedA[l + 1])'
    <3>1. l # depth
      BY <1>0, <2>3 DEF Level
    <3>2. /\ pc'[l] = pc[l] /\ acc'[l] = acc[l] /\ hl'[l] = hl[l] /\ wantA'[l] = wantA[l]
      BY <1>0, <2>1, <3>1
    <3>3. Held(l, savedA[l + 1])
      BY <2>3 DEF Holding
    <3> QED BY <2>1, <3>2, <3>3 DEF Held
  <2>4. PICK k \in Level : k < depth /\ k + 1 = depth
    BY <1>0, <2>2 DEF Level, MaxDepth
  <2>5. Held(depth, farA)'
    <3>1. Held(k, savedA[k + 1])'
      BY <2>3, <2>4
    <3>2. depth' = k /\ farA' = savedA'[k + 1]
      BY <2>1, <2>4 DEF Level
    <3> QED BY <3>1, <3>2 DEF Held
  <2> QED BY <1>0, <2>1, <2>2, <2>3, <2>5 DEF Holding, Level, MaxDepth
<1>42. CASE FrameIrqDeliver
  <2>1. /\ depth' = depth + 1 /\ trMem' = trMem /\ farA' = farA /\ acc' = acc /\ hl' = hl
        /\ savedA' = [savedA EXCEPT ![depth + 1] = farA]
        /\ pc' = [pc EXCEPT ![depth + 1] = "body"]
        /\ wantA' = [wantA EXCEPT ![depth + 1] = acc[depth + 1]]
        /\ depth < MaxDepth /\ depth + 1 \in Level /\ depth + 1 \in 1 .. MaxDepth
    BY <1>42, <1>0 DEF FrameIrqDeliver, Delivers, MaxDepth, Level
  <2>2. pc'[depth + 1] = "body" /\ acc'[depth + 1] = wantA'[depth + 1]
    BY <1>0, <2>1
  <2>3. Held(depth, farA)'
    BY <2>1, <2>2 DEF Held, FarPoint
  <2>4. ASSUME NEW l \in Level, l < depth'
        PROVE  Held(l, savedA[l + 1])'
    <3>1. l # depth + 1
      BY <1>0, <2>1, <2>4 DEF Level
    <3>2. pc'[l] = pc[l] /\ wantA'[l] = wantA[l]
      BY <1>0, <2>1, <3>1
    <3>3. CASE l = depth
      <4>1. Held(l, farA) /\ savedA'[l + 1] = farA
        BY <1>0, <2>1, <3>3 DEF TypeOK
      <4> QED BY <2>1, <3>2, <4>1 DEF Held
    <3>4. CASE l < depth
      <4>1. Held(l, savedA[l + 1])
        BY <3>4 DEF Holding
      <4>2. savedA'[l + 1] = savedA[l + 1]
        BY <1>0, <2>1, <3>4 DEF TypeOK, Level, MaxDepth
      <4> QED BY <2>1, <3>2, <4>1, <4>2 DEF Held
    <3> QED BY <1>0, <2>1, <2>4, <3>3, <3>4 DEF Level
  <2> QED BY <2>3, <2>4 DEF Holding
<1> QED
  BY <1>1, <1>2, <1>3, <1>4, <1>5, <1>6, <1>7, <1>8, <1>9, <1>10, <1>11, <1>12, <1>13, <1>14, <1>15, <1>16, <1>17, <1>18, <1>19, <1>20, <1>21, <1>22, <1>23, <1>24, <1>25, <1>26, <1>27, <1>28, <1>29, <1>30, <1>31, <1>32, <1>33, <1>34, <1>35, <1>36, <1>37, <1>38, <1>39, <1>40, <1>41, <1>42
     DEF Next, Transfer, CallStep, RtsStep, FarStep, TailStep, AfterStep, Irq

\* In a program that takes no computed RTS, every routine is entered and
\* resumed with the accumulator the program had, whatever NMI ran meanwhile.
THEOREM AccumulatorKept ==
    ASSUME "rtsdispatch" \notin MainOps \cup NmiOps
    PROVE  Spec => []AccumulatorSurvives
<1>1. Init => Holding
  BY DEF Init, Holding, Held, Level, MaxDepth, FarPoint
<1>2. IInv /\ Holding /\ [Next]_vars => Holding'
  BY HoldingStep DEF IInv
<1>3. Holding => AccumulatorSurvives
  BY DEF Holding, Held, AccumulatorSurvives, Running
<1> QED BY <1>1, <1>2, <1>3, Inductive, PTL DEF Spec
-----------------------------------------------------------------------------
\* Interrupts are enabled but at boot and in the trap, and the in-handler flag
\* is clear whenever the handler is not running.
Open ==
    /\ inHandler = FALSE
    /\ pc[depth] \notin {"boot", "trap"} => iff

\* A step leaves interrupts enabled, or ends in the trap.
LEMMA OpenStep ==
    ASSUME SpuriousIrq = FALSE
    PROVE  TypeOK /\ Open /\ [Next]_vars => Open'

<1> SUFFICES ASSUME TypeOK, Open, [Next]_vars PROVE Open'
  OBVIOUS
<1>0. depth \in Level /\ pc \in [Level -> Point]
  BY DEF TypeOK
<1>1. CASE CallLoad
  BY <1>1, <1>0 DEF CallLoad, Open, Running, Goto, memVars, irqVars, regVars, specVars
<1>2. CASE CallShadow
  BY <1>2, <1>0 DEF CallShadow, Open, Running, Goto, memVars, irqVars, regVars, specVars
<1>3. CASE CallSlot
  BY <1>3, <1>0 DEF CallSlot, Open, Running, Goto, memVars, irqVars, regVars, specVars
<1>4. CASE CallEnter
  BY <1>4, <1>0 DEF CallEnter, Open, Running, Goto, memVars, irqVars, regVars, specVars
<1>5. CASE RtsSlot
  BY <1>5, <1>0 DEF RtsSlot, Open, Running, Goto, memVars, irqVars, regVars, specVars
<1>6. CASE RtsPublish
  BY <1>6, <1>0 DEF RtsPublish, Open, Running, Goto, memVars, irqVars, regVars, specVars
<1>7. CASE DispatchSpill
  BY <1>7, <1>0 DEF DispatchSpill, Open, Running, Goto, memVars, irqVars, regVars, specVars
<1>8. CASE DispatchKey
  BY <1>8, <1>0 DEF DispatchKey, Open, Running, Goto, memVars, irqVars, regVars, specVars
<1>9. CASE DispatchLabel
  BY <1>9, <1>0 DEF DispatchLabel, Open, Running, Goto, memVars, irqVars, regVars, specVars
<1>10. CASE DispatchBank
  BY <1>10, <1>0 DEF DispatchBank, Open, Running, Goto, memVars, irqVars, regVars, specVars
<1>11. CASE DispatchSlow
  BY <1>11, <1>0 DEF DispatchSlow, Open, Running, Goto, memVars, irqVars, regVars, specVars
<1>12. CASE FarLoad
  BY <1>12, <1>0 DEF FarLoad, Open, Running, Goto, memVars, irqVars, regVars, specVars
<1>13. CASE FarReserve
  BY <1>13, <1>0 DEF FarReserve, Open, Running, Goto, memVars, irqVars, regVars, specVars
<1>14. CASE FarSave
  BY <1>14, <1>0 DEF FarSave, Open, Running, Goto, memVars, irqVars, regVars, specVars
<1>15. CASE FarShadow
  BY <1>15, <1>0 DEF FarShadow, Open, Running, Goto, memVars, irqVars, regVars, specVars
<1>16. CASE FarSlot
  BY <1>16, <1>0 DEF FarSlot, Open, Running, Goto, memVars, irqVars, regVars, specVars
<1>17. CASE FarEnter
  BY <1>17, <1>0 DEF FarEnter, Open, Running, Goto, memVars, irqVars, regVars, specVars
<1>18. CASE RtsDispatchSpill
  BY <1>18, <1>0 DEF RtsDispatchSpill, Open, Running, Goto, memVars, irqVars, regVars, specVars
<1>19. CASE RtsDispatchLoad
  BY <1>19, <1>0 DEF RtsDispatchLoad, Open, Running, Goto, memVars, irqVars, regVars, specVars
<1>20. CASE TailDispatch
  BY <1>20, <1>0 DEF TailDispatch, Open, Running, Goto, memVars, irqVars, regVars, specVars
<1>21. CASE NativeRet
  BY <1>21, <1>0 DEF NativeRet, Open, Running, Goto, memVars, irqVars, regVars, specVars
<1>22. CASE AfterRead
  BY <1>22, <1>0 DEF AfterRead, Open, Running, Goto, memVars, irqVars, regVars, specVars
<1>23. CASE AfterPublish
  BY <1>23, <1>0 DEF AfterPublish, Open, Running, Goto, memVars, irqVars, regVars, specVars
<1>24. CASE AfterShadow
  BY <1>24, <1>0 DEF AfterShadow, Open, Running, Goto, memVars, irqVars, regVars, specVars
<1>25. CASE AfterSlot
  BY <1>25, <1>0 DEF AfterSlot, Open, Running, Goto, memVars, irqVars, regVars, specVars
<1>26. CASE BootDone
  BY <1>26, <1>0 DEF BootDone, Open, Running, Goto, memVars, irqVars, regVars, specVars
<1>27. CASE Rti
  BY <1>27, <1>0 DEF Rti, Open, Running, Goto, memVars, irqVars, regVars, specVars
<1>28. CASE CallReserve
  BY <1>28, <1>0 DEF CallReserve, Open, Running, Goto, memVars, irqVars, regVars, specVars
<1>29. CASE CallFill
  BY <1>29, <1>0 DEF CallFill, Open, Running, Goto, memVars, irqVars, regVars, specVars
<1>30. CASE RtsPop
  BY <1>30, <1>0 DEF RtsPop, Open, Running, Goto, memVars, irqVars, regVars, specVars
<1>31. CASE SpuriousEntry
  BY <1>31, <1>0 DEF SpuriousEntry, Open, Running, Goto, memVars, irqVars, regVars, specVars
<1>32. CASE FrameIrqSkip
  BY <1>32, <1>0 DEF FrameIrqSkip, Open, Running, Goto, memVars, irqVars, regVars, specVars
<1>33. CASE LineIrq
  BY <1>33, <1>0 DEF LineIrq, Open, Running, Goto, memVars, irqVars, regVars, specVars
<1>34. CASE BridgeReturn
  BY <1>34, <1>0 DEF BridgeReturn, Open, Running, Goto, memVars, irqVars, regVars, specVars
<1>35. CASE FrameIrqDeliver
  BY <1>35, <1>0 DEF FrameIrqDeliver, Open, Running, Goto, memVars, irqVars, regVars, specVars
<1>36. ASSUME NEW r \in Callee, NEW v \in Acc, Jsr(r, v) PROVE Open'
  BY <1>36, <1>0 DEF Jsr, Open, Running, Goto, memVars, irqVars, regVars, specVars
<1>37. ASSUME NEW r \in Callee, NEW v \in Acc, BankedDispatch(r, v) PROVE Open'
  BY <1>37, <1>0 DEF BankedDispatch, Open, Running, Goto, memVars, irqVars, regVars, specVars
<1>38. ASSUME NEW r \in Callee, NEW v \in Acc, IndirectJmp(r, v) PROVE Open'
  BY <1>38, <1>0 DEF IndirectJmp, Open, Running, Goto, memVars, irqVars, regVars, specVars
<1>39. ASSUME NEW r \in Callee, NEW v \in Acc, RtsDispatch(r, v) PROVE Open'
  BY <1>39, <1>0 DEF RtsDispatch, Open, Running, Goto, memVars, irqVars, regVars, specVars
<1>40. ASSUME NEW v \in Acc, Rts(v) PROVE Open'
  BY <1>40, <1>0 DEF Rts, Open, Running, Goto, memVars, irqVars, regVars, specVars
<1>41. ASSUME NEW b \in BOOLEAN, WriteNmiEnable(b) PROVE Open'
  BY <1>41, <1>0 DEF WriteNmiEnable, Open, Running, Goto, memVars, irqVars, regVars, specVars
<1>42. CASE UNCHANGED vars
  BY <1>42 DEF vars, Open, memVars, irqVars, regVars, specVars
<1> QED
  BY <1>1, <1>2, <1>3, <1>4, <1>5, <1>6, <1>7, <1>8, <1>9, <1>10, <1>11, <1>12, <1>13, <1>14, <1>15, <1>16, <1>17, <1>18, <1>19, <1>20, <1>21, <1>22, <1>23, <1>24, <1>25, <1>26, <1>27, <1>28, <1>29, <1>30, <1>31, <1>32, <1>33, <1>34, <1>35, <1>36, <1>37, <1>38, <1>39, <1>40, <1>41, <1>42
     DEF Next, Transfer, CallStep, RtsStep, FarStep, TailStep, AfterStep, Irq

\* If no interrupt enters the handler before boot has finished, translated code
\* always runs with interrupts enabled.
THEOREM InterruptsStayOpen ==
    ASSUME SpuriousIrq = FALSE
    PROVE  Spec => []InterruptsReturn
<1>1. Init => Open
  BY DEF Init, Open, Level, MaxDepth
<1>2. IInv /\ Open /\ [Next]_vars => Open'
  BY OpenStep DEF IInv
<1>3. Open => InterruptsReturn
  BY DEF Open, InterruptsReturn, Running
<1> QED BY <1>1, <1>2, <1>3, Inductive, PTL DEF Spec
=============================================================================
