------------------------- MODULE RuntimeParts_proofs -------------------------
(***************************************************************************)
(* Proofs about the four parts of MCRuntimeParts: the page of the 6502     *)
(* stack, the HUD split against the beam, the controller ports and the     *)
(* pointer of the return frames.                                           *)
(*                                                                         *)
(* Each part has an inductive invariant of its own (IInv, HudInv, PortInv, *)
(* FrameInv) and theorems of its own specification; the last section puts  *)
(* them together.                                                          *)
(***************************************************************************)
EXTENDS MCRuntimeParts, SequenceTheorems, TLAPS

-----------------------------------------------------------------------------
(***************************************************************************)
(* The page of the 6502 stack (GuestStack).  The bytes of the contexts lie on *)
(* the page one above the other, newest first: each context finds its own  *)
(* where it left them, on the frame the bridge pushed for it.              *)
(***************************************************************************)

Plain == Byte \ {FF}

\* The pointer when n bytes lie on the stack.
PtrOf(n) == IF n < Size THEN Size - 1 - n ELSE Size - 1

\* What a context has reserved and not written, and the frame the bridge
\* pushed for it, until its RTI has popped it.
Unwritten(l) == IF pc[l] = "push_write" THEN Len(bytes[l]) ELSE 0
Popped(l)    == pc[l] \in {"native_ret", "wild"}
Frame(l)     == IF nmiBody[l] /\ ~Popped(l) THEN 3 ELSE 0

\* The share of a context whose newest byte is the n-th of the stack: its own
\* bytes on the frame of the bridge, all of them on the page.
Shares(l, n) ==
    /\ n >= owned[l] + Frame(l)
    /\ Frame(l) = 3 => /\ stack[n - owned[l] - 2] = FF /\ stack[n - owned[l] - 1] = FF
                       /\ stack[n - owned[l]] = Flags
    /\ \A i \in 1 .. n : i > n - owned[l] => stack[i] \in Plain
    /\ \A i \in 1 .. n : i > n - owned[l] - Frame(l) /\ i <= n - Unwritten(l)
          => page[Size - i] = stack[i]

Pushing(l, n) ==
    /\ pc[l] \in {"push_load", "push_reserve", "push_write"}
          => bytes[l] \in Seq(Plain) /\ Len(bytes[l]) >= 1
    /\ pc[l] = "push_reserve" => ptr[l] = PtrOf(n)
    /\ pc[l] = "push_write" =>
          /\ Len(bytes[l]) <= owned[l]
          /\ ptr[l] = Size - (n - Len(bytes[l]) + 1)
          /\ \A j \in 1 .. Len(bytes[l]) : stack[n - Len(bytes[l]) + j] = bytes[l][j]

\* An RTI pops a frame of the context's own, or the one the bridge pushed.
Poppable(l) ==
    \/ owned[l] >= Needs(op[l]) /\ (op[l] = "rti" /\ nmiBody[l] => NmiResumesAfterBrk)
    \/ op[l] = "rti" /\ owned[l] = 0 /\ nmiBody[l]

Popping(l, n) ==
    /\ pc[l] \in {"pop_read", "pop_publish"} =>
          /\ ptr[l] = PtrOf(n)
          /\ op[l] \in {"pop", "rts", "rti"}
          /\ Poppable(l)
          /\ Len(bytes[l]) <= Needs(op[l])
          /\ \A j \in 1 .. Len(bytes[l]) : bytes[l][j] = stack[n + 1 - j]
    /\ pc[l] = "pop_read" => Len(bytes[l]) < Needs(op[l])
    /\ pc[l] = "pop_publish" => Len(bytes[l]) = Needs(op[l])
    /\ pc[l] = "rti_dispatch" => (nmiBody[l] => NmiResumesAfterBrk)
    /\ Popped(l) => nmiBody[l] /\ owned[l] = 0

Context(l, n) == Shares(l, n) /\ Pushing(l, n) /\ Popping(l, n)

\* A context runs again only if every body above it still owes its RTI: one
\* that has reset the pointer leaves through a frame of its own.
Resumable(l) == \A k \in Level : l < k /\ k <= live => nmiBody[k]

\* t[l] bytes lay on the stack when context l was interrupted.
Tops(t) ==
    /\ t[live] = Len(stack)
    /\ \A l \in Level : l < live /\ nmiBody[l + 1]
          => t[l] = t[l + 1] - owned[l + 1] - Frame(l + 1)
    /\ \A l \in Level : l <= live /\ Resumable(l) => Context(l, t[l])

Nested == \E t \in [Level -> 0 .. Size] : Tops(t)

IInv ==
    /\ TypeOK
    /\ Len(stack) <= Size /\ S = PtrOf(Len(stack))
    /\ live <= depth /\ depth <= live + 1
    /\ nmiBody[0] => NmiResumesAfterBrk
    /\ Nested
-----------------------------------------------------------------------------
LEMMA ModSmall ==
    ASSUME NEW n \in Nat \ {0}, NEW x \in 0 .. n - 1
    PROVE  x % n = x
OBVIOUS

LEMMA ModUnique ==
    ASSUME NEW x \in Int, NEW n \in Nat \ {0}, NEW q \in Int, NEW r \in 0 .. n - 1, x = q * n + r
    PROVE  x % n = r
OBVIOUS

\* Down and up the page, around its end.
LEMMA PtrDown ==
    ASSUME NEW n \in Nat, NEW k \in Nat, n + k <= Size
    PROVE  Down(PtrOf(n), k) = PtrOf(n + k)
<1>1. Size \in Nat \ {0}
  BY SizeAssumption
<1>2. CASE n = Size
  <2>1. PtrOf(n) - k = Size - 1 /\ PtrOf(n + k) = Size - 1 /\ Size - 1 \in 0 .. Size - 1
    BY <1>1, <1>2 DEF PtrOf
  <2> QED BY <1>1, <2>1, ModSmall DEF Down
<1>3. CASE n + k < Size
  <2>1. /\ PtrOf(n) - k = Size - 1 - (n + k) /\ PtrOf(n + k) = Size - 1 - (n + k)
        /\ Size - 1 - (n + k) \in 0 .. Size - 1
    BY <1>1, <1>3 DEF PtrOf
  <2> QED BY <1>1, <2>1, ModSmall DEF Down
<1>4. CASE n < Size /\ n + k = Size
  <2>1. /\ PtrOf(n) - k = (-1) * Size + (Size - 1) /\ PtrOf(n + k) = Size - 1
        /\ Size - 1 \in 0 .. Size - 1 /\ PtrOf(n) - k \in Int /\ -1 \in Int
    BY <1>1, <1>4 DEF PtrOf
  <2>2. (PtrOf(n) - k) % Size = Size - 1
    BY <1>1, <2>1, ModUnique
  <2> QED BY <2>1, <2>2 DEF Down
<1> QED BY <1>1, <1>2, <1>3, <1>4

LEMMA PtrUp ==
    ASSUME NEW n \in Nat, n <= Size, NEW k \in Nat, k <= n
    PROVE  Up(PtrOf(n), k) = PtrOf(n - k)
<1>1. Size \in Nat \ {0}
  BY SizeAssumption
<1>2. CASE n < Size \/ k = 0
  <2>1. PtrOf(n) + k = PtrOf(n - k) /\ PtrOf(n - k) \in 0 .. Size - 1
    BY <1>1, <1>2 DEF PtrOf
  <2> QED BY <1>1, <2>1, ModSmall DEF Up
<1>3. CASE n = Size /\ k > 0
  <2>1. /\ PtrOf(n) + k = 1 * Size + (k - 1) /\ PtrOf(n - k) = k - 1
        /\ k - 1 \in 0 .. Size - 1 /\ PtrOf(n) + k \in Int /\ 1 \in Int
    BY <1>1, <1>3 DEF PtrOf
  <2>2. (PtrOf(n) + k) % Size = k - 1
    BY <1>1, <2>1, ModUnique
  <2> QED BY <2>1, <2>2 DEF Up
<1> QED BY <1>1, <1>2, <1>3

LEMMA PtrInPage ==
    ASSUME NEW n \in Nat, n <= Size
    PROVE  PtrOf(n) \in Slot /\ (n < Size => PtrOf(n) = Size - (n + 1))
BY SizeAssumption DEF PtrOf, Slot

LEMMA DropKeeps ==
    ASSUME NEW s \in Seq(Byte), NEW n \in Nat, n <= Len(s)
    PROVE  /\ Drop(s, n) \in Seq(Byte) /\ Len(Drop(s, n)) = Len(s) - n
           /\ \A i \in 1 .. Len(s) - n : Drop(s, n)[i] = s[i]
<1>1. Len(s) - n \in Int /\ 1 \in Int /\ \A i \in 1 .. Len(s) - n : s[i] \in Byte
  OBVIOUS
<1>2. /\ SubSeq(s, 1, Len(s) - n) \in Seq(Byte)
      /\ Len(SubSeq(s, 1, Len(s) - n)) = IF 1 <= Len(s) - n THEN Len(s) - n - 1 + 1 ELSE 0
      /\ \A i \in 1 .. Len(s) - n : SubSeq(s, 1, Len(s) - n)[i] = s[1 + i - 1]
  BY <1>1, SubSeqProperties
<1> QED BY <1>2 DEF Drop

LEMMA JoinKeeps ==
    ASSUME NEW s \in Seq(Byte), NEW u \in Seq(Byte)
    PROVE  /\ s \o u \in Seq(Byte) /\ Len(s \o u) = Len(s) + Len(u)
           /\ \A i \in 1 .. Len(s) : (s \o u)[i] = s[i]
           /\ \A j \in 1 .. Len(u) : (s \o u)[Len(s) + j] = u[j]
OBVIOUS
-----------------------------------------------------------------------------
\* A context that was interrupted finds its share, and what it holds of it,
\* unless something at or below its top has changed.
LEMMA ContextKept ==
    ASSUME NEW l \in Level, NEW n \in 0 .. Size, Context(l, n), TypeOK,
           pc'[l] = pc[l], ptr'[l] = ptr[l], bytes'[l] = bytes[l], op'[l] = op[l],
           nmiBody'[l] = nmiBody[l], owned'[l] = owned[l],
           \A i \in 1 .. n : stack'[i] = stack[i] /\ page'[Size - i] = page[Size - i]
    PROVE  Context(l, n)'
<1>1. /\ owned[l] \in Nat /\ Len(bytes[l]) \in Nat /\ n \in Nat /\ Frame(l) \in {0, 3}
      /\ Size \in Nat
  BY SizeAssumption DEF TypeOK, Frame
<1>2. Frame(l)' = Frame(l) /\ Unwritten(l)' = Unwritten(l) /\ Popped(l)' = Popped(l)
  BY DEF Frame, Unwritten, Popped
<1>3. Shares(l, n) /\ Pushing(l, n) /\ Popping(l, n)
  BY DEF Context
<1>4. Shares(l, n)'
  <2>1. n >= owned[l] + Frame(l)
    BY <1>3 DEF Shares
  <2>2. ASSUME Frame(l) = 3
        PROVE  /\ n - owned[l] - 2 \in 1 .. n /\ n - owned[l] - 1 \in 1 .. n
               /\ n - owned[l] \in 1 .. n
    <3>1. n >= owned[l] + 3
      BY <2>1, <2>2
    <3>2. n \in Nat /\ owned[l] \in Nat
      BY <1>1
    <3> QED BY <3>1, <3>2 DEF Frame
  <2> QED BY <1>2, <1>3, <2>2 DEF Shares
<1>5. Pushing(l, n)'
  <2>1. ASSUME pc[l] = "push_write", NEW j \in 1 .. Len(bytes[l])
        PROVE  n - Len(bytes[l]) + j \in 1 .. n
    <3>1. Len(bytes[l]) <= owned[l] /\ owned[l] <= n
      BY <1>1, <1>3, <2>1 DEF Pushing, Shares
    <3> QED BY <1>1, <3>1
  <2> QED BY <1>3, <2>1 DEF Pushing
<1>6. Popping(l, n)'
  <2>1. ASSUME pc[l] \in {"pop_read", "pop_publish"}, NEW j \in 1 .. Len(bytes[l])
        PROVE  n + 1 - j \in 1 .. n
    <3>1. Poppable(l) /\ Len(bytes[l]) <= Needs(op[l]) /\ op[l] \in {"pop", "rts", "rti"}
      BY <1>3, <2>1 DEF Popping
    <3>2. Needs(op[l]) <= owned[l] + Frame(l)
      BY <1>1, <2>1, <3>1 DEF Poppable, Needs, Frame, Popped
    <3>3. n >= owned[l] + Frame(l) /\ Needs(op[l]) \in Nat
      BY <1>3, <3>1 DEF Shares, Needs
    <3> QED BY <1>1, <3>1, <3>2, <3>3
  <2>2. Poppable(l)' = Poppable(l)
    BY DEF Poppable
  <2> QED BY <1>2, <1>3, <2>1, <2>2 DEF Popping
<1> QED BY <1>4, <1>5, <1>6 DEF Context

\* The share of a context that will run again lies below those above it.
LEMMA Under ==
    ASSUME TypeOK, NEW t \in [Level -> 0 .. Size], Tops(t),
           NEW l \in Level, l < live, Resumable(l)
    PROVE  t[l] <= t[live] - owned[live] - Frame(live) /\ nmiBody[live]
<1>1. /\ live \in Level /\ \A m \in Level : owned[m] \in Nat /\ Frame(m) \in {0, 3} /\ t[m] \in Nat
  BY SizeAssumption DEF TypeOK, Frame
<1>2. nmiBody[live]
  BY <1>1 DEF Resumable, Level
<1>3. CASE l + 1 = live
  <2>1. t[l] = t[l + 1] - owned[l + 1] - Frame(l + 1)
    BY <1>2, <1>3 DEF Tops
  <2> QED BY <1>1, <1>2, <1>3, <2>1
<1>4. CASE l = 0 /\ live = 2
  <2>1. nmiBody[0 + 1] /\ nmiBody[1 + 1]
    BY <1>4 DEF Resumable, Level, MaxDepth
  <2>2. /\ t[0] = t[0 + 1] - owned[0 + 1] - Frame(0 + 1)
        /\ t[1] = t[1 + 1] - owned[1 + 1] - Frame(1 + 1)
    BY <1>4, <2>1 DEF Tops, Level, MaxDepth
  <2>3. 1 \in Level /\ 2 \in Level
    BY DEF Level, MaxDepth
  <2>4. t[0] \in Nat /\ t[1] \in Nat /\ t[2] \in Nat /\ owned[1] \in Nat /\ owned[2] \in Nat
        /\ Frame(1) \in {0, 3} /\ Frame(2) \in {0, 3}
    BY <1>1, <1>4, <2>3
  <2> QED BY <1>2, <1>4, <2>2, <2>4
<1> QED BY <1>1, <1>3, <1>4 DEF Level, MaxDepth

\* A step of the running context k that keeps the bytes below its own share,
\* and the place of that share unless it gives up returning.
LEMMA OneContext ==
    ASSUME TypeOK, NEW t \in [Level -> 0 .. Size], Tops(t),
           NEW k \in Level, k = live, live' = k,
           \A l \in Level : l # k =>
               /\ pc'[l] = pc[l] /\ ptr'[l] = ptr[l] /\ bytes'[l] = bytes[l] /\ op'[l] = op[l]
               /\ nmiBody'[l] = nmiBody[l] /\ owned'[l] = owned[l],
           NEW n \in 0 .. Size, n = Len(stack'), Context(k, n)',
           nmiBody'[k] => /\ nmiBody[k]
                          /\ n - owned'[k] - Frame(k)' = t[k] - owned[k] - Frame(k),
           nmiBody'[k] => \A i \in 1 .. t[k] - owned[k] - Frame(k) :
               stack'[i] = stack[i] /\ page'[Size - i] = page[Size - i]
    PROVE  Nested'
<1> DEFINE u == [t EXCEPT ![k] = n]
<1>1. u \in [Level -> 0 .. Size] /\ u[k] = n /\ \A l \in Level : l # k => u[l] = t[l]
  OBVIOUS
<1>2. \A l \in Level : l # k => Frame(l)' = Frame(l)
  BY DEF Frame, Popped
<1>3. ASSUME NEW l \in Level, l < k, nmiBody'[l + 1]
      PROVE  u[l] = u[l + 1] - owned'[l + 1] - Frame(l + 1)'
  <2>1. l # k /\ l + 1 \in Level
    BY <1>3 DEF Level, MaxDepth
  <2>2. CASE l + 1 = k
    <3>1. t[l] = t[k] - owned[k] - Frame(k)
      BY <1>3, <2>2 DEF Tops
    <3>2. n - owned'[k] - Frame(k)' = t[k] - owned[k] - Frame(k)
      BY <1>3, <2>2
    <3>3. u[l] = t[l] /\ u[l + 1] = n
      BY <1>1, <2>1, <2>2
    <3>4. owned'[l + 1] = owned'[k] /\ Frame(l + 1)' = Frame(k)'
      BY <2>2
    <3> QED BY <3>1, <3>2, <3>3, <3>4
  <2>3. CASE l + 1 # k
    <3>1. nmiBody[l + 1] /\ owned'[l + 1] = owned[l + 1] /\ Frame(l + 1)' = Frame(l + 1)
      BY <1>2, <1>3, <2>1, <2>3
    <3>2. t[l] = t[l + 1] - owned[l + 1] - Frame(l + 1)
      BY <1>3, <3>1 DEF Tops
    <3> QED BY <1>1, <2>1, <2>3, <3>1, <3>2
  <2> QED BY <2>2, <2>3
<1>4. ASSUME NEW l \in Level, l <= k, Resumable(l)'
      PROVE  Context(l, u[l])'
  <2>1. CASE l = k
    BY <1>1, <2>1
  <2>2. CASE l # k
    <3>1. l < k
      BY <1>4, <2>2 DEF Level
    <3>2. nmiBody'[k]
      BY <1>4, <3>1 DEF Resumable, Level
    <3>3. Resumable(l)
      BY <1>4, <3>2 DEF Resumable
    <3>4. t[l] <= t[k] - owned[k] - Frame(k) /\ Context(l, t[l])
      <4>1. t[l] <= t[live] - owned[live] - Frame(live)
        BY <3>1, <3>3, Under
      <4>2. Context(l, t[l])
        BY <1>4, <3>3 DEF Tops
      <4> QED BY <4>1, <4>2
    <3>5. \A i \in 1 .. t[l] : stack'[i] = stack[i] /\ page'[Size - i] = page[Size - i]
      <4>1. t[l] \in Nat /\ t[k] \in Nat /\ owned[k] \in Nat /\ Frame(k) \in {0, 3}
        BY SizeAssumption DEF TypeOK, Frame
      <4> HIDE DEF u
      <4> QED BY <3>2, <3>4, <4>1
    <3>6. Context(l, t[l])'
      BY <2>2, <3>4, <3>5, ContextKept
    <3> QED BY <1>1, <2>2, <3>6
  <2> QED BY <2>1, <2>2
<1>5. Tops(u)'
  <2>1. u[live'] = Len(stack')
    BY <1>1
  <2> HIDE DEF u
  <2> QED BY <1>3, <1>4, <2>1 DEF Tops
<1> HIDE DEF u
<1> QED BY <1>1, <1>5 DEF Nested
-----------------------------------------------------------------------------
LEMMA Now ==
    ASSUME IInv
    PROVE  Context(live, Len(stack)) /\ live \in Level /\ Len(stack) \in 0 .. Size
<1>1. live \in Level /\ Len(stack) \in Nat /\ Len(stack) <= Size /\ Size \in Nat
  BY SizeAssumption DEF IInv, TypeOK
<1>2. PICK t \in [Level -> 0 .. Size] : Tops(t)
  BY DEF IInv, Nested
<1>3. Resumable(live)
  BY <1>1 DEF Resumable, Level
<1> QED BY <1>1, <1>2, <1>3 DEF Tops

\* The pointer arithmetic stays on the page.
LEMMA OnPage ==
    ASSUME NEW s \in Int, NEW n \in Int
    PROVE  Down(s, n) \in Slot /\ Up(s, n) \in Slot
<1>1. Size \in Nat \ {0} /\ s - n \in Int /\ s + n \in Int
  BY SizeAssumption
<1>2. \A x \in Int : x % Size \in 0 .. Size - 1
  BY <1>1
<1> QED BY <1>1, <1>2 DEF Down, Up, Slot

LEMMA NeedsIsNat ==
    \A o : Needs(o) \in 0 .. 3
BY DEF Needs

LEMMA TypeInit == ASSUME Init PROVE IInv
<1>1. Size \in Nat \ {0} /\ 0 \in Slot /\ Size - 1 \in Slot /\ 0 \in Level
  BY SizeAssumption DEF Slot, Level, MaxDepth
<1>2. TypeOK
  <2>1. Flags \in Byte /\ << >> \in Seq(Byte)
    BY DEF Byte
  <2> QED BY <1>1, <2>1 DEF Init, TypeOK, Fresh, Point
<1>3. Len(stack) = 0 /\ S = PtrOf(Len(stack)) /\ Len(stack) <= Size
  BY <1>1 DEF Init, PtrOf
<1>4. live <= depth /\ depth <= live + 1 /\ ~nmiBody[0]
  BY <1>1 DEF Init, Fresh
<1>5. Nested
  <2> DEFINE t == [l \in Level |-> 0]
  <2>1. t \in [Level -> 0 .. Size] /\ t[live] = Len(stack)
    BY <1>1, <1>3 DEF Init
  <2>2. \A l \in Level : ~(l < live)
    BY DEF Init, Level
  <2>3. Context(0, 0)
    <3>1. owned[0] = 0 /\ Frame(0) = 0 /\ pc[0] = "body"
      BY <1>1 DEF Init, Fresh, Frame
    <3> QED BY <3>1 DEF Context, Shares, Pushing, Popping, Popped
  <2>4. \A l \in Level : l <= live => Context(l, t[l])
    BY <1>1, <2>3 DEF Init, Level
  <2> QED BY <2>1, <2>2, <2>4 DEF Nested, Tops
<1> QED BY <1>2, <1>3, <1>4, <1>5 DEF IInv

LEMMA TypeStep == ASSUME IInv, [Next]_vars PROVE TypeOK'
<1>1. TypeOK /\ Size \in Nat \ {0}
  BY SizeAssumption DEF IInv
<1>2. Context(live, Len(stack)) /\ live \in Level /\ Len(stack) \in 0 .. Size
  BY Now
<1>3. Pushing(live, Len(stack)) /\ Popping(live, Len(stack)) /\ Shares(live, Len(stack))
  BY <1>2 DEF Context
<1>4. CASE \E v \in Data : Push(v)
  <2>1. PICK v \in Data : Push(v)
    BY <1>4
  <2>2. <<v>> \in Seq(Byte)
    BY DEF Byte
  <2> QED BY <1>1, <2>1, <2>2 DEF TypeOK, Push, StartPush, Set, sharedVars, nmiVars, Point
<1>5. CASE Brk
  <2>1. <<Ret, Ret, Flags>> \in Seq(Byte)
    BY DEF Byte
  <2> QED BY <1>1, <1>5, <2>1 DEF TypeOK, Brk, StartPush, Set, sharedVars, nmiVars, Point
<1>6. CASE PushLoad
  BY <1>1, <1>6 DEF TypeOK, PushLoad, Set, sharedVars, nmiVars, Point
<1>7. CASE PushReserve
  <2>1. S' \in Slot
    <3>1. ptr[live] \in Int /\ Len(bytes[live]) \in Int
      BY <1>1, <1>2 DEF TypeOK, Slot
    <3> QED BY <1>7, <3>1, OnPage DEF PushReserve
  <2>2. stack' \in Seq(Byte) /\ owned' \in [Level -> Nat] /\ pc' \in [Level -> Point]
    BY <1>1, <1>2, <1>7 DEF PushReserve, TypeOK, Set, Point
  <2> QED BY <1>1, <1>7, <2>1, <2>2 DEF TypeOK, PushReserve, nmiVars
<1>8. CASE PushWrite
  <2>1. bytes[live] \in Seq(Byte) /\ Len(bytes[live]) >= 1
    BY <1>1, <1>2, <1>3, <1>8 DEF PushWrite, Running, Pushing, TypeOK
  <2>2. Head(bytes[live]) \in Byte /\ Tail(bytes[live]) \in Seq(Byte)
    BY <2>1
  <2>3. page' \in [Slot -> Byte] /\ bytes' \in [Level -> Seq(Byte)]
    BY <1>1, <1>2, <1>8, <2>2 DEF PushWrite, Set, TypeOK
  <2>4. Down(ptr[live], 1) \in Slot /\ 0 \in Slot
    <3>1. ptr[live] \in Int
      BY <1>1, <1>2 DEF TypeOK, Slot
    <3>2. Down(ptr[live], 1) \in Slot
      BY <3>1, OnPage
    <3> QED BY <1>1, <3>2 DEF Slot
  <2>5. ptr' \in [Level -> Slot] /\ pc' \in [Level -> Point]
    BY <1>1, <1>2, <1>8, <2>4 DEF PushWrite, Set, TypeOK, Point
  <2> QED BY <1>1, <1>8, <2>3, <2>5 DEF TypeOK, PushWrite, nmiVars
<1>9. ASSUME NEW o \in {"pop", "rts", "rti"}, StartPop(o) PROVE TypeOK'
  BY <1>1, <1>9 DEF TypeOK, StartPop, Set, sharedVars, nmiVars, Point
<1>10. CASE PopRead
  <2>1. ptr[live] \in Int /\ Len(bytes[live]) + 1 \in Int
    BY <1>1, <1>2 DEF TypeOK, Slot
  <2>2. page[Up(ptr[live], Len(bytes[live]) + 1)] \in Byte
    BY <1>1, <2>1, OnPage DEF TypeOK
  <2>3. Append(bytes[live], page[Up(ptr[live], Len(bytes[live]) + 1)]) \in Seq(Byte)
    BY <1>1, <1>2, <2>2 DEF TypeOK
  <2>4. bytes' \in [Level -> Seq(Byte)] /\ pc' \in [Level -> Point]
    BY <1>1, <1>2, <1>10, <2>3 DEF PopRead, TypeOK, Set, Point
  <2> QED BY <1>1, <1>10, <2>4 DEF TypeOK, PopRead, sharedVars, nmiVars
<1>11. CASE PopPublish
  <2>1. pc[live] = "pop_publish" /\ Poppable(live) /\ op[live] \in {"pop", "rts", "rti"}
    BY <1>3, <1>11 DEF PopPublish, Running, Popping
  <2>2. owned[live] \in Nat /\ Needs(op[live]) \in Nat /\ stack \in Seq(Byte)
    <3>1. Needs(op[live]) \in 0 .. 3
      BY NeedsIsNat
    <3> QED BY <1>1, <1>2, <3>1 DEF TypeOK
  <2>3. Needs(op[live]) <= Len(stack)
    <3>1. Len(stack) >= owned[live] + Frame(live)
      BY <1>3 DEF Shares
    <3>2. Needs(op[live]) <= owned[live] + Frame(live)
      BY <2>1, <2>2 DEF Poppable, Needs, Frame, Popped
    <3> QED BY <2>2, <3>1, <3>2 DEF Frame
  <2>4. stack' \in Seq(Byte)
    BY <1>11, <2>2, <2>3, DropKeeps DEF PopPublish
  <2>5. S' \in Slot
    <3>1. S \in Int /\ ptr[live] \in Int /\ Needs(op[live]) \in Int
      BY <1>1, <1>2, <2>2 DEF TypeOK, Slot
    <3>2. Up(S, Needs(op[live])) \in Slot /\ Up(ptr[live], Needs(op[live])) \in Slot
      BY <3>1, OnPage
    <3> QED BY <1>11, <3>2 DEF PopPublish
  <2>6. owned' \in [Level -> Nat]
    <3>1. owned[live] = 0 \/ owned[live] - Needs(op[live]) \in Nat
      BY <2>1, <2>2 DEF Poppable
    <3> QED BY <1>1, <1>2, <1>11, <3>1 DEF PopPublish, TypeOK, Set
  <2>7. /\ pc' \in [Level -> Point] /\ ptr' \in [Level -> Slot]
        /\ bytes' \in [Level -> Seq(Byte)] /\ op' \in [Level -> {"none", "pop", "rts", "rti"}]
    BY <1>1, <1>2, <1>11 DEF PopPublish, TypeOK, Set, Point, Slot
  <2> QED BY <1>1, <1>11, <2>4, <2>5, <2>6, <2>7 DEF TypeOK, PopPublish, nmiVars
<1>12. CASE RtiDispatch
  <2>1. live' \in Level /\ depth' \in Level /\ 0 \in Slot
    BY <1>1, <1>12 DEF RtiDispatch, Slot, Level, MaxDepth
  <2>2. /\ pc' \in [Level -> Point] /\ ptr' \in [Level -> Slot] /\ bytes' \in [Level -> Seq(Byte)]
        /\ op' \in [Level -> {"none", "pop", "rts", "rti"}]
    BY <1>12, <2>1 DEF RtiDispatch, Fresh, Point
  <2>3. nmiBody[live] \in BOOLEAN /\ owned[live] \in Nat
    BY <1>1, <1>2 DEF TypeOK
  <2>4. nmiBody' \in [Level -> BOOLEAN] /\ owned' \in [Level -> Nat]
    BY <1>12, <2>3 DEF RtiDispatch, Fresh
  <2> QED BY <1>1, <1>12, <2>1, <2>2, <2>4 DEF TypeOK, RtiDispatch, sharedVars
<1>13. CASE NativeRet
  <2>1. live' \in Level /\ depth' \in Level
    <3>1. live \in 0 .. 2 /\ depth \in 0 .. 2 /\ live <= depth
      BY <1>1 DEF TypeOK, IInv, Level, MaxDepth
    <3>2. (live' = live - 1 /\ depth' = depth - 1 /\ live > 0) \/ (live' = live /\ depth' = depth)
      BY <1>13, <3>1 DEF NativeRet
    <3> QED BY <3>1, <3>2 DEF Level, MaxDepth
  <2>2. pc' \in [Level -> Point] /\ nmiBody' \in [Level -> BOOLEAN]
    BY <1>1, <1>2, <1>13 DEF TypeOK, NativeRet, Set, Point
  <2> QED BY <1>1, <1>13, <2>1, <2>2 DEF TypeOK, NativeRet, sharedVars
<1>14. CASE Repair
  BY <1>1, <1>2, <1>14 DEF TypeOK, Repair, Set, nmiVars, Slot
<1>15. CASE \E b \in BOOLEAN : WriteNmiEnable(b)
  BY <1>1, <1>15 DEF TypeOK, WriteNmiEnable, sharedVars, ctxVars
<1>16. CASE Deliver
  <2>1. live' \in Level /\ depth' \in Level
    BY <1>1, <1>2, <1>16 DEF TypeOK, IInv, Deliver, Delivers, Level, MaxDepth
  <2>2. page' \in [Slot -> Byte]
    BY <1>1, <1>16 DEF TypeOK, Deliver, Byte
  <2>3. S' \in Slot /\ nmiStarted' \in BOOLEAN
    BY <1>1, <1>16, OnPage DEF TypeOK, Deliver, Slot
  <2>4. stack' \in Seq(Byte)
    BY <1>1, <1>16 DEF TypeOK, Deliver, Sentinel, Byte
  <2>5. /\ pc' \in [Level -> Point] /\ nmiBody' \in [Level -> BOOLEAN]
        /\ owned' \in [Level -> Nat]
    BY <1>1, <1>16 DEF TypeOK, Deliver, Point
  <2> QED BY <1>1, <1>16, <2>1, <2>2, <2>3, <2>4, <2>5 DEF TypeOK, Deliver
<1>17. CASE Skip
  BY <1>1, <1>17 DEF TypeOK, Skip, sharedVars, ctxVars
<1>18. CASE UNCHANGED vars
  BY <1>1, <1>18 DEF TypeOK, vars, sharedVars, nmiVars, ctxVars
<1>19. CASE Pop \/ Rts \/ Rti
  BY <1>9, <1>19 DEF Pop, Rts, Rti
<1> QED BY <1>4, <1>5, <1>6, <1>7, <1>8, <1>10, <1>11, <1>12, <1>13, <1>14, <1>15, <1>16,
           <1>17, <1>18, <1>19 DEF Next
-----------------------------------------------------------------------------
\* A step of the running context on what it holds alone.
LEMMA HeldStep ==
    ASSUME IInv, NEW k \in Level, k = live, live' = k,
           UNCHANGED <<stack, page, nmiBody, owned>>,
           \A l \in Level : l # k =>
               pc'[l] = pc[l] /\ ptr'[l] = ptr[l] /\ bytes'[l] = bytes[l] /\ op'[l] = op[l],
           pc[k] # "push_write", ~Popped(k), pc'[k] # "push_write", ~Popped(k)',
           Pushing(k, Len(stack))', Popping(k, Len(stack))'
    PROVE  Nested'
<1>1. PICK t \in [Level -> 0 .. Size] : Tops(t)
  BY DEF IInv, Nested
<1>2. TypeOK /\ Context(k, Len(stack)) /\ Len(stack) \in 0 .. Size
  BY Now DEF IInv
<1>3. Frame(k)' = Frame(k) /\ Unwritten(k)' = 0 /\ Unwritten(k) = 0
  BY DEF Frame, Unwritten
<1>4. Shares(k, Len(stack))'
  <2>1. Shares(k, Len(stack))
    BY <1>2 DEF Context
  <2> QED BY <1>3, <2>1 DEF Shares
<1>5. Context(k, Len(stack))'
  BY <1>4 DEF Context
<1>6. PICK n \in 0 .. Size : n = Len(stack)
  BY <1>2
<1>7. n = Len(stack') /\ Context(k, n)' /\ t[k] = n
  BY <1>1, <1>5, <1>6 DEF Tops
<1>8. /\ n - owned'[k] - Frame(k)' = t[k] - owned[k] - Frame(k)
      /\ \A i \in 1 .. t[k] - owned[k] - Frame(k) :
               stack'[i] = stack[i] /\ page'[Size - i] = page[Size - i]
  BY <1>3, <1>7
<1> QED BY <1>1, <1>2, <1>7, <1>8, OneContext

LEMMA StartPushHeld ==
    ASSUME IInv, NEW bs \in Seq(Plain), Len(bs) >= 1, StartPush(bs)
    PROVE  Nested'
<1>1. TypeOK /\ Context(live, Len(stack)) /\ live \in Level
  BY Now DEF IInv
<1>2. /\ pc'[live] = "push_load" /\ bytes'[live] = bs /\ pc[live] = "body"
      /\ \A l \in Level : l # live => pc'[l] = pc[l] /\ bytes'[l] = bytes[l]
  BY <1>1 DEF StartPush, Running, Set, TypeOK
<1>3. UNCHANGED <<stack, page, nmiBody, owned, live, ptr, op>>
  BY DEF StartPush, sharedVars, nmiVars
<1>4. Pushing(live, Len(stack))'
  BY <1>2, <1>3 DEF Pushing
<1>5. Popping(live, Len(stack))'
  BY <1>2, <1>3 DEF Popping, Popped
<1>6. \A k \in Level : k = live =>
         /\ live' = k /\ pc[k] # "push_write" /\ ~Popped(k) /\ pc'[k] # "push_write" /\ ~Popped(k)'
         /\ Pushing(k, Len(stack))' /\ Popping(k, Len(stack))'
         /\ \A l \in Level : l # k =>
               pc'[l] = pc[l] /\ ptr'[l] = ptr[l] /\ bytes'[l] = bytes[l] /\ op'[l] = op[l]
  <2> TAKE k \in Level
  <2> HAVE k = live
  <2>1. Pushing(k, Len(stack))' /\ Popping(k, Len(stack))'
    BY <1>3, <1>4, <1>5
  <2> QED BY <1>2, <1>3, <2>1 DEF Popped
<1> QED BY <1>1, <1>3, <1>6, HeldStep

LEMMA PushLoadHeld == ASSUME IInv, PushLoad PROVE Nested'
<1>1. TypeOK /\ Context(live, Len(stack)) /\ live \in Level /\ S = PtrOf(Len(stack))
  BY Now DEF IInv
<1>2. PICK k \in Level : k = live
  BY <1>1
<1>3. /\ pc[k] = "push_load" /\ pc'[k] = "push_reserve" /\ ptr'[k] = S
      /\ \A l \in Level : l # k => pc'[l] = pc[l] /\ ptr'[l] = ptr[l]
  BY <1>1, <1>2 DEF PushLoad, Running, Set, TypeOK
<1>4. UNCHANGED <<stack, page, nmiBody, owned, live, bytes, op>>
  BY DEF PushLoad, sharedVars, nmiVars
<1>5. Pushing(k, Len(stack))'
  <2>1. bytes[k] \in Seq(Plain) /\ Len(bytes[k]) >= 1
    BY <1>1, <1>2, <1>3 DEF Context, Pushing
  <2>2. ptr'[k] = PtrOf(Len(stack'))
    BY <1>1, <1>3, <1>4
  <2> QED BY <1>3, <1>4, <2>1, <2>2 DEF Pushing
<1>6. Popping(k, Len(stack))'
  BY <1>3 DEF Popping, Popped
<1> QED BY <1>2, <1>3, <1>4, <1>5, <1>6, HeldStep DEF Popped

LEMMA StartPopHeld ==
    ASSUME IInv, NEW o \in {"pop", "rts", "rti"}, StartPop(o),
           \/ owned[live] >= Needs(o) /\ (o = "rti" /\ nmiBody[live] => NmiResumesAfterBrk)
           \/ o = "rti" /\ owned[live] = 0 /\ nmiBody[live]
    PROVE  Nested'
<1>1. TypeOK /\ Context(live, Len(stack)) /\ live \in Level /\ S = PtrOf(Len(stack))
  BY Now DEF IInv
<1>2. PICK k \in Level : k = live
  BY <1>1
<1>3. /\ pc[k] = "body" /\ pc'[k] = "pop_read" /\ ptr'[k] = S /\ bytes'[k] = << >> /\ op'[k] = o
      /\ \A l \in Level : l # k =>
            pc'[l] = pc[l] /\ ptr'[l] = ptr[l] /\ bytes'[l] = bytes[l] /\ op'[l] = op[l]
  BY <1>1, <1>2 DEF StartPop, Running, Set, TypeOK
<1>4. UNCHANGED <<stack, page, nmiBody, owned, live, S>>
  BY DEF StartPop, sharedVars, nmiVars
<1>5. Pushing(k, Len(stack))'
  BY <1>3 DEF Pushing
<1>6. Popping(k, Len(stack))'
  <2>1. ptr'[k] = PtrOf(Len(stack'))
    BY <1>1, <1>3, <1>4
  <2>2. Poppable(k)'
    BY <1>2, <1>3, <1>4 DEF Poppable
  <2>3. Len(bytes'[k]) = 0 /\ Needs(op'[k]) \in Nat /\ Len(bytes'[k]) < Needs(op'[k])
    BY <1>3 DEF Needs
  <2> QED BY <1>3, <2>1, <2>2, <2>3 DEF Popping, Popped
<1> QED BY <1>2, <1>3, <1>4, <1>5, <1>6, HeldStep DEF Popped

\* What a popping context has yet to read lies within its share.
LEMMA WithinShare ==
    ASSUME TypeOK, NEW l \in Level, NEW n \in 0 .. Size, Context(l, n),
           pc[l] \in {"pop_read", "pop_publish"}
    PROVE  /\ Needs(op[l]) \in 1 .. 3 /\ Needs(op[l]) <= owned[l] + Frame(l)
           /\ owned[l] + Frame(l) <= n /\ owned[l] \in Nat /\ Frame(l) \in {0, 3}
<1>1. owned[l] \in Nat /\ Frame(l) \in {0, 3} /\ n \in Nat
  BY SizeAssumption DEF TypeOK, Frame
<1>2. Poppable(l) /\ op[l] \in {"pop", "rts", "rti"}
  BY DEF Context, Popping
<1>3. Needs(op[l]) \in 1 .. 3 /\ (op[l] = "rti" => Needs(op[l]) = 3)
  BY <1>2 DEF Needs
<1>4. Needs(op[l]) <= owned[l] + Frame(l)
  BY <1>1, <1>2, <1>3 DEF Poppable, Frame, Popped
<1>5. owned[l] + Frame(l) <= n
  BY <1>1 DEF Context, Shares
<1> QED BY <1>1, <1>3, <1>4, <1>5

LEMMA PopReadHeld == ASSUME IInv, PopRead PROVE Nested'
<1>1. /\ TypeOK /\ Context(live, Len(stack)) /\ live \in Level /\ S = PtrOf(Len(stack))
      /\ Len(stack) \in 0 .. Size
  BY Now DEF IInv
<1>2. PICK k \in Level : k = live
  BY <1>1
<1> DEFINE n   == Len(stack)
           j   == Len(bytes[k]) + 1
           got == Append(bytes[k], page[Up(ptr[k], j)])
<1>3. /\ pc[k] = "pop_read" /\ bytes'[k] = got
      /\ pc'[k] = IF Len(got) = Needs(op[k]) THEN "pop_publish" ELSE "pop_read"
      /\ \A l \in Level : l # k => pc'[l] = pc[l] /\ bytes'[l] = bytes[l]
  BY <1>1, <1>2 DEF PopRead, Running, Set, TypeOK
<1>4. UNCHANGED <<stack, page, nmiBody, owned, live, ptr, op>>
  BY DEF PopRead, sharedVars, nmiVars
<1>5. Popping(k, n) /\ Shares(k, n)
  BY <1>1, <1>2 DEF Context
<1>6. /\ Needs(op[k]) \in 1 .. 3 /\ Needs(op[k]) <= owned[k] + Frame(k)
      /\ owned[k] + Frame(k) <= n /\ owned[k] \in Nat /\ Frame(k) \in {0, 3}
  BY <1>1, <1>2, <1>3, WithinShare
<1>7. bytes[k] \in Seq(Byte) /\ j \in Nat /\ j >= 1 /\ j <= Needs(op[k]) /\ n \in Nat /\ n <= Size /\ Size \in Nat
  <2>1. bytes[k] \in Seq(Byte) /\ Size \in Nat
    BY <1>1, SizeAssumption DEF TypeOK
  <2>2. Len(bytes[k]) < Needs(op[k])
    BY <1>3, <1>5 DEF Popping
  <2>3. j \in Nat /\ j >= 1 /\ j <= Needs(op[k])
    BY <1>6, <2>1, <2>2
  <2> QED BY <1>1, <2>1, <2>3
<1>8. page[Up(ptr[k], j)] = stack[n + 1 - j]
  <2>1. Up(ptr[k], j) = PtrOf(n - j)
    <3>1. ptr[k] = PtrOf(n) /\ j <= n
      BY <1>3, <1>5, <1>6, <1>7 DEF Popping
    <3> HIDE DEF n, j
    <3> QED BY <1>7, <3>1, PtrUp
  <2>2. n - j \in Nat /\ n - j < Size /\ PtrOf(n - j) = Size - (n - j + 1)
    <3> HIDE DEF n, j
    <3>1. n - j \in Nat /\ n - j < Size /\ n - j <= Size
      BY <1>6, <1>7
    <3>2. PtrOf(n - j) = Size - (n - j + 1)
      BY <3>1, PtrInPage
    <3> QED BY <3>1, <3>2
  <2>3. /\ n + 1 - j \in 1 .. n /\ n + 1 - j > n - owned[k] - Frame(k) /\ n + 1 - j <= n - 0
        /\ Size - (n - j + 1) = Size - (n + 1 - j)
    <3> HIDE DEF n, j
    <3> QED BY <1>6, <1>7
  <2>4. Unwritten(k) = 0
    BY <1>3 DEF Unwritten
  <2>5. page[Size - (n + 1 - j)] = stack[n + 1 - j]
    <3> HIDE DEF n, j
    <3> QED BY <1>5, <2>3, <2>4 DEF Shares
  <2> HIDE DEF n, j
  <2> QED BY <2>1, <2>2, <2>3, <2>5
<1>9. Pushing(k, Len(stack))'
  BY <1>3 DEF Pushing
<1>10. Popping(k, Len(stack))'
  <2>1. ptr'[k] = PtrOf(Len(stack')) /\ op'[k] \in {"pop", "rts", "rti"} /\ Poppable(k)
    BY <1>3, <1>4, <1>5 DEF Popping
  <2>2. Poppable(k)'
    BY <1>4, <2>1 DEF Poppable
  <2>3. Len(got) = j /\ got[j] = stack[n + 1 - j] /\ \A i \in 1 .. j - 1 : got[i] = bytes[k][i]
    BY <1>7, <1>8
  <2>4. \A i \in 1 .. j - 1 : bytes[k][i] = stack[n + 1 - i]
    BY <1>3, <1>5 DEF Popping
  <2>5. \A i \in 1 .. j : got[i] = stack[n + 1 - i]
    <3> HIDE DEF got, n, j
    <3> QED BY <1>7, <2>3, <2>4
  <2>6. \A i \in 1 .. Len(bytes'[k]) : bytes'[k][i] = stack'[Len(stack') + 1 - i]
    BY <1>3, <1>4, <2>3, <2>5
  <2>7. Len(bytes'[k]) <= Needs(op'[k])
    <3> HIDE DEF got, j
    <3> QED BY <1>3, <1>4, <1>7, <2>3
  <2>8. pc'[k] = "pop_publish" => Len(bytes'[k]) = Needs(op'[k])
    BY <1>3, <1>4
  <2>9. pc'[k] = "pop_read" => Len(bytes'[k]) < Needs(op'[k])
    <3>1. Len(got) # Needs(op[k]) => j < Needs(op[k])
      <4> HIDE DEF got, j
      <4> QED BY <1>6, <1>7, <2>3
    <3> HIDE DEF got, j
    <3> QED BY <1>3, <1>4, <2>3, <3>1
  <2>10. pc'[k] \in {"pop_read", "pop_publish"}
    BY <1>3
  <2> QED BY <2>1, <2>2, <2>6, <2>7, <2>8, <2>9, <2>10 DEF Popping, Popped
<1>11. pc'[k] \in {"pop_read", "pop_publish"}
  BY <1>3
<1>12. ~Popped(k) /\ ~Popped(k)' /\ pc[k] # "push_write" /\ pc'[k] # "push_write"
  BY <1>3, <1>11 DEF Popped
<1> HIDE DEF n, j, got
<1> QED BY <1>2, <1>3, <1>4, <1>9, <1>10, <1>12, HeldStep

LEMMA PushReserveHeld == ASSUME IInv, PushReserve PROVE Nested' /\ S' = PtrOf(Len(stack))' /\ Len(stack') <= Size
<1>1. /\ TypeOK /\ Context(live, Len(stack)) /\ live \in Level /\ S = PtrOf(Len(stack))
      /\ Len(stack) \in 0 .. Size
  BY Now DEF IInv
<1>2. PICK k \in Level : k = live
  BY <1>1
<1>3. PICK n \in 0 .. Size : n = Len(stack)
  BY <1>1
<1>4. PICK t \in [Level -> 0 .. Size] : Tops(t)
  BY DEF IInv, Nested
<1>5. Shares(k, n) /\ Pushing(k, n) /\ Popping(k, n) /\ t[k] = n
  BY <1>1, <1>2, <1>3, <1>4 DEF Context, Tops
<1>6. pc[k] = "push_reserve" /\ bytes[k] \in Seq(Plain) /\ Len(bytes[k]) >= 1 /\ ptr[k] = PtrOf(n)
  BY <1>2, <1>5 DEF PushReserve, Running, Pushing
<1>7. PICK m \in Nat : m = Len(bytes[k]) /\ m >= 1
  BY <1>6
<1>8. n \in Nat /\ n + m <= Size /\ Size \in Nat /\ owned[k] \in Nat /\ Frame(k) \in {0, 3}
  BY <1>1, <1>2, <1>3, <1>7, SizeAssumption DEF PushReserve, Fits, TypeOK, Frame
<1>9. /\ Len(stack') = n + m
      /\ \A i \in 1 .. n : stack'[i] = stack[i]
      /\ \A j \in 1 .. m : stack'[n + j] = bytes[k][j] /\ stack'[n + j] \in Plain
  <2>1. stack \in Seq(Byte) /\ bytes[k] \in Seq(Byte) /\ stack' = stack \o bytes[k]
    BY <1>1, <1>2 DEF TypeOK, PushReserve
  <2>2. \A j \in 1 .. m : bytes[k][j] \in Plain
    BY <1>6, <1>7
  <2> QED BY <1>3, <1>7, <2>1, <2>2, JoinKeeps
<1>10. /\ owned'[k] = owned[k] + m /\ pc'[k] = "push_write"
       /\ \A l \in Level : l # k => pc'[l] = pc[l] /\ owned'[l] = owned[l]
  BY <1>1, <1>2, <1>7 DEF PushReserve, Set, TypeOK
<1>11. UNCHANGED <<page, nmiBody, live, ptr, bytes, op>>
  BY DEF PushReserve, nmiVars
<1>12. Frame(k)' = Frame(k) /\ Unwritten(k)' = m /\ Unwritten(k) = 0
  BY <1>6, <1>7, <1>10, <1>11 DEF Frame, Unwritten, Popped
<1>13. PICK u \in 0 .. Size : u = n + m
  <2>1. n + m \in 0 .. Size
    BY <1>8
  <2> QED BY <2>1
<1>14. Shares(k, u)'
  <2>1. u >= owned'[k] + Frame(k)' /\ n >= owned[k] + Frame(k)
    <3>1. n >= owned[k] + Frame(k)
      BY <1>5 DEF Shares
    <3> QED BY <1>8, <1>7, <1>10, <1>12, <1>13, <3>1
  <2>2. ASSUME Frame(k)' = 3
        PROVE  /\ stack'[u - owned'[k] - 2] = FF /\ stack'[u - owned'[k] - 1] = FF
               /\ stack'[u - owned'[k]] = Flags
    <3>1. /\ stack[n - owned[k] - 2] = FF /\ stack[n - owned[k] - 1] = FF
          /\ stack[n - owned[k]] = Flags
      BY <1>5, <1>12, <2>2 DEF Shares
    <3>3. owned'[k] = owned[k] + m /\ n >= owned[k] + 3 /\ owned[k] \in Nat /\ n \in Nat
      BY <1>8, <1>10, <1>12, <2>1, <2>2
    <3>2. /\ u - owned'[k] - 2 = n - owned[k] - 2 /\ u - owned'[k] - 1 = n - owned[k] - 1
          /\ u - owned'[k] = n - owned[k]
          /\ n - owned[k] - 2 \in 1 .. n /\ n - owned[k] - 1 \in 1 .. n /\ n - owned[k] \in 1 .. n
      <4>1. m \in Nat /\ u = n + m
        BY <1>7, <1>13
      <4>2. n - owned[k] - 2 \in 1 .. n /\ n - owned[k] - 1 \in 1 .. n /\ n - owned[k] \in 1 .. n
        BY <3>3
      <4>3. u - owned'[k] = n - owned[k]
        BY <3>3, <4>1
      <4> QED BY <4>2, <4>3
    <3> QED BY <1>9, <3>1, <3>2
  <2>3. ASSUME NEW i \in 1 .. u, i > u - owned'[k] PROVE stack'[i] \in Plain
    <3>1. CASE i <= n
      <4>1. i \in 1 .. n /\ i > n - owned[k]
        BY <1>7, <1>8, <1>10, <1>13, <2>3, <3>1
      <4> QED BY <1>5, <1>9, <4>1 DEF Shares
    <3>2. CASE ~(i <= n)
      <4>1. i - n \in 1 .. m /\ i = n + (i - n)
        BY <1>7, <1>8, <1>13, <2>3, <3>2
      <4>2. stack'[n + (i - n)] \in Plain
        BY <1>9, <4>1
      <4> QED BY <4>1, <4>2
    <3> QED BY <3>1, <3>2
  <2>4. ASSUME NEW i \in 1 .. u, i > u - owned'[k] - Frame(k)', i <= u - Unwritten(k)'
        PROVE  page'[Size - i] = stack'[i]
    <3>1. i \in 1 .. n /\ i > n - owned[k] - Frame(k) /\ i <= n - Unwritten(k)
      BY <1>7, <1>8, <1>10, <1>12, <1>13, <2>4
    <3>2. page[Size - i] = stack[i]
      BY <1>5, <3>1 DEF Shares
    <3> QED BY <1>9, <1>11, <3>1, <3>2
  <2> QED BY <2>1, <2>2, <2>3, <2>4 DEF Shares
<1>15. Pushing(k, u)'
  <2>1. ptr'[k] = Size - (u - Len(bytes'[k]) + 1)
    <3>1. PtrOf(n) = Size - (n + 1)
      BY <1>7, <1>8, PtrInPage
    <3>2. ptr'[k] = PtrOf(n) /\ Len(bytes'[k]) = m
      BY <1>6, <1>7, <1>11
    <3> QED BY <1>7, <1>8, <1>13, <3>1, <3>2
  <2>2. ASSUME NEW j \in 1 .. Len(bytes'[k])
        PROVE  stack'[u - Len(bytes'[k]) + j] = bytes'[k][j]
    <3>1. bytes'[k] = bytes[k] /\ Len(bytes'[k]) = m /\ u - m + j = n + j
      BY <1>7, <1>8, <1>11, <1>13
    <3> QED BY <1>9, <2>2, <3>1
  <2>3. bytes'[k] \in Seq(Plain) /\ Len(bytes'[k]) >= 1 /\ Len(bytes'[k]) <= owned'[k]
    BY <1>6, <1>7, <1>8, <1>10, <1>11
  <2> QED BY <1>10, <2>1, <2>2, <2>3 DEF Pushing
<1>16. Popping(k, u)'
  BY <1>10 DEF Popping, Popped
<1>17. Context(k, u)'
  BY <1>14, <1>15, <1>16 DEF Context
<1>18. /\ u - owned'[k] - Frame(k)' = t[k] - owned[k] - Frame(k)
       /\ \A i \in 1 .. t[k] - owned[k] - Frame(k) :
               stack'[i] = stack[i] /\ page'[Size - i] = page[Size - i]
  <2>1. u - owned'[k] - Frame(k)' = t[k] - owned[k] - Frame(k)
    BY <1>5, <1>7, <1>8, <1>10, <1>12, <1>13
  <2>2. ASSUME NEW i \in 1 .. t[k] - owned[k] - Frame(k) PROVE i \in 1 .. n
    BY <1>5, <1>8
  <2> QED BY <1>9, <1>11, <2>1, <2>2
<1>19. nmiBody'[k] => nmiBody[k]
  BY <1>11
<1>20. Nested'
  BY <1>1, <1>2, <1>4, <1>9, <1>10, <1>11, <1>13, <1>17, <1>18, <1>19, OneContext
<1>21. S' = PtrOf(Len(stack'))
  <2>1. S' = Down(PtrOf(n), m)
    BY <1>2, <1>6, <1>7 DEF PushReserve
  <2> QED BY <1>7, <1>8, <1>9, <2>1, PtrDown
<1> QED BY <1>8, <1>9, <1>20, <1>21

LEMMA PushWriteHeld == ASSUME IInv, PushWrite PROVE Nested'
<1>1. /\ TypeOK /\ Context(live, Len(stack)) /\ live \in Level /\ Len(stack) \in 0 .. Size
  BY Now DEF IInv
<1>2. PICK k \in Level : k = live
  BY <1>1
<1>3. PICK n \in 0 .. Size : n = Len(stack)
  BY <1>1
<1>4. PICK t \in [Level -> 0 .. Size] : Tops(t)
  BY DEF IInv, Nested
<1>5. Shares(k, n) /\ Pushing(k, n) /\ t[k] = n
  BY <1>1, <1>2, <1>3, <1>4 DEF Context, Tops
<1>6. pc[k] = "push_write" /\ bytes[k] \in Seq(Plain) /\ Len(bytes[k]) >= 1
  BY <1>2, <1>5 DEF PushWrite, Running, Pushing
<1>7. PICK m \in Nat : m = Len(bytes[k]) /\ m >= 1
  BY <1>6
<1>8. /\ m <= owned[k] /\ ptr[k] = Size - (n - m + 1)
      /\ \A j \in 1 .. m : stack[n - m + j] = bytes[k][j]
  BY <1>5, <1>6, <1>7 DEF Pushing
<1>9. n \in Nat /\ n <= Size /\ Size \in Nat /\ owned[k] \in Nat /\ Frame(k) \in {0, 3}
  BY <1>1, SizeAssumption DEF TypeOK, Frame
<1>10. owned[k] + Frame(k) <= n /\ m <= n
  <2>1. owned[k] + Frame(k) <= n
    BY <1>5, <1>9 DEF Shares
  <2> QED BY <1>7, <1>8, <1>9, <2>1
<1>11. UNCHANGED <<stack, nmiBody, owned, live, op>>
  BY DEF PushWrite, nmiVars
<1>12. /\ pc'[k] = IF m > 1 THEN "push_write" ELSE "body"
       /\ ptr'[k] = IF m > 1 THEN Down(ptr[k], 1) ELSE 0
       /\ bytes'[k] = Tail(bytes[k])
       /\ \A l \in Level : l # k => pc'[l] = pc[l] /\ ptr'[l] = ptr[l] /\ bytes'[l] = bytes[l]
  BY <1>1, <1>2, <1>6, <1>7 DEF PushWrite, Set, TypeOK
<1>13. /\ Len(bytes'[k]) = m - 1 /\ bytes'[k] \in Seq(Plain)
       /\ \A j \in 1 .. m - 1 : bytes'[k][j] = bytes[k][j + 1]
  BY <1>6, <1>7, <1>12
<1>14. Unwritten(k)' = m - 1 /\ Unwritten(k) = m /\ Frame(k)' = Frame(k)
  <2>1. Unwritten(k)' = m - 1
    BY <1>7, <1>12, <1>13 DEF Unwritten
  <2> QED BY <1>6, <1>7, <1>11, <1>12, <2>1 DEF Unwritten, Frame, Popped
<1>15. /\ page' = [page EXCEPT ![Size - (n - m + 1)] = bytes[k][1]]
       /\ page'[Size - (n - m + 1)] = stack[n - m + 1]
       /\ \A i \in 1 .. n : i # n - m + 1 => page'[Size - i] = page[Size - i]
  <2>1. page' = [page EXCEPT ![ptr[k]] = bytes[k][1]]
    <3>1. Head(bytes[k]) = bytes[k][1]
      BY <1>6, <1>7
    <3> QED BY <1>2, <3>1 DEF PushWrite
  <2>2. bytes[k][1] = stack[n - m + 1]
    <3>1. 1 \in 1 .. m
      BY <1>7
    <3>2. stack[n - m + 1] = bytes[k][1]
      BY <1>8, <3>1
    <3> QED BY <3>2
  <2>3. Size - (n - m + 1) \in Slot /\ page \in [Slot -> Byte]
    BY <1>1, <1>7, <1>9, <1>10 DEF TypeOK, Slot
  <2>4. page'[Size - (n - m + 1)] = stack[n - m + 1]
    BY <1>8, <2>1, <2>2, <2>3
  <2>5. ASSUME NEW i \in 1 .. n, i # n - m + 1
        PROVE  page'[Size - i] = page[Size - i]
    <3>1. Size - i \in Slot /\ Size - i # Size - (n - m + 1)
      BY <1>7, <1>9, <1>10, <2>5 DEF Slot
    <3> QED BY <1>8, <2>1, <2>3, <3>1
  <2> QED BY <1>8, <2>1, <2>4, <2>5
<1>16. Shares(k, n)'
  <2>1. ASSUME NEW i \in 1 .. n, i > n - owned[k] - Frame(k), i <= n - (m - 1)
        PROVE  page'[Size - i] = stack[i]
    <3>1. CASE i = n - m + 1
      BY <1>15, <3>1
    <3>2. CASE i # n - m + 1
      <4>1. i <= n - m
        BY <1>7, <1>9, <2>1, <3>2
      <4>2. page[Size - i] = stack[i]
        BY <1>5, <1>14, <2>1, <4>1 DEF Shares
      <4> QED BY <1>15, <3>2, <4>2
    <3> QED BY <3>1, <3>2
  <2> QED BY <1>5, <1>11, <1>14, <2>1 DEF Shares
<1>17. Pushing(k, n)'
  <2>1. CASE m > 1
    <3>1. Down(ptr[k], 1) = Size - (n - (m - 1) + 1)
      <4>1. /\ ptr[k] - 1 = Size - (n - (m - 1) + 1) /\ ptr[k] - 1 \in 0 .. Size - 1
            /\ Size \in Nat \ {0}
        BY <1>7, <1>8, <1>9, <1>10, <2>1
      <4> QED BY <4>1, ModSmall DEF Down
    <3>2. ptr'[k] = Size - (n - Len(bytes'[k]) + 1) /\ Len(bytes'[k]) >= 1 /\ Len(bytes'[k]) <= owned'[k]
      BY <1>7, <1>8, <1>9, <1>11, <1>12, <1>13, <2>1, <3>1
    <3>3. ASSUME NEW j \in 1 .. Len(bytes'[k])
          PROVE  stack'[n - Len(bytes'[k]) + j] = bytes'[k][j]
      <4>1. j \in 1 .. m - 1 /\ j + 1 \in 1 .. m /\ n - (m - 1) + j = n - m + (j + 1)
        BY <1>7, <1>9, <1>13, <3>3
      <4>2. stack[n - m + (j + 1)] = bytes[k][j + 1]
        BY <1>8, <4>1
      <4> QED BY <1>11, <1>13, <4>1, <4>2
    <3>4. pc'[k] = "push_write"
      BY <1>12, <2>1
    <3> QED BY <1>13, <3>2, <3>3, <3>4 DEF Pushing
  <2>2. CASE ~(m > 1)
    BY <1>12, <2>2 DEF Pushing
  <2> QED BY <2>1, <2>2
<1>18. Popping(k, n)'
  BY <1>12 DEF Popping, Popped
<1>19. Context(k, n)'
  BY <1>16, <1>17, <1>18 DEF Context
<1>20. /\ n - owned'[k] - Frame(k)' = t[k] - owned[k] - Frame(k)
       /\ nmiBody'[k] => nmiBody[k]
  BY <1>5, <1>11, <1>14
<1>21. ASSUME NEW i \in 1 .. t[k] - owned[k] - Frame(k)
       PROVE  stack'[i] = stack[i] /\ page'[Size - i] = page[Size - i]
  <2>1. i \in 1 .. n /\ i # n - m + 1
    BY <1>5, <1>7, <1>8, <1>9, <1>10, <1>21
  <2> QED BY <1>11, <1>15, <2>1
<1> QED BY <1>1, <1>2, <1>3, <1>4, <1>11, <1>12, <1>19, <1>20, <1>21, OneContext

LEMMA PopPublishHeld ==
    ASSUME IInv, PopPublish
    PROVE  Nested' /\ S' = PtrOf(Len(stack')) /\ Len(stack') <= Size
<1>1. /\ TypeOK /\ Context(live, Len(stack)) /\ live \in Level /\ Len(stack) \in 0 .. Size
      /\ S = PtrOf(Len(stack))
  BY Now DEF IInv
<1>2. PICK k \in Level : k = live
  BY <1>1
<1>3. PICK n \in 0 .. Size : n = Len(stack)
  BY <1>1
<1>4. PICK t \in [Level -> 0 .. Size] : Tops(t)
  BY DEF IInv, Nested
<1>5. Shares(k, n) /\ Popping(k, n) /\ t[k] = n /\ Context(k, n)
  BY <1>1, <1>2, <1>3, <1>4 DEF Context, Tops
<1>6. pc[k] = "pop_publish" /\ Poppable(k) /\ ptr[k] = PtrOf(n) /\ op[k] \in {"pop", "rts", "rti"}
  BY <1>2, <1>5 DEF PopPublish, Running, Popping
<1>7. PICK m \in 1 .. 3 : m = Needs(op[k])
  BY <1>1, <1>5, <1>6, WithinShare
<1>8. /\ m <= owned[k] + Frame(k) /\ owned[k] + Frame(k) <= n /\ owned[k] \in Nat
      /\ Frame(k) \in {0, 3} /\ n \in Nat /\ Size \in Nat /\ n <= Size
  BY <1>1, <1>5, <1>6, <1>7, SizeAssumption, WithinShare
<1>9. /\ op[k] = "rti" => m = 3
      /\ \A j \in 1 .. m : bytes[k][j] = stack[n + 1 - j]
  BY <1>5, <1>6, <1>7 DEF Popping, Needs
<1>10. PICK u \in 0 .. Size : u = n - m
  <2>1. n - m \in 0 .. Size
    BY <1>7, <1>8
  <2> QED BY <2>1
<1>11. Len(stack') = u /\ \A i \in 1 .. u : stack'[i] = stack[i]
  <2>1. stack \in Seq(Byte) /\ stack' = Drop(stack, m) /\ m \in Nat /\ m <= Len(stack)
    BY <1>1, <1>2, <1>3, <1>7, <1>8 DEF TypeOK, PopPublish
  <2> QED BY <1>3, <1>10, <2>1, DropKeeps
<1>12. UNCHANGED <<page, nmiBody, live>>
  BY DEF PopPublish, nmiVars
<1>13. /\ owned'[k] = IF owned[k] = 0 THEN 0 ELSE owned[k] - m
       /\ pc'[k] = IF op[k] = "rti"
                     THEN IF IsSentinel(bytes[k]) THEN "native_ret" ELSE "rti_dispatch"
                     ELSE "body"
       /\ op'[k] = "none"
       /\ \A l \in Level : l # k =>
               /\ pc'[l] = pc[l] /\ ptr'[l] = ptr[l] /\ bytes'[l] = bytes[l] /\ op'[l] = op[l]
               /\ owned'[l] = owned[l]
  BY <1>1, <1>2, <1>7 DEF PopPublish, Set, TypeOK
<1>14. Frame(k) = (IF nmiBody[k] THEN 3 ELSE 0) /\ Unwritten(k) = 0
  BY <1>6 DEF Frame, Popped, Unwritten
<1>15. S' = PtrOf(Len(stack'))
  <2>1. S' = Up(PtrOf(n), m)
    BY <1>1, <1>2, <1>3, <1>6, <1>7 DEF PopPublish
  <2>2. Up(PtrOf(n), m) = PtrOf(n - m)
    BY <1>7, <1>8, PtrUp
  <2> QED BY <1>10, <1>11, <2>1, <2>2
<1>16. Unwritten(k)' = 0 /\ Pushing(k, u)'
  BY <1>13 DEF Pushing, Unwritten
\* The context pops what it has pushed.
<1>17. CASE owned[k] >= m
  <2>1. owned'[k] = owned[k] - m /\ owned[k] >= 1
    BY <1>7, <1>8, <1>13, <1>17
  <2>2. op[k] = "rti" => ~IsSentinel(bytes[k]) /\ (nmiBody[k] => NmiResumesAfterBrk)
    <3>1. SUFFICES ASSUME op[k] = "rti" PROVE ~IsSentinel(bytes[k]) /\ (nmiBody[k] => NmiResumesAfterBrk)
      OBVIOUS
    <3>2. m = 3 /\ 2 \in 1 .. m /\ n + 1 - 2 = n - 1 /\ n - 1 \in 1 .. n /\ n - 1 > n - owned[k]
      BY <1>8, <1>9, <1>17, <3>1
    <3>3. bytes[k][2] = stack[n - 1] /\ stack[n - 1] \in Plain
      BY <1>5, <1>9, <3>2 DEF Shares
    <3>4. owned[k] # 0
      BY <2>1
    <3>5. nmiBody[k] => NmiResumesAfterBrk
      BY <1>6, <3>1, <3>4 DEF Poppable
    <3> QED BY <3>3, <3>5 DEF IsSentinel, Plain
  <2>3. pc'[k] \in {"body", "rti_dispatch"} /\ (pc'[k] = "rti_dispatch" => op[k] = "rti")
    <3>1. CASE op[k] = "rti"
      <4>1. op[k] = "rti" /\ ~IsSentinel(bytes[k])
        BY <2>2, <3>1
      <4>2. pc'[k] = "rti_dispatch"
        BY <1>13, <4>1
      <4> QED BY <3>1, <4>2
    <3>2. CASE op[k] # "rti"
      <4>1. pc'[k] = "body"
        BY <1>13, <3>2
      <4> QED BY <4>1
    <3> QED BY <3>1, <3>2
  <2>4. Frame(k)' = Frame(k)
    BY <1>12, <1>14, <2>3 DEF Frame, Popped
  <2>5. u - owned'[k] = n - owned[k] /\ u - owned'[k] - Frame(k)' = n - owned[k] - Frame(k) /\ u <= n
    BY <1>7, <1>8, <1>10, <2>1, <2>4
  <2>6. Shares(k, u)'
    <3>1. u >= owned'[k] + Frame(k)'
      BY <1>7, <1>8, <1>10, <2>1, <2>4
    <3>2. ASSUME Frame(k)' = 3
          PROVE  /\ stack'[u - owned'[k] - 2] = FF /\ stack'[u - owned'[k] - 1] = FF
                 /\ stack'[u - owned'[k]] = Flags
      <4>1. /\ stack[n - owned[k] - 2] = FF /\ stack[n - owned[k] - 1] = FF
            /\ stack[n - owned[k]] = Flags
        BY <1>5, <2>4, <3>2 DEF Shares
      <4>2. owned'[k] \in Nat /\ u \in Nat /\ u >= owned'[k] + 3
        BY <1>7, <1>8, <1>10, <1>17, <2>1, <3>1, <3>2
      <4>3. /\ u - owned'[k] - 2 \in 1 .. u /\ u - owned'[k] - 1 \in 1 .. u /\ u - owned'[k] \in 1 .. u
        BY <4>2
      <4> QED BY <1>11, <2>5, <4>1, <4>3
    <3>3. ASSUME NEW i \in 1 .. u
          PROVE  /\ i \in 1 .. n
                 /\ i > u - owned'[k] => stack'[i] \in Plain
                 /\ i > u - owned'[k] - Frame(k)' /\ i <= u - Unwritten(k)' => page'[Size - i] = stack'[i]
      <4>1. i \in 1 .. n /\ stack'[i] = stack[i] /\ i <= n - Unwritten(k)
        BY <1>7, <1>8, <1>10, <1>11, <1>14, <3>3
      <4> QED BY <1>5, <1>12, <2>5, <4>1 DEF Shares
    <3> QED BY <3>1, <3>2, <3>3 DEF Shares
  <2>7. Popping(k, u)'
    BY <1>12, <2>2, <2>3 DEF Popping, Popped
  <2>8. Context(k, u)'
    BY <1>16, <2>6, <2>7 DEF Context
  <2>9. /\ u - owned'[k] - Frame(k)' = t[k] - owned[k] - Frame(k)
        /\ nmiBody'[k] => nmiBody[k]
    BY <1>5, <1>12, <2>5
  <2>10. ASSUME NEW i \in 1 .. t[k] - owned[k] - Frame(k)
         PROVE  stack'[i] = stack[i] /\ page'[Size - i] = page[Size - i]
    <3>1. i \in 1 .. u
      BY <1>5, <1>7, <1>8, <1>10, <1>17, <2>10
    <3> QED BY <1>11, <1>12, <3>1
  <2>11. Nested'
    BY <1>1, <1>2, <1>4, <1>11, <1>12, <1>13, <2>8, <2>9, <2>10, OneContext
  <2> QED BY <1>11, <1>15, <2>11
\* It pops the frame of the bridge: the sentinel.
<1>18. CASE ~(owned[k] >= m)
  <2>1. op[k] = "rti" /\ owned[k] = 0 /\ nmiBody[k] /\ m = 3 /\ Frame(k) = 3
    BY <1>6, <1>7, <1>9, <1>14, <1>18 DEF Poppable
  <2>2. IsSentinel(bytes[k])
    <3>1. /\ bytes[k][2] = stack[n + 1 - 2] /\ bytes[k][3] = stack[n + 1 - 3]
          /\ stack[n - owned[k] - 2] = FF /\ stack[n - owned[k] - 1] = FF
      BY <1>5, <1>9, <2>1 DEF Shares
    <3>2. n + 1 - 2 = n - owned[k] - 1 /\ n + 1 - 3 = n - owned[k] - 2
      BY <1>8, <2>1
    <3> QED BY <3>1, <3>2 DEF IsSentinel
  <2>3. pc'[k] = "native_ret" /\ owned'[k] = 0
    BY <1>13, <2>1, <2>2
  <2>4. Frame(k)' = 0
    BY <2>3 DEF Frame, Popped
  <2>5. Shares(k, u)'
    <3>1. u >= owned'[k] + Frame(k)' /\ u \in Nat
      BY <2>3, <2>4
    <3>2. \A i \in 1 .. u : ~(i > u - owned'[k]) /\ ~(i > u - owned'[k] - Frame(k)')
      BY <2>3, <2>4
    <3>3. Frame(k)' # 3
      BY <2>4
    <3> QED BY <3>1, <3>2, <3>3 DEF Shares
  <2>6. Popping(k, u)'
    BY <1>12, <2>1, <2>3 DEF Popping, Popped
  <2>7. Context(k, u)'
    BY <1>16, <2>5, <2>6 DEF Context
  <2>8. /\ u - owned'[k] - Frame(k)' = t[k] - owned[k] - Frame(k)
        /\ nmiBody'[k] => nmiBody[k]
    BY <1>5, <1>8, <1>10, <1>12, <2>1, <2>3, <2>4
  <2>9. ASSUME NEW i \in 1 .. t[k] - owned[k] - Frame(k)
        PROVE  stack'[i] = stack[i] /\ page'[Size - i] = page[Size - i]
    <3>1. i \in 1 .. u
      BY <1>5, <1>8, <1>10, <2>1, <2>9
    <3> QED BY <1>11, <1>12, <3>1
  <2>10. Nested'
    BY <1>1, <1>2, <1>4, <1>11, <1>12, <1>13, <2>7, <2>8, <2>9, OneContext
  <2> QED BY <1>11, <1>15, <2>10
<1> QED BY <1>17, <1>18

\* The context below returns, or a non-sentinel RTI leaves the lowest one only.
LEMMA RtiDispatchHeld == ASSUME IInv, RtiDispatch PROVE Nested'
<1>1. /\ TypeOK /\ Context(live, Len(stack)) /\ live \in Level /\ Len(stack) \in 0 .. Size
  BY Now DEF IInv
<1>2. PICK n \in 0 .. Size : n = Len(stack)
  BY <1>1
<1>3. PICK t \in [Level -> 0 .. Size] : Tops(t)
  BY DEF IInv, Nested
<1>4. 0 \in Level /\ UNCHANGED <<stack, page>> /\ live' = 0 /\ pc[live] = "rti_dispatch"
  BY DEF RtiDispatch, Level, MaxDepth, sharedVars, Running
<1>5. nmiBody'[0] = nmiBody[live] /\ owned'[0] = owned[live] /\ pc'[0] = "body"
  BY <1>4 DEF RtiDispatch, Fresh
<1>6. Frame(0)' = Frame(live) /\ Unwritten(0)' = 0 /\ Unwritten(live) = 0
  BY <1>4, <1>5 DEF Frame, Unwritten, Popped
<1>7. Shares(live, n)
  BY <1>1, <1>2 DEF Context
<1>8. Shares(0, n)'
  BY <1>4, <1>5, <1>6, <1>7 DEF Shares
<1>9. Context(0, n)'
  BY <1>5, <1>8 DEF Context, Pushing, Popping, Popped
<1> DEFINE u == [t EXCEPT ![0] = n]
<1>10. u \in [Level -> 0 .. Size] /\ u[0] = n
  BY <1>4
<1>11. \A l \in Level : ~(l < live') /\ (l <= live' => l = 0)
  BY <1>4 DEF Level
<1>12. u[live'] = Len(stack')
  BY <1>2, <1>4, <1>10
<1> HIDE DEF u
<1>13. \A l \in Level : l <= live' => Context(l, u[l])'
  BY <1>9, <1>10, <1>11
<1> QED BY <1>10, <1>11, <1>12, <1>13 DEF Nested, Tops

LEMMA NativeRetHeld == ASSUME IInv, NativeRet PROVE Nested'
<1>1. /\ TypeOK /\ Context(live, Len(stack)) /\ live \in Level /\ Len(stack) \in 0 .. Size
  BY Now DEF IInv
<1>2. PICK k \in Level : k = live
  BY <1>1
<1>3. PICK t \in [Level -> 0 .. Size] : Tops(t)
  BY DEF IInv, Nested
<1>4. /\ UNCHANGED <<stack, page, ptr, bytes, op, owned>> /\ pc[k] = "native_ret"
  BY <1>2 DEF NativeRet, sharedVars, Running
<1>5. nmiBody[k] /\ owned[k] = 0 /\ Frame(k) = 0
  BY <1>1, <1>2, <1>4 DEF Context, Popping, Popped, Frame
\* The bridge below goes on.
<1>6. CASE live > 0
  <2>1. /\ live' = k - 1
        /\ \A l \in Level : l # k => pc'[l] = pc[l] /\ nmiBody'[l] = nmiBody[l]
    BY <1>1, <1>2, <1>6 DEF NativeRet, Set, TypeOK
  <2>2. /\ \A l \in Level : l < k <=> l <= k - 1
        /\ k - 1 \in Level /\ k - 1 < k /\ k - 1 + 1 = k
    BY <1>2, <1>6 DEF Level, MaxDepth
  <2>3. \A l \in Level : l # k => Frame(l)' = Frame(l)
    BY <2>1 DEF Frame, Popped
  <2>4. ASSUME NEW l \in Level, l < live', nmiBody'[l + 1]
        PROVE  t[l] = t[l + 1] - owned'[l + 1] - Frame(l + 1)'
    <3>1. l + 1 # k /\ l + 1 \in Level /\ l < k
      BY <1>2, <2>1, <2>4 DEF Level, MaxDepth
    <3>2. nmiBody[l + 1] /\ owned'[l + 1] = owned[l + 1] /\ Frame(l + 1)' = Frame(l + 1)
      BY <1>4, <2>1, <2>3, <2>4, <3>1
    <3> QED BY <1>2, <1>3, <3>1, <3>2 DEF Tops
  <2>5. ASSUME NEW l \in Level, l <= live', Resumable(l)'
        PROVE  Context(l, t[l])'
    <3>1. l < k /\ l # k /\ l <= live
      BY <1>2, <2>1, <2>2, <2>5 DEF Level
    <3>2. Resumable(l)
      <4> SUFFICES ASSUME NEW j \in Level, l < j, j <= live
                   PROVE  nmiBody[j]
        BY DEF Resumable
      <4>1. CASE j = k
        BY <1>5, <4>1
      <4>2. CASE j # k
        <5>1. j <= live'
          BY <1>2, <2>1, <4>2 DEF Level, MaxDepth
        <5>2. nmiBody'[j]
          BY <2>5, <5>1 DEF Resumable
        <5> QED BY <2>1, <4>2, <5>2
      <4> QED BY <4>1, <4>2
    <3>3. Context(l, t[l])
      BY <1>2, <1>3, <3>1, <3>2 DEF Tops
    <3> QED BY <1>1, <1>4, <2>1, <3>1, <3>3, ContextKept
  <2>6. t[live'] = Len(stack')
    <3>1. t[k - 1] = t[k - 1 + 1] - owned[k - 1 + 1] - Frame(k - 1 + 1)
      BY <1>2, <1>3, <1>5, <2>2 DEF Tops
    <3>2. t[k - 1] = t[k] - 0 - 0 /\ t[k] \in 0 .. Size
      BY <1>5, <2>2, <3>1
    <3>3. t[k] = Len(stack)
      BY <1>2, <1>3 DEF Tops
    <3>4. t[k] \in Int
      BY <3>2
    <3>5. t[k - 1] = t[k]
      BY <3>2, <3>4
    <3> QED BY <1>4, <2>1, <3>3, <3>5
  <2> QED BY <1>3, <2>4, <2>5, <2>6 DEF Nested, Tops
\* Without one the RET goes astray.
<1>7. CASE ~(live > 0)
  <2>1. /\ live' = k /\ pc'[k] = "wild" /\ UNCHANGED nmiBody
        /\ \A l \in Level : l # k => pc'[l] = pc[l]
    BY <1>1, <1>2, <1>7 DEF NativeRet, Set, TypeOK
  <2>2. PICK n \in 0 .. Size : n = Len(stack)
    BY <1>1
  <2>3. Frame(k)' = 0 /\ Unwritten(k)' = 0 /\ Unwritten(k) = 0
    BY <1>4, <2>1 DEF Frame, Unwritten, Popped
  <2>4. Shares(k, n)
    BY <1>1, <1>2, <2>2 DEF Context
  <2>5. Shares(k, n)'
    BY <1>4, <1>5, <2>3, <2>4 DEF Shares
  <2>6. Context(k, n)'
    BY <1>4, <1>5, <2>1, <2>5 DEF Context, Pushing, Popping, Popped
  <2>7. n - owned'[k] - Frame(k)' = t[k] - owned[k] - Frame(k)
    BY <1>2, <1>3, <1>4, <1>5, <2>2, <2>3 DEF Tops
  <2> QED BY <1>1, <1>2, <1>3, <1>4, <2>1, <2>2, <2>6, <2>7, OneContext
<1> QED BY <1>6, <1>7

LEMMA RepairHeld ==
    ASSUME IInv, Repair
    PROVE  Nested' /\ S' = PtrOf(Len(stack')) /\ Len(stack') <= Size
<1>1. TypeOK /\ live \in Level /\ Size \in Nat \ {0}
  BY Now, SizeAssumption DEF IInv
<1>2. PICK k \in Level : k = live
  BY <1>1
<1>3. PICK t \in [Level -> 0 .. Size] : Tops(t)
  BY DEF IInv, Nested
<1>4. /\ stack' = << >> /\ Len(stack') = 0 /\ S' = Size - 1
      /\ UNCHANGED <<page, live, pc, ptr, bytes, op>> /\ pc[k] = "body"
  BY <1>2 DEF Repair, Running, nmiVars
<1>5. /\ owned'[k] = 0 /\ ~ nmiBody'[k]
      /\ \A l \in Level : l # k => nmiBody'[l] = nmiBody[l] /\ owned'[l] = owned[l]
  BY <1>1, <1>2 DEF Repair, Set, TypeOK
<1>6. PICK n \in 0 .. Size : n = 0
  BY <1>1
<1>7. Frame(k)' = 0
  BY <1>5 DEF Frame
<1>8. Shares(k, n)'
  BY <1>5, <1>6, <1>7 DEF Shares
<1>9. Context(k, n)'
  BY <1>4, <1>8 DEF Context, Pushing, Popping, Popped
<1>10. Nested'
  BY <1>1, <1>2, <1>3, <1>4, <1>5, <1>6, <1>9, OneContext
<1>11. S' = PtrOf(Len(stack'))
  BY <1>1, <1>4 DEF PtrOf
<1> QED BY <1>1, <1>4, <1>10, <1>11

\* The bridge puts its frame on top of whatever the interrupted context does.
LEMMA DeliverHeld ==
    ASSUME IInv, Deliver
    PROVE  Nested' /\ S' = PtrOf(Len(stack')) /\ Len(stack') <= Size
<1>1. /\ TypeOK /\ Context(live, Len(stack)) /\ live \in Level /\ Len(stack) \in 0 .. Size
      /\ S = PtrOf(Len(stack)) /\ live <= depth
  BY Now DEF IInv
<1>2. PICK n \in Nat : n = Len(stack) /\ n + 3 <= Size /\ Size \in Nat \ {0}
  BY <1>1, SizeAssumption DEF Deliver, Fits
<1>3. PICK t \in [Level -> 0 .. Size] : Tops(t)
  BY DEF IInv, Nested
<1>4. PICK k \in Level : k = live + 1
  <2>1. live \in 0 .. 2 /\ depth \in 0 .. 2 /\ depth < 2
    BY <1>1 DEF TypeOK, Deliver, Delivers, Level, MaxDepth
  <2> QED BY <1>1, <2>1 DEF Level, MaxDepth
<1>5. n \in 0 .. Size /\ t[live] = n
  BY <1>2, <1>3 DEF Tops
<1>6. /\ live' = k /\ pc'[k] = "body" /\ nmiBody'[k] /\ owned'[k] = 0
      /\ UNCHANGED <<ptr, bytes, op>>
      /\ \A l \in Level : l # k => pc'[l] = pc[l] /\ nmiBody'[l] = nmiBody[l] /\ owned'[l] = owned[l]
  BY <1>1, <1>4 DEF Deliver, TypeOK
<1>7. /\ Len(stack') = n + 3
      /\ stack'[n + 1] = FF /\ stack'[n + 2] = FF /\ stack'[n + 3] = Flags
      /\ \A i \in 1 .. n : stack'[i] = stack[i]
  <2>1. Sentinel \in Seq(Byte) /\ Len(Sentinel) = 3
    BY DEF Sentinel, Byte
  <2>2. stack \in Seq(Byte) /\ stack' = stack \o Sentinel
    BY <1>1 DEF TypeOK, Deliver
  <2>3. /\ Len(stack') = Len(stack) + Len(Sentinel)
        /\ \A i \in 1 .. Len(stack) : stack'[i] = stack[i]
        /\ \A j \in 1 .. Len(Sentinel) : stack'[Len(stack) + j] = Sentinel[j]
    BY <2>1, <2>2, JoinKeeps
  <2>4. \A j \in 1 .. 3 : stack'[n + j] = Sentinel[j]
    BY <1>2, <2>1, <2>3
  <2>5. Sentinel[1] = FF /\ Sentinel[2] = FF /\ Sentinel[3] = Flags
    BY DEF Sentinel
  <2> QED BY <1>2, <2>1, <2>3, <2>4, <2>5
<1>8. S = Size - (n + 1) /\ Down(S, 1) = Size - (n + 2) /\ Down(S, 2) = Size - (n + 3)
  <2>1. PtrOf(n) = Size - (n + 1)
    BY <1>2, PtrInPage
  <2>2. /\ S - 1 = Size - (n + 2) /\ S - 2 = Size - (n + 3) /\ S = Size - (n + 1)
        /\ S - 1 \in 0 .. Size - 1 /\ S - 2 \in 0 .. Size - 1
    BY <1>1, <1>2, <2>1
  <2>3. Down(S, 1) = S - 1 /\ Down(S, 2) = S - 2
    BY <1>2, <2>2, ModSmall DEF Down
  <2> QED BY <2>2, <2>3
<1>9. /\ page'[Size - (n + 1)] = FF /\ page'[Size - (n + 2)] = FF /\ page'[Size - (n + 3)] = Flags
      /\ \A i \in 1 .. n : page'[Size - i] = page[Size - i]
  <2> DEFINE a == Size - (n + 1)
             b == Size - (n + 2)
             c == Size - (n + 3)
  <2>1. /\ a \in Slot /\ b \in Slot /\ c \in Slot /\ a # b /\ b # c /\ a # c
        /\ \A i \in 1 .. n : Size - i \in Slot /\ Size - i # a /\ Size - i # b /\ Size - i # c
    BY <1>2 DEF Slot
  <2>2. page \in [Slot -> Byte] /\ page' = [page EXCEPT ![a] = FF, ![b] = FF, ![c] = Flags]
    BY <1>1, <1>8 DEF TypeOK, Deliver
  <2> HIDE DEF a, b, c
  <2>3. page'[a] = FF /\ page'[b] = FF /\ page'[c] = Flags
    BY <2>1, <2>2
  <2>4. \A i \in 1 .. n : page'[Size - i] = page[Size - i]
    BY <2>1, <2>2
  <2> QED BY <2>3, <2>4 DEF a, b, c
<1>10. PICK m \in 0 .. Size : m = n + 3
  <2>1. n + 3 \in 0 .. Size
    BY <1>2
  <2> QED BY <2>1
<1>11. Frame(k)' = 3 /\ Unwritten(k)' = 0
  BY <1>6 DEF Frame, Popped, Unwritten
<1>12. Context(k, m)'
  <2>1. /\ m >= owned'[k] + Frame(k)' /\ m - owned'[k] - 2 = n + 1 /\ m - owned'[k] - 1 = n + 2
        /\ m - owned'[k] = n + 3
    BY <1>2, <1>6, <1>10, <1>11
  <2>2. ASSUME NEW i \in 1 .. m
        PROVE  /\ ~(i > m - owned'[k])
               /\ i > m - owned'[k] - Frame(k)' => page'[Size - i] = stack'[i]
    <3>1. i <= n + 3
      BY <1>10, <2>2
    <3>2. ~(i > m - owned'[k])
      BY <1>2, <2>1, <2>2, <3>1
    <3>3. i > m - owned'[k] - Frame(k)' => i = n + 1 \/ i = n + 2 \/ i = n + 3
      BY <1>2, <1>11, <2>1, <2>2, <3>1
    <3> QED BY <1>7, <1>9, <3>2, <3>3
  <2>3. Shares(k, m)'
    BY <1>7, <2>1, <2>2 DEF Shares
  <2> QED BY <1>6, <2>3 DEF Context, Pushing, Popping, Popped
<1>13. ASSUME NEW l \in Level, l < k, Resumable(l)'
       PROVE  Context(l, t[l])'
  <2>1. l <= live /\ l # k
    BY <1>1, <1>4, <1>13 DEF Level, MaxDepth
  <2>2. Resumable(l)
    <3>1. \A j \in Level : j <= live => j <= live' /\ j # k
      BY <1>1, <1>4, <1>6 DEF Level, MaxDepth
    <3> QED BY <1>6, <1>13, <3>1 DEF Resumable
  <2>3. Context(l, t[l])
    BY <1>3, <2>1, <2>2 DEF Tops
  <2>4. t[l] <= n /\ t[l] \in Nat
    <3>1. CASE l = live
      BY <1>2, <1>5, <3>1
    <3>2. CASE l # live
      <4>1. l < live
        BY <1>1, <2>1, <3>2 DEF Level, MaxDepth
      <4>2. t[l] <= t[live] - owned[live] - Frame(live)
        BY <1>1, <1>3, <2>2, <4>1, Under
      <4>3. owned[live] \in Nat /\ Frame(live) \in {0, 3} /\ t[l] \in Nat
        BY <1>1, <1>2 DEF TypeOK, Frame
      <4> QED BY <1>2, <1>5, <4>2, <4>3
    <3> QED BY <3>1, <3>2
  <2>5. \A i \in 1 .. t[l] : stack'[i] = stack[i] /\ page'[Size - i] = page[Size - i]
    BY <1>2, <1>7, <1>9, <2>4
  <2> QED BY <1>1, <1>6, <2>1, <2>3, <2>5, ContextKept
<1> DEFINE u == [t EXCEPT ![k] = m]
<1>14. u \in [Level -> 0 .. Size] /\ u[k] = m /\ \A l \in Level : l # k => u[l] = t[l]
  OBVIOUS
<1> HIDE DEF u
<1>15. ASSUME NEW l \in Level, l < live', nmiBody'[l + 1]
       PROVE  u[l] = u[l + 1] - owned'[l + 1] - Frame(l + 1)'
  <2>1. l # k /\ l + 1 \in Level
    BY <1>4, <1>6, <1>15 DEF Level, MaxDepth
  <2>2. CASE l + 1 = k
    <3>1. l = live
      BY <1>1, <1>4, <2>2 DEF Level, MaxDepth
    <3>2. u[l] = n /\ u[l + 1] = n + 3 /\ owned'[l + 1] = 0 /\ Frame(l + 1)' = 3
      BY <1>5, <1>6, <1>10, <1>11, <1>14, <2>1, <2>2, <3>1
    <3> QED BY <1>2, <3>2
  <2>3. CASE l + 1 # k
    <3>1. l < live
      BY <1>1, <1>4, <1>6, <1>15, <2>3 DEF Level, MaxDepth
    <3>2. /\ nmiBody[l + 1] /\ owned'[l + 1] = owned[l + 1] /\ Frame(l + 1)' = Frame(l + 1)
          /\ u[l] = t[l] /\ u[l + 1] = t[l + 1]
      BY <1>6, <1>14, <1>15, <2>1, <2>3 DEF Frame, Popped
    <3> QED BY <1>3, <3>1, <3>2 DEF Tops
  <2> QED BY <2>2, <2>3
<1>16. ASSUME NEW l \in Level, l <= live', Resumable(l)'
       PROVE  Context(l, u[l])'
  <2>1. CASE l = k
    BY <1>12, <1>14, <2>1
  <2>2. CASE l # k
    <3>1. l < k
      BY <1>6, <1>16, <2>2 DEF Level, MaxDepth
    <3>2. Context(l, t[l])'
      BY <1>13, <1>16, <3>1
    <3> QED BY <1>14, <2>2, <3>2
  <2> QED BY <2>1, <2>2
<1>17. u[live'] = Len(stack')
  BY <1>6, <1>7, <1>10, <1>14
<1>18. Nested'
  BY <1>14, <1>15, <1>16, <1>17 DEF Nested, Tops
<1>19. S' = PtrOf(Len(stack'))
  <2>1. S' = Down(PtrOf(n), 3)
    BY <1>1, <1>2 DEF Deliver
  <2> QED BY <1>2, <1>7, <2>1, PtrDown
<1> QED BY <1>2, <1>7, <1>18, <1>19

\* Nothing but what interrupts may be delivered has changed.
LEMMA SameContexts == ASSUME IInv, UNCHANGED <<stack, page, live, ctxVars>> PROVE Nested'
<1>1. UNCHANGED <<stack, page, live, pc, ptr, bytes, op, nmiBody, owned>>
  BY DEF ctxVars
<1>2. \A l \in Level : Frame(l)' = Frame(l) /\ Unwritten(l)' = Unwritten(l) /\ Popped(l)' = Popped(l)
  BY <1>1 DEF Frame, Unwritten, Popped
<1>3. PICK t \in [Level -> 0 .. Size] : Tops(t)
  BY DEF IInv, Nested
<1>4. \A l \in Level : Resumable(l)' = Resumable(l)
  BY <1>1 DEF Resumable
<1>5. ASSUME NEW l \in Level, Context(l, t[l]) PROVE Context(l, t[l])'
  <2>1. TypeOK /\ t[l] \in 0 .. Size
    BY DEF IInv
  <2> QED BY <1>1, <1>5, <2>1, ContextKept
<1>6. Tops(t)'
  <2>1. t[live'] = Len(stack')
    BY <1>1, <1>3 DEF Tops
  <2>2. \A l \in Level : l < live' /\ nmiBody'[l + 1] => t[l] = t[l + 1] - owned'[l + 1] - Frame(l + 1)'
    <3>1. ASSUME NEW l \in Level, l < live PROVE l + 1 \in Level
      BY <3>1 DEF IInv, TypeOK, Level, MaxDepth
    <3> QED BY <1>1, <1>2, <1>3, <3>1 DEF Tops
  <2>3. \A l \in Level : l <= live' /\ Resumable(l)' => Context(l, t[l])'
    BY <1>1, <1>3, <1>4, <1>5 DEF Tops
  <2> QED BY <2>1, <2>2, <2>3 DEF Tops
<1> QED BY <1>6 DEF Nested
-----------------------------------------------------------------------------
LEMMA Inductive == ASSUME IInv, [Next]_vars PROVE IInv'
<1> DEFINE Placed == Nested' /\ S' = PtrOf(Len(stack')) /\ Len(stack') <= Size
           Counted == /\ live' <= depth' /\ depth' <= live' + 1
                      /\ nmiBody'[0] => NmiResumesAfterBrk
<1> USE DEF Placed, Counted
<1>1. TypeOK'
  BY TypeStep
<1>2. /\ TypeOK /\ Context(live, Len(stack)) /\ live \in Level
      /\ S = PtrOf(Len(stack)) /\ Len(stack) <= Size
  BY Now DEF IInv
<1>3. /\ live \in 0 .. 2 /\ depth \in 0 .. 2 /\ live <= depth /\ depth <= live + 1
      /\ nmiBody[0] => NmiResumesAfterBrk
      /\ nmiBody \in [Level -> BOOLEAN] /\ 0 \in Level
  BY DEF IInv, TypeOK, Level, MaxDepth
<1>4. ASSUME UNCHANGED <<S, stack>>, Nested' PROVE Placed
  BY <1>2, <1>4
<1>5. ASSUME UNCHANGED <<live, depth, nmiBody>> PROVE Counted
  BY <1>3, <1>5
<1>6. CASE \E v \in Data : Push(v)
  <2>1. PICK v \in Data : Push(v)
    BY <1>6
  <2>2. <<v>> \in Seq(Plain) /\ Len(<<v>>) >= 1
    BY ByteAssumption DEF Plain, Byte
  <2>3. StartPush(<<v>>)
    BY <2>1 DEF Push
  <2>4. Nested'
    BY <2>2, <2>3, StartPushHeld
  <2> QED BY <1>1, <1>4, <1>5, <2>3, <2>4 DEF IInv, StartPush, sharedVars, nmiVars
<1>7. CASE Brk
  <2>1. <<Ret, Ret, Flags>> \in Seq(Plain) /\ Len(<<Ret, Ret, Flags>>) >= 1
    BY ByteAssumption DEF Plain, Byte
  <2>2. StartPush(<<Ret, Ret, Flags>>)
    BY <1>7 DEF Brk
  <2>3. Nested'
    BY <2>1, <2>2, StartPushHeld
  <2> QED BY <1>1, <1>4, <1>5, <2>2, <2>3 DEF IInv, StartPush, sharedVars, nmiVars
<1>8. CASE PushLoad
  BY <1>1, <1>4, <1>5, <1>8, PushLoadHeld DEF IInv, PushLoad, sharedVars, nmiVars
<1>9. CASE PushReserve
  BY <1>1, <1>5, <1>9, PushReserveHeld DEF IInv, PushReserve, nmiVars
<1>10. CASE PushWrite
  BY <1>1, <1>4, <1>5, <1>10, PushWriteHeld DEF IInv, PushWrite, nmiVars
<1>11. CASE Pop \/ Rts \/ Rti
  <2>1. PICK o \in {"pop", "rts", "rti"} :
            /\ StartPop(o)
            /\ \/ owned[live] >= Needs(o) /\ (o = "rti" /\ nmiBody[live] => NmiResumesAfterBrk)
               \/ o = "rti" /\ owned[live] = 0 /\ nmiBody[live]
    BY <1>11 DEF Pop, Rts, Rti, Needs
  <2>2. Nested'
    BY <2>1, StartPopHeld
  <2> QED BY <1>1, <1>4, <1>5, <2>1, <2>2 DEF IInv, StartPop, sharedVars, nmiVars
<1>12. CASE PopRead
  BY <1>1, <1>4, <1>5, <1>12, PopReadHeld DEF IInv, PopRead, sharedVars, nmiVars
<1>13. CASE PopPublish
  BY <1>1, <1>5, <1>13, PopPublishHeld DEF IInv, PopPublish, nmiVars
<1>14. CASE RtiDispatch
  <2>1. nmiBody[live] => NmiResumesAfterBrk
    BY <1>2, <1>14 DEF RtiDispatch, Running, Context, Popping
  <2>2. nmiBody'[0] = nmiBody[live] /\ live' = 0 /\ depth' = IF depth = 0 THEN 0 ELSE 1
    <3>1. nmiBody' = [Fresh(FALSE) EXCEPT ![0] = nmiBody[live]]
      BY <1>14 DEF RtiDispatch
    <3>2. nmiBody'[0] = nmiBody[live]
      BY <1>3, <3>1 DEF Fresh
    <3> QED BY <1>14, <3>2 DEF RtiDispatch
  <2>3. Counted
    BY <1>3, <2>1, <2>2
  <2> QED BY <1>1, <1>4, <1>14, <2>3, RtiDispatchHeld DEF IInv, RtiDispatch, sharedVars
<1>15. CASE NativeRet
  <2>1. nmiBody'[0] => nmiBody[0]
    BY <1>2, <1>3, <1>15 DEF NativeRet, Set
  <2>2. live' <= depth' /\ depth' <= live' + 1
    <3>1. (live' = live - 1 /\ depth' = depth - 1 /\ live > 0) \/ (live' = live /\ depth' = depth)
      BY <1>15 DEF NativeRet
    <3> QED BY <1>3, <3>1
  <2> QED BY <1>1, <1>3, <1>4, <1>15, <2>1, <2>2, NativeRetHeld DEF IInv, NativeRet, sharedVars
<1>16. CASE Repair
  <2>1. nmiBody'[0] => nmiBody[0]
    BY <1>2, <1>3, <1>16 DEF Repair, Set
  <2> QED BY <1>1, <1>3, <1>16, <2>1, RepairHeld DEF IInv, Repair, nmiVars
<1>17. CASE \E b \in BOOLEAN : WriteNmiEnable(b)
  <2>1. UNCHANGED <<S, page, stack, depth, live, ctxVars>>
    BY <1>17 DEF WriteNmiEnable, sharedVars
  <2>2. UNCHANGED nmiBody
    BY <2>1 DEF ctxVars
  <2> QED BY <1>1, <1>4, <1>5, <2>1, <2>2, SameContexts DEF IInv
<1>18. CASE Deliver
  <2>1. nmiBody'[0] = nmiBody[0]
    <3>1. live + 1 # 0
      BY <1>3
    <3> QED BY <1>3, <1>18, <3>1 DEF Deliver
  <2>2. live' <= depth' /\ depth' <= live' + 1
    BY <1>3, <1>18 DEF Deliver
  <2> QED BY <1>1, <1>3, <1>18, <2>1, <2>2, DeliverHeld DEF IInv
<1>19. CASE Skip \/ UNCHANGED vars
  <2>1. UNCHANGED <<S, page, stack, depth, live, ctxVars>>
    BY <1>19 DEF Skip, vars, sharedVars, nmiVars
  <2>2. UNCHANGED nmiBody
    BY <2>1 DEF ctxVars
  <2> QED BY <1>1, <1>4, <1>5, <2>1, <2>2, SameContexts DEF IInv
<1> QED BY <1>6, <1>7, <1>8, <1>9, <1>10, <1>11, <1>12, <1>13, <1>14, <1>15, <1>16, <1>17,
           <1>18, <1>19 DEF Next

\* The contexts stay laid out on the page one above the other.
THEOREM StackLayout == Spec => []IInv
<1>1. Init => IInv
  BY TypeInit
<1>2. IInv /\ [Next]_vars => IInv'
  BY Inductive
<1> QED BY <1>1, <1>2, PTL DEF Spec

\* A pop reads exactly the newest bytes pushed, for every size of the page and
\* wherever NMIs strike between the loads and stores of a push or pop
\* (runtime/stack helpers of the lowered code).
THEOREM PopsExact == Spec => []PopExact
<1>1. IInv => PopExact
  <2> SUFFICES ASSUME IInv, Running("pop_publish")
               PROVE  bytes[live] = TopOf(stack, Needs(op[live]))
    BY DEF PopExact
  <2>1. Popping(live, Len(stack)) /\ bytes[live] \in Seq(Byte) /\ pc[live] = "pop_publish"
    BY Now DEF IInv, TypeOK, Context, Running
  <2>2. /\ Len(bytes[live]) = Needs(op[live])
        /\ \A j \in 1 .. Len(bytes[live]) : bytes[live][j] = stack[Len(stack) + 1 - j]
    BY <2>1 DEF Popping
  <2>3. bytes[live] = [j \in 1 .. Len(bytes[live]) |-> bytes[live][j]]
    BY <2>1
  <2> QED BY <2>2, <2>3 DEF TopOf
<1> QED BY <1>1, StackLayout, PTL

\* The depth counter $CA11 refuses an NMI only while a bridge call is in flight.
THEOREM DepthTrue == Spec => []DepthRefusesTruly
<1>1. IInv => DepthRefusesTruly
  BY DEF IInv, TypeOK, DepthRefusesTruly, MaxDepth, Level
<1> QED BY <1>1, StackLayout, PTL

\* If an NMI body that takes a BRK resets its stack pointer, the sentinel is
\* never popped without the bridge call it belongs to.
THEOREM SentinelsBridged ==
    ASSUME NmiResumesAfterBrk = FALSE
    PROVE  Spec => []SentinelHasBridge
<1>1. IInv => SentinelHasBridge
  <2> SUFFICES ASSUME IInv, pc[live] = "native_ret" PROVE live > 0
    BY DEF SentinelHasBridge, Running
  <2>1. nmiBody[live] /\ live \in Level
    BY Now DEF Context, Popping, Popped
  <2>2. live # 0
    BY <2>1 DEF IInv
  <2> QED BY <2>1, <2>2 DEF Level, MaxDepth
<1> QED BY <1>1, StackLayout, PTL

-----------------------------------------------------------------------------
(***************************************************************************)
(* The controller ports (ControllerPorts).                                 *)
(***************************************************************************)

\* What a read has taken of the byte, and what the last one returned, is about
\* the button whose turn it is; the index counts the reads since the strobe, so
\* that the button the code reads is the one the program asks for.
Taken(n, b) ==
    IF n > 8 THEN b = 1
    ELSE (C!Button[n] \in every => b = 1) /\ (C!Button[n] \notin some => b = 0)

PortInv ==
    /\ C!TypeOK
    /\ latch \subseteq some /\ every \subseteq latch
    /\ index = reads
    /\ reader # "idle" => index < 8
    /\ reader = "bit" => Taken(index + 1, bit)
    /\ Taken(result.at + 1, result.bit)

\* Bytes that come later only take buttons from those that were down throughout.
LEMMA TakenKept ==
    ASSUME NEW n, NEW b, Taken(n, b), some \subseteq some', every' \subseteq every
    PROVE  Taken(n, b)'
BY DEF Taken

LEMMA PortInit == ASSUME C!Init PROVE PortInv
<1>1. /\ HoldLimit \in Nat /\ Presses \in Nat
  BY PartsAssumption DEF C!PortConstants
<1>2. C!TypeOK
  BY <1>1 DEF C!Init, C!TypeOK, C!None, C!Fired
<1>3. Taken(result.at + 1, result.bit)
  BY DEF C!Init, C!None, Taken
<1> QED BY <1>2, <1>3 DEF PortInv, C!Init

LEMMA PortLatch == ASSUME PortInv, C!Latch PROVE PortInv'
<1>1. /\ HoldLimit \in Nat /\ Presses \in Nat
      /\ Wires \subseteq {C!Button[i] : i \in 1 .. 8} \cup C!Both
  BY PartsAssumption DEF C!PortConstants
<1>2. PICK armed, start, buttons :
          /\ armed = (IF C!Completes THEN Presses ELSE inject)
          /\ start = (build.pause /\ armed > 0)
          /\ buttons = C!Translated(pad) \cup (IF start THEN {"Start"} ELSE {})
          /\ latch' = buttons /\ UNCHANGED index
          /\ held' = C!Held
          /\ inject' = (IF start /\ ~ build.full THEN armed - 1 ELSE armed)
          /\ some' = some \cup buttons /\ every' = every \cap buttons
          /\ UNCHANGED <<build, pad, title, reader, bit, reads, result>>
  BY DEF C!Latch, C!Replace
<1>3. C!TypeOK
  BY DEF PortInv
<1>4. held' \in 0 .. C!Fired
  <2>1. held \in 0 .. C!Fired /\ C!Fired = HoldLimit + 1
    BY <1>3 DEF C!TypeOK, C!Fired
  <2>2. held' = C!Fired \/ held' = held \/ held' = 0 \/ (held # C!Fired /\ held' = held + 1)
    BY <1>2 DEF C!Held
  <2> QED BY <1>1, <2>1, <2>2
<1>5. inject' \in 0 .. Presses
  <2>1. armed \in 0 .. Presses
    BY <1>1, <1>2, <1>3 DEF C!TypeOK
  <2>2. start => armed > 0
    BY <1>2
  <2>3. inject' = armed \/ (armed > 0 /\ inject' = armed - 1)
    BY <1>2, <2>2
  <2> QED BY <1>1, <2>1, <2>3
<1>6. buttons \subseteq {C!Button[i] : i \in 1 .. 8}
  <2>1. /\ "A" \in {C!Button[i] : i \in 1 .. 8} /\ "B" \in {C!Button[i] : i \in 1 .. 8}
        /\ "Select" \in {C!Button[i] : i \in 1 .. 8} /\ "Start" \in {C!Button[i] : i \in 1 .. 8}
    <3>1. C!Button[1] = "A" /\ C!Button[2] = "B" /\ C!Button[3] = "Select" /\ C!Button[4] = "Start"
      BY DEF C!Button
    <3>2. 1 \in 1 .. 8 /\ 2 \in 1 .. 8 /\ 3 \in 1 .. 8 /\ 4 \in 1 .. 8
      OBVIOUS
    <3> QED BY <3>1, <3>2
  <2>2. \A w \in pad : w \notin C!Both => w \in {C!Button[i] : i \in 1 .. 8}
    BY <1>1, <1>3 DEF C!TypeOK
  <2> DEFINE Names == {C!Button[i] : i \in 1 .. 8}
  <2>3. C!Translated(pad) \subseteq Names
    <3> HIDE DEF Names
    <3>1. "A" \in Names /\ "B" \in Names /\ "Select" \in Names /\ "Start" \in Names
      BY <2>1 DEF Names
    <3>2. \A w \in pad : w \notin C!Both => w \in Names
      BY <2>2 DEF Names
    <3> QED BY <3>1, <3>2 DEF C!Translated
  <2> QED BY <1>2, <2>1, <2>3
<1>7. every' \subseteq some' /\ some \subseteq some' /\ every' \subseteq every
      /\ latch' \subseteq some' /\ every' \subseteq latch'
  BY <1>2, <1>3 DEF C!TypeOK
<1>8. C!TypeOK'
  BY <1>2, <1>3, <1>4, <1>5, <1>6, <1>7 DEF C!TypeOK
<1>9. Taken(result.at + 1, result.bit)'
  BY <1>2, <1>7 DEF PortInv, Taken
<1>10. (reader = "bit" => Taken(index + 1, bit))'
  BY <1>2, <1>7 DEF PortInv, Taken
<1> QED BY <1>2, <1>7, <1>8, <1>9, <1>10 DEF PortInv

LEMMA PortStep == ASSUME PortInv, [C!Next]_(C!vars) PROVE PortInv'
<1>1. /\ HoldLimit \in Nat /\ Presses \in Nat
  BY PartsAssumption DEF C!PortConstants
<1>2. /\ C!TypeOK /\ latch \subseteq some /\ every \subseteq latch /\ index = reads
      /\ reader # "idle" => index < 8
      /\ reader = "bit" => Taken(index + 1, bit)
      /\ Taken(result.at + 1, result.bit)
  BY DEF PortInv
<1>3. CASE C!Latch
  BY <1>3, PortLatch
<1>4. CASE C!Pause
  BY <1>1, <1>2, <1>4 DEF C!Pause, C!port, C!ghost, C!TypeOK, PortInv, Taken
<1>5. CASE C!Strobe
  BY <1>2, <1>5 DEF C!Strobe, C!None, C!TypeOK, PortInv, Taken
<1>6. CASE C!ReadPort2
  BY <1>2, <1>6 DEF C!ReadPort2, C!port, C!ghost, C!TypeOK, PortInv, Taken
<1>7. CASE C!ReadOpen
  <2>1. index = 8 /\ reads = 8
    BY <1>2, <1>7 DEF C!ReadOpen, C!TypeOK
  <2> QED BY <1>2, <1>7, <2>1 DEF C!ReadOpen, C!Counted, C!port, C!TypeOK, PortInv, Taken
<1>8. CASE C!ReadIndex
  BY <1>2, <1>8 DEF C!ReadIndex, C!port, C!ghost, C!TypeOK, PortInv, Taken
<1>9. CASE C!ReadBit
  <2>1. /\ bit' = (IF C!Button[index + 1] \in latch THEN 1 ELSE 0) /\ reader' = "bit" /\ reader = "index"
        /\ UNCHANGED <<build, pad, title, latch, index, inject, held, some, every, reads, result>>
    BY <1>9 DEF C!ReadBit, C!port, C!ghost
  <2>2. Taken(index + 1, bit)'
    <3>1. PICK n \in 1 .. 8 : n = index + 1
      BY <1>2, <2>1 DEF C!TypeOK
    <3>2. /\ C!Button[n] \in every' => bit' = 1
          /\ C!Button[n] \notin some' => bit' = 0
      BY <1>2, <2>1, <3>1
    <3>3. Taken(n, bit)'
      BY <3>1, <3>2 DEF Taken
    <3> QED BY <2>1, <3>1, <3>3
  <2> QED BY <1>2, <2>1, <2>2 DEF C!TypeOK, PortInv, Taken
<1>10. CASE C!ReadDone
  <2>1. /\ index' = index + 1 /\ reader = "bit" /\ reader' = "idle"
        /\ result' = [at |-> index, bit |-> bit] /\ reads' = index'
        /\ inject' = inject \/ (inject > 0 /\ inject' = inject - 1)
        /\ UNCHANGED <<build, pad, title, latch, held, bit, some, every>>
    BY <1>2, <1>10 DEF C!ReadDone, C!Counted
  <2>2. index' \in 0 .. 8 /\ inject' \in 0 .. Presses /\ index \in 0 .. 8
    BY <1>1, <1>2, <2>1 DEF C!TypeOK
  <2>3. result' \in [at : 0 .. 8, bit : 0 .. 1] /\ result'.at = index /\ result'.bit = bit
    BY <1>2, <2>1, <2>2 DEF C!TypeOK
  <2>4. C!TypeOK'
    BY <1>2, <2>1, <2>2, <2>3 DEF C!TypeOK
  <2>5. Taken(result.at + 1, result.bit)'
    BY <1>2, <2>1, <2>3 DEF Taken
  <2> QED BY <1>2, <2>1, <2>4, <2>5 DEF PortInv
<1>11. CASE C!Press
  BY <1>2, <1>11 DEF C!Press, C!port, C!ghost, C!TypeOK, PortInv, Taken
<1>12. CASE C!SetMode
  BY <1>2, <1>12 DEF C!SetMode, C!port, C!ghost, C!TypeOK, PortInv, Taken
<1>13. CASE UNCHANGED C!vars
  BY <1>2, <1>13 DEF C!vars, C!port, C!ghost, C!TypeOK, PortInv, Taken
<1> QED BY <1>3, <1>4, <1>5, <1>6, <1>7, <1>8, <1>9, <1>10, <1>11, <1>12, <1>13 DEF C!Next

\* Controller reads keep what they know of the byte they read.
THEOREM PortsHeld == C!Spec => []PortInv
<1>1. C!Init => PortInv
  BY PortInit
<1>2. PortInv /\ [C!Next]_(C!vars) => PortInv'
  BY PortStep
<1> QED BY <1>1, <1>2, PTL DEF C!Spec

\* The n-th read of port 1 after the strobe returns button n, as the latches since
\* the strobe had it, however the NMI relatches between two reads and within one
\* (input.s).
THEOREM SerialReads == C!Spec => []SerialReadExact
<1>1. PortInv => SerialReadExact
  BY DEF PortInv, Taken, SerialReadExact, C!SerialReadExact
<1> QED BY <1>1, PortsHeld, PTL

-----------------------------------------------------------------------------
(***************************************************************************)
(* The HUD split (Cv1Hud).  The beam, the line counter and the work in hand *)
(* are linked: whatever holds the processor while the split is armed ends  *)
(* before the split, or soon enough after it.                              *)
(***************************************************************************)

HeldBack == IF StageLines > GuestLines THEN StageLines ELSE GuestLines
ArmingEnd == 258

\* The line at which what the processor is at leaves off, counted from line 0
\* of the picture the split is armed for.
Reach == IF line >= H!Blank THEN line + left - H!Lines ELSE line + left

\* The scroll of the HUD is in force while the split is armed, or waits for the
\* commit that will arm it again.
Links ==
    /\ r8 = "pre" => hud.valid /\ (hud.armed \/ cpu = "commit")
    /\ hud.armed => /\ hud.valid /\ hud.split /\ ~ hud.served /\ ie1 /\ r10 = H!Split
                    /\ r8 = "pre" /\ cpu # "commit"

\* How long the processor stays with what it is at.
Steps ==
    /\ cpu = "commit" =>
          /\ line >= H!Blank /\ line + left <= 227 + CommitLines /\ ~ hint
          /\ vint \/ line = H!Blank => line + left <= H!Blank + CommitLines
          /\ vint => line > H!Blank
    /\ cpu = "service" => left = 0 /\ (hookIff \/ fence \/ ~ vint)
    /\ cpu = "sample" => left <= 1
    /\ cpu \in {"commit", "stage"} /\ back = "service" => hookIff
    /\ cpu \in {"sample", "chunk"} => hookIff \/ fence

\* The line counter runs out at the split, and the processor is free by then.
Counting ==
    hud.armed /\ ~ fence =>
        /\ line > ArmingEnd => counter = H!Split
        /\ line < H!Split => counter = H!Split - 1 - line
        /\ line >= H!Blank \/ line < H!Split => ~ hint
        /\ line \in H!Split .. H!Blank - 1 => hint
        /\ line = H!Blank => cpu = "stage" /\ left > 0
        /\ vint => cpu = "stage"
        /\ Reach < H!Split + HeldBack

\* A picture with a split has it armed from the blank on.
Drawn ==
    ~ fence /\ hud.valid /\ hud.split =>
        /\ line < H!Split => hud.armed
        /\ line > H!Blank => vint \/ cpu = "commit" \/ hud.armed
        /\ vint => line > H!Blank /\ line + left <= ArmingEnd
        /\ line \in H!Split .. H!Blank => line + left <= ArmingEnd

\* A step of preparation ends before the split that is due, or before the blank.
Chunking ==
    cpu = "chunk" /\ ~ fence /\ hud.valid /\ hud.split =>
        /\ ~ vint
        /\ \/ hud.armed /\ Reach < H!Split
           \/ ~ hud.armed /\ line >= H!Split /\ line + left < H!Blank

HudInv == H!TypeOK /\ Links /\ Steps /\ Counting /\ Drawn /\ Chunking

LEMMA CostsHold ==
    /\ Chunks \subseteq Nat /\ CommitLines \in Nat /\ SatLines \in Nat /\ StageLines \in Nat
    /\ GuestLines \in Nat /\ Epochs \in Nat \ {0}
    /\ CommitLines + SatLines + StageLines < 35 /\ CommitLines < 32 /\ GuestLines < 35
    /\ SatLines > 0 /\ StageLines > 0
    /\ HeldBack \in Nat /\ HeldBack > 0 /\ HeldBack < 35
    /\ StageLines <= HeldBack /\ GuestLines <= HeldBack
BY PartsAssumption DEF H!Costs, HeldBack

\* Where the counter of the VDP puts the beam.
LEMMA Beam ==
    ASSUME line \in 0 .. 261
    PROVE  /\ H!VCounter \in Nat
           /\ line < 224 => H!VCounter = line
           /\ line >= 224 <=> H!VCounter >= 224
           /\ H!EarlyBlank(29) <=> line \in 224 .. 258
           /\ H!EarlyBlank(4) => line \in 224 .. 227
           /\ line = 224 => H!EarlyBlank(13)
BY DEF H!VCounter, H!EarlyBlank, H!Blank

HudFlags == [valid : BOOLEAN, split : BOOLEAN, armed : BOOLEAN, served : BOOLEAN]

\* What _cv1_hud_arm leaves behind.
LEMMA Arming ==
    ASSUME H!TypeOK, NEW h \in HudFlags, NEW e \in 0 .. Epochs - 1, ~ h.armed, H!Arm(h, e)
    PROVE  /\ hud' \in HudFlags /\ hud'.valid = h.valid /\ hud'.split = h.split
           /\ hud'.armed <=> (h.valid /\ h.split /\ line \in 224 .. 258)
           /\ hud'.armed => ~ hud'.served /\ ie1' /\ r10' = H!Split /\ r8' = "pre"
           /\ ~ hud'.armed => r8' = "post" \/ (~ h.valid /\ r8' = r8)
           /\ r10' \in {H!Split, H!Parked} /\ ie1' \in BOOLEAN /\ r8' \in {"pre", "post"}
           /\ armedAt' \in 0 .. Epochs - 1
<1>1. /\ r10 \in {H!Split, H!Parked} /\ ie1 \in BOOLEAN /\ r8 \in {"pre", "post"}
      /\ armedAt \in 0 .. Epochs - 1 /\ line \in 0 .. 261
  BY DEF H!TypeOK, H!Lines
<1>2. CASE ~ h.valid
  BY <1>1, <1>2 DEF H!Arm, H!vdp, HudFlags
<1>3. CASE h.valid /\ (~ H!EarlyBlank(29) \/ ~ h.split)
  <2>1. /\ r8' = "post" /\ hud' = [h EXCEPT !.armed = FALSE] /\ r10' = H!Parked /\ ie1' = FALSE
        /\ armedAt' = armedAt
    BY <1>3 DEF H!Arm, H!Direct, H!Park
  <2>2. ~ (h.valid /\ h.split /\ line \in 224 .. 258)
    BY <1>1, <1>3, Beam
  <2>3. hud' \in HudFlags /\ hud'.valid = h.valid /\ hud'.split = h.split /\ ~ hud'.armed
    BY <2>1 DEF HudFlags
  <2> QED BY <1>1, <2>1, <2>2, <2>3
<1>4. CASE h.valid /\ H!EarlyBlank(29) /\ h.split
  <2>1. /\ r8' = "pre" /\ r10' = H!Split /\ ie1' = TRUE /\ armedAt' = e
        /\ hud' = [h EXCEPT !.armed = TRUE, !.served = FALSE]
    BY <1>4 DEF H!Arm
  <2> QED BY <1>1, <1>4, <2>1, Beam DEF HudFlags
<1> QED BY <1>2, <1>3, <1>4

\* What rt_cv1_hud_line does, and when a poll calls it.
LEMMA Serving ==
    ASSUME H!TypeOK, H!ServeLine
    PROVE  /\ hud' \in HudFlags /\ ~ hud'.armed /\ hud'.valid = hud.valid /\ hud'.split = hud.split
           /\ r8' = "post" \/ (~ hud.armed /\ r8' = r8)
           /\ r10' \in {H!Split, H!Parked} /\ ie1' \in BOOLEAN /\ r8' \in {"pre", "post"}
           /\ ~ hud.armed => UNCHANGED <<hud, r8, r10, ie1>>
<1>1. /\ r10 \in {H!Split, H!Parked} /\ ie1 \in BOOLEAN /\ r8 \in {"pre", "post"} /\ hud \in HudFlags
  BY DEF H!TypeOK, HudFlags
<1>2. CASE hud.armed
  <2>1. /\ r8' = "post" /\ r10' = H!Parked /\ ie1' = FALSE
        /\ hud' = [hud EXCEPT !.armed = FALSE, !.served = TRUE]
    BY <1>2 DEF H!ServeLine, H!Park
  <2> QED BY <1>1, <1>2, <2>1 DEF HudFlags
<1>3. CASE ~ hud.armed
  BY <1>1, <1>3 DEF H!ServeLine, H!vdp
<1> QED BY <1>2, <1>3

LEMMA HudInit == ASSUME H!Init PROVE HudInv
<1>1. 0 \in 0 .. Epochs - 1 /\ hud \in HudFlags /\ ~ hud.valid /\ ~ hud.armed
  BY CostsHold DEF H!Init, HudFlags
<1>2. H!TypeOK
  <2>1. hud \in HudFlags /\ epoch \in 0 .. Epochs - 1 /\ armedAt \in 0 .. Epochs - 1
    BY <1>1 DEF H!Init
  <2>2. line \in 0 .. H!Lines - 1 /\ counter \in 0 .. H!Parked /\ r10 \in {H!Split, H!Parked} /\ left \in Nat
    BY DEF H!Init, H!Lines, H!Parked
  <2> QED BY <2>1, <2>2 DEF H!Init, H!TypeOK, HudFlags
<1> QED BY <1>1, <1>2 DEF H!Init, HudInv, Links, Steps, Counting, Drawn, Chunking

LEMMA HudTypeStep == ASSUME HudInv, [H!Next]_(H!vars) PROVE H!TypeOK'
<1>1. /\ line \in 0 .. 261 /\ counter \in 0 .. 255 /\ vint \in BOOLEAN /\ hint \in BOOLEAN
      /\ r10 \in {38, 255} /\ ie1 \in BOOLEAN /\ r8 \in {"pre", "post"} /\ hud \in HudFlags
      /\ epoch \in 0 .. Epochs - 1 /\ armedAt \in 0 .. Epochs - 1
      /\ cpu \in {"guest", "stage", "commit", "service", "sample", "chunk"}
      /\ back \in {"guest", "service"} /\ left \in Nat
      /\ hookIff \in BOOLEAN /\ ready \in BOOLEAN /\ fence \in BOOLEAN
  BY DEF HudInv, H!TypeOK, HudFlags, H!Lines, H!Split, H!Parked
<1> DEFINE Rest == /\ line' \in 0 .. 261 /\ counter' \in 0 .. 255 /\ vint' \in BOOLEAN /\ hint' \in BOOLEAN
                   /\ epoch' \in 0 .. Epochs - 1 /\ armedAt' \in 0 .. Epochs - 1
                   /\ cpu' \in {"guest", "stage", "commit", "service", "sample", "chunk"}
                   /\ back' \in {"guest", "service"} /\ left' \in Nat
                   /\ hookIff' \in BOOLEAN /\ ready' \in BOOLEAN /\ fence' \in BOOLEAN
           Vdp  == /\ r10' \in {38, 255} /\ ie1' \in BOOLEAN /\ r8' \in {"pre", "post"}
                   /\ hud' \in HudFlags
<1>2. Rest /\ Vdp => H!TypeOK'
  BY DEF H!TypeOK, HudFlags, H!Lines, H!Split, H!Parked
<1>3. ASSUME UNCHANGED <<r10, ie1, r8, hud>> PROVE Vdp
  BY <1>1, <1>3
<1>4. ASSUME H!ServeLine PROVE Vdp
  BY <1>1, <1>4, Serving DEF HudInv, H!Split, H!Parked
<1>5. H!Begun \in HudFlags /\ ~ H!Begun.armed /\ H!NextEpoch \in 0 .. Epochs - 1
  <2>1. (epoch + 1) % Epochs \in 0 .. Epochs - 1
    BY <1>1, CostsHold
  <2> QED BY <1>1, <2>1 DEF H!Begun, H!NextEpoch, HudFlags
<1>6. ASSUME H!Vblank PROVE Vdp /\ armedAt' \in 0 .. Epochs - 1 /\ epoch' \in 0 .. Epochs - 1
  <2>1. H!Arm(H!Begun, H!NextEpoch) /\ epoch' = H!NextEpoch
    BY <1>6 DEF H!Vblank
  <2> QED BY <1>5, <2>1, Arming DEF HudInv, H!Split, H!Parked
<1>7. CASE H!Tick
  <2>1. left' \in Nat /\ line' \in 0 .. 261
    BY <1>1, <1>7 DEF H!Tick, H!Lines
  <2>2. counter' \in 0 .. 255 /\ hint' \in BOOLEAN /\ vint' \in BOOLEAN
    BY <1>1, <1>7 DEF H!Tick
  <2>3. UNCHANGED <<r10, ie1, r8, hud, epoch, armedAt, cpu, back, hookIff, ready, fence>>
    BY <1>7 DEF H!Tick, H!vdp, H!frame
  <2> QED BY <1>1, <1>2, <1>3, <2>1, <2>2, <2>3
<1>8. CASE H!FrameIrq
  <2>1. /\ UNCHANGED <<line, counter, hookIff, ready, fence>> /\ vint' = FALSE /\ hint' = FALSE
        /\ cpu' \in {"commit", "stage"} /\ back' = cpu /\ left' \in Nat /\ cpu \in {"guest", "service"}
    BY CostsHold, <1>8 DEF H!FrameIrq, H!Acknowledge, H!Taken, H!beam, H!frame
  <2>2. Vdp /\ armedAt' \in 0 .. Epochs - 1 /\ epoch' \in 0 .. Epochs - 1
    BY <1>1, <1>5, <1>6, <1>8 DEF H!FrameIrq, H!vdp
  <2> QED BY <1>1, <1>2, <2>1, <2>2
<1>9. CASE H!LineIrq
  <2>1. /\ UNCHANGED <<line, counter, epoch, armedAt, cpu, left, back, hookIff, ready, fence>>
        /\ vint' = FALSE /\ hint' = FALSE
    BY <1>9 DEF H!LineIrq, H!Acknowledge, H!beam, H!work, H!frame
  <2>2. Vdp
    BY <1>4, <1>9 DEF H!LineIrq
  <2> QED BY <1>1, <1>2, <2>1, <2>2
<1>10. CASE H!Commit
  <2>1. /\ UNCHANGED <<line, counter, vint, hint, epoch, back, hookIff>>
        /\ ready' = FALSE /\ fence' = FALSE /\ cpu' = "stage" /\ left' \in Nat
    BY CostsHold, <1>10 DEF H!Commit, H!beam
  <2>2. PICK split \in BOOLEAN :
           H!Arm([valid |-> TRUE, split |-> split, armed |-> FALSE, served |-> FALSE], epoch)
    BY <1>10 DEF H!Commit
  <2>3. [valid |-> TRUE, split |-> split, armed |-> FALSE, served |-> FALSE] \in HudFlags
    BY DEF HudFlags
  <2>4. Vdp /\ armedAt' \in 0 .. Epochs - 1
    BY <1>1, <2>2, <2>3, Arming DEF HudInv, H!Split, H!Parked
  <2> QED BY <1>1, <1>2, <2>1, <2>4
<1>11. CASE H!Poll
  <2>1. /\ UNCHANGED <<line, counter, back, hookIff, ready, fence>> /\ vint' = FALSE /\ hint' = FALSE
        /\ cpu' = "stage" \/ cpu' = back
        /\ left' \in Nat
    BY CostsHold, <1>11 DEF H!Poll, H!Acknowledge, H!beam, H!frame
  <2>2. Vdp /\ armedAt' \in 0 .. Epochs - 1 /\ epoch' \in 0 .. Epochs - 1
    BY <1>1, <1>3, <1>4, <1>6, <1>11 DEF H!Poll, H!PollLine, H!vdp
  <2> QED BY <1>1, <1>2, <2>1, <2>2
<1>12. CASE H!GuestDi \/ H!Tail \/ H!Prepare
  <2>1. /\ UNCHANGED <<line, counter, vint, hint, r10, ie1, r8, hud, epoch, armedAt, ready, fence>>
        /\ left' \in Nat /\ cpu' \in {"guest", "stage", "service"} /\ back' \in {"guest", "service"}
        /\ hookIff' \in BOOLEAN
    BY <1>1, CostsHold, <1>12 DEF H!GuestDi, H!Tail, H!Prepare, H!Idle, H!beam, H!vdp, H!frame
  <2> QED BY <1>1, <1>2, <1>3, <2>1
<1>13. CASE H!WaitDi
  <2>1. UNCHANGED <<line, counter, vint, hint, epoch, armedAt, cpu, left, back, hookIff, ready, fence>>
    BY <1>13 DEF H!WaitDi, H!beam, H!work, H!frame
  <2>2. Vdp
    BY <1>3, <1>4, <1>13 DEF H!WaitDi, H!PollLine, H!vdp
  <2> QED BY <1>1, <1>2, <2>1, <2>2
<1>14. CASE H!BlankDisplay \/ H!Classify
  <2>1. /\ UNCHANGED <<line, counter, vint, hint, r10, ie1, r8, hud, epoch, armedAt, back, hookIff, ready>>
        /\ fence' \in BOOLEAN /\ left' \in Nat /\ cpu' \in {"service", "sample"}
    <3>1. CASE H!BlankDisplay
      <4>1. /\ UNCHANGED <<line, counter, vint, hint, r10, ie1, r8, hud, epoch, armedAt, back, hookIff, ready>>
            /\ fence' = TRUE /\ left' = left /\ cpu' = cpu /\ cpu = "service"
        BY <3>1 DEF H!BlankDisplay, H!Served, H!beam, H!vdp, H!work
      <4> QED BY <1>1, <4>1
    <3>2. CASE H!Classify
      <4>1. /\ UNCHANGED <<line, counter, vint, hint, r10, ie1, r8, hud, epoch, armedAt, back, hookIff, ready, fence>>
            /\ left' \in 0 .. 1 /\ cpu' = "sample"
        BY <3>2 DEF H!Classify, H!beam, H!vdp, H!frame
      <4> QED BY <1>1, <4>1
    <3> QED BY <1>14, <3>1, <3>2
  <2> QED BY <1>1, <1>2, <1>3, <2>1
<1>15. CASE H!Sample \/ H!ChunkDone
  <2>1. /\ UNCHANGED <<line, counter, vint, hint, r10, ie1, r8, hud, epoch, armedAt, back, hookIff, fence>>
        /\ ready' \in BOOLEAN /\ left' \in Nat /\ cpu' \in {"service", "chunk", "guest"}
    <3>1. CASE H!Sample
      <4>1. /\ UNCHANGED <<line, counter, vint, hint, r10, ie1, r8, hud, epoch, armedAt, back, hookIff, ready, fence>>
            /\ \E b \in Chunks : (cpu' = "chunk" /\ left' = b) \/ (cpu' = "service" /\ left' = 0)
        BY <3>1 DEF H!Sample, H!beam, H!vdp, H!frame
      <4> QED BY <1>1, <4>1, CostsHold
    <3>2. CASE H!ChunkDone
      <4>1. /\ UNCHANGED <<line, counter, vint, hint, r10, ie1, r8, hud, epoch, armedAt, back, hookIff, fence>>
            /\ left' = 0
            /\ (cpu' = "service" /\ ready' = ready) \/ (cpu' = "guest" /\ ready' = TRUE)
        BY <3>2 DEF H!ChunkDone, H!beam, H!vdp
      <4> QED BY <1>1, <4>1
    <3> QED BY <1>15, <3>1, <3>2
  <2> QED BY <1>1, <1>2, <1>3, <2>1
<1>16. CASE UNCHANGED H!vars
  BY <1>1, <1>2, <1>3, <1>16 DEF H!vars, H!beam, H!vdp, H!work, H!frame
<1> QED BY <1>7, <1>8, <1>9, <1>10, <1>11, <1>12, <1>13, <1>14, <1>15, <1>16 DEF H!Next

\* The ranges the steps below reason with.
LEMMA HudRanges ==
    ASSUME HudInv
    PROVE  /\ line \in 0 .. 261 /\ left \in Nat /\ counter \in 0 .. 255
           /\ vint \in BOOLEAN /\ hint \in BOOLEAN /\ hud \in HudFlags
           /\ hookIff \in BOOLEAN /\ fence \in BOOLEAN
           /\ cpu \in {"guest", "stage", "commit", "service", "sample", "chunk"}
           /\ Links /\ Steps /\ Counting /\ Drawn /\ Chunking
BY DEF HudInv, H!TypeOK, HudFlags, H!Lines, H!Parked

HudLinked == Links /\ Steps /\ Counting /\ Drawn /\ Chunking

\* The line at which m more lines end.
ReachOf(l, m) == IF l >= 224 THEN l + m - 262 ELSE l + m

\* A step on the processor alone: it stays where it is, or goes on for m lines
\* that the split or the blank has room for.
Apart(m) ==
    /\ UNCHANGED <<line, counter, vint, r10, ie1, r8, hud, fence>> /\ left' = m
    /\ hint' = hint \/ (hint' = FALSE /\ line \notin 38 .. 223)
    /\ cpu # "commit" /\ cpu' # "commit"
    /\ cpu' = "service" => m = 0 /\ (hookIff' \/ fence \/ ~ vint)
    /\ cpu' = "sample" => m <= 1
    /\ cpu' = "stage" /\ back' = "service" => hookIff'
    /\ cpu' \in {"sample", "chunk"} => hookIff' \/ fence
Room(m) ==
    /\ hud.armed /\ ~ fence =>
          \/ cpu' = cpu /\ m = left
          \/ m = 0 /\ ~ vint /\ line # 224
          \/ m <= HeldBack /\ ~ vint /\ line # 224 /\ line \notin 38 .. 223
          \/ cpu' = "chunk" /\ ~ vint /\ line # 224
    /\ ~ fence /\ hud.valid /\ hud.split =>
          \/ m = left \/ m = 0
          \/ m <= 34 /\ ~ vint
          \/ cpu' = "chunk" /\ ~ vint
    /\ cpu' = "chunk" /\ ~ fence /\ hud.valid /\ hud.split =>
          /\ ~ vint
          /\ \/ hud.armed /\ ReachOf(line, m) < 38
             \/ ~ hud.armed /\ line >= 38 /\ line + m < 224

LEMMA ProcessorStep ==
    ASSUME HudInv, NEW m \in Nat, Apart(m), Room(m)
    PROVE  HudLinked'
<1> USE DEF H!Lines, H!Split, H!Blank, ArmingEnd
<1>1. /\ line \in 0 .. 261 /\ left \in Nat /\ hud \in HudFlags /\ vint \in BOOLEAN
      /\ Links /\ Steps /\ Counting /\ Drawn /\ Chunking
  BY HudRanges
<1>2. HeldBack \in 1 .. 34 /\ line \in 0 .. 261 /\ left \in Nat
  BY <1>1, CostsHold
<1>3. /\ UNCHANGED <<line, counter, vint, r10, ie1, r8, hud, fence>> /\ left' = m
      /\ hint' = hint \/ (hint' = FALSE /\ line \notin 38 .. 223)
  BY DEF Apart
<1>4. Links'
  BY <1>1, <1>3 DEF Links, Apart
<1>5. Steps'
  BY <1>3 DEF Steps, Apart
<1>6. Reach' = ReachOf(line, m) /\ Reach = ReachOf(line, left)
  BY <1>3 DEF Reach, ReachOf
<1>7. Counting'
  <2> SUFFICES ASSUME hud.armed, ~ fence
               PROVE  /\ line > 258 => counter = 38
                      /\ line < 38 => counter = 38 - 1 - line
                      /\ line >= 224 \/ line < 38 => ~ hint'
                      /\ line \in 38 .. 223 => hint'
                      /\ line = 224 => cpu' = "stage" /\ m > 0
                      /\ vint => cpu' = "stage"
                      /\ ReachOf(line, m) < 38 + HeldBack
    BY <1>3, <1>6 DEF Counting
  <2>1. /\ line > 258 => counter = 38
        /\ line < 38 => counter = 38 - 1 - line
        /\ line >= 224 \/ line < 38 => ~ hint
        /\ line \in 38 .. 223 => hint
        /\ line = 224 => cpu = "stage" /\ left > 0
        /\ vint => cpu = "stage"
        /\ ReachOf(line, left) < 38 + HeldBack
    BY <1>1, <1>6 DEF Counting
  <2>2. \/ cpu' = cpu /\ m = left
        \/ m = 0 /\ ~ vint /\ line # 224
        \/ m <= HeldBack /\ ~ vint /\ line # 224 /\ line \notin 38 .. 223
        \/ cpu' = "chunk" /\ ~ vint /\ line # 224
    BY DEF Room
  <2>3. hud.valid /\ hud.split
    BY <1>1 DEF Links
  <2>4. ReachOf(line, m) < 38 + HeldBack
    <3>1. CASE m = left \/ m = 0
      <4>1. m <= left /\ ReachOf(line, left) < 38 + HeldBack
        BY <1>2, <2>1, <3>1
      <4> QED BY <1>2, <4>1 DEF ReachOf
    <3>2. CASE m <= HeldBack /\ line \notin 38 .. 223
      BY <1>2, <3>2 DEF ReachOf
    <3>3. CASE cpu' = "chunk" /\ line # 224
      <4>1. ReachOf(line, m) < 38
        BY <2>3, <3>3 DEF Room
      <4> QED BY <1>2, <4>1 DEF ReachOf
    <3> QED BY <2>2, <3>1, <3>2, <3>3
  <2> QED BY <1>2, <1>3, <2>1, <2>2, <2>4
<1>8. Drawn'
  <2> SUFFICES ASSUME ~ fence, hud.valid, hud.split
               PROVE  /\ line < 38 => hud.armed
                      /\ line > 224 => vint \/ hud.armed
                      /\ vint => line > 224 /\ line + m <= 258
                      /\ line \in 38 .. 224 => line + m <= 258
    BY <1>3 DEF Drawn, Apart
  <2>1. /\ line < 38 => hud.armed
        /\ line > 224 => vint \/ hud.armed
        /\ vint => line > 224 /\ line + left <= 258
        /\ line \in 38 .. 224 => line + left <= 258
    BY <1>1 DEF Drawn, Apart
  <2>2. CASE m = left \/ m = 0
    <3>1. m <= left
      BY <1>2, <2>2
    <3> QED BY <1>2, <2>1, <3>1
  <2>3. CASE m <= 34 /\ ~ vint
    BY <1>2, <2>1, <2>3
  <2>4. CASE cpu' = "chunk" /\ ~ vint
    <3>1. (hud.armed /\ ReachOf(line, m) < 38) \/ (line >= 38 /\ line + m < 224)
      BY <2>4 DEF Room
    <3>2. line < 224 => line + m <= 258
      BY <1>2, <3>1 DEF ReachOf
    <3>3. line = 224 => ~ hud.armed
      BY <1>1, <2>4 DEF Counting, Room
    <3>4. line = 224 => line + m <= 258
      BY <1>2, <3>1, <3>3
    <3> QED BY <1>2, <2>1, <2>4, <3>2, <3>4
  <2> QED BY <2>2, <2>3, <2>4 DEF Room
<1>9. Chunking'
  BY <1>3, <1>6 DEF Chunking, Room
<1> QED BY <1>4, <1>5, <1>7, <1>8, <1>9 DEF HudLinked

\* While the split is armed and no interrupt waits, the beam is short of it.
LEMMA ShortOfSplit ==
    ASSUME HudInv, hud.armed, ~ fence
    PROVE  /\ ~ H!Pending => ~ vint /\ line \notin 38 .. 223
           /\ cpu # "stage" => ~ vint /\ line # 224
BY HudRanges DEF Links, Counting, H!Pending, H!Split, H!Blank

LEMMA ProcessorSteps ==
    ASSUME HudInv, H!GuestDi \/ H!Tail \/ H!Prepare \/ H!Classify \/ H!ChunkDone
    PROVE  HudLinked'
<1>1. HeldBack \in 1 .. 34 /\ GuestLines \in 0 .. HeldBack /\ StageLines \in 0 .. HeldBack
  BY CostsHold
<1>2. Steps /\ Chunking /\ left \in Nat
  BY HudRanges
<1>3. CASE H!GuestDi
  <2>1. PICK m \in 1 .. GuestLines : left' = m
    BY <1>3 DEF H!GuestDi
  <2>2. /\ UNCHANGED <<line, counter, vint, hint, r10, ie1, r8, hud, fence, cpu, back, hookIff>>
        /\ cpu = "guest" /\ ~ H!Pending
    BY <1>3 DEF H!GuestDi, H!Idle, H!beam, H!vdp, H!frame
  <2>3. m \in Nat /\ m <= HeldBack /\ m <= 34
    BY <1>1
  <2>4. Apart(m)
    BY <2>1, <2>2 DEF Apart
  <2>5. Room(m)
    BY <2>2, <2>3, ShortOfSplit DEF Room, H!Pending
  <2> QED BY <2>3, <2>4, <2>5, ProcessorStep
<1>4. CASE H!Tail
  <2>1. PICK m \in 0 .. StageLines : left' = m
    BY <1>4 DEF H!Tail
  <2>2. /\ UNCHANGED <<line, counter, vint, hint, r10, ie1, r8, hud, fence, hookIff>>
        /\ cpu = "guest" /\ ~ H!Pending /\ cpu' = "stage" /\ back' = "guest"
    BY <1>4 DEF H!Tail, H!Idle, H!beam, H!vdp, H!frame
  <2>3. m \in Nat /\ m <= HeldBack /\ m <= 34
    BY <1>1
  <2>4. Apart(m)
    BY <2>1, <2>2 DEF Apart
  <2>5. Room(m)
    BY <2>2, <2>3, ShortOfSplit DEF Room, H!Pending
  <2> QED BY <2>3, <2>4, <2>5, ProcessorStep
<1>5. CASE H!Prepare
  <2>1. /\ UNCHANGED <<line, counter, vint, hint, r10, ie1, r8, hud, fence>>
        /\ cpu = "guest" /\ ~ H!Pending /\ cpu' = "service" /\ left' = 0
    BY <1>5 DEF H!Prepare, H!Idle, H!beam, H!vdp
  <2>2. Apart(0)
    BY <2>1 DEF Apart, H!Pending
  <2>3. Room(0)
    BY <2>1, ShortOfSplit DEF Room
  <2> QED BY <2>2, <2>3, ProcessorStep
<1>6. CASE H!Classify
  <2>1. PICK m \in 0 .. 1 : left' = m
    BY <1>6 DEF H!Classify
  <2>2. /\ UNCHANGED <<line, counter, vint, hint, r10, ie1, r8, hud, fence, hookIff>>
        /\ cpu = "service" /\ (hookIff \/ fence) /\ cpu' = "sample" /\ (hookIff => ~ H!Pending)
    BY <1>6 DEF H!Classify, H!Served, H!beam, H!vdp, H!frame
  <2>3. m \in Nat /\ m <= HeldBack /\ m <= 34 /\ m <= 1
    BY <1>1
  <2>4. Apart(m)
    BY <2>1, <2>2, <2>3 DEF Apart
  <2>5. Room(m)
    BY <2>2, <2>3, ShortOfSplit DEF Room, H!Pending
  <2> QED BY <2>3, <2>4, <2>5, ProcessorStep
<1>7. CASE H!ChunkDone
  <2>1. /\ UNCHANGED <<line, counter, vint, hint, r10, ie1, r8, hud, fence>>
        /\ cpu = "chunk" /\ cpu' \in {"service", "guest"} /\ left' = 0
    BY <1>7 DEF H!ChunkDone, H!beam, H!vdp
  <2>4. (hookIff \/ fence) /\ hookIff' = hookIff
    BY <1>2, <1>7, <2>1 DEF H!ChunkDone, Steps
  <2>2. Apart(0)
    BY <1>2, <2>1, <2>4 DEF Apart
  <2>3. Room(0)
    BY <2>1, ShortOfSplit DEF Room
  <2> QED BY <2>2, <2>3, ProcessorStep
<1> QED BY <1>3, <1>4, <1>5, <1>6, <1>7

\* rt_cv1_hud_try_chunk admits no step that the split or the blank would have
\* to wait for.
LEMMA AdmittedFits ==
    ASSUME HudInv, cpu = "sample", NEW b \in Nat, H!Admits(b), ~ fence, hud.valid, hud.split
    PROVE  /\ ~ vint
           /\ \/ hud.armed /\ ReachOf(line, b) < 38
              \/ ~ hud.armed /\ line >= 38 /\ line + b < 224
<1>1. line \in 0 .. 261 /\ Links /\ Drawn /\ vint \in BOOLEAN
  BY HudRanges
<1>2. /\ H!VCounter \in Nat /\ (line < 224 => H!VCounter = line) /\ (line >= 224 <=> H!VCounter >= 224)
  BY <1>1, Beam
<1>3. \/ H!VCounter >= 224 /\ hud.armed /\ b + 2 < 38
      \/ H!VCounter \in 38 .. 223 /\ hud.served /\ H!VCounter + b + 2 < 224
      \/ H!VCounter < 38 /\ hud.armed /\ H!VCounter + b + 2 < 38
  BY DEF H!Admits, H!Fits, H!Reserve, H!Split, H!Blank
<1>4. CASE H!VCounter >= 224 /\ hud.armed /\ b + 2 < 38
  <2>1. line >= 224 /\ ~ vint
    BY <1>2, <1>4, ShortOfSplit
  <2>2. ReachOf(line, b) < 38
    BY <1>1, <1>4, <2>1 DEF ReachOf
  <2> QED BY <1>4, <2>1, <2>2
<1>5. CASE H!VCounter \in 38 .. 223 /\ hud.served /\ H!VCounter + b + 2 < 224
  <2>1. line < 224 /\ H!VCounter = line
    BY <1>1, <1>2, <1>5
  <2>2. line >= 38 /\ line + b < 224
    BY <1>1, <1>5, <2>1
  <2>3. ~ hud.armed
    BY <1>1, <1>5 DEF Links
  <2>4. ~ vint
    BY <1>1, <2>1 DEF Drawn, H!Blank
  <2> QED BY <2>2, <2>3, <2>4
<1>6. CASE H!VCounter < 38 /\ hud.armed /\ H!VCounter + b + 2 < 38
  <2>1. line < 224 /\ H!VCounter = line
    BY <1>1, <1>2, <1>6
  <2>2. ReachOf(line, b) < 38 /\ ~ vint
    BY <1>1, <1>6, <2>1, ShortOfSplit DEF ReachOf
  <2> QED BY <1>6, <2>2
<1> QED BY <1>3, <1>4, <1>5, <1>6

LEMMA SampleStep == ASSUME HudInv, H!Sample PROVE HudLinked'
<1>1. Steps /\ left \in Nat
  BY HudRanges
<1>2. PICK b \in Chunks : IF H!Admits(b) THEN cpu' = "chunk" /\ left' = b ELSE cpu' = "service" /\ left' = 0
  BY DEF H!Sample
<1>3. b \in Nat
  BY CostsHold
<1>4. /\ UNCHANGED <<line, counter, vint, hint, r10, ie1, r8, hud, fence, hookIff>> /\ cpu = "sample"
      /\ hookIff \/ fence
  BY <1>1 DEF H!Sample, H!beam, H!vdp, H!frame, Steps
<1>5. CASE H!Admits(b)
  <2>1. cpu' = "chunk" /\ left' = b
    BY <1>2, <1>5
  <2>2. Apart(b)
    BY <1>4, <2>1 DEF Apart
  <2>3. hud.armed => hud.valid /\ hud.split
    BY HudRanges DEF Links
  <2>4. Room(b)
    BY <1>3, <1>4, <1>5, <2>1, <2>3, AdmittedFits, ShortOfSplit DEF Room
  <2> QED BY <1>3, <2>2, <2>4, ProcessorStep
<1>6. CASE ~ H!Admits(b)
  <2>1. cpu' = "service" /\ left' = 0
    BY <1>2, <1>6
  <2>2. Apart(0)
    BY <1>4, <2>1 DEF Apart
  <2>3. Room(0)
    BY <1>4, <2>1, ShortOfSplit DEF Room
  <2> QED BY <2>2, <2>3, ProcessorStep
<1> QED BY <1>5, <1>6

\* The display goes dark: what is said of a picture no longer holds anything up.
LEMMA BlankStep == ASSUME HudInv, H!BlankDisplay PROVE HudLinked'
<1>1. Links /\ Steps
  BY HudRanges
<1>2. /\ UNCHANGED <<line, vint, hint, r10, ie1, r8, hud, cpu, left, back, hookIff>>
      /\ fence' = TRUE /\ cpu = "service"
  BY DEF H!BlankDisplay, H!Served, H!beam, H!vdp, H!work
<1>3. Links'
  BY <1>1, <1>2 DEF Links
<1>4. Steps'
  BY <1>1, <1>2 DEF Steps
<1>5. Counting' /\ Drawn' /\ Chunking'
  BY <1>2 DEF Counting, Drawn, Chunking
<1> QED BY <1>3, <1>4, <1>5 DEF HudLinked

\* The split is served in the lines of the playfield.
Serves(m) ==
    /\ UNCHANGED <<line, vint, fence>> /\ left' = m
    /\ cpu # "commit" /\ cpu' \notin {"commit", "sample", "chunk"}
    /\ cpu' = "service" => m = 0 /\ (hookIff' \/ fence \/ ~ vint)
    /\ cpu' = "stage" /\ back' = "service" => hookIff'
    /\ hud.armed /\ ~ fence => line \in 38 .. 223
    /\ ~ fence /\ hud.valid /\ hud.split => m = left \/ (m <= 34 /\ ~ vint)

LEMMA ServeStep ==
    ASSUME HudInv, NEW m \in Nat, H!ServeLine, Serves(m)
    PROVE  HudLinked'
<1> USE DEF H!Lines, H!Split, H!Blank, ArmingEnd
<1>1. /\ line \in 0 .. 261 /\ left \in Nat /\ vint \in BOOLEAN
      /\ Links /\ Drawn
  BY HudRanges
<1>2. /\ hud' \in HudFlags /\ ~ hud'.armed /\ hud'.valid = hud.valid /\ hud'.split = hud.split
      /\ r8' = "post" \/ (~ hud.armed /\ r8' = r8)
      /\ ~ hud.armed => UNCHANGED <<hud, r8, r10, ie1>>
  BY Serving DEF HudInv
<1>3. UNCHANGED <<line, vint, fence>> /\ left' = m /\ cpu # "commit"
  BY DEF Serves
<1>4. Links'
  BY <1>1, <1>2, <1>3 DEF Links
<1>5. Steps'
  BY <1>3 DEF Steps, Serves
<1>6. Counting'
  BY <1>2 DEF Counting
<1>7. Drawn'
  <2> SUFFICES ASSUME ~ fence, hud.valid, hud.split
               PROVE  /\ ~ (line < 38)
                      /\ line > 224 => vint
                      /\ vint => line > 224 /\ line + m <= 258
                      /\ line \in 38 .. 224 => line + m <= 258
    BY <1>2, <1>3 DEF Drawn
  <2>1. /\ line < 38 => hud.armed
        /\ line > 224 => vint \/ hud.armed
        /\ vint => line > 224 /\ line + left <= 258
        /\ line \in 38 .. 224 => line + left <= 258
    BY <1>1, <1>3 DEF Drawn
  <2>2. /\ hud.armed => line \in 38 .. 223
        /\ m = left \/ (m <= 34 /\ ~ vint)
    BY DEF Serves
  <2> QED BY <1>1, <2>1, <2>2
<1>8. Chunking'
  BY DEF Chunking, Serves
<1> QED BY <1>4, <1>5, <1>6, <1>7, <1>8 DEF HudLinked

LEMMA LineIrqStep == ASSUME HudInv, H!LineIrq PROVE HudLinked'
<1>1. Steps /\ Counting /\ left \in Nat /\ line \in 0 .. 261
  BY HudRanges
<1>2. /\ UNCHANGED <<line, vint, fence, cpu, back, hookIff>> /\ left' = left /\ ~ vint /\ hint
      /\ H!ServeLine /\ cpu \in {"guest", "service"}
  BY HudRanges DEF H!LineIrq, H!Taken, H!Pending, H!Acknowledge, H!beam, H!work, H!frame
<1>3. hud.armed /\ ~ fence => line \in 38 .. 223
  BY <1>1, <1>2 DEF Counting, H!Split, H!Blank
<1>4. Serves(left)
  BY <1>1, <1>2, <1>3 DEF Serves, Steps
<1> QED BY <1>1, <1>2, <1>4, ServeStep

LEMMA WaitDiStep == ASSUME HudInv, H!WaitDi PROVE HudLinked'
<1>1. Steps /\ left \in Nat /\ line \in 0 .. 261 /\ Links /\ Drawn /\ Counting
  BY HudRanges
<1>2. /\ UNCHANGED <<line, counter, vint, hint, fence, cpu, left, back, hookIff>>
      /\ cpu = "service" /\ H!PollLine
  BY DEF H!WaitDi, H!beam, H!work, H!frame
<1>3. CASE H!VCounter \in 38 .. 223
  <2>1. H!ServeLine
    BY <1>2, <1>3 DEF H!PollLine, H!Split, H!Blank
  <2>2. line \in 38 .. 223
    BY <1>1, <1>3, Beam
  <2>3. Serves(left)
    BY <1>1, <1>2, <2>2 DEF Serves, Steps
  <2> QED BY <1>1, <2>1, <2>3, ServeStep
<1>4. CASE H!VCounter \notin 38 .. 223
  <2>1. UNCHANGED <<r10, ie1, r8, hud>>
    BY <1>2, <1>4 DEF H!PollLine, H!vdp, H!Split, H!Blank
  <2>2. Apart(left)
    BY <1>1, <1>2, <2>1 DEF Apart, Steps
  <2>3. Room(left)
    BY <1>2 DEF Room
  <2> QED BY <1>1, <2>2, <2>3, ProcessorStep
<1> QED BY <1>3, <1>4

\* rt_cv1_hud_vblank arms the split of the next picture in time.
Vblanks(m) ==
    /\ UNCHANGED <<line, fence>> /\ left' = m /\ vint /\ left = 0
    /\ vint' = FALSE /\ hint' = FALSE
    /\ cpu # "commit" /\ cpu' \notin {"commit", "sample", "chunk"}
    /\ cpu' = "service" => m = 0
    /\ cpu' = "stage" /\ back' = "service" => hookIff'
    /\ m <= 34

LEMMA VblankStep ==
    ASSUME HudInv, NEW m \in Nat, H!Vblank, Vblanks(m)
    PROVE  HudLinked'
<1> USE DEF H!Lines, H!Split, H!Blank, ArmingEnd
<1>1. /\ line \in 0 .. 261 /\ left \in Nat /\ vint /\ left = 0 /\ hud \in HudFlags
      /\ Links /\ Drawn
  BY HudRanges DEF Vblanks
<1>2. /\ UNCHANGED <<line, fence>> /\ left' = m /\ vint' = FALSE /\ hint' = FALSE
      /\ cpu # "commit" /\ cpu' \notin {"commit", "sample", "chunk"} /\ m <= 34
  BY DEF Vblanks
<1>3. /\ H!Begun \in HudFlags /\ ~ H!Begun.armed
      /\ H!Begun.valid = hud.valid /\ H!Begun.split = hud.split
  BY <1>1 DEF H!Begun, HudFlags
<1>4. H!NextEpoch \in 0 .. Epochs - 1
  <2>1. epoch \in 0 .. Epochs - 1
    BY DEF HudInv, H!TypeOK
  <2> QED BY <2>1, CostsHold DEF H!NextEpoch
<1>5. /\ hud' \in HudFlags /\ hud'.valid = hud.valid /\ hud'.split = hud.split
      /\ hud'.armed <=> (hud.valid /\ hud.split /\ line \in 224 .. 258)
      /\ hud'.armed => ~ hud'.served /\ ie1' /\ r10' = 38 /\ r8' = "pre"
      /\ ~ hud'.armed => r8' = "post" \/ (~ hud.valid /\ r8' = r8)
  <2>1. H!Arm(H!Begun, H!NextEpoch)
    BY DEF H!Vblank
  <2>2. H!TypeOK
    BY DEF HudInv
  <2> HIDE DEF H!Lines, H!Blank
  <2> QED BY <1>3, <1>4, <2>1, <2>2, Arming
<1>6. Links'
  BY <1>1, <1>2, <1>5 DEF Links
<1>7. Steps'
  BY <1>2 DEF Steps, Vblanks
<1>8. ~ fence /\ hud.valid /\ hud.split => line \in 225 .. 258
  BY <1>1 DEF Drawn
<1>9. Reach' = ReachOf(line, m)
  BY <1>2 DEF Reach, ReachOf
<1>10. line \in 224 .. 258 => ReachOf(line, m) < 38
  BY <1>1, <1>2 DEF ReachOf
<1>11. Counting'
  <2> SUFFICES ASSUME hud'.armed, ~ fence
               PROVE  Counting'
    BY <1>2 DEF Counting
  <2>1. line \in 225 .. 258
    BY <1>5, <1>8
  <2>2. ReachOf(line, m) < 38 + HeldBack
    <3>1. ReachOf(line, m) \in Int
      BY <1>1 DEF ReachOf
    <3> QED BY <1>10, <2>1, <3>1, CostsHold
  <2> QED BY <1>2, <1>9, <2>1, <2>2 DEF Counting
<1>12. Drawn'
  BY <1>2, <1>5, <1>8 DEF Drawn
<1>13. Chunking'
  BY <1>2 DEF Chunking
<1> QED BY <1>6, <1>7, <1>11, <1>12, <1>13 DEF HudLinked

LEMMA FrameIrqStep == ASSUME HudInv, H!FrameIrq PROVE HudLinked'
<1> USE DEF H!Lines, H!Split, H!Blank, ArmingEnd
<1>1. /\ line \in 0 .. 261 /\ left = 0 /\ vint /\ hud \in HudFlags /\ Links
      /\ cpu \in {"guest", "service"} /\ (cpu = "service" => hookIff)
      /\ UNCHANGED <<line, fence, hookIff>> /\ vint' = FALSE /\ hint' = FALSE /\ back' = cpu
  BY HudRanges DEF H!FrameIrq, H!Taken, H!Acknowledge, H!beam, H!frame
<1>2. CASE ready /\ H!EarlyBlank(4)
  <2>1. /\ hud' = H!Begun /\ cpu' = "commit" /\ UNCHANGED <<r10, ie1, r8>>
        /\ left' \in 0 .. CommitLines
    BY <1>2 DEF H!FrameIrq, H!vdp
  <2>2. PICK m \in 0 .. CommitLines : left' = m
    BY <2>1
  <2>3. line \in 224 .. 227
    BY <1>1, <1>2, Beam
  <2>4. ~ hud'.armed /\ hud'.valid = hud.valid /\ hud'.split = hud.split
    BY <1>1, <2>1 DEF H!Begun, HudFlags
  <2>5. m \in Nat /\ CommitLines \in Nat /\ m <= CommitLines /\ CommitLines < 32
    BY CostsHold
  <2>6. Links'
    BY <1>1, <2>1, <2>4 DEF Links
  <2>7. Steps'
    <3>1. /\ line >= 224 /\ line + m <= 227 + CommitLines
          /\ line = 224 => line + m <= 224 + CommitLines
      BY <2>3, <2>5
    <3> QED BY <1>1, <2>1, <2>2, <3>1 DEF Steps
  <2>8. Counting'
    BY <2>4 DEF Counting
  <2>9. Drawn'
    <3>1. line = 224 => line + m <= 258
      BY <2>5
    <3>2. ~ (line < 38) /\ (line \in 38 .. 224 => line = 224)
      BY <2>3
    <3> QED BY <1>1, <2>1, <2>2, <3>1, <3>2 DEF Drawn
  <2>10. Chunking'
    BY <2>1 DEF Chunking
  <2> QED BY <2>6, <2>7, <2>8, <2>9, <2>10 DEF HudLinked
<1>3. CASE ~ (ready /\ H!EarlyBlank(4))
  <2>1. H!Vblank /\ cpu' = "stage" /\ left' \in 0 .. StageLines
    BY <1>3 DEF H!FrameIrq
  <2>2. PICK m \in 0 .. StageLines : left' = m
    BY <2>1
  <2>3. m \in Nat /\ m <= 34
    BY CostsHold
  <2>4. Vblanks(m)
    BY <1>1, <2>1, <2>2, <2>3 DEF Vblanks
  <2> QED BY <2>1, <2>3, <2>4, VblankStep
<1> QED BY <1>2, <1>3

LEMMA PollStep == ASSUME HudInv, H!Poll PROVE HudLinked'
<1>1. /\ line \in 0 .. 261 /\ left \in Nat /\ vint \in BOOLEAN
      /\ Links /\ Steps /\ Counting /\ Drawn
  BY HudRanges
<1>2. /\ UNCHANGED <<line, counter, fence, back, hookIff>> /\ left = 0 /\ cpu = "stage"
      /\ vint' = FALSE /\ hint' = FALSE
      /\ (cpu' = "stage" /\ left' \in 0 .. StageLines) \/ (cpu' = back /\ left' = 0)
      /\ back \in {"guest", "service"} /\ (back = "service" => hookIff)
  BY <1>1 DEF H!Poll, H!Acknowledge, H!beam, H!frame, HudInv, H!TypeOK, Steps
<1>3. 0 \in 0 .. StageLines
  BY CostsHold
<1>4. PICK m \in 0 .. StageLines : left' = m /\ (cpu' = "stage" \/ (cpu' = back /\ m = 0))
  BY <1>2, <1>3
<1>5. m \in Nat /\ m <= 34 /\ m <= HeldBack
  BY CostsHold
<1>9. ~ vint => vint' = vint
  BY <1>1, <1>2
<1>6. CASE vint
  <2>1. H!Vblank
    BY <1>6 DEF H!Poll
  <2>2. Vblanks(m)
    BY <1>2, <1>4, <1>5, <1>6 DEF Vblanks
  <2> QED BY <1>5, <2>1, <2>2, VblankStep
<1>7. CASE ~ vint /\ H!VCounter \in 38 .. 223
  <2>1. H!ServeLine
    BY <1>7 DEF H!Poll, H!PollLine, H!Split, H!Blank
  <2>2. line \in 38 .. 223
    BY <1>1, <1>7, Beam
  <2>3. Serves(m)
    BY <1>2, <1>4, <1>5, <1>7, <1>9, <2>2 DEF Serves
  <2> QED BY <1>5, <2>1, <2>3, ServeStep
<1>8. CASE ~ vint /\ H!VCounter \notin 38 .. 223
  <2>1. UNCHANGED <<r10, ie1, r8, hud>>
    BY <1>8 DEF H!Poll, H!PollLine, H!vdp, H!Split, H!Blank
  <2>2. line \notin 38 .. 223
    BY <1>1, <1>8, Beam
  <2>3. hud.armed /\ ~ fence => line # 224
    BY <1>1, <1>2 DEF Counting, H!Blank
  <2>4. Apart(m)
    BY <1>2, <1>4, <1>8, <1>9, <2>1, <2>2 DEF Apart
  <2>5. Room(m)
    BY <1>2, <1>4, <1>5, <1>8, <2>2, <2>3 DEF Room
  <2> QED BY <1>5, <2>4, <2>5, ProcessorStep
<1> QED BY <1>6, <1>7, <1>8

LEMMA CommitStep == ASSUME HudInv, H!Commit PROVE HudLinked'
<1> USE DEF H!Lines, H!Split, H!Blank, ArmingEnd
<1>1. /\ line \in 0 .. 261 /\ left \in Nat /\ vint \in BOOLEAN /\ Steps
  BY HudRanges
<1>2. /\ UNCHANGED <<line, counter, vint, hint, back, hookIff>> /\ left = 0 /\ cpu = "commit"
      /\ fence' = FALSE /\ cpu' = "stage" /\ left' \in SatLines .. SatLines + StageLines
  BY DEF H!Commit, H!beam
<1>3. PICK m \in SatLines .. SatLines + StageLines : left' = m
  BY <1>2
<1>4. /\ m \in Nat /\ m > 0 /\ m <= 34 /\ CommitLines \in Nat
      /\ m + CommitLines < 35 /\ CommitLines < 32
  BY CostsHold
<1>5. /\ line \in 224 .. 258 /\ ~ hint /\ (vint => line > 224)
      /\ vint \/ line = 224 => line <= 224 + CommitLines
      /\ back = "service" => hookIff
  BY <1>1, <1>2, <1>4 DEF Steps
<1>6. PICK split \in BOOLEAN :
         H!Arm([valid |-> TRUE, split |-> split, armed |-> FALSE, served |-> FALSE], epoch)
  BY DEF H!Commit
<1>7. /\ hud' \in HudFlags /\ hud'.valid = TRUE /\ hud'.split = split
      /\ hud'.armed <=> split
      /\ hud'.armed => ~ hud'.served /\ ie1' /\ r10' = 38 /\ r8' = "pre"
      /\ ~ hud'.armed => r8' = "post"
  <2> DEFINE h == [valid |-> TRUE, split |-> split, armed |-> FALSE, served |-> FALSE]
  <2>1. h \in HudFlags /\ h.valid = TRUE /\ h.split = split /\ h.armed = FALSE
    BY DEF HudFlags
  <2>2. H!TypeOK /\ epoch \in 0 .. Epochs - 1
    BY DEF HudInv, H!TypeOK
  <2>3. H!Arm(h, epoch)
    BY <1>6
  <2> HIDE DEF h, H!Lines, H!Blank, H!Split
  <2>4. /\ hud' \in HudFlags /\ hud'.valid = h.valid /\ hud'.split = h.split
        /\ hud'.armed <=> (h.valid /\ h.split /\ line \in 224 .. 258)
        /\ hud'.armed => ~ hud'.served /\ ie1' /\ r10' = H!Split /\ r8' = "pre"
        /\ ~ hud'.armed => r8' = "post" \/ (~ h.valid /\ r8' = r8)
    BY <2>1, <2>2, <2>3, Arming
  <2> QED BY <1>5, <2>1, <2>4 DEF H!Split
<1>8. Links'
  BY <1>2, <1>7 DEF Links
<1>9. Steps'
  BY <1>2, <1>5 DEF Steps
<1>10. line + m <= 258 \/ ~ (vint \/ line = 224)
  BY <1>4, <1>5
<1>11. Reach' = ReachOf(line, m)
  BY <1>2, <1>3 DEF Reach, ReachOf
<1>12. ReachOf(line, m) < 38 + HeldBack
  BY <1>4, <1>5, CostsHold DEF ReachOf
<1>13. Counting'
  BY <1>2, <1>3, <1>4, <1>5, <1>7, <1>11, <1>12 DEF Counting
<1>14. Drawn'
  <2>1. ~ (line < 38) /\ (line \in 38 .. 224 => line = 224)
    BY <1>5
  <2> QED BY <1>2, <1>3, <1>5, <1>7, <1>10, <2>1 DEF Drawn
<1>15. Chunking'
  BY <1>2 DEF Chunking
<1> QED BY <1>8, <1>9, <1>13, <1>14, <1>15 DEF HudLinked

\* What the beam moving to line l, with m lines left of the work in hand, does.
Ticks(l, m) ==
    /\ UNCHANGED <<r10, ie1, r8, hud, cpu, back, hookIff, fence>>
    /\ line' = l /\ left' = m
    /\ IF line = 261 THEN l = 0 ELSE l = line + 1
    /\ IF left > 0 THEN m = left - 1 ELSE m = 0
    /\ l > 224 => counter' = r10
    /\ l <= 224 /\ counter # 0 => counter' = counter - 1
    /\ hint' <=> (hint \/ (l <= 224 /\ counter = 0))
    /\ vint' <=> (vint \/ l = 225)
    /\ hint' \in BOOLEAN /\ vint' \in BOOLEAN

LEMMA TickDoes ==
    ASSUME HudInv, H!Tick
    PROVE  \E l \in 0 .. 261, m \in Nat : Ticks(l, m)
<1>1. line \in 0 .. 261 /\ left \in Nat /\ counter \in 0 .. 255 /\ vint \in BOOLEAN /\ hint \in BOOLEAN
  BY HudRanges
<1> DEFINE l == IF line = 261 THEN 0 ELSE line + 1
           m == IF left > 0 THEN left - 1 ELSE 0
<1>2. l \in 0 .. 261 /\ m \in Nat /\ (line + 1) % 262 = l
  BY <1>1
<1>3. /\ UNCHANGED <<r10, ie1, r8, hud, cpu, back, hookIff, fence>>
      /\ line' = l /\ left' = m
      /\ counter' = (IF l > 224 \/ counter = 0 THEN r10 ELSE counter - 1)
      /\ hint' = (hint \/ (l <= 224 /\ counter = 0))
      /\ vint' = (vint \/ l = 225)
  BY <1>2 DEF H!Tick, H!vdp, H!frame, H!Lines, H!Blank
<1>4. IF line = 261 THEN l = 0 ELSE l = line + 1
  OBVIOUS
<1>5. IF left > 0 THEN m = left - 1 ELSE m = 0
  OBVIOUS
<1>6. (l > 224 => counter' = r10) /\ (l <= 224 /\ counter # 0 => counter' = counter - 1)
  <2> HIDE DEF l, m
  <2> QED BY <1>2, <1>3
<1>7. /\ hint' <=> (hint \/ (l <= 224 /\ counter = 0))
      /\ vint' <=> (vint \/ l = 225)
      /\ hint' \in BOOLEAN /\ vint' \in BOOLEAN
  <2> HIDE DEF l, m
  <2> QED BY <1>1, <1>3
<1> HIDE DEF l, m
<1>8. Ticks(l, m)
  BY <1>3, <1>4, <1>5, <1>6, <1>7 DEF Ticks
<1> QED BY <1>2, <1>8

\* Where the processor lets the beam move while it has nothing left to do.
LEMMA TickFree ==
    ASSUME HudInv, H!Tick, left = 0, ~ fence
    PROVE  /\ ~ vint /\ cpu \in {"guest", "service"}
           /\ hud.armed => line \notin 38 .. 223
<1>1. /\ line \in 0 .. 261 /\ left \in Nat /\ vint \in BOOLEAN /\ Links /\ Steps /\ Counting
  BY HudRanges
<1>2. \/ cpu = "guest" /\ ~ H!Pending
      \/ cpu = "service" /\ hookIff /\ ~ H!Pending
      \/ cpu = "service" /\ ~ hookIff /\ ~ H!Polls
  BY DEF H!Tick
<1>3. ~ vint /\ cpu \in {"guest", "service"}
  BY <1>1, <1>2 DEF H!Pending, Steps
<1>4. ASSUME hud.armed PROVE line \notin 38 .. 223
  <2>1. CASE ~ H!Pending
    BY <1>4, <2>1, ShortOfSplit
  <2>2. CASE ~ H!Polls
    BY <1>1, <1>4, <2>2, Beam DEF H!Polls, H!Split, H!Blank
  <2> QED BY <1>2, <2>1, <2>2
<1> QED BY <1>3, <1>4

\* The blank of a split picture begins with the processor at a stage, or with
\* its split served: never with a split left armed from the picture before.
LEMMA TickReach ==
    ASSUME HudInv, H!Tick, NEW l \in 0 .. 261, NEW m \in Nat, Ticks(l, m), hud.armed, ~ fence
    PROVE  line # 223 /\ ReachOf(l, m) < 38 + HeldBack
<1>1. /\ line \in 0 .. 261 /\ left \in Nat /\ HeldBack \in 1 .. 34
  BY HudRanges, CostsHold
<1>2. ReachOf(line, left) < 38 + HeldBack
  BY HudRanges DEF Counting, Reach, ReachOf, H!Blank, H!Lines, H!Split
<1>3. line # 223
  BY <1>1, <1>2 DEF ReachOf
<1>4. CASE left > 0
  <2>1. (IF line = 261 THEN l = 0 ELSE l = line + 1) /\ m = left - 1
    BY <1>4 DEF Ticks
  <2>2. ReachOf(l, m) = ReachOf(line, left)
    BY <1>1, <1>3, <1>4, <2>1 DEF ReachOf
  <2> QED BY <1>2, <1>3, <2>2
<1>5. CASE left = 0
  <2>1. (IF line = 261 THEN l = 0 ELSE l = line + 1) /\ m = 0
    BY <1>5 DEF Ticks
  <2>2. line \notin 38 .. 223
    BY <1>5, TickFree
  <2>3. ReachOf(l, m) < 38 + HeldBack
    BY <1>1, <2>1, <2>2 DEF ReachOf
  <2> QED BY <1>3, <2>3
<1> QED BY <1>1, <1>4, <1>5

LEMMA TickStep == ASSUME HudInv, H!Tick PROVE HudLinked'
<1> USE DEF H!Lines, H!Split, H!Blank, ArmingEnd
<1>1. /\ line \in 0 .. 261 /\ left \in Nat /\ counter \in 0 .. 255
      /\ vint \in BOOLEAN /\ hint \in BOOLEAN
      /\ Links /\ Steps /\ Counting /\ Drawn /\ Chunking
  BY HudRanges
<1>2. PICK l \in 0 .. 261, m \in Nat : Ticks(l, m)
  BY TickDoes
<1>3. UNCHANGED <<r10, ie1, r8, hud, cpu, back, hookIff, fence>> /\ line' = l /\ left' = m
  BY <1>2 DEF Ticks
<1>4. /\ IF line = 261 THEN l = 0 ELSE l = line + 1
      /\ IF left > 0 THEN m = left - 1 ELSE m = 0
  BY <1>2 DEF Ticks
<1>5. /\ hint' <=> (hint \/ (l <= 224 /\ counter = 0))
      /\ vint' <=> (vint \/ l = 225)
      /\ l > 224 => counter' = r10
      /\ l <= 224 /\ counter # 0 => counter' = counter - 1
  BY <1>2 DEF Ticks
<1>6. CommitLines \in 0 .. 31 /\ HeldBack \in 1 .. 34
  BY CostsHold
<1>7. Reach' = ReachOf(l, m)
  BY <1>3 DEF Reach, ReachOf
<1>8. Links'
  BY <1>1, <1>3 DEF Links
<1>9. Steps'
  <2>1. ASSUME cpu = "commit"
        PROVE  /\ l >= 224 /\ l + m <= 227 + CommitLines /\ ~ hint'
               /\ vint' \/ l = 224 => l + m <= 224 + CommitLines
               /\ vint' => l > 224
    <3>1. /\ line >= 224 /\ line + left <= 227 + CommitLines /\ ~ hint
          /\ vint \/ line = 224 => line + left <= 224 + CommitLines
          /\ vint => line > 224
      BY <1>1, <2>1 DEF Steps
    <3>2. left > 0
      BY <1>1, <2>1 DEF H!Tick
    <3>3. l = line + 1 /\ m = left - 1
      BY <1>1, <1>4, <1>6, <3>1, <3>2
    <3> QED BY <1>1, <1>5, <1>6, <3>1, <3>3
  <2>2. cpu = "service" => m = 0 /\ (hookIff \/ fence \/ ~ vint')
    <3>1. ASSUME cpu = "service", ~ hookIff, ~ fence PROVE ~ vint'
      <4>1. ~ vint /\ left = 0
        BY <1>1, <3>1 DEF Steps
      <4>2. ~ H!EarlyBlank(13)
        BY <1>1, <3>1, <4>1 DEF H!Tick
      <4>3. l # 225
        BY <1>1, <1>4, <4>2, Beam
      <4> QED BY <1>5, <4>1, <4>3
    <3> QED BY <1>1, <1>4, <3>1 DEF Steps
  <2>3. cpu = "sample" => m <= 1
    BY <1>1, <1>4 DEF Steps
  <2> QED BY <1>1, <1>3, <2>1, <2>2, <2>3 DEF Steps
<1>10. Counting'
  <2> SUFFICES ASSUME hud.armed, ~ fence
               PROVE  /\ l > 258 => counter' = 38
                      /\ l < 38 => counter' = 38 - 1 - l
                      /\ l >= 224 \/ l < 38 => ~ hint'
                      /\ l \in 38 .. 223 => hint'
                      /\ l # 224
                      /\ vint' => cpu = "stage"
                      /\ ReachOf(l, m) < 38 + HeldBack
    BY <1>3, <1>7 DEF Counting
  <2>1. /\ line > 258 => counter = 38
        /\ line < 38 => counter = 38 - 1 - line
        /\ line >= 224 \/ line < 38 => ~ hint
        /\ line \in 38 .. 223 => hint
        /\ line = 224 => cpu = "stage"
        /\ vint => cpu = "stage"
    BY <1>1 DEF Counting
  <2>2. line # 223 /\ ReachOf(l, m) < 38 + HeldBack
    BY <1>2, TickReach
  <2>3. r10 = 38
    BY <1>1 DEF Links
  <2>4. l > 258 => counter' = 38
    BY <1>5, <2>3
  <2>5. l < 38 => counter' = 38 - 1 - l
    BY <1>1, <1>4, <1>5, <2>1
  <2>6. /\ l >= 224 \/ l < 38 => ~ hint'
        /\ l \in 38 .. 223 => hint'
    BY <1>1, <1>4, <1>5, <2>1, <2>2
  <2>7. l # 224 /\ (vint' => cpu = "stage")
    BY <1>1, <1>4, <1>5, <2>1, <2>2
  <2> QED BY <2>2, <2>4, <2>5, <2>6, <2>7
<1>11. Drawn'
  <2> SUFFICES ASSUME ~ fence, hud.valid, hud.split
               PROVE  /\ l < 38 => hud.armed
                      /\ l > 224 => vint' \/ cpu = "commit" \/ hud.armed
                      /\ vint' => l > 224 /\ l + m <= 258
                      /\ l \in 38 .. 224 => l + m <= 258
    BY <1>3 DEF Drawn
  <2>1. /\ line < 38 => hud.armed
        /\ line > 224 => vint \/ cpu = "commit" \/ hud.armed
        /\ vint => line > 224 /\ line + left <= 258
        /\ line \in 38 .. 224 => line + left <= 258
    BY <1>1 DEF Drawn
  <2>2. left = 0 => ~ vint
    BY TickFree
  <2>3. cpu = "commit" => line + left <= 258
    BY <1>1, <1>6 DEF Steps
  <2>4. l < 38 => hud.armed
    BY <1>1, <1>4, <2>1, <2>3
  <2>5. l > 224 => vint' \/ cpu = "commit" \/ hud.armed
    BY <1>1, <1>4, <1>5, <2>1
  <2>6. vint' => l > 224 /\ l + m <= 258
    BY <1>1, <1>4, <1>5, <2>1, <2>2
  <2>7. l \in 38 .. 224 => l + m <= 258
    <3>1. CASE line < 38
      <4>1. ReachOf(l, m) < 38 + HeldBack
        BY <1>2, <2>1, <3>1, TickReach
      <4> QED BY <1>1, <1>4, <1>6, <3>1, <4>1 DEF ReachOf
    <3>2. CASE line >= 38
      BY <1>1, <1>4, <2>1, <3>2
    <3> QED BY <1>1, <3>1, <3>2
  <2> QED BY <2>4, <2>5, <2>6, <2>7
<1>12. Chunking'
  <2> SUFFICES ASSUME cpu = "chunk", ~ fence, hud.valid, hud.split
               PROVE  /\ ~ vint'
                      /\ \/ hud.armed /\ ReachOf(l, m) < 38
                         \/ ~ hud.armed /\ l >= 38 /\ l + m < 224
    BY <1>3, <1>7 DEF Chunking
  <2>1. /\ ~ vint
        /\ \/ hud.armed /\ ReachOf(line, left) < 38
           \/ ~ hud.armed /\ line >= 38 /\ line + left < 224
    BY <1>1 DEF Chunking, Reach, ReachOf
  <2>2. left > 0 /\ m = left - 1
    BY <1>1, <1>4, TickFree
  <2>3. line # 224
    BY <1>1, <2>1 DEF Counting
  <2>4. ~ vint'
    BY <1>1, <1>4, <1>5, <2>1, <2>3
  <2>5. CASE hud.armed /\ ReachOf(line, left) < 38
    <3>1. ReachOf(l, m) < 38
      BY <1>1, <1>4, <2>2, <2>5 DEF ReachOf
    <3> QED BY <2>4, <2>5, <3>1
  <2>6. CASE ~ hud.armed /\ line >= 38 /\ line + left < 224
    <3>1. l >= 38 /\ l + m < 224
      BY <1>1, <1>4, <2>2, <2>6
    <3> QED BY <2>4, <2>6, <3>1
  <2> QED BY <2>1, <2>5, <2>6
<1> QED BY <1>8, <1>9, <1>10, <1>11, <1>12 DEF HudLinked

LEMMA HudStep == ASSUME HudInv, [H!Next]_(H!vars) PROVE HudInv'
<1>1. H!TypeOK'
  BY HudTypeStep
<1>2. HudLinked'
  <2>1. CASE UNCHANGED H!vars
    <3>1. UNCHANGED <<line, vint, hint, counter, r10, ie1, r8, hud, cpu, left, back, hookIff, fence>>
      BY <2>1 DEF H!vars, H!beam, H!vdp, H!work, H!frame
    <3>2. Links' /\ Steps'
      BY <3>1, HudRanges DEF Links, Steps
    <3>3. Reach' = Reach
      BY <3>1 DEF Reach
    <3>4. Counting' /\ Drawn' /\ Chunking'
      BY <3>1, <3>3, HudRanges DEF Counting, Drawn, Chunking
    <3> QED BY <3>2, <3>4 DEF HudLinked
  <2> QED BY <2>1, TickStep, FrameIrqStep, LineIrqStep, CommitStep, PollStep, ProcessorSteps,
             WaitDiStep, BlankStep, SampleStep DEF H!Next
<1> QED BY <1>1, <1>2 DEF HudInv, HudLinked

\* The scroll of the HUD holds only while its split is armed, which it is in the
\* picture for no longer than an interrupt may be held back.
LEMMA HudShows == ASSUME HudInv PROVE PlayfieldScrolled /\ BandScrolled
<1> USE DEF H!Lines, H!Split, H!Blank, ArmingEnd
<1>1. /\ line \in 0 .. 261 /\ left \in Nat /\ Links /\ Steps /\ Counting /\ Drawn
      /\ r8 \in {"pre", "post"}
  BY HudRanges DEF HudInv, H!TypeOK
<1>2. HeldBack \in 1 .. 34
  BY CostsHold
<1>3. ASSUME line \in 38 + HeldBack .. 223, ~ fence, r8 = "pre" PROVE FALSE
  <2>1. line < 224 /\ line >= 38 + HeldBack
    BY <1>1, <1>2, <1>3
  <2>2. hud.armed
    BY <1>1, <1>3, <2>1 DEF Links, Steps
  <2>3. line + left < 38 + HeldBack
    BY <1>1, <1>3, <2>1, <2>2 DEF Counting, Reach
  <2> QED BY <1>1, <1>2, <2>1, <2>3
<1>4. PlayfieldScrolled
  BY <1>1, <1>3 DEF PlayfieldScrolled, H!PlayfieldScrolled, HeldBack
<1>5. BandScrolled
  BY <1>1 DEF BandScrolled, H!BandScrolled, Drawn, Links
<1> QED BY <1>4, <1>5

\* The split stays linked to the beam, the counter and the work in hand.
THEOREM HudHeld == H!Spec => []HudInv
<1>1. H!Init => HudInv
  BY HudInit
<1>2. HudInv /\ [H!Next]_(H!vars) => HudInv'
  BY HudStep
<1> QED BY <1>1, <1>2, PTL DEF H!Spec

\* Every step of preparation that rt_cv1_hud_try_chunk admits, and every delay of
\* the handler and of translated code that Costs allows, leaves the playfield
\* its scroll and the HUD its own (hud_cv1.s).
THEOREM HudScrolled == H!Spec => [](PlayfieldScrolled /\ BandScrolled)
<1>1. HudInv => PlayfieldScrolled /\ BandScrolled
  BY HudShows
<1> QED BY <1>1, HudHeld, PTL

-----------------------------------------------------------------------------
(***************************************************************************)
(* The pointer of the return frames (ReturnFrames).                        *)
(***************************************************************************)

\* Where the pointer is when n frames are in use, and where frame n + 1 lies.
Address(n) == IF n < 63 THEN 54016 + 4 * n ELSE 54528 + 4 * (n - 63)

\* The frames in use, oldest first, when there are n of them.
Filled(n) == [i \in 1 .. n |-> Address(i - 1)]

Holds(n) ==
    /\ trPtr = Address(n) /\ frames = Filled(n)
    /\ mark \in {"none", "full", "escape"}
    /\ mark = "full" => n = 127
    /\ mark = "escape" => n = 0

FrameInv == \E n \in 0 .. 127 : Holds(n)

\* The constants of the layout, as numbers.
LEMMA Layout ==
    /\ T!Base = 54016 /\ T!Last0 = 54264 /\ T!Seg1 = 54528
    /\ T!Last1 = 54780 /\ T!Full = 54784
BY DEF T!Word, T!Base, T!Last0, T!Seg1, T!Last1, T!Full

\* The two bytes of the pointer, in either segment.
LEMMA PointerBytes ==
    ASSUME NEW n \in 0 .. 126
    PROVE  /\ n < 63 => T!High(Address(n)) = 211 /\ T!Low(Address(n)) = 4 * n
           /\ n >= 63 => T!High(Address(n)) = 213 /\ T!Low(Address(n)) = 4 * (n - 63)
<1>1. CASE n < 63
  <2>1. Address(n) \in Int /\ Address(n) = 211 * 256 + 4 * n /\ 4 * n \in 0 .. 256 - 1
    BY <1>1 DEF Address
  <2>2. T!Low(Address(n)) = 4 * n
    BY <2>1, ModUnique DEF T!Low
  <2>3. T!High(Address(n)) = 211
    BY <2>1 DEF T!High
  <2> QED BY <1>1, <2>2, <2>3
<1>2. CASE n >= 63
  <2>1. /\ Address(n) \in Int /\ Address(n) = 213 * 256 + 4 * (n - 63)
        /\ 4 * (n - 63) \in 0 .. 256 - 1
    BY <1>2 DEF Address
  <2>2. T!Low(Address(n)) = 4 * (n - 63)
    BY <2>1, ModUnique DEF T!Low
  <2>3. T!High(Address(n)) = 213
    BY <2>1 DEF T!High
  <2> QED BY <1>2, <2>2, <2>3
<1> QED BY <1>1, <1>2

LEMMA FourDivides == ASSUME NEW k \in Int PROVE (4 * k) % 4 = 0
<1>1. 4 * k \in Int /\ 4 * k = k * 4 + 0 /\ 0 \in 0 .. 4 - 1
  OBVIOUS
<1> QED BY <1>1, ModUnique

\* Call and return move the pointer by one frame, over the hole as elsewhere, and
\* find the two ends.
LEMMA PointerMoves ==
    ASSUME NEW n \in 0 .. 127
    PROVE  /\ T!Accepts(Address(n)) <=> n < 127
           /\ T!Pops(Address(n)) <=> n > 0
           /\ n < 127 => /\ T!NextFree(Address(n)) = Address(n + 1)
                         /\ T!InSegment(Address(n))
           /\ n > 0 => T!Newest(Address(n)) = Address(n - 1)
<1>2. /\ n < 127 => T!NextFree(Address(n)) = Address(n + 1) /\ T!InSegment(Address(n))
      /\ n > 0 => T!Newest(Address(n)) = Address(n - 1)
  BY Layout DEF Address, T!NextFree, T!Newest, T!InSegment
<1>3. ASSUME n < 127 PROVE T!Accepts(Address(n)) /\ (T!Pops(Address(n)) <=> n > 0)
  <2>1. CASE n < 63
    <3>1. T!High(Address(n)) = 211 /\ T!Low(Address(n)) = 4 * n /\ (4 * n) % 4 = 0
      BY <1>3, <2>1, PointerBytes, FourDivides
    <3>2. Address(n) # T!Full
      BY <2>1, Layout DEF Address
    <3> HIDE DEF Address
    <3> QED BY <2>1, <3>1, <3>2 DEF T!Accepts, T!Pops
  <2>2. CASE n >= 63
    <3>1. /\ T!High(Address(n)) = 213 /\ T!Low(Address(n)) = 4 * (n - 63)
          /\ (4 * (n - 63)) % 4 = 0
      BY <1>3, <2>2, PointerBytes, FourDivides
    <3> QED BY <1>3, <2>2, <3>1 DEF T!Accepts, T!Pops
  <2> QED BY <2>1, <2>2
<1>4. ASSUME n = 127 PROVE ~ T!Accepts(Address(n)) /\ T!Pops(Address(n))
  <2>1. Address(n) = T!Full /\ Address(n) = 54784
    BY <1>4, Layout DEF Address
  <2>2. T!High(Address(n)) = 214
    BY <2>1 DEF T!High
  <2> QED BY <2>1, <2>2 DEF T!Accepts, T!Pops
<1>5. n < 127 \/ n = 127
  OBVIOUS
<1> QED BY <1>2, <1>3, <1>4, <1>5

LEMMA AddressRange ==
    ASSUME NEW n \in 0 .. 127
    PROVE  Address(n) \in Nat /\ Address(n) \in 0 .. T!Word(255, 255)
<1>1. Address(n) \in Nat /\ Address(n) <= 65535
  BY DEF Address
<1>2. T!Word(255, 255) = 65535
  BY DEF T!Word
<1> QED BY <1>1, <1>2

LEMMA FilledLength ==
    ASSUME NEW n \in 0 .. 127
    PROVE  /\ Filled(n) \in Seq(Nat) /\ Len(Filled(n)) = n
           /\ \A i \in 1 .. n : Filled(n)[i] = Address(i - 1)
<1>1. ASSUME NEW i \in 1 .. n PROVE Address(i - 1) \in Nat
  <2>1. i - 1 \in 0 .. 127
    OBVIOUS
  <2> QED BY <2>1, AddressRange
<1> QED BY <1>1 DEF Filled

LEMMA FilledMore ==
    ASSUME NEW n \in 0 .. 126
    PROVE  Append(Filled(n), Address(n)) = Filled(n + 1)
<1>1. n \in 0 .. 127 /\ n + 1 \in 0 .. 127 /\ n + 1 - 1 = n
  OBVIOUS
<1>2. Address(n) \in Nat
  BY <1>1, AddressRange, Zenon
<1>3. /\ Filled(n) \in Seq(Nat) /\ Len(Filled(n)) = n
      /\ \A i \in 1 .. n : Filled(n)[i] = Address(i - 1)
  BY <1>1, FilledLength, Zenon
<1>4. /\ Filled(n + 1) \in Seq(Nat) /\ Len(Filled(n + 1)) = n + 1
      /\ \A i \in 1 .. n + 1 : Filled(n + 1)[i] = Address(i - 1)
  BY <1>1, FilledLength, Zenon
<1> DEFINE s == Append(Filled(n), Address(n))
<1>5. /\ s \in Seq(Nat) /\ Len(s) = n + 1
      /\ \A i \in 1 .. n : s[i] = Filled(n)[i]
      /\ s[n + 1] = Address(n)
  BY <1>2, <1>3, AppendProperties
<1> HIDE DEF s
<1>6. ASSUME NEW i \in 1 .. n + 1 PROVE s[i] = Filled(n + 1)[i]
  <2>1. CASE i \in 1 .. n
    BY <1>3, <1>4, <1>5, <2>1
  <2>2. CASE i = n + 1
    <3>1. Filled(n + 1)[n + 1] = Address(n + 1 - 1)
      BY <1>4, <2>2
    <3> QED BY <1>1, <1>5, <2>2, <3>1
  <2>3. i \in 1 .. n \/ i = n + 1
    OBVIOUS
  <2> QED BY <2>1, <2>2, <2>3
<1>7. s = Filled(n + 1)
  BY <1>4, <1>5, <1>6, SeqEqual
<1> QED BY <1>7 DEF s

LEMMA FilledLess ==
    ASSUME NEW n \in 1 .. 127
    PROVE  SubSeq(Filled(n), 1, Len(Filled(n)) - 1) = Filled(n - 1)
<1>1. /\ Filled(n) \in Seq(Nat) /\ Len(Filled(n)) = n
      /\ \A i \in 1 .. n : Filled(n)[i] = Address(i - 1)
      /\ n \in 0 .. 127 /\ n - 1 \in 0 .. 127
  <2>1. n \in 0 .. 127 /\ n - 1 \in 0 .. 127
    OBVIOUS
  <2> QED BY <2>1, FilledLength
<1>2. /\ Filled(n - 1) \in Seq(Nat) /\ Len(Filled(n - 1)) = n - 1
      /\ \A i \in 1 .. n - 1 : Filled(n - 1)[i] = Address(i - 1)
  BY <1>1, FilledLength
<1> DEFINE s == SubSeq(Filled(n), 1, n - 1)
<1>3. \A i \in 1 .. n - 1 : Filled(n)[i] \in Nat
  <2>1. \A i \in 1 .. n - 1 : i \in 1 .. Len(Filled(n))
    BY <1>1
  <2> QED BY <1>1, <2>1, ElementOfSeq
<1>4. /\ s \in Seq(Nat)
      /\ Len(s) = IF 1 <= n - 1 THEN n - 1 - 1 + 1 ELSE 0
      /\ \A i \in 1 .. n - 1 - 1 + 1 : s[i] = Filled(n)[1 + i - 1]
  BY <1>1, <1>3, SubSeqProperties
<1> HIDE DEF s
<1>5. Len(s) = n - 1 /\ \A i \in 1 .. n - 1 : s[i] = Filled(n - 1)[i]
  BY <1>1, <1>2, <1>4
<1>6. s = Filled(n - 1)
  BY <1>2, <1>4, <1>5, SeqEqual
<1> QED BY <1>1, <1>6 DEF s

LEMMA FilledNone == Address(0) = T!Base /\ Filled(0) = << >>
<1>1. Address(0) = 54016 /\ 0 \in 0 .. 127
  BY DEF Address
<1>2. Filled(0) \in Seq(Nat) /\ Len(Filled(0)) = 0
  BY <1>1, FilledLength
<1> QED BY <1>1, <1>2, Layout, EmptySeq

LEMMA FrameInit == ASSUME T!Init PROVE FrameInv
<1>1. Holds(0) /\ 0 \in 0 .. 127
  BY FilledNone DEF T!Init, Holds
<1> QED BY <1>1 DEF FrameInv

LEMMA FrameStep == ASSUME FrameInv, [T!Next]_(T!vars) PROVE FrameInv'
<1>1. PICK n \in 0 .. 127 : Holds(n)
  BY DEF FrameInv
<1>2. /\ trPtr = Address(n) /\ frames = Filled(n)
      /\ T!Accepts(trPtr) <=> n < 127
      /\ T!Pops(trPtr) <=> n > 0
      /\ n < 127 => T!NextFree(trPtr) = Address(n + 1)
      /\ n > 0 => T!Newest(trPtr) = Address(n - 1)
  BY <1>1, PointerMoves DEF Holds
<1>3. ASSUME NEW k \in 0 .. 127, trPtr' = Address(k), frames' = Filled(k), mark' = "none"
      PROVE  FrameInv'
  BY <1>3 DEF FrameInv, Holds
<1>4. CASE T!Call
  <2>1. n \in 0 .. 126 /\ n + 1 \in 0 .. 127
    BY <1>2, <1>4 DEF T!Call
  <2>2. trPtr' = Address(n + 1) /\ mark' = "none" /\ frames' = Append(Filled(n), Address(n))
    BY <1>2, <1>4, <2>1 DEF T!Call
  <2> QED BY <1>3, <2>1, <2>2, FilledMore
<1>5. CASE T!CallTraps
  <2>1. n = 127 /\ UNCHANGED <<trPtr, frames>> /\ mark' = "full"
    BY <1>2, <1>5 DEF T!CallTraps
  <2>2. Holds(n)'
    BY <1>1, <2>1 DEF Holds
  <2> QED BY <2>2 DEF FrameInv
<1>6. ASSUME T!Pops(trPtr), trPtr' = T!Newest(trPtr), frames' = T!Dropped, mark' = "none"
      PROVE  FrameInv'
  <2>1. n \in 1 .. 127 /\ n - 1 \in 0 .. 127
    BY <1>2, <1>6
  <2>2. trPtr' = Address(n - 1) /\ frames' = Filled(n - 1)
    BY <1>2, <1>6, <2>1, FilledLess DEF T!Dropped
  <2> QED BY <1>3, <1>6, <2>1, <2>2
<1>7. CASE T!Rts
  BY <1>6, <1>7 DEF T!Rts
<1>8. CASE T!Escape
  <2>1. CASE T!Pops(trPtr)
    BY <1>6, <1>8, <2>1 DEF T!Escape
  <2>2. CASE ~ T!Pops(trPtr)
    <3>1. n = 0 /\ UNCHANGED <<trPtr, frames>> /\ mark' = "escape"
      BY <1>2, <1>8, <2>2 DEF T!Escape
    <3>2. Holds(n)'
      BY <1>1, <3>1 DEF Holds
    <3> QED BY <3>2 DEF FrameInv
  <2> QED BY <2>1, <2>2
<1>9. CASE T!RtiReset
  <2>1. trPtr' = Address(0) /\ frames' = Filled(0) /\ mark' = "none" /\ 0 \in 0 .. 127
    BY <1>9, FilledNone DEF T!RtiReset
  <2> QED BY <1>3, <2>1
<1>10. CASE T!RtsWithoutFrame \/ UNCHANGED T!vars
  BY <1>10 DEF T!RtsWithoutFrame, T!vars, FrameInv, Holds
<1> QED BY <1>4, <1>5, <1>7, <1>8, <1>9, <1>10 DEF T!Next

\* The pointer is the address of the next frame, however calls, returns, escapes
\* and the reset of an RTI follow each other.
THEOREM FramesHeld == T!Spec => []FrameInv
<1>1. T!Init => FrameInv
  BY FrameInit
<1>2. FrameInv /\ [T!Next]_(T!vars) => FrameInv'
  BY FrameStep
<1> QED BY <1>1, <1>2, PTL DEF T!Spec

LEMMA FramesTell == ASSUME FrameInv PROVE T!TypeOK /\ T!FramesExact
<1>1. PICK n \in 0 .. 127 : Holds(n)
  BY DEF FrameInv
<1>2. /\ trPtr = Address(n) /\ frames = Filled(n)
      /\ T!Accepts(trPtr) <=> n < 127
      /\ T!Pops(trPtr) <=> n > 0
      /\ n < 127 => T!InSegment(trPtr)
      /\ n > 0 => T!Newest(trPtr) = Address(n - 1)
  BY <1>1, PointerMoves DEF Holds
<1>3. /\ frames \in Seq(Nat) /\ Len(frames) = n
      /\ \A i \in 1 .. n : frames[i] = Address(i - 1)
  BY <1>2, FilledLength
<1>4. frames # << >> <=> n > 0
  BY <1>3
<1>5. T!TypeOK
  <2>1. trPtr \in 0 .. T!Word(255, 255)
    BY <1>2, AddressRange
  <2> QED BY <1>1, <1>3, <2>1 DEF T!TypeOK, Holds
<1>6. n > 0 => T!Newest(trPtr) = frames[Len(frames)]
  BY <1>2, <1>3
<1>7. \A i \in 1 .. n : Address(i - 1) + 4 <= Address(n)
  BY DEF Address
<1>8. \A i \in 1 .. Len(frames) : frames[i] + 4 <= trPtr
  BY <1>2, <1>3, <1>7
<1>9. (mark = "full" => Len(frames) = 127) /\ (mark = "escape" => frames = << >>)
  BY <1>1, <1>3, <1>4 DEF Holds
<1>10. Len(frames) < 127 <=> n < 127
  BY <1>3
<1> QED BY <1>2, <1>4, <1>5, <1>6, <1>8, <1>9, <1>10 DEF T!FramesExact

\* The bytes of TR_RET_PTR say how many frames are in use and which is the newest,
\* on both sides of the hole and at both ends (z80_emit, dispatch.s).
THEOREM FramesFound == T!Spec => []FramesExact
<1>1. FrameInv => FramesExact
  BY FramesTell DEF FramesExact
<1> QED BY <1>1, FramesHeld, PTL

-----------------------------------------------------------------------------
(***************************************************************************)
(* The four parts in one run.                                              *)
(***************************************************************************)

\* A behaviour of the four parts is one of each: a part that is not the one the
\* behaviour is of stands still.
THEOREM PartsCompose == PartsSpec => Spec /\ H!Spec /\ C!Spec /\ T!Spec
<1>1. PartsInit => Init /\ H!Init /\ C!Init /\ T!Init
  BY DEF PartsInit
<1>2. [PartsNext]_<<part, vars, hudVars, portVars, frameVars>>
      => [Next]_vars /\ [H!Next]_(H!vars) /\ [C!Next]_(C!vars) /\ [T!Next]_(T!vars)
  <2>1. UNCHANGED hudVars => UNCHANGED H!vars
    BY DEF hudVars, H!vars, H!beam, H!vdp, H!work, H!frame
  <2>2. UNCHANGED portVars => UNCHANGED C!vars
    BY DEF portVars, C!vars, C!port, C!ghost
  <2>3. UNCHANGED frameVars => UNCHANGED T!vars
    BY DEF frameVars, T!vars
  <2> QED BY <2>1, <2>2, <2>3 DEF PartsNext
<1> QED BY <1>1, <1>2, PTL DEF PartsSpec, Spec, H!Spec, C!Spec, T!Spec

\* Every variable of the part a behaviour is of keeps its type.
THEOREM PartsTyped == PartsSpec => []TypesOK
<1> DEFINE OnePart == part \in {"stack", "hud", "ports", "frames"}
<1>1. PartsInit => OnePart
  BY DEF PartsInit
<1>2. OnePart /\ [PartsNext]_<<part, vars, hudVars, portVars, frameVars>>
      => OnePart'
  BY DEF PartsNext
<1>3. OnePart /\ IInv /\ HudInv /\ PortInv /\ FrameInv => TypesOK
  <2>1. IInv /\ HudInv /\ PortInv /\ FrameInv
          => TypeOK /\ H!TypeOK /\ C!TypeOK /\ T!TypeOK
    BY FramesTell DEF IInv, HudInv, PortInv
  <2>2. part = "stack" /\ TypeOK => TypesOK
    BY DEF TypesOK
  <2>3. part = "hud" /\ H!TypeOK => TypesOK
    BY DEF TypesOK
  <2>4. part = "ports" /\ C!TypeOK => TypesOK
    BY DEF TypesOK
  <2>5. part = "frames" /\ T!TypeOK => TypesOK
    BY DEF TypesOK
  <2> QED BY <2>1, <2>2, <2>3, <2>4, <2>5
<1> HIDE DEF OnePart
<1>4. PartsSpec => []OnePart
  BY <1>1, <1>2, PTL DEF PartsSpec
<1> QED BY <1>3, <1>4, PartsCompose, StackLayout, HudHeld, PortsHeld, FramesHeld, PTL

\* The properties of the four parts, of the specification TLC checks.
THEOREM PartsSafe ==
    PartsSpec => [](PopExact /\ DepthRefusesTruly /\ PlayfieldScrolled /\ BandScrolled
                    /\ SerialReadExact /\ FramesExact)
BY PartsCompose, PopsExact, DepthTrue, HudScrolled, SerialReads, FramesFound, PTL
==============================================================================
