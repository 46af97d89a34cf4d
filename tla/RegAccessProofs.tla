-------------------------- MODULE RegAccessProofs --------------------------
(***************************************************************************)
(* Proofs about RegAccess, for any number of threads, any BAR, any set of  *)
(* requests and any number of bits to the byte.                            *)
(***************************************************************************)
EXTENDS RegAccess, TLAPS

\* The points of a call between Enter and Leave.
Held == {"setup", "loop", "modify", "pattern", "scratch", "leave", "lost"}

\* The points at which the limits have been applied.
Limited == {"loop", "modify", "pattern", "scratch"}

LockInv == \A t \in Threads : pc[t] \in Held <=> dev_mut = t

\* The loop index stays below what the limits allow.
Limit(t) ==
  pc[t] \in Limited =>
    /\ call[t].size \in Sizes
    /\ call[t].req.bar = "mapped"
    /\ call[t].i <= call[t].cnt
    /\ pc[t] # "loop" => call[t].i < call[t].cnt
    /\ \/ call[t].cnt = call[t].req.count
       \/ call[t].cnt = RegistersFrom(call[t].req.offset, Width(t))
    /\ call[t].cnt <= RegistersFrom(call[t].req.offset, Width(t))
    /\ call[t].size # RW_D32 => call[t].narrow

\* A call that ended without a fault went to the limit.
Ended(t) ==
  At(t, "leave") /\ call[t].result = "ok" =>
    \/ call[t].i = call[t].req.count
    \/ call[t].i = RegistersFrom(call[t].req.offset, Width(t))

\* What a read-modify-write read is what the register still holds.
Fresh(t) ==
  At(t, "modify") =>
    /\ Mode(t) \in BitModes
    /\ online => \A k \in 0 .. Width(t) - 1 :
                   call[t].prev[k] = mem[Address(t) + k]

\* A value read while the board was gone is tested with the board gone.
Tested(t) ==
  /\ pc[t] \in {"pattern", "scratch"} => Mode(t) \in ReadModes
  /\ pc[t] \in {"pattern", "scratch"} /\ call[t].gone => ~ online
  /\ At(t, "scratch") /\ call[t].pattern # 4 => call[t].narrow

Detected(t) == call[t].fake /\ ScratchUsable => call[t].narrow

Real(t) ==
  At(t, "leave") /\ call[t].result = "ENOMEM" /\ ScratchUsable
    => ~ online \/ mem[scratch.offset] = Bits

\* A call that has not begun its loop, or is not followed any more.
Unstarted(t) ==
  pc[t] \in {"idle", "correct", "enter", "setup", "lost"}
    => call[t].i = 0 /\ ~ call[t].fake

Good(t) == /\ Limit(t) /\ Ended(t) /\ Fresh(t) /\ Tested(t)
           /\ Detected(t) /\ Real(t) /\ Unstarted(t)

Inv == TypeOK /\ LockInv /\ \A t \in Threads : Good(t)

-----------------------------------------------------------------------------
(* Arithmetic of the limits.                                               *)

(* The width of a register is 1, 2 or 4 bytes.                             *)
LEMMA Widths == \A m : Bytes(m) \in {1, 2, 4}
BY DEF Bytes

(* RegistersFrom is a number.                                              *)
LEMMA FromType ==
  ASSUME NEW offset \in Nat, NEW n \in {1, 2, 4}
  PROVE  RegistersFrom(offset, n) \in Nat
<1>. BarSize \in Nat \ {0}  BY RegAssumption
<1>1. CASE n = 1  BY <1>1 DEF RegistersFrom
<1>2. CASE n = 2  BY <1>2 DEF RegistersFrom
<1>3. CASE n = 4  BY <1>3 DEF RegistersFrom
<1>. QED  BY <1>1, <1>2, <1>3

(* A register whose index is below RegistersFrom ends in the mapping.      *)
LEMMA Fits ==
  ASSUME NEW offset \in Nat, NEW n \in {1, 2, 4}, NEW i \in Nat,
         i < RegistersFrom(offset, n)
  PROVE  offset + i * n + n <= BarSize - 1
<1>. BarSize \in Nat \ {0}  BY RegAssumption
<1>1. CASE n = 1  BY <1>1 DEF RegistersFrom
<1>2. CASE n = 2  BY <1>2 DEF RegistersFrom
<1>3. CASE n = 4  BY <1>3 DEF RegistersFrom
<1>. QED  BY <1>1, <1>2, <1>3

(* After RegistersFrom registers there is room for one more at most.       *)
LEMMA LastOne ==
  ASSUME NEW offset \in Nat, NEW n \in {1, 2, 4}
  PROVE  offset + RegistersFrom(offset, n) * n + 2 * n > BarSize
<1>. BarSize \in Nat \ {0}  BY RegAssumption
<1>1. CASE n = 1  BY <1>1 DEF RegistersFrom
<1>2. CASE n = 2  BY <1>2 DEF RegistersFrom
<1>3. CASE n = 4  BY <1>3 DEF RegistersFrom
<1>. QED  BY <1>1, <1>2, <1>3

(* CORRECT_REGISTER_SIZE gives a size.                                     *)
LEMMA Corrected ==
  ASSUME NEW m, NEW d \in Sizes
  PROVE  CorrectSize(m, d) \in Sizes
BY DEF CorrectSize

-----------------------------------------------------------------------------
(* Types.                                                                  *)

(* Words stay words.                                                       *)
LEMMA OnesType == Ones \in Word
BY DEF Ones, Word, Byte

(* ioread gives a word.                                                    *)
LEMMA ReadType ==
  ASSUME TypeOK, NEW a \in Nat, NEW n \in {1, 2, 4}
  PROVE  IoRead(a, n) \in Word
BY RegAssumption DEF TypeOK, IoRead, Word, Byte

(* iowrite leaves a memory of bytes.                                       *)
LEMMA WriteType ==
  ASSUME TypeOK, NEW a \in Nat, NEW n \in {1, 2, 4}, NEW w \in Word,
         IoWrite(a, n, w)
  PROVE  mem' \in [0 .. BarSize - 1 -> Byte]
<1>1. ASSUME NEW b \in 0 .. BarSize - 1
      PROVE  (IF online /\ b - a \in 0 .. n - 1 THEN w[b - a] ELSE mem[b])
               \in Byte
  BY RegAssumption DEF TypeOK, Word
<1>. QED  BY <1>1 DEF IoWrite

(* Swapping the bytes of a register gives a word.                          *)
LEMMA SwapType ==
  ASSUME NEW w \in Word, NEW n \in {1, 2, 4}
  PROVE  Swapped(w, n) \in Word
<1>1. ASSUME NEW k \in 0 .. 3
      PROVE  (IF swap /\ k < n THEN w[n - 1 - k] ELSE w[k]) \in Byte
  BY DEF Word
<1>. QED  BY <1>1 DEF Swapped, Word

(* Merging and inverting words give words.                                 *)
LEMMA MergeType ==
  ASSUME NEW old \in Word, NEW data \in Word, NEW mask \in Word
  PROVE  Merged(old, data, mask) \in Word /\ Inverted(old) \in Word
BY DEF Merged, Inverted, Word, Byte

(* A new call has the type of one.                                         *)
LEMMA NewCallType ==
  ASSUME NEW r \in RequestType
  PROVE  NewCall(r) \in CallType
BY OnesType DEF NewCall, CallType, RequestType, Results, SizeCodes

(* The request of an idle thread is one.                                   *)
LEMMA NoRequestType == NoRequest \in RequestType
BY OnesType DEF NoRequest, RequestType, ReadModes, SizeCodes, RW_D8, BarKinds

(* The fields of a call.                                                   *)
LEMMA CallFields ==
  ASSUME TypeOK, NEW t \in Threads
  PROVE  /\ call[t] \in CallType
         /\ call[t].req \in RequestType /\ call[t].prev \in Word
         /\ call[t].req.offset \in Nat /\ call[t].req.count \in Nat
         /\ call[t].req.data \in Word /\ call[t].req.mask \in Word
         /\ call[t].i \in Nat /\ call[t].cnt \in Nat
         /\ call[t].size \in SizeCodes
         /\ Width(t) \in {1, 2, 4} /\ Address(t) \in Nat
<1>1. call[t] \in CallType  BY DEF TypeOK
<1>2. /\ call[t].req \in RequestType /\ call[t].prev \in Word
      /\ call[t].i \in Nat /\ call[t].cnt \in Nat
      /\ call[t].size \in SizeCodes
  BY <1>1 DEF CallType
<1>3. /\ call[t].req.offset \in Nat /\ call[t].req.count \in Nat
      /\ call[t].req.data \in Word /\ call[t].req.mask \in Word
  BY <1>2 DEF RequestType
<1>4. Width(t) \in {1, 2, 4}  BY Widths DEF Width
<1>5. Address(t) \in Nat  BY <1>2, <1>3, <1>4 DEF Address
<1>. QED  BY <1>1, <1>2, <1>3, <1>4, <1>5

(* A step of a call keeps the types.                                       *)
LEMMA StepType ==
  ASSUME TypeOK, NEW t \in Threads, Step(t)
  PROVE  TypeOK'
<1>. USE CallFields
<1>a. ASSUME NEW c \in CallType, NEW p \in Pcs, Now(t, c), Goto(t, p)
      PROVE  call' \in [Threads -> CallType] /\ pc' \in [Threads -> Pcs]
  BY <1>a DEF Now, Goto, TypeOK
<1>b. ASSUME NEW c \in CallType, NEW r \in Results, End(t, c, r)
      PROVE  call' \in [Threads -> CallType] /\ pc' \in [Threads -> Pcs]
  BY <1>a, <1>b DEF End, CallType, Pcs
<1>c. ASSUME NEW c \in CallType, Deliver(t, c)
      PROVE  call' \in [Threads -> CallType] /\ pc' \in [Threads -> Pcs]
  <2>1. (c.fake \/ c.gone) \in BOOLEAN /\ c.i + 1 \in Nat  BY DEF CallType
  <2>2. [c EXCEPT !.i = c.i + 1, !.fake = (c.fake \/ c.gone)] \in CallType
    <3>. DEFINE g == c.fake \/ c.gone
                j == c.i + 1
    <3>. g \in BOOLEAN /\ j \in Nat  BY <2>1
    <3>. HIDE DEF g, j
    <3>1. [c EXCEPT !.i = j, !.fake = g] \in CallType  BY DEF CallType
    <3>. QED  BY <3>1 DEF g, j
  <2>. QED  BY <1>a, <1>c, <2>2 DEF Deliver, Pcs
<1>d. register_size \in Sizes /\ online \in BOOLEAN  BY DEF TypeOK
<1>g. ASSUME Lose(t)
      PROVE  call' \in [Threads -> CallType] /\ pc' \in [Threads -> Pcs]
  BY <1>a, <1>g, NewCallType, NoRequestType DEF Lose, Pcs
<1>e. ASSUME NEW m, NEW s \in Sizes PROVE CorrectSize(m, s) \in SizeCodes
  BY DEF CorrectSize, Sizes, SizeCodes, RW_D8, RW_D32
<1>1. CASE CorrectUnlocked(t)
  <2>1. [call[t] EXCEPT !.size = CorrectSize(@, register_size)] \in CallType
    BY <1>d, <1>e DEF CallType
  <2>. QED  BY <1>1, <1>a, <2>1 DEF CorrectUnlocked, TypeOK, Pcs, devVars
<1>2. CASE Enter(t)
  BY <1>2 DEF Enter, TypeOK, Goto, Pcs, devVars
<1>3. CASE Setup(t)
  <2>. DEFINE r == call[t].req
              s == CorrectSize(call[t].size, register_size)
              n == Bytes(s)
              f == RegistersFrom(r.offset, n)
              c == [call[t] EXCEPT !.size = s, !.narrow = s # RW_D32,
                                   !.cnt = IF r.count < f THEN r.count ELSE f]
  <2>1. n \in {1, 2, 4} /\ s \in SizeCodes  BY Widths, <1>d, <1>e
  <2>2. f \in Nat  BY <2>1, FromType
  <2>. HIDE DEF s, n, f
  <2>3. c \in CallType  BY <2>1, <2>2 DEF CallType
  <2>4. End(t, c, "EFAULT") \/ (Goto(t, "loop") /\ Now(t, c)) \/ Lose(t)
    BY <1>3 DEF Setup, s, n, f
  <2>. HIDE DEF c
  <2>5. call' \in [Threads -> CallType] /\ pc' \in [Threads -> Pcs]
    BY <2>3, <2>4, <1>a, <1>b, <1>g DEF Results, Pcs
  <2>. QED  BY <1>3, <2>5 DEF Setup, TypeOK, devVars
<1>4. CASE LoopEnd(t)
  BY <1>4, <1>b DEF LoopEnd, TypeOK, devVars, Results
<1>5. CASE CopyFails(t)
  BY <1>5, <1>b DEF CopyFails, TypeOK, devVars, Results
<1>6. CASE ReadRegister(t)
  <2>. DEFINE w == IoRead(Address(t), Width(t))
              c == [call[t] EXCEPT !.prev = w, !.gone = ~ online]
  <2>1. w \in Word  BY ReadType
  <2>. HIDE DEF w
  <2>2. c \in CallType  BY <2>1, <1>d DEF CallType
  <2>3. (Goto(t, "pattern") /\ Now(t, c)) \/ Deliver(t, c)
    BY <1>6 DEF ReadRegister, w
  <2>. HIDE DEF c
  <2>4. call' \in [Threads -> CallType] /\ pc' \in [Threads -> Pcs]
    BY <2>2, <2>3, <1>a, <1>c DEF Pcs
  <2>. QED  BY <1>6, <2>4 DEF ReadRegister, TypeOK, devVars
<1>7. CASE ScratchPattern(t)
  <2>. DEFINE c == [call[t] EXCEPT !.pattern = Bytes(register_size),
                                   !.narrow = @ \/ register_size # RW_D32]
  <2>1. c \in CallType  BY Widths DEF CallType
  <2>2. End(t, call[t], "ENOMEM") \/ (Goto(t, "scratch") /\ Now(t, c))
    BY <1>7 DEF ScratchPattern
  <2>. HIDE DEF c
  <2>3. call' \in [Threads -> CallType] /\ pc' \in [Threads -> Pcs]
    BY <2>1, <2>2, <1>a, <1>b DEF Results, Pcs
  <2>. QED  BY <1>7, <2>3 DEF ScratchPattern, TypeOK, devVars
<1>8. CASE ScratchRead(t)
  <2>. DEFINE c == [call[t] EXCEPT !.narrow = @ \/ register_size # RW_D32]
  <2>1. c \in CallType  BY DEF CallType
  <2>2. End(t, c, "ENOMEM") \/ Deliver(t, c) \/ Lose(t)
    BY <1>8 DEF ScratchRead
  <2>. HIDE DEF c
  <2>3. call' \in [Threads -> CallType] /\ pc' \in [Threads -> Pcs]
    BY <2>1, <2>2, <1>c, <1>b, <1>g DEF Results
  <2>. QED  BY <1>8, <2>3 DEF ScratchRead, TypeOK, devVars
<1>9. CASE WriteRegister(t)
  <2>1. [call[t] EXCEPT !.i = @ + 1] \in CallType  BY DEF CallType
  <2>2. call' \in [Threads -> CallType]
    BY <1>9, <2>1 DEF WriteRegister, Now, TypeOK
  <2>3. mem' \in [0 .. BarSize - 1 -> Byte]
    <3>1. CASE Mode(t) = "write"
      <4>1. Swapped(call[t].req.data, Width(t)) \in Word  BY SwapType
      <4>2. IoWrite(Address(t), Width(t), Swapped(call[t].req.data, Width(t)))
        BY <1>9, <3>1 DEF WriteRegister
      <4>. QED  BY <4>1, <4>2, WriteType
    <3>2. CASE Mode(t) # "write"
      BY <1>9, <3>2 DEF WriteRegister, TypeOK
    <3>. QED  BY <3>1, <3>2
  <2>. QED  BY <1>9, <2>2, <2>3 DEF WriteRegister, TypeOK, devVars
<1>10. CASE ReadOld(t)
  <2>1. IoRead(Address(t), Width(t)) \in Word  BY ReadType
  <2>2. [call[t] EXCEPT !.prev = IoRead(Address(t), Width(t))] \in CallType
    BY <2>1 DEF CallType
  <2>. QED  BY <1>10, <2>2, <1>a DEF ReadOld, TypeOK, devVars, Pcs
<1>11. CASE WriteNew(t)
  <2>1. [call[t] EXCEPT !.i = @ + 1] \in CallType  BY DEF CallType
  <2>2. mem' \in [0 .. BarSize - 1 -> Byte]
    BY <1>11, SwapType, MergeType, WriteType DEF WriteNew
  <2>. QED  BY <1>11, <2>1, <2>2, <1>a DEF WriteNew, TypeOK, devVars, Pcs
<1>12. CASE Leave(t)
  BY <1>12, <1>a, NewCallType, NoRequestType
     DEF Leave, TypeOK, devVars, Pcs
<1>13. CASE ReadScratch(t)
  BY <1>13, <1>g DEF ReadScratch, TypeOK, devVars
<1>. QED  BY <1>1, <1>2, <1>3, <1>4, <1>5, <1>6, <1>7, <1>8, <1>9, <1>10,
             <1>11, <1>12, <1>13 DEF Step

-----------------------------------------------------------------------------
(* The inductive invariant.                                                *)

(* A thread that takes no step keeps its part of the invariant, if it is   *)
(* outside the region or the registers and the board stay as they are.     *)
LEMMA Frame ==
  ASSUME TypeOK, NEW u \in Threads, Good(u),
         pc'[u] = pc[u], call'[u] = call[u],
         pc[u] \notin Held \/ UNCHANGED <<mem, online, scratch>>
  PROVE  Good(u)'
<1>1. Limit(u)'  BY DEF Good, Limit, Width, Held, Limited
<1>2. Ended(u)'  BY DEF Good, Ended, At, Width, Held
<1>3. Fresh(u)'  BY DEF Good, Fresh, At, Width, Address, Mode, Held
<1>4. Tested(u)'  BY DEF Good, Tested, At, Mode, Held
<1>5. Detected(u)'
  <2>1. CASE pc[u] \notin Held
    <3>1. pc[u] \in {"idle", "correct", "enter"}
      BY <2>1 DEF TypeOK, Pcs, Held
    <3>. QED  BY <3>1 DEF Good, Detected, Unstarted
  <2>2. CASE UNCHANGED scratch
    BY <2>2 DEF Good, Detected, ScratchUsable, OnBoard
  <2>. QED  BY <2>1, <2>2
<1>6. Real(u)'  BY DEF Good, Real, At, Held, ScratchUsable, OnBoard
<1>7. Unstarted(u)'  BY DEF Good, Unstarted
<1>. QED  BY <1>1, <1>2, <1>3, <1>4, <1>5, <1>6, <1>7 DEF Good

(* Steps change only the thread that takes them, and keep the lock with    *)
(* the thread that is in the region.                                       *)
LEMMA StepLock ==
  ASSUME TypeOK, LockInv, NEW t \in Threads, Step(t)
  PROVE  /\ LockInv'
         /\ \A u \in Threads \ {t} : pc'[u] = pc[u] /\ call'[u] = call[u]
         /\ \A u \in Threads \ {t} : pc[u] \notin Held \/ UNCHANGED mem
         /\ UNCHANGED devVars
<1>. NoThread \notin Threads  BY RegAssumption
<1>. USE DEF TypeOK, LockInv, Held, At, Now, Goto, End, Deliver, Lose
<1>1. CASE CorrectUnlocked(t)  BY <1>1 DEF CorrectUnlocked
<1>2. CASE Enter(t)  BY <1>2 DEF Enter
<1>3. CASE Setup(t)  BY <1>3 DEF Setup
<1>4. CASE LoopEnd(t)  BY <1>4 DEF LoopEnd
<1>5. CASE CopyFails(t)  BY <1>5 DEF CopyFails
<1>6. CASE ReadRegister(t)  BY <1>6 DEF ReadRegister
<1>7. CASE ScratchPattern(t)  BY <1>7 DEF ScratchPattern
<1>8. CASE ScratchRead(t)  BY <1>8 DEF ScratchRead
<1>9. CASE WriteRegister(t)  BY <1>9 DEF WriteRegister
<1>10. CASE ReadOld(t)  BY <1>10 DEF ReadOld
<1>11. CASE WriteNew(t)  BY <1>11 DEF WriteNew
<1>12. CASE Leave(t)  BY <1>12 DEF Leave
<1>13. CASE ReadScratch(t)  BY <1>13 DEF ReadScratch
<1>. QED  BY <1>1, <1>2, <1>3, <1>4, <1>5, <1>6, <1>7, <1>8, <1>9, <1>10,
             <1>11, <1>12, <1>13 DEF Step

(* Where a step leads, and the call it leaves.                             *)
LEMMA Stepped ==
  ASSUME TypeOK, NEW t \in Threads, NEW p, NEW c, Goto(t, p), Now(t, c)
  PROVE  pc'[t] = p /\ call'[t] = c
BY DEF TypeOK, Goto, Now

(* A call that ends with an error is outside the loop.                     *)
LEMMA EndGood ==
  ASSUME TypeOK, NEW t \in Threads, NEW c \in CallType, NEW r \in Results,
         End(t, c, r), c.fake /\ ScratchUsable => c.narrow,
         r = "ok" => \/ c.i = c.req.count
                     \/ c.i = RegistersFrom(c.req.offset, Bytes(c.size)),
         r = "ENOMEM" /\ ScratchUsable
           => ~ online \/ mem[scratch.offset] = Bits,
         UNCHANGED <<mem, devVars>>
  PROVE  Good(t)'
<1>. DEFINE e == [c EXCEPT !.result = r]
<1>1. /\ e.result = r /\ e.i = c.i /\ e.req = c.req /\ e.size = c.size
      /\ e.fake = c.fake /\ e.narrow = c.narrow
  BY DEF CallType
<1>2. pc'[t] = "leave" /\ call'[t] = e  BY Stepped DEF End
<1>3. /\ ScratchUsable' <=> ScratchUsable
      /\ UNCHANGED <<mem, online, scratch>>
  BY DEF devVars, ScratchUsable, OnBoard
<1>. HIDE DEF e
<1>. QED  BY <1>1, <1>2, <1>3
  DEF Good, Limit, Ended, Fresh, Tested, Detected, Real, Unstarted, At,
      Limited, Width

(* A value is delivered from within the limits.                            *)
LEMMA DeliverGood ==
  ASSUME TypeOK, NEW t \in Threads, NEW c \in CallType, Deliver(t, c),
         c.size \in Sizes, c.i < c.cnt,
         \/ c.cnt = c.req.count
         \/ c.cnt = RegistersFrom(c.req.offset, Bytes(c.size)),
         c.cnt <= RegistersFrom(c.req.offset, Bytes(c.size)),
         c.req.bar = "mapped", c.size # RW_D32 => c.narrow,
         (c.fake \/ c.gone) /\ ScratchUsable => c.narrow,
         UNCHANGED scratch
  PROVE  Good(t)'
<1>. DEFINE g == c.fake \/ c.gone
            j == c.i + 1
            e == [c EXCEPT !.i = j, !.fake = g]
<1>0. g \in BOOLEAN /\ j \in Nat /\ c.cnt \in Nat /\ j <= c.cnt
  BY DEF CallType
<1>1. pc'[t] = "loop" /\ call'[t] = e  BY Stepped DEF Deliver
<1>2. g /\ ScratchUsable' => c.narrow  BY DEF ScratchUsable, OnBoard
<1>. HIDE DEF g, j
<1>3. /\ e.i = j /\ e.req = c.req /\ e.size = c.size /\ e.cnt = c.cnt
      /\ e.narrow = c.narrow /\ e.fake = g
  BY <1>0 DEF CallType
<1>. HIDE DEF e
<1>. QED  BY <1>0, <1>1, <1>2, <1>3
  DEF Good, Limit, Ended, Fresh, Tested, Detected, Real, Unstarted, At,
      Limited, Width

(* A call outside the loop and before its end has little to keep.          *)
LEMMA UnstartedGood ==
  ASSUME NEW t \in Threads,
         pc'[t] \in {"idle", "correct", "enter", "setup", "lost"},
         call'[t].i = 0, ~ call'[t].fake
  PROVE  Good(t)'
BY DEF Good, Limit, Ended, Fresh, Tested, Detected, Real, Unstarted, At, Limited

(* A call that is lost has nothing to keep.                                *)
LEMMA LoseGood ==
  ASSUME TypeOK, NEW t \in Threads, Lose(t)
  PROVE  Good(t)'
<1>1. pc'[t] = "lost" /\ call'[t] = NewCall(NoRequest)
  BY Stepped DEF Lose
<1>. QED  BY <1>1, UnstartedGood DEF NewCall

(* An access of all four bytes of a board that is gone gives all ones, so  *)
(* it cannot differ from the pattern of all ones.                          *)
LEMMA GoneReads ==
  ASSUME ~ online, NEW a, NEW p
  PROVE  ~ MayDiffer(IoRead(a, 4), 4, 4)
BY DEF MayDiffer, MayEqual, IoRead

(* A pattern of ones that a register may equal has ones in its first byte. *)
LEMMA FirstByte ==
  ASSUME online, NEW a \in Nat, a < BarSize, NEW n \in {1, 2, 4},
         NEW p \in {1, 2, 4}, MayEqual(IoRead(a, n), n, p)
  PROVE  mem[a] = Bits
<1>1. IoRead(a, n)[0] = mem[a]  BY DEF IoRead
<1>2. IoRead(a, n)[0] = Bits  BY DEF MayEqual
<1>. QED  BY <1>1, <1>2

(* Every step of a call keeps that call's part of the invariant.           *)
LEMMA StepGood ==
  ASSUME TypeOK, LockInv, NEW t \in Threads, Good(t), Step(t)
  PROVE  Good(t)'
<1>. USE CallFields, Stepped
<1>d. /\ register_size \in Sizes /\ online \in BOOLEAN
      /\ scratch.offset \in Nat /\ BarSize \in Nat \ {0}
  BY RegAssumption DEF TypeOK
<1>e. call[t].fake /\ ScratchUsable => call[t].narrow  BY DEF Good, Detected
<1>g. UNCHANGED scratch  BY StepLock DEF devVars
<1>f. pc[t] \in Limited =>
        /\ call[t].size \in Sizes
        /\ call[t].req.bar = "mapped"
        /\ call[t].i <= call[t].cnt
        /\ pc[t] # "loop" => call[t].i < call[t].cnt
        /\ \/ call[t].cnt = call[t].req.count
           \/ call[t].cnt = RegistersFrom(call[t].req.offset, Width(t))
        /\ call[t].cnt <= RegistersFrom(call[t].req.offset, Width(t))
        /\ call[t].size # RW_D32 => call[t].narrow
  BY DEF Good, Limit
<1>1. CASE CorrectUnlocked(t)
  <2>. DEFINE c == [call[t] EXCEPT !.size = CorrectSize(@, register_size)]
  <2>1. c.fake = call[t].fake /\ c.i = call[t].i  BY DEF CallType
  <2>2. pc'[t] = "enter" /\ call'[t] = c  BY <1>1 DEF CorrectUnlocked
  <2>3. call[t].i = 0 /\ ~ call[t].fake
    BY <1>1 DEF CorrectUnlocked, Good, Unstarted, At
  <2>. HIDE DEF c
  <2>. QED  BY <2>1, <2>2, <2>3, UnstartedGood
<1>2. CASE Enter(t)
  <2>1. pc'[t] = "setup" /\ call'[t] = call[t]  BY <1>2 DEF Enter, Goto, TypeOK
  <2>. QED  BY <1>2, <2>1, UnstartedGood DEF Enter, Good, Unstarted, At
<1>3. CASE Setup(t)
  <2>. DEFINE r == call[t].req
              s == CorrectSize(call[t].size, register_size)
              f == RegistersFrom(r.offset, Bytes(s))
              m == IF r.count < f THEN r.count ELSE f
              w == s # RW_D32
              c == [call[t] EXCEPT !.size = s, !.narrow = w, !.cnt = m]
  <2>1. s \in Sizes /\ s \in SizeCodes
    BY <1>d, Corrected DEF Sizes, SizeCodes, RW_D8, RW_D32
  <2>2. f \in Nat  BY Widths, FromType
  <2>3. m \in Nat /\ m <= f /\ (m = r.count \/ m = f)  BY <2>2
  <2>4. ~ call[t].fake /\ call[t].i = 0
    BY <1>3 DEF Setup, At, Good, Unstarted
  <2>5. w \in BOOLEAN /\ (s # RW_D32 => w)  OBVIOUS
  <2>6. UNCHANGED <<mem, devVars>>  BY <1>3 DEF Setup
  <2>7. \/ End(t, c, "EFAULT")
        \/ r.bar = "mapped" /\ Goto(t, "loop") /\ Now(t, c)
        \/ Lose(t)
    BY <1>3 DEF Setup
  <2>. HIDE DEF s, m, w
  <2>8. /\ c \in CallType /\ c.size = s /\ c.cnt = m /\ c.i = call[t].i
        /\ c.req = r /\ c.fake = call[t].fake /\ c.narrow = w
    BY <2>1, <2>3, <2>5 DEF CallType
  <2>. HIDE DEF c
  <2>9. CASE End(t, c, "EFAULT")
    BY <2>4, <2>6, <2>8, <2>9, EndGood DEF Results
  <2>10. CASE r.bar = "mapped" /\ Goto(t, "loop") /\ Now(t, c)
    <3>1. pc'[t] = "loop" /\ call'[t] = c  BY <2>10
    <3>. QED  BY <2>1, <2>2, <2>3, <2>4, <2>5, <2>8, <2>10, <3>1
      DEF Good, Limit, Ended, Fresh, Tested, Detected, Real, Unstarted, At,
          Limited, Width
  <2>. QED  BY <2>7, <2>9, <2>10, LoseGood
<1>4. CASE LoopEnd(t)
  <2>1. call[t].i = call[t].cnt /\ pc[t] = "loop" /\ End(t, call[t], "ok")
    BY <1>4 DEF LoopEnd, At
  <2>2. \/ call[t].i = call[t].req.count
        \/ call[t].i = RegistersFrom(call[t].req.offset, Bytes(call[t].size))
    BY <1>f, <2>1 DEF Limited, Width
  <2>. QED  BY <1>4, <1>e, <2>1, <2>2, EndGood DEF LoopEnd, Results
<1>5. CASE CopyFails(t)
  BY <1>5, <1>e, EndGood DEF CopyFails, Results
<1>6. CASE ReadRegister(t)
  <2>. DEFINE w == IoRead(Address(t), Width(t))
              g == ~ online
              c == [call[t] EXCEPT !.prev = w, !.gone = g]
  <2>1. w \in Word /\ g \in BOOLEAN  BY ReadType, <1>d
  <2>2. \/ Goto(t, "pattern") /\ Now(t, c)
        \/ MayDiffer(w, Width(t), Width(t)) /\ Deliver(t, c)
    BY <1>6 DEF ReadRegister
  <2>3. /\ pc[t] = "loop" /\ Mode(t) \in ReadModes /\ call[t].i < call[t].cnt
        /\ UNCHANGED <<mem, devVars>>
    BY <1>6 DEF ReadRegister, At
  <2>4. MayDiffer(w, Width(t), Width(t)) /\ g => Width(t) # 4  BY GoneReads
  <2>5. Width(t) # 4 => call[t].narrow
    BY <1>f, <2>3 DEF Width, Bytes, Limited, RW_D8, RW_D16, RW_D32
  <2>6. g <=> ~ online  OBVIOUS
  <2>. HIDE DEF w, g
  <2>7. /\ c \in CallType /\ c.size = call[t].size /\ c.cnt = call[t].cnt
        /\ c.i = call[t].i /\ c.req = call[t].req /\ c.fake = call[t].fake
        /\ c.narrow = call[t].narrow /\ c.gone = g
    BY <2>1 DEF CallType
  <2>. HIDE DEF c
  <2>8. CASE MayDiffer(w, Width(t), Width(t)) /\ Deliver(t, c)
    <3>1. (c.fake \/ c.gone) /\ ScratchUsable => c.narrow
      BY <1>e, <2>4, <2>5, <2>7, <2>8
    <3>. QED  BY <1>f, <1>g, <2>3, <2>7, <2>8, <3>1, DeliverGood DEF Limited, Width
  <2>9. CASE Goto(t, "pattern") /\ Now(t, c)
    <3>1. pc'[t] = "pattern" /\ call'[t] = c  BY <2>9
    <3>. QED  BY <1>e, <1>f, <1>g, <2>3, <2>6, <2>7, <3>1
      DEF Good, Limit, Ended, Fresh, Tested, Detected, Real, Unstarted, At,
          Limited, Width, Mode, devVars, ScratchUsable, OnBoard
  <2>. QED  BY <2>2, <2>8, <2>9
<1>7. CASE ScratchPattern(t)
  <2>. DEFINE g == call[t].narrow \/ register_size # RW_D32
              b == Bytes(register_size)
              c == [call[t] EXCEPT !.pattern = b, !.narrow = g]
  <2>1. pc[t] = "pattern" /\ UNCHANGED <<mem, devVars>>
    BY <1>7 DEF ScratchPattern, At
  <2>2. \/ scratch.bar # "mapped" /\ End(t, call[t], "ENOMEM")
        \/ Goto(t, "scratch") /\ Now(t, c)
    BY <1>7 DEF ScratchPattern
  <2>3. g \in BOOLEAN /\ b \in {1, 2, 4}  BY Widths DEF CallType
  <2>4. (call[t].narrow => g) /\ (b # 4 => g)
    BY <1>d DEF Bytes, RW_D8, RW_D16, RW_D32, Sizes
  <2>. HIDE DEF g, b
  <2>7. /\ c.size = call[t].size /\ c.cnt = call[t].cnt
        /\ c.i = call[t].i /\ c.req = call[t].req /\ c.fake = call[t].fake
        /\ c.narrow = g /\ c.gone = call[t].gone /\ c.pattern = b
    BY <2>3 DEF CallType
  <2>. HIDE DEF c
  <2>8. CASE scratch.bar # "mapped" /\ End(t, call[t], "ENOMEM")
    BY <1>e, <2>1, <2>8, EndGood DEF Results, ScratchUsable, OnBoard
  <2>9. CASE Goto(t, "scratch") /\ Now(t, c)
    <3>1. pc'[t] = "scratch" /\ call'[t] = c  BY <2>9
    <3>. QED  BY <1>e, <1>f, <1>g, <2>1, <2>4, <2>7, <3>1
      DEF Good, Limit, Ended, Fresh, Tested, Detected, Real, Unstarted, At,
          Limited, Width, Mode, devVars, ScratchUsable, OnBoard
  <2>. QED  BY <2>2, <2>8, <2>9
<1>8. CASE ScratchRead(t)
  <2>. DEFINE g == call[t].narrow \/ register_size # RW_D32
              n == Bytes(register_size)
              w == IoRead(scratch.offset, n)
              p == call[t].pattern
              c == [call[t] EXCEPT !.narrow = g]
  <2>1. pc[t] = "scratch" /\ UNCHANGED <<mem, devVars>>
    BY <1>8 DEF ScratchRead, At
  <2>2. \/ (~ OnBoard(n) \/ MayEqual(w, n, p)) /\ End(t, c, "ENOMEM")
        \/ (~ OnBoard(n) \/ MayDiffer(w, n, p)) /\ Deliver(t, c)
        \/ Lose(t)
    BY <1>8 DEF ScratchRead
  <2>3. /\ g \in BOOLEAN /\ n \in {1, 2, 4} /\ p \in {1, 2, 4}
        /\ call[t].narrow => g
    BY Widths DEF CallType
  <2>4. n # 4 => g
    BY <1>d DEF Bytes, RW_D8, RW_D16, RW_D32, Sizes
  <2>5. (p # 4 => call[t].narrow) /\ (call[t].gone => ~ online)
    BY <2>1 DEF Good, Tested, At
  <2>6. MayDiffer(w, n, p) /\ ~ online => n # 4 \/ p # 4  BY GoneReads
  <2>u. ScratchUsable => OnBoard(n) /\ scratch.offset < BarSize
    <3>. HIDE CallFields, Stepped
    <3>. QED  BY <1>d, <2>3 DEF ScratchUsable, OnBoard
  <2>7. MayEqual(w, n, p) /\ online /\ ScratchUsable
          => mem[scratch.offset] = Bits
    BY <1>d, <2>3, <2>u, FirstByte
  <2>. HIDE DEF g, n, w, p
  <2>8. /\ c \in CallType /\ c.size = call[t].size /\ c.cnt = call[t].cnt
        /\ c.i = call[t].i /\ c.req = call[t].req /\ c.fake = call[t].fake
        /\ c.narrow = g /\ c.gone = call[t].gone
    BY <2>3 DEF CallType
  <2>. HIDE DEF c
  <2>9. CASE (~ OnBoard(n) \/ MayEqual(w, n, p)) /\ End(t, c, "ENOMEM")
    BY <1>e, <2>1, <2>3, <2>u, <2>7, <2>8, <2>9, EndGood DEF Results
  <2>10. CASE (~ OnBoard(n) \/ MayDiffer(w, n, p)) /\ Deliver(t, c)
    <3>1. (c.fake \/ c.gone) /\ ScratchUsable => c.narrow
      BY <1>e, <2>3, <2>4, <2>5, <2>6, <2>u, <2>8, <2>10
    <3>. QED  BY <1>f, <1>g, <2>1, <2>3, <2>8, <2>10, <3>1, DeliverGood
      DEF Limited, Width
  <2>. QED  BY <2>2, <2>9, <2>10, LoseGood
<1>9. CASE WriteRegister(t)
  <2>. DEFINE c == [call[t] EXCEPT !.i = @ + 1]
  <2>1. pc[t] = "loop" /\ pc'[t] = "loop" /\ call'[t] = c
    BY <1>9 DEF WriteRegister, At, Now, TypeOK
  <2>2. call[t].i < call[t].cnt  BY <1>9 DEF WriteRegister
  <2>3. /\ c.size = call[t].size /\ c.cnt = call[t].cnt
        /\ c.i = call[t].i + 1 /\ c.req = call[t].req /\ c.fake = call[t].fake
        /\ c.narrow = call[t].narrow
    BY DEF CallType
  <2>. HIDE DEF c
  <2>. QED  BY <1>e, <1>f, <1>g, <2>1, <2>2, <2>3
    DEF Good, Limit, Ended, Fresh, Tested, Detected, Real, Unstarted, At,
        Limited, Width, ScratchUsable, OnBoard
<1>10. CASE ReadOld(t)
  <2>. DEFINE w == IoRead(Address(t), Width(t))
              c == [call[t] EXCEPT !.prev = w]
  <2>1. /\ pc[t] = "loop" /\ pc'[t] = "modify" /\ call'[t] = c
        /\ Mode(t) \in BitModes /\ UNCHANGED <<mem, devVars>>
    BY <1>10 DEF ReadOld, At
  <2>2. call[t].i < call[t].cnt  BY <1>10 DEF ReadOld
  <2>3. w \in Word  BY ReadType
  <2>4. Address(t) + Width(t) <= BarSize - 1
    <3>1. call[t].i < RegistersFrom(call[t].req.offset, Width(t))
      <4>1. RegistersFrom(call[t].req.offset, Width(t)) \in Nat  BY FromType
      <4>. QED  BY <1>f, <2>1, <2>2, <4>1 DEF Limited
    <3>. QED  BY <3>1, Fits DEF Address
  <2>5. online => \A k \in 0 .. Width(t) - 1 : w[k] = mem[Address(t) + k]
    BY <2>4, RegAssumption DEF IoRead
  <2>. HIDE DEF w
  <2>6. /\ c.size = call[t].size /\ c.cnt = call[t].cnt
        /\ c.i = call[t].i /\ c.req = call[t].req /\ c.fake = call[t].fake
        /\ c.narrow = call[t].narrow /\ c.prev = w
    BY <2>3 DEF CallType
  <2>. HIDE DEF c
  <2>7. Limit(t)'  BY <1>f, <2>1, <2>2, <2>6 DEF Limit, Limited, Width
  <2>8. Fresh(t)'
    BY <2>1, <2>5, <2>6 DEF Fresh, Mode, Address, Width, devVars
  <2>. QED  BY <1>e, <1>g, <2>1, <2>6, <2>7, <2>8
    DEF Good, Ended, Tested, Detected, Real, Unstarted, At, ScratchUsable,
        OnBoard
<1>11. CASE WriteNew(t)
  <2>. DEFINE c == [call[t] EXCEPT !.i = @ + 1]
  <2>1. pc[t] = "modify" /\ pc'[t] = "loop" /\ call'[t] = c
    BY <1>11 DEF WriteNew, At
  <2>3. /\ c.size = call[t].size /\ c.cnt = call[t].cnt
        /\ c.i = call[t].i + 1 /\ c.req = call[t].req /\ c.fake = call[t].fake
        /\ c.narrow = call[t].narrow
    BY DEF CallType
  <2>. HIDE DEF c
  <2>. QED  BY <1>e, <1>f, <1>g, <2>1, <2>3
    DEF Good, Limit, Ended, Fresh, Tested, Detected, Real, Unstarted, At,
        Limited, Width, ScratchUsable, OnBoard
<1>12. CASE Leave(t)
  BY <1>12, UnstartedGood DEF Leave, NewCall
<1>13. CASE ReadScratch(t)
  BY <1>13, LoseGood DEF ReadScratch
<1>. QED  BY <1>1, <1>2, <1>3, <1>4, <1>5, <1>6, <1>7, <1>8, <1>9, <1>10,
             <1>11, <1>12, <1>13 DEF Step

-----------------------------------------------------------------------------
(* The invariant holds in every state.                                     *)

(* It holds when the structure is published.                               *)
LEMMA InitInv == Init => Inv
<1>. SUFFICES ASSUME Init PROVE Inv  OBVIOUS
<1>1. TypeOK
  <2>1. NewCall(NoRequest) \in CallType  BY NewCallType, NoRequestType
  <2>2. scratch \in [bar : BarKinds, offset : Nat]
    <3>1. {0, ShapiScratch} \subseteq Nat /\ {"mapped"} \subseteq BarKinds
      BY RegAssumption DEF BarKinds
    <3>. QED  BY <3>1 DEF Init
  <2>. QED  BY <2>1, <2>2, RegAssumption DEF Init, TypeOK, Byte, Pcs
<1>2. LockInv  BY RegAssumption DEF Init, LockInv, Held
<1>3. ASSUME NEW t \in Threads PROVE Good(t)
  BY DEF Init, Good, Limit, Ended, Fresh, Tested, Detected, Real, Unstarted,
         At, Limited, NewCall
<1>. QED  BY <1>1, <1>2, <1>3 DEF Inv

(* Every step keeps it.                                                    *)
LEMMA NextInv == Inv /\ [Next]_vars => Inv'
<1>. SUFFICES ASSUME Inv, [Next]_vars PROVE Inv'  OBVIOUS
<1>. USE DEF Inv
<1>1. ASSUME NEW t \in Threads, Step(t) PROVE Inv'
  <2>1. TypeOK' /\ LockInv' /\ Good(t)'
    BY <1>1, StepType, StepLock, StepGood
  <2>2. ASSUME NEW u \in Threads, u # t PROVE Good(u)'
    BY <1>1, <2>2, StepLock, Frame DEF devVars
  <2>. QED  BY <2>1, <2>2
<1>2. ASSUME NEW t \in Threads, NEW r \in Requests, CallBegin(t, r) PROVE Inv'
  <2>1. r \in RequestType  BY RegAssumption
  <2>2. NewCall(r) \in CallType /\ NewCall(r).i = 0 /\ ~ NewCall(r).fake
    BY <2>1, NewCallType DEF NewCall
  <2>3. /\ pc'[t] \in {"correct", "enter"} /\ call'[t] = NewCall(r)
        /\ \A u \in Threads \ {t} : pc'[u] = pc[u] /\ call'[u] = call[u]
        /\ pc[t] = "idle" /\ UNCHANGED <<mem, devVars, dev_mut>>
    BY <1>2 DEF CallBegin, Now, Goto, TypeOK, At
  <2>4. TypeOK'
    BY <1>2, <2>2 DEF CallBegin, Now, Goto, TypeOK, devVars, Pcs
  <2>5. LockInv'  BY <2>3 DEF LockInv, Held
  <2>6. Good(t)'  BY <2>2, <2>3, UnstartedGood
  <2>7. ASSUME NEW u \in Threads, u # t PROVE Good(u)'
    BY <2>3, <2>7, Frame DEF devVars
  <2>. QED  BY <2>4, <2>5, <2>6, <2>7
<1>3. ASSUME NEW m \in SizeCodes, SetRegisterSize(m) PROVE Inv'
  <2>1. register_size' \in Sizes
    BY <1>3, Corrected DEF SetRegisterSize, Sizes, RW_D8, RW_D32
  <2>2. TypeOK' /\ LockInv'
    BY <1>3, <2>1 DEF SetRegisterSize, TypeOK, LockInv
  <2>. QED  BY <1>3, <2>2, Frame DEF SetRegisterSize
<1>4. CASE SetSwap
  <2>1. TypeOK' /\ LockInv'  BY <1>4 DEF SetSwap, TypeOK, LockInv
  <2>. QED  BY <1>4, <2>1, Frame DEF SetSwap
<1>5. CASE SetScratch
  <2>1. TypeOK' /\ LockInv'
    BY <1>5, RegAssumption DEF SetScratch, TypeOK, LockInv
  <2>2. ASSUME NEW u \in Threads PROVE pc[u] \notin Held
    BY <1>5, RegAssumption DEF SetScratch, LockInv
  <2>. QED  BY <1>5, <2>1, <2>2, Frame DEF SetScratch
<1>6. CASE BoardGone
  <2>1. TypeOK' /\ LockInv'  BY <1>6 DEF BoardGone, TypeOK, LockInv
  <2>2. ASSUME NEW t \in Threads PROVE Good(t)'
    <3>1. /\ pc'[t] = pc[t] /\ call'[t] = call[t] /\ ~ online' /\ Good(t)
          /\ Width(t)' = Width(t) /\ Mode(t)' = Mode(t)
          /\ ScratchUsable' = ScratchUsable
      BY <1>6 DEF BoardGone, Width, Mode, ScratchUsable, OnBoard
    <3>. QED  BY <3>1 DEF Good, Limit, Ended, Fresh, Tested, Detected, Real,
                          Unstarted, At
  <2>. QED  BY <2>1, <2>2
<1>7. CASE UNCHANGED vars
  <2>1. TypeOK' /\ LockInv'  BY <1>7 DEF vars, devVars, TypeOK, LockInv
  <2>. QED  BY <1>7, <2>1, Frame DEF vars, devVars
<1>. QED  BY <1>1, <1>2, <1>3, <1>4, <1>5, <1>6, <1>7 DEF Next

(* Every reachable state satisfies the invariant.                          *)
THEOREM RegSafety == Spec => []Inv
BY InitInv, NextInv, PTL DEF Spec

(***************************************************************************)
(* The variables keep their types; register_size is a size that            *)
(* Read_Write_Private knows, whatever SET_REGISTER_SIZE is given.          *)
(***************************************************************************)
THEOREM RegTypes == Spec => []TypeOK
BY RegSafety, PTL DEF Inv

(***************************************************************************)
(* Every register the loops of read_write_inline.h touch lies in the       *)
(* mapping, for a BAR index the arrays have.  The scratch test has no such *)
(* limit.                                                                  *)
(***************************************************************************)
THEOREM LoopIsInside == Spec => []LoopInsideBar
<1>1. Inv => LoopInsideBar
  <2>. SUFFICES ASSUME Inv, NEW t \in Threads, pc[t] \in {"loop", "modify"},
                       call[t].i < call[t].cnt
                PROVE  /\ call[t].req.bar = "mapped"
                       /\ Address(t) + Width(t) <= BarSize - 1
    BY DEF LoopInsideBar
  <2>. USE CallFields DEF Inv
  <2>1. RegistersFrom(call[t].req.offset, Width(t)) \in Nat  BY FromType
  <2>2. call[t].i < RegistersFrom(call[t].req.offset, Width(t))
    BY <2>1 DEF Good, Limit, Limited
  <2>3. call[t].req.bar = "mapped"  BY DEF Good, Limit, Limited
  <2>. QED  BY <2>2, <2>3, Fits DEF Address
<1>. QED  BY <1>1, RegSafety, PTL

(***************************************************************************)
(* Only the last register of a BAR is out of reach of a call without       *)
(* faults.                                                                 *)
(***************************************************************************)
THEOREM LastRegister == Spec => []OnlyLastRegisterLost
<1>1. Inv => OnlyLastRegisterLost
  <2>. SUFFICES ASSUME Inv, NEW t \in Threads, At(t, "leave"),
                       call[t].result = "ok", call[t].i < call[t].req.count
                PROVE  Address(t) + 2 * Width(t) > BarSize
    BY DEF OnlyLastRegisterLost
  <2>. USE CallFields DEF Inv
  <2>1. call[t].i = RegistersFrom(call[t].req.offset, Width(t))
    BY DEF Good, Ended
  <2>. QED  BY <2>1, LastOne DEF Address
<1>. QED  BY <1>1, RegSafety, PTL

(***************************************************************************)
(* A board that has left the bus is noticed, and none of its values        *)
(* reaches the user, by a 32-bit read whose scratch test used 32 bits both *)
(* times it looked at register_size and whose scratch register is a        *)
(* register of the BAR.                                                    *)
(***************************************************************************)
THEOREM GoneIsNoticed == Spec => []GoneBoardDetected
<1>1. Inv => GoneBoardDetected  BY DEF Inv, Good, Detected, GoneBoardDetected
<1>. QED  BY <1>1, RegSafety, PTL

(***************************************************************************)
(* If the scratch register is a register of the BAR, a read reports a lost *)
(* board only if it is lost or that register holds ones.                   *)
(***************************************************************************)
THEOREM ReportIsReal == Spec => []LinkErrorIsReal
<1>1. Inv => LinkErrorIsReal  BY DEF Inv, Good, Real, LinkErrorIsReal
<1>. QED  BY <1>1, RegSafety, PTL

-----------------------------------------------------------------------------
(* Read-modify-write.                                                      *)

(* Byte k of a swapped word is the byte the user gave at the other end.    *)
LEMMA SwappedByte ==
  ASSUME NEW w \in Word, NEW n \in {1, 2, 4}, NEW k \in 0 .. n - 1
  PROVE  Swapped(w, n)[k] = w[IF swap THEN n - 1 - k ELSE k]
BY DEF Swapped

(* What WriteRegister and WriteNew write is what the user meant.           *)
LEMMA WriteExact ==
  ASSUME Inv, NEW t \in Threads, WriteRegister(t) \/ WriteNew(t),
         NEW b \in 0 .. BarSize - 1
  PROVE  mem'[b] = IF online /\ b - Address(t) \in 0 .. Width(t) - 1
                     THEN Intended(t, b) ELSE mem[b]
<1>. USE CallFields DEF Inv
<1>. DEFINE n == Width(t)
            k == b - Address(t)
            u == IF swap THEN n - 1 - k ELSE k
            r == call[t].req
<1>0. mem[b] \in SUBSET Bits /\ BarSize \in Nat
  BY RegAssumption DEF TypeOK, Byte
<1>1. CASE WriteRegister(t) /\ Mode(t) = "write"
  <2>1. mem'[b] = IF online /\ k \in 0 .. n - 1
                    THEN Swapped(r.data, n)[k] ELSE mem[b]
    BY <1>1 DEF WriteRegister, IoWrite
  <2>2. k \in 0 .. n - 1 => Swapped(r.data, n)[k] = r.data[u]
    BY SwappedByte
  <2>3. Intended(t, b) = r.data[u]  BY <1>1 DEF Intended
  <2>. QED  BY <2>1, <2>2, <2>3
<1>2. CASE WriteRegister(t) /\ Mode(t) # "write"
  <2>1. Mode(t) = "other" /\ mem' = mem  BY <1>2 DEF WriteRegister
  <2>2. Intended(t, b) = mem[b]  BY <2>1 DEF Intended
  <2>. QED  BY <2>1, <2>2
<1>3. CASE WriteNew(t)
  <2>. DEFINE old  == call[t].prev
              mask == Swapped(r.mask, n)
              data == IF Mode(t) = "set_bits" THEN Swapped(r.data, n)
                                              ELSE Inverted(old)
  <2>1. mem'[b] = IF online /\ k \in 0 .. n - 1
                    THEN Merged(old, data, mask)[k] ELSE mem[b]
    BY <1>3 DEF WriteNew, IoWrite
  <2>2. SUFFICES ASSUME online, k \in 0 .. n - 1
                 PROVE  Merged(old, data, mask)[k] = Intended(t, b)
    BY <2>1
  <2>3. Mode(t) \in BitModes /\ old[k] = mem[b]
    <3>1. /\ Mode(t) \in BitModes
          /\ \A j \in 0 .. n - 1 : old[j] = mem[Address(t) + j]
      BY <1>3, <2>2 DEF WriteNew, At, Good, Fresh
    <3>2. Address(t) + k = b  OBVIOUS
    <3>. QED  BY <2>2, <3>1, <3>2
  <2>4. mask[k] = r.mask[u] /\ Swapped(r.data, n)[k] = r.data[u]
    BY <2>2, SwappedByte
  <2>5. k \in 0 .. 3 /\ u \in 0 .. 3  BY <2>2
  <2>6. r.mask[u] \in SUBSET Bits /\ r.data[u] \in SUBSET Bits
    BY <2>5 DEF Word, Byte
  <2>7. Merged(old, data, mask)[k] = (data[k] \cap mask[k]) \cup (old[k] \ mask[k])
    BY <2>5 DEF Merged
  <2>. HIDE DEF k, u, n, r
  <2>8. CASE Mode(t) = "set_bits"
    <3>1. Intended(t, b) = {x \in Bits : IF x \in r.mask[u] THEN x \in r.data[u]
                                         ELSE x \in mem[b]}
      BY <2>8 DEF Intended, k, u, n, r
    <3>2. data[k] = r.data[u]  BY <2>8, <2>4
    <3>. QED  BY <1>0, <2>3, <2>4, <2>6, <2>7, <3>1, <3>2, Zenon
  <2>9. CASE Mode(t) = "swap_bits"
    <3>1. Intended(t, b) = {x \in Bits : (x \in r.mask[u]) # (x \in mem[b])}
      BY <2>9 DEF Intended, k, u, n, r
    <3>2. data[k] = Bits \ mem[b]  BY <2>3, <2>5, <2>9 DEF Inverted
    <3>. QED  BY <1>0, <2>3, <2>4, <2>6, <2>7, <3>1, <3>2
  <2>. QED  BY <2>3, <2>8, <2>9 DEF BitModes
<1>. QED  BY <1>1, <1>2, <1>3

(***************************************************************************)
(* Writes, SET_BITS and SWAP_BITS of any number of threads are exact: no   *)
(* bit outside a mask changes and no update is lost.                       *)
(***************************************************************************)
THEOREM NoLostUpdate == Spec => WritesAreExact
<1>. DEFINE Exact ==
       /\ mem' # mem => \E t \in Threads : Writes(t)
       /\ \A t \in Threads : Writes(t) =>
            \A b \in 0 .. BarSize - 1 :
              mem'[b] = IF online /\ b - Address(t) \in 0 .. Width(t) - 1
                          THEN Intended(t, b) ELSE mem[b]
<1>1. Inv /\ [Next]_vars => [Exact]_vars
  <2>. SUFFICES ASSUME Inv, Next PROVE Exact  OBVIOUS
  <2>. USE CallFields DEF Inv
  <2>1. ASSUME NEW t \in Threads, WriteRegister(t) \/ WriteNew(t)
        PROVE  Exact
    <3>1. Writes(t)
      <4>1. Mode(t) \in WriteModes
        BY <2>1 DEF WriteRegister, WriteNew, WriteModes, Good, Fresh, At
      <4>2. call'[t] = [call[t] EXCEPT !.i = @ + 1]
        BY <2>1 DEF WriteRegister, WriteNew, Now, TypeOK
      <4>3. call'[t].i = call[t].i + 1  BY <4>2 DEF CallType
      <4>. QED  BY <4>1, <4>3 DEF Writes
    <3>2. ASSUME NEW u \in Threads, Writes(u) PROVE u = t
      <4>1. u # t => call'[u] = call[u]
        BY <2>1 DEF WriteRegister, WriteNew, Now, TypeOK
      <4>. QED  BY <3>2, <4>1 DEF Writes
    <3>. QED  BY <2>1, <3>1, <3>2, WriteExact
  <2>2. ASSUME mem' = mem, \A t \in Threads : ~ Writes(t) PROVE Exact
    BY <2>2
  <2>3. ASSUME NEW t \in Threads, NEW c \in CallType, c.i = call[t].i,
               End(t, c, "ok") \/ End(t, c, "EFAULT") \/ End(t, c, "ENOMEM")
               \/ End(t, c, "short") \/ Now(t, c)
        PROVE  call'[t].i = call[t].i
    BY <2>3 DEF End, Now, TypeOK, CallType
  <2>4. ASSUME NEW t \in Threads, Step(t), ~ WriteRegister(t), ~ WriteNew(t)
        PROVE  mem' = mem /\ ~ Writes(t)
    <3>. SUFFICES ASSUME Mode(t) \notin ReadModes
                  PROVE  mem' = mem /\ call'[t].i # call[t].i + 1
      BY <2>4 DEF Writes, ReadModes, WriteModes, BitModes, Step,
         CorrectUnlocked, Enter, Setup, LoopEnd, CopyFails, ReadRegister,
         ScratchPattern, ScratchRead, ReadOld, Leave, ReadScratch
    <3>l. ASSUME Lose(t) PROVE call'[t].i # call[t].i + 1
      BY <3>l DEF Lose, Now, TypeOK, NewCall
    <3>1. ~ ReadRegister(t) /\ ~ ScratchPattern(t) /\ ~ ScratchRead(t)
      BY DEF ReadRegister, ScratchPattern, ScratchRead, At, Good, Tested
    <3>2. CASE CorrectUnlocked(t)
      <4>. DEFINE s == CorrectSize(call[t].size, register_size)
                  c == [call[t] EXCEPT !.size = s]
      <4>1. s \in SizeCodes
        BY DEF TypeOK, CorrectSize, Sizes, SizeCodes, RW_D8, RW_D32
      <4>2. Now(t, c)  BY <3>2 DEF CorrectUnlocked
      <4>. HIDE DEF s
      <4>3. c \in CallType /\ c.i = call[t].i  BY <4>1 DEF CallType
      <4>. HIDE DEF c
      <4>. QED  BY <3>2, <4>2, <4>3, <2>3 DEF CorrectUnlocked
    <3>7. CASE ReadOld(t)
      <4>. DEFINE w == IoRead(Address(t), Width(t))
                  c == [call[t] EXCEPT !.prev = w]
      <4>1. w \in Word  BY ReadType
      <4>2. Now(t, c)  BY <3>7 DEF ReadOld
      <4>. HIDE DEF w
      <4>3. c \in CallType /\ c.i = call[t].i  BY <4>1 DEF CallType
      <4>. HIDE DEF c
      <4>. QED  BY <3>7, <4>2, <4>3, <2>3 DEF ReadOld
    <3>3. CASE Enter(t)  BY <3>3 DEF Enter
    <3>4. CASE Setup(t)
      <4>. DEFINE s == CorrectSize(call[t].size, register_size)
                  f == RegistersFrom(call[t].req.offset, Bytes(s))
                  m == IF call[t].req.count < f THEN call[t].req.count ELSE f
                  w == s # RW_D32
                  c == [call[t] EXCEPT !.size = s, !.narrow = w, !.cnt = m]
      <4>1. End(t, c, "EFAULT") \/ Now(t, c) \/ Lose(t)  BY <3>4 DEF Setup
      <4>2. f \in Nat  BY Widths, FromType
      <4>3. s \in SizeCodes /\ m \in Nat /\ w \in BOOLEAN
        BY <4>2 DEF TypeOK, CorrectSize, Sizes, SizeCodes, RW_D8, RW_D32
      <4>. HIDE DEF s, m, w
      <4>4. c \in CallType /\ c.i = call[t].i  BY <4>3 DEF CallType
      <4>. HIDE DEF c
      <4>. QED  BY <3>4, <3>l, <4>1, <4>4, <2>3 DEF Setup
    <3>5. CASE LoopEnd(t) \/ CopyFails(t)
      BY <3>5, <2>3 DEF LoopEnd, CopyFails
    <3>6. CASE Leave(t)
      BY <3>6 DEF Leave, Now, TypeOK, NewCall
    <3>8. CASE ReadScratch(t)
      BY <3>8, <3>l DEF ReadScratch
    <3>. QED  BY <2>4, <3>1, <3>2, <3>3, <3>4, <3>5, <3>6, <3>7, <3>8 DEF Step
  <2>5. ASSUME NEW t \in Threads, Step(t) PROVE Exact
    <3>1. \A u \in Threads \ {t} : call'[u] = call[u]  BY <2>5, StepLock
    <3>2. \A u \in Threads \ {t} : ~ Writes(u)  BY <3>1 DEF Writes
    <3>. QED  BY <2>1, <2>2, <2>4, <2>5, <3>2
  <2>6. ASSUME NEW t \in Threads, NEW r \in Requests, CallBegin(t, r) PROVE Exact
    <3>1. mem' = mem /\ call'[t].i = 0
          /\ \A u \in Threads \ {t} : call'[u] = call[u]
      BY <2>6 DEF CallBegin, Now, TypeOK, NewCall
    <3>2. \A u \in Threads : ~ Writes(u)  BY <3>1 DEF Writes
    <3>. QED  BY <2>2, <3>1, <3>2
  <2>7. ASSUME mem' = mem, call' = call PROVE Exact
    <3>1. \A u \in Threads : ~ Writes(u)  BY <2>7 DEF Writes
    <3>. QED  BY <2>2, <2>7, <3>1
  <2>. QED
    BY <2>5, <2>6, <2>7 DEF Next, SetRegisterSize, SetSwap, SetScratch, BoardGone
<1>. QED  BY <1>1, RegSafety, PTL DEF Spec, WritesAreExact
=============================================================================
