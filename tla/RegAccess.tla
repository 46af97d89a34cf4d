----------------------------- MODULE RegAccess -----------------------------
(***************************************************************************)
(* What read, write and the register ioctls do to the registers of one     *)
(* board that stays bound: the limits of the BAR, the access loop of       *)
(* read_write_inline.h, read-modify-write under dev_mut, and the scratch   *)
(* register by which a read finds out that the board has left the bus.     *)
(*                                                                         *)
(* A byte is a set of bits and a u32 is four bytes, the lowest at index 0. *)
(* Registers change only when the driver writes them.  dev_mut is the      *)
(* mutex of the default build.                                             *)
(***************************************************************************)
EXTENDS Integers

CONSTANTS
  Threads, NoThread,
  Bits,            \* the bits of a byte
  BarSize,         \* bytes of the BAR: pci_resource_end - start + 1
  Requests,        \* accesses user programs ask for
  ScratchOffsets,  \* offsets user programs give to the scratch register
  ShapiScratch     \* WORD_SCRATCH_REGISTER

RW_D8  == 0
RW_D16 == 1
RW_D32 == 2

Sizes     == RW_D8 .. RW_D32
SizeCodes == 0 .. 3   \* what callers pass: one code for all the wrong ones

\* __GetRegisterSizeInBytes__
Bytes(m) == CASE m = RW_D8 -> 1 [] m = RW_D16 -> 2 [] OTHER -> 4

\* CORRECT_REGISTER_SIZE
CorrectSize(m, default) == IF m \in Sizes THEN m ELSE default

Byte == SUBSET Bits
Word == [0 .. 3 -> Byte]
Ones == [k \in 0 .. 3 |-> Bits]

ReadModes  == {"read", "locked_read"}
BitModes   == {"set_bits", "swap_bits"}
WriteModes == {"write", "other"} \cup BitModes

\* What a BAR index given by the user names: the BAR that is modelled, one
\* the board does not have, or nothing.  memmory_base, mem_base and
\* mem_base_end have NUMBER_OF_BARS entries and no access checks the index.
BarKinds == {"mapped", "absent", "outside"}

\* A user's request.  One for several registers gives the same data and
\* mask for each.
RequestType ==
  [mode : ReadModes \cup WriteModes, size : SizeCodes, bar : BarKinds,
   offset : Nat, count : Nat, data : Word, mask : Word]

ASSUME RegAssumption ==
  /\ NoThread \notin Threads
  /\ BarSize \in Nat \ {0}
  /\ Requests \subseteq RequestType
  /\ ScratchOffsets \subseteq Nat
  /\ ShapiScratch \in Nat
  /\ Bits # {}

VARIABLES
  mem,             \* the registers of the BAR, byte by byte
  online,          \* does the board answer?
  register_size,   \* fields of the pciedev_dev
  swap,
  scratch,         \* scratch_bar, as its kind, and scratch_offset
  dev_mut,
  pc,
  call             \* the request and the locals of each thread's call

devVars == <<online, register_size, swap, scratch>>
vars    == <<mem, devVars, dev_mut, pc, call>>

(***************************************************************************)
(* Locals: the request, the register size once corrected, the registers    *)
(* left after the limits were applied, the index of the loop, the value    *)
(* last read, the pattern the scratch register is compared with, and the   *)
(* result.  History: gone, was the board away when the value was read;     *)
(* fake, was such a value given to the user; narrow, did an access or a    *)
(* scratch test use less than 32 bits.  A call is lost when its access     *)
(* left the BAR or the arrays: it may fault or read and write anything, so *)
(* the model follows it no further, drops its locals and leaves it the     *)
(* lock.                                                                   *)
(***************************************************************************)
NewCall(r) ==
  [req |-> r, size |-> r.size, cnt |-> 0, i |-> 0, prev |-> Ones,
   pattern |-> 4, result |-> "none", gone |-> FALSE, fake |-> FALSE,
   narrow |-> FALSE]

Results == {"none", "ok", "EFAULT", "ENOMEM", "short"}

Pcs == {"idle", "correct", "enter", "setup", "loop", "modify", "pattern",
        "scratch", "leave", "lost"}

CallType ==
  [req : RequestType, size : SizeCodes, cnt : Nat, i : Nat, prev : Word,
   pattern : {1, 2, 4}, result : Results, gone : BOOLEAN, fake : BOOLEAN,
   narrow : BOOLEAN]

NoRequest == [mode |-> "read", size |-> RW_D8, bar |-> "absent", offset |-> 0,
              count |-> 0, data |-> Ones, mask |-> Ones]

TypeOK ==
  /\ mem \in [0 .. BarSize - 1 -> Byte]
  /\ online \in BOOLEAN
  /\ register_size \in Sizes
  /\ swap \in BOOLEAN
  /\ scratch \in [bar : BarKinds, offset : Nat]
  /\ dev_mut \in Threads \cup {NoThread}
  /\ pc \in [Threads -> Pcs]
  /\ call \in [Threads -> CallType]

\* The structure as probe leaves it.  register_size is set to RW_D32 only
\* after dev_sts, so the first calls may still find the zero of kzalloc or
\* the choice made for an earlier board.  The scratch register is the first
\* of BAR 0, or the one pciedev_get_brdinfo knows of a SHAPI board.
Init ==
  /\ mem = [a \in 0 .. BarSize - 1 |-> {}]
  /\ online = TRUE
  /\ register_size \in Sizes
  /\ swap = FALSE
  /\ scratch \in [bar : {"mapped"}, offset : {0, ShapiScratch}]
  /\ dev_mut = NoThread
  /\ pc = [t \in Threads |-> "idle"]
  /\ call = [t \in Threads |-> NewCall(NoRequest)]

-----------------------------------------------------------------------------
(* One register.                                                           *)

At(t, p)     == pc[t] = p
Mode(t)      == call[t].req.mode
Width(t)     == Bytes(call[t].size)
Address(t)   == call[t].req.offset + call[t].i * Width(t)
Goto(t, p)   == pc' = [pc EXCEPT ![t] = p]
Now(t, c)    == call' = [call EXCEPT ![t] = c]
End(t, c, r) == Goto(t, "leave") /\ Now(t, [c EXCEPT !.result = r])
Lose(t)      == Goto(t, "lost") /\ Now(t, NewCall(NoRequest))

\* ioread8, ioread16 or ioread32: a board that is gone answers all ones.
\* The bytes past the register are not the register's: see Differs.
IoRead(a, n) ==
  [k \in 0 .. 3 |-> IF online /\ k < n /\ a + k < BarSize
                      THEN mem[a + k] ELSE Bits]

\* iowrite8, iowrite16 or iowrite32.
IoWrite(a, n, w) ==
  mem' = [b \in 0 .. BarSize - 1 |->
            IF online /\ b - a \in 0 .. n - 1 THEN w[b - a] ELSE mem[b]]

\* UPCIEDEV_SWAP_TOT on the n bytes of a register, if swap is set.
Swapped(w, n) ==
  [k \in 0 .. 3 |-> IF swap /\ k < n THEN w[n - 1 - k] ELSE w[k]]

\* The new bits where the mask has a one, the old ones elsewhere.
Merged(old, data, mask) ==
  [k \in 0 .. 3 |-> (data[k] \cap mask[k]) \cup (old[k] \ mask[k])]

Inverted(w) == [k \in 0 .. 3 |-> Bits \ w[k]]

\* Can a u32 whose low n bytes were read as w equal p bytes of ones and no
\* more?  For n < 4 the other bytes of the variable are uninitialised, so
\* that it can also differ.
MayEqual(w, n, p) ==
  \A k \in 0 .. n - 1 : w[k] = IF k < p THEN Bits ELSE {}

MayDiffer(w, n, p) == n < 4 \/ ~ MayEqual(w, n, p)

-----------------------------------------------------------------------------
(* A call.                                                                 *)

CallBegin(t, r) ==
  /\ At(t, "idle")
  /\ Now(t, NewCall(r))
  /\ Goto(t, IF r.mode = "locked_read" THEN "correct" ELSE "enter")
  /\ UNCHANGED <<mem, devVars, dev_mut>>

\* PCIEDEV_LOCKED_READ corrects the size before it takes the lock.
CorrectUnlocked(t) ==
  /\ At(t, "correct")
  /\ Now(t, [call[t] EXCEPT !.size = CorrectSize(@, register_size)])
  /\ Goto(t, "enter")
  /\ UNCHANGED <<mem, devVars, dev_mut>>

\* Mutant: the access does not wait for the lock.
EnterAnyway(t) ==
  /\ At(t, "enter")
  /\ dev_mut' = t
  /\ Goto(t, "setup")
  /\ UNCHANGED <<mem, devVars, call>>

Enter(t) ==
  /\ At(t, "enter")
  /\ dev_mut = NoThread
  /\ dev_mut' = t
  /\ Goto(t, "setup")
  /\ UNCHANGED <<mem, devVars, call>>

\* Mutant: the size of the BAR is taken as it should be, but the register
\* that only begins in the BAR is counted too.
RegistersFromRounded(offset, n) ==
  IF BarSize > offset THEN (BarSize - offset + n - 1) \div n ELSE 0

\* Mutant: one register less than fits.
RegistersFromOneLess(offset, n) ==
  IF BarSize - n > offset THEN (BarSize - 1 - n - offset) \div n ELSE 0

\* cnt_after_offset_rw; mem_base_end - mem_base is one less than the size.
RegistersFrom(offset, n) ==
  LET total == BarSize - 1
  IN  IF total > offset THEN (total - offset) \div n ELSE 0

\* What lies past the end of memmory_base decides what an index outside it
\* does: a zero there is taken for a BAR that is absent.
Setup(t) ==
  /\ At(t, "setup")
  /\ LET r == call[t].req
         s == CorrectSize(call[t].size, register_size)
         n == Bytes(s)
         f == RegistersFrom(r.offset, n)
         c == [call[t] EXCEPT !.size = s, !.narrow = s # RW_D32,
                              !.cnt = IF r.count < f THEN r.count ELSE f]
     IN  \/ /\ r.bar # "mapped" \/ r.offset % n # 0
            /\ End(t, c, "EFAULT")
         \/ /\ r.bar = "mapped" /\ r.offset % n = 0
            /\ Goto(t, "loop") /\ Now(t, c)
         \/ /\ r.bar = "outside"
            /\ Lose(t)
  /\ UNCHANGED <<mem, devVars, dev_mut>>

LoopEnd(t) ==
  /\ At(t, "loop")
  /\ call[t].i = call[t].cnt
  /\ End(t, call[t], "ok")
  /\ UNCHANGED <<mem, devVars, dev_mut>>

\* copy_from_user or copy_to_user fails: the loop ends early.
CopyFails(t) ==
  /\ At(t, "loop")
  /\ call[t].i < call[t].cnt
  /\ End(t, call[t], "short")
  /\ UNCHANGED <<mem, devVars, dev_mut>>

\* The value is copied to the user and the loop goes on.
Deliver(t, c) ==
  /\ Now(t, [c EXCEPT !.i = @ + 1, !.fake = @ \/ c.gone])
  /\ Goto(t, "loop")

\* One turn of pciedev_read_inline: a value of all ones may mean that the
\* board is gone.
ReadRegister(t) ==
  /\ At(t, "loop") /\ Mode(t) \in ReadModes
  /\ call[t].i < call[t].cnt
  /\ LET n == Width(t)
         w == IoRead(Address(t), n)
         c == [call[t] EXCEPT !.prev = w, !.gone = ~ online]
     IN  \/ MayEqual(w, n, n) /\ Goto(t, "pattern") /\ Now(t, c)
         \/ MayDiffer(w, n, n) /\ Deliver(t, c)
  /\ UNCHANGED <<mem, devVars, dev_mut>>

\* Do n bytes of the scratch register lie in the BAR?
OnBoard(n) == scratch.bar = "mapped" /\ scratch.offset + n <= BarSize

\* pciedev_check_scratch: the pattern to compare with comes from
\* register_size ...
ScratchPattern(t) ==
  /\ At(t, "pattern")
  /\ \/ /\ scratch.bar # "mapped"
        /\ End(t, call[t], "ENOMEM")
     \/ /\ scratch.bar # "absent"
        /\ Now(t, [call[t] EXCEPT !.pattern = Bytes(register_size),
                                  !.narrow = @ \/ register_size # RW_D32])
        /\ Goto(t, "scratch")
  /\ UNCHANGED <<mem, devVars, dev_mut>>

\* Mutants: the scratch register is not compared with anything.
ScratchReadNever(t) ==
  /\ At(t, "scratch")
  /\ Deliver(t, call[t])
  /\ UNCHANGED <<mem, devVars, dev_mut>>

ScratchReadAlways(t) ==
  /\ At(t, "scratch")
  /\ End(t, call[t], "ENOMEM")
  /\ UNCHANGED <<mem, devVars, dev_mut>>

\* ... and so does the width of the access, which is read once more.  An
\* address that is not in the BAR is read all the same.
ScratchRead(t) ==
  /\ At(t, "scratch")
  /\ LET n == Bytes(register_size)
         w == IoRead(scratch.offset, n)
         p == call[t].pattern
         c == [call[t] EXCEPT !.narrow = @ \/ register_size # RW_D32]
     IN  \/ (~ OnBoard(n) \/ MayEqual(w, n, p)) /\ End(t, c, "ENOMEM")
         \/ (~ OnBoard(n) \/ MayDiffer(w, n, p)) /\ Deliver(t, c)
         \/ ~ OnBoard(n) /\ Lose(t)
  /\ UNCHANGED <<mem, devVars, dev_mut>>

\* MTCA_SIMPLE_WRITE, and an access mode past the known ones, for which
\* Read_Write_Private reads the register and the loop counts it as written.
WriteRegister(t) ==
  /\ At(t, "loop") /\ Mode(t) \in {"write", "other"}
  /\ call[t].i < call[t].cnt
  /\ IF Mode(t) = "write"
       THEN IoWrite(Address(t), Width(t), Swapped(call[t].req.data, Width(t)))
       ELSE UNCHANGED mem
  /\ Now(t, [call[t] EXCEPT !.i = @ + 1])
  /\ UNCHANGED <<devVars, dev_mut, pc>>

\* MTCA_SET_BITS and MTCA_SWAP_BITS read the register ...
ReadOld(t) ==
  /\ At(t, "loop") /\ Mode(t) \in BitModes
  /\ call[t].i < call[t].cnt
  /\ Now(t, [call[t] EXCEPT !.prev = IoRead(Address(t), Width(t))])
  /\ Goto(t, "modify")
  /\ UNCHANGED <<mem, devVars, dev_mut>>

\* ... and write it with the bits under the mask set or inverted.
WriteNew(t) ==
  /\ At(t, "modify")
  /\ LET n    == Width(t)
         old  == call[t].prev
         mask == Swapped(call[t].req.mask, n)
         data == IF Mode(t) = "set_bits" THEN Swapped(call[t].req.data, n)
                                         ELSE Inverted(old)
     IN  IoWrite(Address(t), n, Merged(old, data, mask))
  /\ Now(t, [call[t] EXCEPT !.i = @ + 1])
  /\ Goto(t, "loop")
  /\ UNCHANGED <<devVars, dev_mut>>

Leave(t) ==
  /\ At(t, "leave")
  /\ dev_mut' = NoThread
  /\ Now(t, NewCall(NoRequest))
  /\ Goto(t, "idle")
  /\ UNCHANGED <<mem, devVars>>

-----------------------------------------------------------------------------
(* Calls that change the fields of the structure, and the board.           *)

\* Mutant: the user's value is stored as it is.
SetRegisterSizeRaw(m) ==
  /\ register_size' = m
  /\ UNCHANGED <<mem, online, swap, scratch, dev_mut, pc, call>>

\* PCIEDEV_SET_REGISTER_SIZE takes no lock.
SetRegisterSize(m) ==
  /\ register_size' = CorrectSize(m, RW_D32)
  /\ UNCHANGED <<mem, online, swap, scratch, dev_mut, pc, call>>

\* PCIEDEV_SET_SWAP.
SetSwap ==
  /\ dev_mut = NoThread
  /\ swap' \in BOOLEAN
  /\ UNCHANGED <<mem, online, register_size, scratch, dev_mut, pc, call>>

\* PCIEDEV_SCRATCH_REG with cmd 0 stores what the user gives.
SetScratch ==
  /\ dev_mut = NoThread
  /\ scratch' \in [bar : BarKinds, offset : ScratchOffsets]
  /\ UNCHANGED <<mem, online, register_size, swap, dev_mut, pc, call>>

\* PCIEDEV_SCRATCH_REG with cmd 2 reads the scratch register for the user,
\* which changes nothing unless the address is not in the BAR.
ReadScratch(t) ==
  /\ At(t, "idle")
  /\ dev_mut = NoThread
  /\ scratch.bar # "absent" /\ ~ OnBoard(Bytes(register_size))
  /\ dev_mut' = t
  /\ Lose(t)
  /\ UNCHANGED <<mem, devVars>>

\* The board drops off the bus, at any moment.
BoardGone ==
  /\ online
  /\ online' = FALSE
  /\ UNCHANGED <<mem, register_size, swap, scratch, dev_mut, pc, call>>

Step(t) ==
  \/ CorrectUnlocked(t) \/ Enter(t) \/ Setup(t) \/ LoopEnd(t) \/ CopyFails(t)
  \/ ReadRegister(t) \/ ScratchPattern(t) \/ ScratchRead(t)
  \/ WriteRegister(t) \/ ReadOld(t) \/ WriteNew(t) \/ Leave(t)
  \/ ReadScratch(t)

Next ==
  \/ \E t \in Threads : Step(t) \/ \E r \in Requests : CallBegin(t, r)
  \/ \E m \in SizeCodes : SetRegisterSize(m)
  \/ SetSwap
  \/ SetScratch
  \/ BoardGone

Spec == Init /\ [][Next]_vars

-----------------------------------------------------------------------------
(* Properties.                                                             *)

(***************************************************************************)
(* Every register the access loop touches lies in the length pci_iomap     *)
(* mapped, which is mem_base_end - mem_base bytes, whatever size, offset   *)
(* and count the user gave and however register_size changed meanwhile.    *)
(* This is about the loop, for a BAR index the arrays have: neither the    *)
(* index nor the address of the scratch register is checked.               *)
(***************************************************************************)
LoopInsideBar ==
  \A t \in Threads :
    pc[t] \in {"loop", "modify"} /\ call[t].i < call[t].cnt
      => /\ call[t].req.bar = "mapped"
         /\ Address(t) + Width(t) <= BarSize - 1

(***************************************************************************)
(* A call that meets no fault reaches every register it asked for that     *)
(* lies in the BAR, except that it may leave out one: the last of the BAR, *)
(* because the size is computed as end - start.                            *)
(***************************************************************************)
OnlyLastRegisterLost ==
  \A t \in Threads :
    At(t, "leave") /\ call[t].result = "ok" /\ call[t].i < call[t].req.count
      => Address(t) + 2 * Width(t) > BarSize

(***************************************************************************)
(* A write turns a register into what the user meant, starting from what   *)
(* the register holds when it is written: SET_BITS gives the bits under    *)
(* the mask the user's values, SWAP_BITS inverts them, all other bits and  *)
(* registers stay.  So no read-modify-write loses what another call wrote, *)
(* and nothing but a write changes a register.                             *)
(***************************************************************************)
Intended(t, b) ==
  LET k    == b - Address(t)
      n    == Width(t)
      u    == IF swap THEN n - 1 - k ELSE k
      data == call[t].req.data[u]
      mask == call[t].req.mask[u]
  IN  CASE Mode(t) = "write"     -> data
        [] Mode(t) = "set_bits"  -> {x \in Bits : IF x \in mask THEN x \in data
                                                  ELSE x \in mem[b]}
        [] Mode(t) = "swap_bits" -> {x \in Bits : (x \in mask) # (x \in mem[b])}
        [] OTHER                 -> mem[b]

Writes(t) == Mode(t) \in WriteModes /\ call'[t].i = call[t].i + 1

WritesAreExact ==
  [][/\ mem' # mem => \E t \in Threads : Writes(t)
     /\ \A t \in Threads : Writes(t) =>
          \A b \in 0 .. BarSize - 1 :
            mem'[b] = IF online /\ b - Address(t) \in 0 .. Width(t) - 1
                        THEN Intended(t, b) ELSE mem[b]]_vars

(***************************************************************************)
(* The scratch register can tell a lost board only if it is a register of  *)
(* the BAR, which SCRATCH_REG does not ensure.                             *)
(***************************************************************************)
ScratchUsable == OnBoard(4)

(***************************************************************************)
(* With a usable scratch register, no value read from a board that is off  *)
(* the bus is given to the user, unless the access or the scratch test     *)
(* used less than 32 bits, where an uninitialised part of the value is     *)
(* compared.                                                               *)
(***************************************************************************)
GoneBoardDetected ==
  \A t \in Threads : call[t].fake /\ ScratchUsable => call[t].narrow

(***************************************************************************)
(* With a usable scratch register, a read reports a lost board only if the *)
(* board is gone or the first byte of the scratch register is all ones,    *)
(* although register_size may change between its two uses.                 *)
(***************************************************************************)
LinkErrorIsReal ==
  \A t \in Threads :
    At(t, "leave") /\ call[t].result = "ENOMEM" /\ ScratchUsable
      => ~ online \/ mem[scratch.offset] = Bits

(***************************************************************************)
(* What the comment of pciedev_check_scratch says its result 1 means, "pci *)
(* error accured": a read that fails with ENOMEM met a board that does not *)
(* answer.  Not so: the register may hold the value it is compared with.   *)
(***************************************************************************)
ErrorMeansLost ==
  \A t \in Threads :
    At(t, "leave") /\ call[t].result = "ENOMEM" => ~ online
=============================================================================
