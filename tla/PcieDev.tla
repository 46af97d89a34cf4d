------------------------------ MODULE PcieDev ------------------------------
(***************************************************************************)
(* The device structures of one top-level driver and everything that runs  *)
(* on them concurrently: open, release, read, write and ioctl calls of     *)
(* user threads, and hot-plug workers that probe and remove boards.        *)
(*                                                                         *)
(* This is the default build, in which dev_mut is a kernel mutex           *)
(* (criticalregionlock.h, USE_SEMAPHORE not defined).  A step is the code  *)
(* between two points at which another thread can observe or change what   *)
(* it uses.  The six BARs of a board are represented by one: every loop    *)
(* over them treats each BAR alike.                                        *)
(***************************************************************************)
EXTENDS Integers, FiniteSets

CONSTANTS
  Threads,          \* contexts that execute driver code
  Files,            \* struct file objects
  Boards,           \* struct pci_dev objects
  PCIEDEV_NR_DEVS,  \* boards one driver serves; index of the null device
  Calls,            \* call patterns user threads make, a subset of AllCalls
  UserFaults,       \* may copy_from_user fail in read and write?
  SerialHotplug,    \* does the PCI core run one probe or remove at a time?
  MaxCount,         \* bound: no probe once pciedevModuleNum has passed it
  MaxRef,           \* bound: no open once a dev_file_ref is MaxRef or -MaxRef
  NoThread, NoFile, NoBoard

(***************************************************************************)
(* Call patterns on an open file.  Two calls are one pattern when they     *)
(* test, lock, access registers and unlock in the same order.              *)
(*   rw             read, write                                            *)
(*   ioctl_rw       SET_BITS, SWAP_BITS, SCRATCH_REG with cmd 2            *)
(*   ioctl_pre      LOCKED_READ, VECTOR_RW: user copy before the lock      *)
(*   ioctl_info     the ioctls that lock and only copy driver data         *)
(*   single_read    SINGLE_IOC_ACCESS, a read mode other than LOCKED_READ  *)
(*   single_nested  SINGLE_IOC_ACCESS, LOCKED_READ mode or a write mode    *)
(*   nolock         ioctls that take no lock, and llseek                   *)
(***************************************************************************)
AllCalls == {"rw", "ioctl_rw", "ioctl_pre", "ioctl_info",
             "single_read", "single_nested", "nolock"}

ASSUME ConstantsAssumption ==
  /\ PCIEDEV_NR_DEVS \in Nat \ {0}
  /\ Calls \subseteq AllCalls
  /\ UserFaults \in BOOLEAN
  /\ SerialHotplug \in BOOLEAN
  /\ MaxRef \in Nat
  /\ MaxCount \in Nat
  /\ NoThread \notin Threads
  /\ NoFile \notin Files
  /\ NoBoard \notin Boards

ASSUME FilesFinite == IsFiniteSet(Files)

Devs    == 0 .. PCIEDEV_NR_DEVS
NullDev == PCIEDEV_NR_DEVS       \* pciedev_dev_m[PCIEDEV_NR_DEVS], never bound
NoDev   == -1                    \* a NULL pciedev_dev pointer
Beyond  == PCIEDEV_NR_DEVS + 1   \* one past the end of pciedev_dev_m

VARIABLES
  binded, dev_sts,  \* flags of each pciedev_dev
  memmory_base,     \* board whose BAR the io mapping reaches, or NoBoard
  pciedev_pci_dev,  \* board the structure was last given to
  dev_file_ref,     \* count of files; plain int, ++ and -- are not atomic
  dev_file_list,    \* files on the structure's list
  dev_mut,          \* owner of the mutex, or NoThread
  private_data,     \* structure each file points to
  fstate,           \* life cycle of each struct file, kept by the VFS
  drvdata,          \* structure each pci_dev points to, or NoDev
  bound,            \* boards whose probe succeeded, kept by the driver core
  pciedevModuleNum, \* number of boards, as the driver counts them
  overrun,          \* has pciedev_dev_m been indexed out of its bounds?
  pc, call, ref     \* program counter and locals of each thread

devVars   == <<binded, dev_sts, memmory_base, pciedev_pci_dev>>
fileVars  == <<dev_file_ref, dev_file_list, private_data, fstate>>
boardVars == <<drvdata, bound, pciedevModuleNum, overrun>>
vars      == <<devVars, fileVars, boardVars, dev_mut, pc, call, ref>>

(***************************************************************************)
(* The locals of a call: what it does, the dev pointer it read, its file   *)
(* or board, the board whose register it accessed, and (history) the       *)
(* board that was bound when it tested dev_sts.                            *)
(***************************************************************************)
NewCall(o, d, f, b) == [op |-> o, dev |-> d, file |-> f, brd |-> b,
                        io |-> NoBoard, seen |-> NoBoard]

NoCall == NewCall("none", NoDev, NoFile, NoBoard)

Ops == AllCalls \cup {"none", "open", "release", "probe", "remove"}

CallRecords ==
  [op : Ops, dev : Devs \cup {NoDev, Beyond}, file : Files \cup {NoFile},
   brd : Boards \cup {NoBoard}, io : Boards \cup {NoBoard},
   seen : Boards \cup {NoBoard}]

\* The points of a call at which it holds dev_mut.
HeldPcs == {"locked", "store", "io", "leave", "noleave",
            "unbind", "count", "move"}

Pcs == HeldPcs \cup {"idle", "check", "enter", "claim", "enable", "map",
                     "publish", "counted", "oops"}

FileStates == {"closed", "opening", "open", "releasing"}

TypeOK ==
  /\ binded \in [Devs -> BOOLEAN]
  /\ dev_sts \in [Devs -> BOOLEAN]
  /\ memmory_base \in [Devs -> Boards \cup {NoBoard}]
  /\ pciedev_pci_dev \in [Devs -> Boards \cup {NoBoard}]
  /\ dev_file_ref \in [Devs -> Int]
  /\ dev_file_list \in [Devs -> SUBSET Files]
  /\ dev_mut \in [Devs -> Threads \cup {NoThread}]
  /\ private_data \in [Files -> Devs]
  /\ fstate \in [Files -> FileStates]
  /\ drvdata \in [Boards -> Devs \cup {NoDev}]
  /\ bound \subseteq Boards
  /\ pciedevModuleNum \in Int
  /\ overrun \in BOOLEAN
  /\ pc \in [Threads -> Pcs]
  /\ call \in [Threads -> CallRecords]
  /\ ref \in [Threads -> Int]

(***************************************************************************)
(* What upciedev_init_module_exp leaves: every structure free, except the  *)
(* null device, which is marked bound so that no board is given to it.     *)
(***************************************************************************)
Init ==
  /\ binded = [d \in Devs |-> d = NullDev]
  /\ dev_sts = [d \in Devs |-> FALSE]
  /\ memmory_base = [d \in Devs |-> NoBoard]
  /\ pciedev_pci_dev = [d \in Devs |-> NoBoard]
  /\ dev_file_ref = [d \in Devs |-> 0]
  /\ dev_file_list = [d \in Devs |-> {}]
  /\ dev_mut = [d \in Devs |-> NoThread]
  /\ private_data = [f \in Files |-> NullDev]
  /\ fstate = [f \in Files |-> "closed"]
  /\ drvdata = [b \in Boards |-> NoDev]
  /\ bound = {}
  /\ pciedevModuleNum = 0
  /\ overrun = FALSE
  /\ pc = [t \in Threads |-> "idle"]
  /\ call = [t \in Threads |-> NoCall]
  /\ ref = [t \in Threads |-> 0]

-----------------------------------------------------------------------------
(* Control flow of a thread.                                               *)

At(t, p)      == pc[t] = p
Doing(t, o)   == call[t].op = o
Goto(t, p)    == pc' = [pc EXCEPT ![t] = p]
Now(t, c)     == call' = [call EXCEPT ![t] = c]

Begin(t, c, p) ==
  /\ pc[t] = "idle"
  /\ Now(t, c)
  /\ Goto(t, p)

Return(t) ==
  /\ Now(t, NoCall)
  /\ Goto(t, "idle")

\* A plain int is incremented by a load and a later store.
Load(t, d)     == ref' = [ref EXCEPT ![t] = dev_file_ref[d]]

\* Mutant: the increment is forgotten.
StoreUncounted(t, d, k) ==
  /\ dev_file_ref' =
       [dev_file_ref EXCEPT ![d] = ref[t] + (IF k < 0 THEN k ELSE 0)]
  /\ ref' = [ref EXCEPT ![t] = 0]

Store(t, d, k) == /\ dev_file_ref' = [dev_file_ref EXCEPT ![d] = ref[t] + k]
                  /\ ref' = [ref EXCEPT ![t] = 0]

\* Mutant: the list entry outlives its file.
UnlistForgotten(d, f) == UNCHANGED dev_file_list

Unlist(d, f) == dev_file_list' = [dev_file_list EXCEPT ![d] = @ \ {f}]

-----------------------------------------------------------------------------
(* EnterCritRegion and LeaveCritRegion of the mutex build.                 *)

EnterCritRegion(t) ==
  /\ At(t, "enter")
  /\ dev_mut[call[t].dev] = NoThread
  /\ dev_mut' = [dev_mut EXCEPT ![call[t].dev] = t]
  /\ Goto(t, "locked")
  /\ UNCHANGED <<devVars, fileVars, boardVars, call, ref>>

LeaveCritRegion(t) ==
  /\ At(t, "leave")
  /\ dev_mut' = [dev_mut EXCEPT ![call[t].dev] = NoThread]
  /\ Return(t)

-----------------------------------------------------------------------------
(* pciedev_open_exp, on the structure that holds the inode's cdev.  The    *)
(* cdevs exist from init to cleanup, so any structure can be opened,       *)
(* bound or not.                                                           *)

OpenBegin(t, f, d) ==
  /\ fstate[f] = "closed"
  /\ \A e \in Devs : dev_file_ref[e] \in (1 - MaxRef) .. (MaxRef - 1)
  /\ Begin(t, NewCall("open", d, f, NoBoard), "enter")
  /\ fstate' = [fstate EXCEPT ![f] = "opening"]
  /\ UNCHANGED <<devVars, dev_file_ref, dev_file_list, private_data,
                 boardVars, dev_mut, ref>>

OpenBody(t) ==
  /\ At(t, "locked") /\ Doing(t, "open")
  /\ Load(t, call[t].dev)
  /\ private_data' = [private_data EXCEPT ![call[t].file] = call[t].dev]
  /\ Goto(t, "store")
  /\ UNCHANGED <<devVars, dev_file_ref, dev_file_list, fstate, boardVars,
                 dev_mut, call>>

OpenStore(t) ==
  /\ At(t, "store") /\ Doing(t, "open")
  /\ Store(t, call[t].dev, 1)
  /\ dev_file_list' =
       [dev_file_list EXCEPT ![call[t].dev] = @ \cup {call[t].file}]
  /\ Goto(t, "leave")
  /\ UNCHANGED <<devVars, private_data, fstate, boardVars, dev_mut, call>>

LeaveOpen(t) ==
  /\ Doing(t, "open")
  /\ LeaveCritRegion(t)
  /\ fstate' = [fstate EXCEPT ![call[t].file] = "open"]
  /\ UNCHANGED <<devVars, dev_file_ref, dev_file_list, private_data,
                 boardVars, ref>>

(* pciedev_release_exp.  The VFS calls it once, when no other call uses    *)
(* the file any more, and frees the file when it returns.                  *)

ReleaseBegin(t, f) ==
  /\ fstate[f] = "open"
  /\ \A u \in Threads : call[u].file # f
  /\ Begin(t, NewCall("release", private_data[f], f, NoBoard), "enter")
  /\ fstate' = [fstate EXCEPT ![f] = "releasing"]
  /\ UNCHANGED <<devVars, dev_file_ref, dev_file_list, private_data,
                 boardVars, dev_mut, ref>>

ReleaseBody(t) ==
  /\ At(t, "locked") /\ Doing(t, "release")
  /\ Load(t, call[t].dev)
  /\ Goto(t, "store")
  /\ UNCHANGED <<devVars, fileVars, boardVars, dev_mut, call>>

ReleaseStore(t) ==
  /\ At(t, "store") /\ Doing(t, "release")
  /\ Store(t, call[t].dev, -1)
  /\ Unlist(call[t].dev, call[t].file)
  /\ Goto(t, "leave")
  /\ UNCHANGED <<devVars, private_data, fstate, boardVars, dev_mut, call>>

LeaveRelease(t) ==
  /\ Doing(t, "release")
  /\ LeaveCritRegion(t)
  /\ fstate' = [fstate EXCEPT ![call[t].file] = "closed"]
  /\ UNCHANGED <<devVars, dev_file_ref, dev_file_list, private_data,
                 boardVars, ref>>

-----------------------------------------------------------------------------
(* read, write, llseek and ioctl on an open file.  The dev pointer is      *)
(* read first, dev_sts is tested next, and only then is the lock taken.    *)

CallBegin(t, f, k) ==
  /\ fstate[f] = "open"
  /\ Begin(t, NewCall(k, private_data[f], f, NoBoard), "check")
  /\ UNCHANGED <<devVars, fileVars, boardVars, dev_mut, ref>>

CallNoDevice(t) ==
  /\ At(t, "check")
  /\ ~ dev_sts[call[t].dev]
  /\ Return(t)
  /\ UNCHANGED <<devVars, fileVars, boardVars, dev_mut, ref>>

CallCheck(t) ==
  /\ At(t, "check") /\ ~ Doing(t, "nolock")
  /\ dev_sts[call[t].dev]
  /\ Now(t, [call[t] EXCEPT !.seen = pciedev_pci_dev[call[t].dev]])
  /\ Goto(t, "enter")
  /\ UNCHANGED <<devVars, fileVars, boardVars, dev_mut, ref>>

\* An ioctl that never locks, or whose argument is refused before the lock:
\* access_ok fails, or an early copy_from_user does; or llseek.
CallUnlocked(t) ==
  /\ At(t, "check") /\ ~ Doing(t, "rw")
  /\ dev_sts[call[t].dev]
  /\ Return(t)
  /\ UNCHANGED <<devVars, fileVars, boardVars, dev_mut, ref>>

\* copy_from_user fails in read or write: they return with the lock held.
CopyFault(t) ==
  /\ UserFaults
  /\ At(t, "locked") /\ Doing(t, "rw")
  /\ Goto(t, "noleave")
  /\ UNCHANGED <<devVars, fileVars, boardVars, dev_mut, call, ref>>

\* An ioctl that needs no register, or whose user copy fails: it leaves.
NoAccess(t) ==
  /\ At(t, "locked")
  /\ call[t].op \in {"ioctl_rw", "ioctl_pre", "ioctl_info",
                     "single_read", "single_nested"}
  /\ Goto(t, "leave")
  /\ UNCHANGED <<devVars, fileVars, boardVars, dev_mut, call, ref>>

\* SINGLE_IOC_ACCESS enters again before a write or a locked read; after
\* that it is an access followed by one leave.
Reenter(t) ==
  /\ At(t, "locked") /\ Doing(t, "single_nested")
  /\ Now(t, [call[t] EXCEPT !.op = "ioctl_rw"])
  /\ Goto(t, "enter")
  /\ UNCHANGED <<devVars, fileVars, boardVars, dev_mut, ref>>

\* Mutants: a call that finds no mapping returns with the lock; the lock is
\* taken once more where it should be given back.
AfterAccessLeaks(t) ==
  IF memmory_base[call[t].dev] = NoBoard THEN "noleave" ELSE "leave"

AfterAccessEnters(t) == "enter"

\* SINGLE_IOC_ACCESS has no leave after a plain read.
AfterAccess(t) == IF Doing(t, "single_read") THEN "noleave" ELSE "leave"

\* The tests of memmory_base and of the offset before the access loop:
\* either the mapping that is current now is used, or nothing is accessed.
BarCheck(t) ==
  /\ At(t, "locked")
  /\ call[t].op \in {"rw", "ioctl_rw", "ioctl_pre", "single_read"}
  /\ \E b \in {memmory_base[call[t].dev], NoBoard} :
       /\ Now(t, [call[t] EXCEPT !.io = b])
       /\ Goto(t, IF b = NoBoard THEN AfterAccess(t) ELSE "io")
  /\ UNCHANGED <<devVars, fileVars, boardVars, dev_mut, ref>>

IoDone(t) ==
  /\ At(t, "io")
  /\ Goto(t, AfterAccess(t))
  /\ UNCHANGED <<devVars, fileVars, boardVars, dev_mut, call, ref>>

LeaveCall(t) ==
  /\ call[t].op \in AllCalls
  /\ LeaveCritRegion(t)
  /\ UNCHANGED <<devVars, fileVars, boardVars, ref>>

ReturnHolding(t) ==
  /\ At(t, "noleave")
  /\ Return(t)
  /\ UNCHANGED <<devVars, fileVars, boardVars, dev_mut, ref>>

\* What the call tells its caller: read and write overwrite the error of
\* the access with sizeof(device_rw).
Failed(c) == c.op # "rw" /\ c.io = NoBoard

-----------------------------------------------------------------------------
(* pciedev_probe_exp.  It takes no lock of its own; the driver core never  *)
(* runs two probes or removes of the same board at once, and of different  *)
(* boards only if they are not serialised by the PCI core.                 *)

Hotplugging(u) == call[u].op \in {"probe", "remove"}

MayHotplug(b) ==
  \A u \in Threads : Hotplugging(u) => ~ SerialHotplug /\ call[u].brd # b

\* The scan stops at the first structure that is not bound.  It runs to
\* Beyond when there is none, and the test for "no more devices" that
\* follows it compares with NullDev, which is always bound.
FirstFree(d) == /\ \A e \in Devs : e < d => binded[e]
                /\ d \in Devs => ~ binded[d]

ProbeScan(t, b) ==
  /\ b \notin bound
  /\ MayHotplug(b)
  /\ pciedevModuleNum \in (- MaxCount) .. MaxCount
  /\ \E d \in (Devs \cup {Beyond}) \ {NullDev} :
       FirstFree(d) /\ Begin(t, NewCall("probe", d, NoFile, b), "claim")
  /\ UNCHANGED <<devVars, fileVars, boardVars, dev_mut, ref>>

\* Mutant: the structure is not marked as bound.
ProbeClaimUnmarked(t) ==
  /\ At(t, "claim") /\ call[t].dev \in Devs
  /\ Goto(t, "enable")
  /\ UNCHANGED <<devVars, fileVars, boardVars, dev_mut, call, ref>>

ProbeClaim(t) ==
  /\ At(t, "claim") /\ call[t].dev \in Devs
  /\ binded' = [binded EXCEPT ![call[t].dev] = TRUE]
  /\ Goto(t, "enable")
  /\ UNCHANGED <<dev_sts, memmory_base, pciedev_pci_dev, fileVars, boardVars,
                 dev_mut, call, ref>>

\* The structure past the end of the table is written; the thread is lost.
ProbeOverrun(t) ==
  /\ At(t, "claim") /\ call[t].dev = Beyond
  /\ overrun' = TRUE
  /\ Goto(t, "oops")
  /\ UNCHANGED <<devVars, fileVars, drvdata, bound, pciedevModuleNum,
                 dev_mut, call, ref>>

\* pci_enable_device fails: the structure stays marked as bound.
ProbeEnableFails(t) ==
  /\ At(t, "enable")
  /\ Return(t)
  /\ UNCHANGED <<devVars, fileVars, boardVars, dev_mut, ref>>

\* pci_request_regions fails: the structure is given back.
ProbeRegionsFail(t) ==
  /\ At(t, "enable")
  /\ drvdata' = [drvdata EXCEPT ![call[t].brd] = NoDev]
  /\ binded' = [binded EXCEPT ![call[t].dev] = FALSE]
  /\ Return(t)
  /\ UNCHANGED <<dev_sts, memmory_base, pciedev_pci_dev, fileVars, bound,
                 pciedevModuleNum, overrun, dev_mut, ref>>

ProbeEnabled(t) ==
  /\ At(t, "enable")
  /\ pciedev_pci_dev' = [pciedev_pci_dev EXCEPT ![call[t].dev] = call[t].brd]
  /\ drvdata' = [drvdata EXCEPT ![call[t].brd] = call[t].dev]
  /\ Goto(t, "map")
  /\ UNCHANGED <<binded, dev_sts, memmory_base, fileVars, bound,
                 pciedevModuleNum, overrun, dev_mut, call, ref>>

\* pci_iomap of the BAR, which may fail and leave a NULL mapping.
ProbeMap(t) ==
  /\ At(t, "map")
  /\ \E m \in {call[t].brd, NoBoard} :
       memmory_base' = [memmory_base EXCEPT ![call[t].dev] = m]
  /\ Goto(t, "publish")
  /\ UNCHANGED <<binded, dev_sts, pciedev_pci_dev, fileVars, boardVars,
                 dev_mut, call, ref>>

ProbePublish(t) ==
  /\ At(t, "publish")
  /\ dev_sts' = [dev_sts EXCEPT ![call[t].dev] = TRUE]
  /\ ref' = [ref EXCEPT ![t] = pciedevModuleNum]
  /\ Goto(t, "counted")
  /\ UNCHANGED <<binded, memmory_base, pciedev_pci_dev, fileVars, boardVars,
                 dev_mut, call>>

\* The count is stored and the board is bound when probe returns 0.
ProbeCounted(t) ==
  /\ At(t, "counted")
  /\ pciedevModuleNum' = ref[t] + 1
  /\ ref' = [ref EXCEPT ![t] = 0]
  /\ bound' = bound \cup {call[t].brd}
  /\ Return(t)
  /\ UNCHANGED <<devVars, fileVars, drvdata, overrun, dev_mut>>

-----------------------------------------------------------------------------
(* pciedev_remove_exp.                                                     *)

\* Mutant: remove does not take dev_mut.
RemoveBeginNoLock(t, b) ==
  /\ b \in bound
  /\ MayHotplug(b)
  /\ drvdata[b] # NoDev
  /\ Begin(t, NewCall("remove", drvdata[b], NoFile, b), "locked")
  /\ UNCHANGED <<devVars, fileVars, boardVars, dev_mut, ref>>

RemoveBegin(t, b) ==
  /\ b \in bound
  /\ MayHotplug(b)
  /\ drvdata[b] # NoDev
  /\ Begin(t, NewCall("remove", drvdata[b], NoFile, b), "enter")
  /\ UNCHANGED <<devVars, fileVars, boardVars, dev_mut, ref>>

RemoveUnmap(t) ==
  /\ At(t, "locked") /\ Doing(t, "remove")
  /\ memmory_base' = [memmory_base EXCEPT ![call[t].dev] = NoBoard]
  /\ Goto(t, "unbind")
  /\ UNCHANGED <<binded, dev_sts, pciedev_pci_dev, fileVars, boardVars,
                 dev_mut, call, ref>>

\* Mutant: dev_sts is not cleared.
RemoveUnbindPublished(t) ==
  /\ At(t, "unbind")
  /\ binded' = [binded EXCEPT ![call[t].dev] = FALSE]
  /\ ref' = [ref EXCEPT ![t] = pciedevModuleNum]
  /\ Goto(t, "count")
  /\ UNCHANGED <<dev_sts, memmory_base, pciedev_pci_dev, fileVars, boardVars,
                 dev_mut, call>>

RemoveUnbind(t) ==
  /\ At(t, "unbind")
  /\ dev_sts' = [dev_sts EXCEPT ![call[t].dev] = FALSE]
  /\ binded' = [binded EXCEPT ![call[t].dev] = FALSE]
  /\ ref' = [ref EXCEPT ![t] = pciedevModuleNum]
  /\ Goto(t, "count")
  /\ UNCHANGED <<memmory_base, pciedev_pci_dev, fileVars, boardVars,
                 dev_mut, call>>

\* Mutant: the board is not taken off the count.
RemoveCountForgotten(t) ==
  /\ At(t, "count")
  /\ pciedevModuleNum' = ref[t]
  /\ ref' = [ref EXCEPT ![t] = 0]
  /\ Goto(t, "move")
  /\ UNCHANGED <<devVars, fileVars, drvdata, bound, overrun, dev_mut, call>>

RemoveCount(t) ==
  /\ At(t, "count")
  /\ pciedevModuleNum' = ref[t] - 1
  /\ ref' = [ref EXCEPT ![t] = 0]
  /\ Goto(t, "move")
  /\ UNCHANGED <<devVars, fileVars, drvdata, bound, overrun, dev_mut, call>>

\* Mutants: a NULL private_data; private_data left as it was.
DetachNull(d, f) ==
  private_data' = [private_data EXCEPT ![f] = NoDev] /\ Unlist(d, f)

DetachKeepsPointer(d, f) == Unlist(d, f) /\ UNCHANGED private_data

Detach(d, f) ==
  private_data' = [private_data EXCEPT ![f] = NullDev] /\ Unlist(d, f)

\* One turn of the loop that hands the listed files to the null device; the
\* null device's own lock is not taken for its counter.
RemoveMove(t) ==
  /\ At(t, "move")
  /\ \E f \in dev_file_list[call[t].dev] : Detach(call[t].dev, f)
  /\ Load(t, NullDev)
  /\ Goto(t, "store")
  /\ UNCHANGED <<devVars, dev_file_ref, fstate, boardVars, dev_mut, call>>

RemoveStore(t) ==
  /\ At(t, "store") /\ Doing(t, "remove")
  /\ Store(t, NullDev, 1)
  /\ Goto(t, "move")
  /\ UNCHANGED <<devVars, dev_file_list, private_data, fstate, boardVars,
                 dev_mut, call>>

\* Mutant: the loop over the files may stop early.
RemoveMovedEarly(t) ==
  /\ At(t, "move")
  /\ Goto(t, "leave")
  /\ UNCHANGED <<devVars, fileVars, boardVars, dev_mut, call, ref>>

RemoveMoved(t) ==
  /\ At(t, "move")
  /\ dev_file_list[call[t].dev] = {}
  /\ Goto(t, "leave")
  /\ UNCHANGED <<devVars, fileVars, boardVars, dev_mut, call, ref>>

\* The driver core clears the board's driver data after remove returns.
LeaveRemove(t) ==
  /\ Doing(t, "remove")
  /\ LeaveCritRegion(t)
  /\ bound' = bound \ {call[t].brd}
  /\ drvdata' = [drvdata EXCEPT ![call[t].brd] = NoDev]
  /\ UNCHANGED <<devVars, fileVars, pciedevModuleNum, overrun, ref>>

-----------------------------------------------------------------------------
UserStep(t) ==
  \/ OpenBody(t) \/ OpenStore(t) \/ LeaveOpen(t)
  \/ ReleaseBody(t) \/ ReleaseStore(t) \/ LeaveRelease(t)
  \/ CallNoDevice(t) \/ CallCheck(t) \/ CallUnlocked(t)
  \/ CopyFault(t) \/ NoAccess(t) \/ Reenter(t)
  \/ BarCheck(t) \/ IoDone(t) \/ LeaveCall(t) \/ ReturnHolding(t)

HotplugStep(t) ==
  \/ ProbeClaim(t) \/ ProbeOverrun(t) \/ ProbeEnableFails(t)
  \/ ProbeRegionsFail(t) \/ ProbeEnabled(t) \/ ProbeMap(t) \/ ProbePublish(t)
  \/ ProbeCounted(t)
  \/ RemoveUnmap(t) \/ RemoveUnbind(t) \/ RemoveCount(t) \/ RemoveMove(t)
  \/ RemoveStore(t) \/ RemoveMoved(t) \/ LeaveRemove(t)

BeginStep(t) ==
  \/ \E f \in Files, d \in Devs : OpenBegin(t, f, d)
  \/ \E f \in Files : ReleaseBegin(t, f)
  \/ \E f \in Files, k \in Calls : CallBegin(t, f, k)
  \/ \E b \in Boards : ProbeScan(t, b) \/ RemoveBegin(t, b)

Next ==
  \E t \in Threads :
    BeginStep(t) \/ EnterCritRegion(t) \/ UserStep(t) \/ HotplugStep(t)

Spec == Init /\ [][Next]_vars

(***************************************************************************)
(* Fairness.  A thread inside the driver is not preempted forever, so it   *)
(* takes its next step (weak).  A thread that waits for a mutex which is   *)
(* free again and again gets it: the kernel hands a mutex over to its      *)
(* first waiter rather than let it starve (strong).  Nothing makes a user  *)
(* call the driver or plug a board.                                        *)
(***************************************************************************)
Fairness ==
  \A t \in Threads : /\ WF_vars(UserStep(t) \/ HotplugStep(t))
                     /\ SF_vars(EnterCritRegion(t))

FairSpec == Spec /\ Fairness

-----------------------------------------------------------------------------
(* Safety.                                                                 *)

(***************************************************************************)
(* A file on a structure's list is alive and points to that structure, so  *)
(* it is on one list only.  pciedev_remove_exp writes private_data through *)
(* the list's filp: an entry that survived its file would make it write    *)
(* freed memory.                                                           *)
(***************************************************************************)
FileOnItsList ==
  \A d \in Devs : \A f \in dev_file_list[d] :
    private_data[f] = d /\ fstate[f] # "closed"

(***************************************************************************)
(* Every open file that points to a structure a board can use is on that   *)
(* structure's list: pciedev_remove_exp reaches every handle it must       *)
(* detach, whatever opens and closes run beside it.                        *)
(***************************************************************************)
HandlesTracked ==
  \A f \in Files :
    fstate[f] = "open" /\ private_data[f] # NullDev
      => f \in dev_file_list[private_data[f]]

(***************************************************************************)
(* When pciedev_remove_exp is about to return, no open file points to the  *)
(* structure it gave up.                                                   *)
(***************************************************************************)
RemoveDetachesFiles ==
  \A t \in Threads : At(t, "leave") /\ Doing(t, "remove") =>
    \A f \in Files : fstate[f] = "open" => private_data[f] # call[t].dev

(***************************************************************************)
(* Registers are accessed through a mapping that still exists, of the      *)
(* board the structure belongs to now.  The mapping was read under         *)
(* dev_mut, and pciedev_remove_exp takes dev_mut before it unmaps.         *)
(***************************************************************************)
AccessUsesLiveBar ==
  \A t \in Threads : At(t, "io") =>
    LET d == call[t].dev
    IN  memmory_base[d] = call[t].io /\ pciedev_pci_dev[d] = call[t].io

(***************************************************************************)
(* Two bound boards never share a structure.  The scan and the claim of    *)
(* binded in pciedev_probe_exp are separate steps under no lock, so this   *)
(* rests on hot-plug being serialised by others: it holds when it is, over *)
(* all failed probes and removals, and fails when two probes overlap.      *)
(***************************************************************************)
OneBoardPerStructure ==
  \A b, c \in bound : drvdata[b] = drvdata[c] => b = c

(***************************************************************************)
(* A structure that probe may hand out is neither mapped nor published,    *)
(* although pciedev_remove_exp gives it back before it has finished.       *)
(***************************************************************************)
FreeStructureIsQuiet ==
  \A d \in Devs : ~ binded[d] => memmory_base[d] = NoBoard /\ ~ dev_sts[d]

(***************************************************************************)
(* While no board comes or goes, pciedevModuleNum is the number of bound   *)
(* boards, after any history of failed probes and removes.                 *)
(***************************************************************************)
ModuleNumCounts ==
  (\A t \in Threads : ~ Hotplugging(t))
    => pciedevModuleNum = Cardinality(bound)

(***************************************************************************)
(* dev_file_ref never falls below the number of files on the list of a     *)
(* structure that boards use, although a release whose file was moved to   *)
(* the null device meanwhile still decrements the structure it read first. *)
(***************************************************************************)
RefCoversList ==
  \A d \in Devs \ {NullDev} :
    dev_file_ref[d] >= Cardinality(dev_file_list[d])

(***************************************************************************)
(* A thread that has returned to user space owns no dev_mut.               *)
(***************************************************************************)
NoLockLeftBehind ==
  \A t \in Threads : At(t, "idle") => \A d \in Devs : dev_mut[d] # t

(***************************************************************************)
(* A thread that waits for a dev_mut owns none, its own or another: no     *)
(* cycle of threads that wait for each other's locks can come about.       *)
(***************************************************************************)
NoHoldAndWait ==
  \A t \in Threads : At(t, "enter") => \A d \in Devs : dev_mut[d] # t

(***************************************************************************)
(* pciedev_probe_exp never uses an entry past the end of pciedev_dev_m.    *)
(***************************************************************************)
TableNotOverrun == ~ overrun

(***************************************************************************)
(* While no board comes or goes, a structure marked binded has a board.    *)
(***************************************************************************)
BindedMeansBoard ==
  (\A t \in Threads : ~ Hotplugging(t))
    => \A d \in Devs \ {NullDev} :
         binded[d] => \E b \in bound : drvdata[b] = d

(***************************************************************************)
(* A read or write whose board was removed does not report success.  The   *)
(* call tested dev_sts and found it set; it is clear now, so removal has   *)
(* run since.  A board whose pci_iomap failed keeps dev_sts.               *)
(***************************************************************************)
LostBoardReported ==
  \A t \in Threads :
    At(t, "leave") /\ Doing(t, "rw") /\ ~ dev_sts[call[t].dev]
      => Failed(call[t])

-----------------------------------------------------------------------------
(* Refinement.                                                             *)

Handle == [f \in Files |->
             IF fstate[f] = "open" THEN private_data[f] ELSE NoDev]
Home   == [b \in Boards |-> IF b \in bound THEN drvdata[b] ELSE NoDev]

Abstract == INSTANCE FileHandles WITH handle <- Handle, home <- Home

(***************************************************************************)
(* The driver keeps what FileHandles promises: pciedev_remove_exp revokes  *)
(* every open file of its board before the board is gone, no file is       *)
(* passed on to the next board of the structure, and a structure goes to   *)
(* one board at a time.                                                    *)
(***************************************************************************)
ImplementsFileHandles == Abstract!HandlesSpec

-----------------------------------------------------------------------------
(* Liveness.                                                               *)

(***************************************************************************)
(* Every call of the driver returns, however opens, closes, accesses and   *)
(* hot-plug interleave and wait for each other's locks.  (A probe that ran *)
(* off the device table is lost: see TableNotOverrun.)                     *)
(***************************************************************************)
CallsReturn ==
  \A t \in Threads :
    ~ At(t, "idle") ~> (At(t, "idle") \/ At(t, "oops"))
=============================================================================
