# A TLA+ model of upciedev

upciedev is the common part of the DESY PCI Express drivers for Linux: a kernel
module whose exported functions a *top-level* driver calls from its own probe,
remove and file operations. This directory holds TLA+ modules that model its
core, TLC configurations that check them on small instances, and
TLAPS proofs of the main safety results for every instance.

## 1. The system

### Components

| component | source | state | operations |
|---|---|---|---|
| device table | `pciedev_ufn.c` 45-216 | `pciedev_dev_m[PCIEDEV_NR_DEVS + 1]`; the last entry is the *null device* | init, cleanup |
| file handles | `pciedev_ufn.c` 220-279 | `filp->private_data`, `dev_file_list`, `dev_file_ref` | open, release |
| data calls | `pciedev_rw_exp.c`, `read_write_inline.h` | registers behind `memmory_base[bar]` | read, write, pread, pwrite, llseek |
| ioctl | `pciedev_ioctl_exp.c` | `swap`, `register_size`, scratch register, description lists | 19 commands |
| hot-plug | `pciedev_probe_exp.c`, `pciedev_remove_exp.c` | `binded`, `dev_sts`, BAR mappings, driver data of the `pci_dev`, `pciedevModuleNum` | probe, remove |
| lock, mutex build | `criticalregionlock.h` 95-103 | a mutex per structure, `dev_mut` | enter, leave |
| lock, semaphore build | `criticalregionlock.c` | semaphore, recorded owner, three flags, start time | enter, leave, long lock, unlock, taking a long lock away |
| board information | `pciedev_ufn.c` 468-870 | project and SHAPI module lists | chain walks over registers |
| interrupts | `pciedev_ufn.c` 440-465, `pciedev_remove_exp.c` 76-94 | `irq_mode`, `msi`, `enbl_irq_num` | request, free |
| physical addresses | `pciedev_ufn.c` 151 and 325-373, `pciedev_ufn.h` 76 | `dev_phys_addresses`, one table for all drivers, indexed by slot | entered by probe, cleared by remove, looked up |
| mmap | `pciedev_ufn.c` 390-436 | none of its own | range check, page mapping |
| proc | `pciedev_ufn.c` 874-1085 | the entry of a board | register, unregister, show |

### How they interact

User threads call open, release, read, write and ioctl. A call finds its
structure through `filp->private_data`, tests `dev_sts`, and only then takes
`dev_mut`. Hot-plug threads call probe, which takes no lock, and remove, which
takes the lock of the structure it gives up. Remove ends by walking the
structure's file list and pointing each `filp` to the null device, so that later
calls on the file find a structure that exists but has no board. A structure is
never freed while the driver is loaded: this is what makes stale pointers
harmless, if the lists are right.

Around this, probe fills in what the structure knows of its board: the address
table, the descriptions found by walking pointers on the board, the interrupts,
a `/proc` entry. Remove undoes it in another order, and only in part: what it
leaves is what the next board of the structure starts from. Register accesses
share `register_size`, `swap` and the scratch register, which ioctls change, some
without the lock.

### What is hard here

* The pointer and `dev_sts` are read before the lock, and used after it.
* Two threads, open/release and remove, change the same list, and remove writes
  through the pointers on it.
* Probe scans for a free structure and claims it in separate steps.
* Error paths between a lock and its unlock, and between a claim and its use.
* The null device's counter is changed under another structure's lock.
* In the semaphore build a waiter may give back a lock that is not its own, and
  entering can give up, which callers handle differently or not at all.
* `register_size` is read several times in one access and written without the
  lock; narrow reads compare bytes that were never written.
* The BAR index of a request and the address of the scratch register come from
  the user and are used unchecked.
* State of an earlier board survives in a structure: lists, flags, addresses.
* Init, probe and interrupt requests can fail half-way.

The complete list, with lines, is `hazards` in `PROJECT.json`. Correct means:
handles never dangle and are all found by remove; registers are only reached
through live mappings of the right board, inside the BAR, and without losing
updates; structures have one board, and what is shown or registered is that
board's; locks are exclusive, are released, and every call returns.

## 2. Modules

| module | content |
|---|---|
| `PcieDev` | device structures, files, calls and hot-plug, mutex build |
| `MCPcieDev` | the same for TLC (symmetry) |
| `FileHandles` | abstract specification of what open files can rely on, implemented by `PcieDev` |
| `RevocableLock` | abstract specification of the critical region lock |
| `CritRegionLock` | the semaphore build, and its refinement mapping |
| `MCCritRegionLock` | the same for TLC |
| `SemDevice` | the device calls on the semaphore lock: open, release, remove, LOCK_DEVICE |
| `RegAccess` | register accesses of one bound board |
| `Chips` | the boards that can be plugged in, as data |
| `DeviceTable` | init and cleanup of a top-level driver |
| `BoardInfo` | identification, project and module lists |
| `Interrupts` | MSI, request and free |
| `BaseTable` | the shared table of physical addresses |
| `DriverLife` | composes the last five around one structure, with `/proc` |
| `MCSemDevice`, `MCRegAccess`, `MCDriverLife` | instances for TLC: symmetry, requests, boards |
| `PcieDevProofs` | handle safety and reference counts, for any hot-plug behaviour |
| `PcieDevSerialProofs` | mappings, ownership and the board count, for serialised hot-plug; the refinement of `FileHandles`, for any |
| `PcieDevLockProofs` | no lock is left behind, no thread waits with one |
| `CritRegionLockProofs` | exclusion, conservation, refinement |
| `SemDeviceProofs` | files and answers on the semaphore lock |
| `RegAccessProofs` | limits, exact writes, detection of a lost board |
| `DriverLifeProofs` | table, handlers, addresses |
| `DescriptionProofs` | the project and module lists, and the walks that fill them |

### PcieDev

A step is the code between two points at which another thread can see or change
what it uses. Variables carry the names of the fields they stand for; `pc`,
`call` and `ref` are a thread's program counter and locals. `dev_file_ref++` is
two steps (`Load`, `Store`), because the code increments plain integers.
`fstate` is the life of a `struct file` in the VFS: release is called once, when
no other call uses the file, and a closed file's memory may be gone.
`bound` and `drvdata` are what the driver core keeps.

Calls are grouped by the order in which they test, lock, access and unlock:
`rw` (read, write), `ioctl_rw`, `ioctl_pre`, `ioctl_info`, `single_read`,
`single_nested` and `nolock`; the comment on `AllCalls` says which command is
which. What is copied and formatted is left out. A register access is either an
access through the mapping that is current under the lock, or none: the tests
of width, offset and size in `pciedev_read_inline` and `pciedev_write_inline`
only decide between the two. The six BARs are one.

* **open / release**: `OpenBegin .. LeaveOpen`, `ReleaseBegin .. LeaveRelease`.
* **calls**: `CallBegin`, `CallNoDevice`, `CallCheck`, `CallUnlocked`,
  `EnterCritRegion`, `CopyFault`, `NoAccess`, `Reenter`, `BarCheck`, `IoDone`,
  `LeaveCall`, `ReturnHolding`.
* **probe**: `ProbeScan`, `ProbeClaim`, `ProbeOverrun`, the two failures,
  `ProbeEnabled`, `ProbeMap`, `ProbePublish`, `ProbeCounted`.
* **remove**: `RemoveBegin`, `RemoveUnmap`, `RemoveUnbind`, `RemoveCount`,
  `RemoveMove`/`RemoveStore` (one turn of the loop), `RemoveMoved`, `LeaveRemove`.

Two assumptions about the kernel are parameters. `SerialHotplug`: whether at most
one probe or remove runs at a time (hot-plug controllers and sysfs rescans do
this under the PCI rescan lock; a driver registration, or asynchronous probing,
beside a hot-plug event does not). Where it is FALSE `OneBoardPerStructure` fails,
which the run `shared_structure` shows; `AccessUsesLiveBar`,
`FreeStructureIsQuiet` and `ModuleNumCounts` rest on it too. `UserFaults`: whether `copy_from_user` can fail in read and write.

`FileHandles` is what a program may rely on: an open file reaches the structure
it was opened on until it is closed or *revoked*, it is never passed to another
structure, and a board is gone only when no open file reaches its structure. The
mapping: `Handle` is `private_data` of an open file, `Home` the driver data of a
bound board. `LeaveOpen` is the abstract open, `ReleaseBegin` the close (from then
on the file is only release's), a `RemoveMove` that meets an open file the
revocation, `ProbeCounted` and `LeaveRemove` the coming and going of a board; every
other step changes neither.

### CritRegionLock and RevocableLock

A step is a section under `m_spinlock`, or `down_timeout`. Besides ordinary calls
there are `nested` ones (SINGLE_IOC_ACCESS enters twice and leaves once), `leaky`
ones (they return without leaving), `remove` (which enters until it succeeds)
and the long lock. `expired` stands for the comparison of jiffies. `RevocableLock`
is the promise to callers: one owner, which may keep the lock between visits to
the region; it can be taken from an owner outside, never from one inside. The
mapping takes as owner the recorded thread, or the one that has the semaphore
and is about to record itself.

### SemDevice

One structure of the semaphore build. Every step of `CritRegionLock` is
conjoined with what the call does with its file: `FileBegin`, `Work` in the
region, `FileReturns`. A call that returns without its work done is one whose
`EnterCritRegion` gave up. `told` is the set of programs that `LOCK_DEVICE`
answered 0 and that had no signal since; `misled` and `abandoned` are history
variables for the three places where the code drops an answer: `LOCK_DEVICE`
ignores `-ETIME`, nobody looks at `_TIMEOUT_` of `LeaveCritRegion`, and the VFS
disposes of a file whatever release returned. The properties say that nothing
*else* goes wrong.

### RegAccess

A byte is a set of bits, a u32 four bytes, so that merging under a mask and
swapping are what the code does to them, for any number of bits. A call is
`CallBegin`, `Enter`, `Setup` (limits of the BAR), the loop, `Leave`; a
read-modify-write is two steps, and so is the scratch test, because
`register_size` may change in between. `MayEqual` and `MayDiffer` are the outcomes
of comparing a variable of which only the low bytes were written. `BoardGone`
makes reads return ones from then on.

Two things the user gives are not checked by the code, and not restricted here
either. A BAR index (`BarKinds`) names the BAR that is modelled, one the board
does not have (the call fails), or nothing: the arrays of six are then read past
their end, and the call fails or is `lost`. `SetScratch` stores any kind of BAR
with offsets inside and outside it (`ScratchOffsets` only makes the set finite for
TLC, and has an offset whose wider accesses leave the BAR); a scratch test whose
access is not `OnBoard` answers either way or is lost, and so is a `ReadScratch`.
A lost call may fault or do anything to the memory it hits; the model drops its
locals and leaves it the lock. What holds of the scratch test is therefore
conditioned on `ScratchUsable`, and `LoopInsideBar` is about the accesses of the
loop, not about the scratch access. The scratch register that
`pciedev_get_brdinfo` sets for a SHAPI board (`pciedev_ufn.c` 569) is one of the
two initial values. The board stays bound: removal during an
access is `PcieDev`'s subject. `RegistersFrom` uses `BarSize - 1`, as the code
does, and `OnlyLastRegisterLost` says what that costs.

### DriverLife and its parts

One structure over its whole life. `DeviceTable` has the loop of init with its
two failures (`cdev_add`, which leaves everything to cleanup, and an allocation,
which frees structures whose cdevs are live). `BoardInfo` has both walks; a
description is its board and place, and `Chip` says which descriptions a board
has. In BAR 0 a walk follows the pointers; in other BARs it starts at offset 0
in every turn, so it ends only if the pointer there is zero. `Interrupts` keeps
the structure's fields and the handlers the kernel knows. `BaseTable` is written
by this structure and by all others (`OtherProbe`, `OtherRemove`), without a lock.
The table starts at zero because it is a static object: `pciedev_ufn.h` 76 gives
every file that includes it a copy, the structures point to that of
`pciedev_ufn.c` (151), and the loop in `upciedev_drv.c` 68-78 clears another one.
`ProcShow` and `ProcNext` are a reader of `/proc`, which takes none either. From a
project that removal freed it comes out or is `Lost`, and `remove_proc_entry`, which
waits for readers, then waits for ever. `SetupInterrupt` makes one assumption of
the top-level driver: it does not ask again for a number it was granted. The
library would pass the second request on, a shared line would accept it, and
remove frees a number once. The order of the steps of probe and remove is
the code's. The lock remove takes in the middle excludes only calls on files,
which do not touch this state; `PcieDev` has it.

## 3. Runs

All bounds: `MaxCount` stops probes once the board count, which the code can let
drift, has left `-MaxCount .. MaxCount` (with 0 in `core_handles`, two probes that
begin together still bind two boards to one structure); `MaxRef` stops opens when a reference
count reaches it. `MaxIter` is the code's 100 turns, and any value from 2 up
exercises both ends of the loop. `MaxKept`, `MaxWalk` and `MaxRefused` bound the
module list, which the code lets grow, the descriptions read in one probe, and
the boards whose interrupts stay behind. Deadlock is not checked for `PcieDev`: a leaked
lock, an overrun table or a bound may really stop it; `CallsReturn` is the
meaningful statement. The same holds for the bounds of `DriverLife`. It is
checked for `RegAccess`, `SemDevice` and `CritRegionLock`.

| run | instance | shows |
|---|---|---|
| `core_handles` | 2 threads, 2 files, 2 boards, 1 structure | `FileOnItsList`, `HandlesTracked`, `RefCoversList`, `RemoveDetachesFiles` with leaked locks, and when probes and removes overlap |
| `core_hotplug` | 2 threads, 1 file, 2 boards, 2 structures | `AccessUsesLiveBar`, `OneBoardPerStructure`, `FreeStructureIsQuiet`, `ModuleNumCounts`, `ImplementsFileHandles`, `TypeOK` |
| `core_progress` | 2 threads, 1 file, 1 board, fairness | `NoLockLeftBehind`, `NoHoldAndWait`, `CallsReturn` for the calls that have no known leak |
| `sem_lock` | 2 threads, 1 file, 2 turns, fairness | the lock (`MutualExclusion`, `SemaphoreConserved`, `ImplementsRevocableLock`, `EntryIsBounded`), the files (`OpenFilesAreListed`, `GoneFilesWereAbandoned`), the answers (`ToldPrograms`), `SemTypeOK` |
| `reg_access` | 2 threads, a BAR of 8 bytes, 1 bit per byte | `LoopInsideBar`, `OnlyLastRegisterLost`, `WritesAreExact`; with a scratch register in the BAR `GoneBoardDetected` and `LinkErrorIsReal`; `TypeOK` |
| `driver_life` | 6 boards, 3 BARs, 2 slots, 2 vectors, fairness | `TableIsConsistent`, `HandlersHaveBoard`, `NoStaleAddress`, `DesyDescription`, `ShapiDescription`, `WalkIsFresh`, `ProbeEnds`, `TypeOK` |

Why these are enough: a race on a list needs the thread that owns the lock and
one that has read the pointer; a second file shows that removal's loop goes on; a
second board shows that a structure is given away again. An owner and a waiter
are what a time-out race needs; that a third thread changes nothing is proved.
A BAR of eight bytes has a last register of every width, and a request that
starts inside and ends past it; `MCRegAccess` lists the requests. The boards of
`driver_life` are a DESY and a SHAPI board with a chain in BAR 0, one of each
with descriptions in other BARs, a DESY board whose chain is a cycle (which
`ProbeEnds` excludes and which really does not end), and one of no known kind;
they share slots. What these properties except is in their comments and is shown
or listed elsewhere: an init that ran out of memory (`TableIsConsistent`), a board
that was refused an interrupt when it had one (`HandlersHaveBoard`), a lookup after
another SHAPI board (`ShapiDescription`), narrow reads (`GoneBoardDetected`), a
release that gave up and dropped answers (`GoneFilesWereAbandoned`,
`ToldPrograms`). `DesyDescription` speaks of boards of other kinds only in that
their project list is empty. The proofs remove the bounds for what they cover.

These runs find a disagreement between the code and what it says of itself; each
has an entry in `findings`:

| run | what happens |
|---|---|
| `copy_fault_lock` | read or write returns from a copy fault with `dev_mut` locked; a later call never returns |
| `table_overrun` | with every structure marked as bound, a probe passes the "no more devices" test and leaves the table; TLC's shortest trace fills the table by a failed `pci_enable_device`, boards in use do it too |
| `shared_structure` | two overlapping probes choose the same structure |
| `proc_reader` | removal frees the projects a reader of `/proc` is walking over |
| `stale_description` | a board that is no DESY board is shown with the identification and project count of the DESY board before it |
| `guilty_owner` | semaphore build: a program that takes the long lock and then makes no call keeps it for ever |

Four more statements are violated too. They need no run of their own: each is
one change to a configuration above.

| change | violated | what happens |
|---|---|---|
| `core_progress` with `"single_read"` in `Calls` | `NoLockLeftBehind` | SINGLE_IOC_ACCESS in a plain read mode returns with `dev_mut` locked (`pciedev_ioctl_exp.c` 359); with `"single_nested"` a write waits for its own lock, `NoHoldAndWait` |
| `core_progress`, other invariant | `BindedMeansBoard` | a failed `pci_enable_device` leaves the structure bound to nothing (`pciedev_probe_exp.c` 103), which is how `table_overrun` fills the table |
| `core_progress`, other invariant | `LostBoardReported` | a read tests `dev_sts`, removal runs, and the read then reports `sizeof(device_rw)`, where `pciedev_rw_exp.c` 79 says "sizeof(device_rw) or error" |
| `reg_access` with `ScratchOffsets = {}` | `ErrorMeansLost` | a program writes ones to the default scratch register and reads it back: the read reports a PCI error (`read_write_inline.h` 376, 395) on a board that answers |

`core_progress` excludes copy faults and SINGLE_IOC_ACCESS because of what
`copy_fault_lock` and the first line show; it says that nothing else in the
locking is wrong.

### Fairness

*PcieDev*: weak fairness for a thread inside the driver (it is not preempted for
ever), strong fairness for taking a mutex (the kernel mutex hands itself over to
its first waiter). Nothing obliges a user to make a call or a board to be
plugged. *CritRegionLock*: the same, with the FIFO order of semaphore waiters as
strong fairness of `Down`, and time passing as weak fairness of `Expire`. A user
that holds a long lock is not assumed to do anything. *SemDevice*: the same.
*DriverLife*: a probe that has begun takes its next step; nothing else is fair.

## 4. Proofs

All theorems hold for any sets of threads, files and boards and any table size;
the constants are only assumed to be of their types (`ConstantsAssumption`,
`FilesFinite`, `LockAssumption`, `FileAssumption`, `RegAssumption`,
`ChipAssumption`, `LifeAssumption`).

**Handles** (`PcieDevProofs`, nothing assumed of hot-plug or of faults).
`FileOnItsList` and `HandlesTracked` are not inductive: that a file is unlisted
before it dies depends on the lock. `HandleInv` adds `CallShape` (which operation
can be at which point, with which kind of structure and file), `HoldsLock` (a
thread between lock and unlock owns `dev_mut`), `FileLife` (the state of the file
a call works on), `Exclusive` (no other call uses a file that is being opened or
released) and `Listing` (on which list such a file is at each point). Results:
`TypeCorrect`, `NoDanglingHandle`, `NoLostHandle`, `RemoveIsComplete`.

`RefCoversList` needs more, because a release decrements the structure it read
before it waited for the lock, whose list may have lost the file since. `RefInv`
lets `dev_file_ref` cover the files that are *owed* a decrement (`Owed`): those on
the list, and those of a release that has yet to decrement this structure. A file is owed once, so a moved file leaves the count too high and
never too low. `Loaded` says that a count read before a store is still current,
because the store happens under the same lock. Result: `RefIsEnough`.

**Mappings and ownership** (`PcieDevSerialProofs`, assuming `SerialHotplug`).
`SerialInv` adds to it that a hot-plug thread is alone, what each point of probe
and remove has already done to its structure, and that a mapped structure
belongs to its board. Results: `AccessIsSafe`, `StructuresAreOwned`,
`FreeIsQuiet`. Without the assumption they are false: two overlapping probes can
claim one structure. `NumInv` adds that the count differs from the number of bound
boards by at most one, for a remove that has counted and not yet returned, and
that a count that was read is current. Result: `CountIsRight`.

**Refinement of FileHandles** (`PcieDevSerialProofs`, nothing assumed of
hot-plug). `HomeInv` adds to `HandleInv` that two probes or removes never work on
one board, that a probe's board is not bound and a remove's board is bound to the
structure it has, and, if hot-plug is serialised, `SerialInv`.
`FileStepImplements` and `BoardStepImplements` map the steps. That a board can
leave is `Listing` and `HandlesTracked`: the list is empty and holds every open
file. Result: `DriverImplementsHandles`.

**No lock is left** (`PcieDevLockProofs`, assuming no copy faults and no
SINGLE_IOC_ACCESS, `Gentle`). `GentleInv` accounts for every owned mutex: its
owner is at a point between lock and unlock, on that structure. Results:
`NoLockIsLeaked`, and `NoCircularWait`, the part of `CallsReturn` that is a safety
property.

**Semaphore lock** (`CritRegionLockProofs`). `LockInv` says that the semaphore's
unit is with exactly one of: the semaphore, a thread on its way to record
itself, the recorded owner; and that a thread in the region is the recorded
owner of a lock that is short, or flagged as in use. The second part is why a
time-out cannot take the lock from it. Results: `RegionIsExclusive`,
`UnitIsConserved`, `SemaphoreImplementsLock`.

**Device on the semaphore lock** (`SemDeviceProofs`). `DeviceUsesLock` shows that
every step of the device is a step of `CritRegionLock` or none, so the results
above carry over (`DeviceKeepsLock`). `SemInv` adds `FileInv`, which relates a
file's state to the one thread that works on it and to whether its work is done,
and `ToldPrograms` itself. Results: `SemTypes`, `RemoveFindsFiles`,
`OnlyAbandonedLinger`, `ProgramsAreTold`.

**Registers** (`RegAccessProofs`). `Inv` says that a thread between `Enter` and
`Leave` owns `dev_mut`, that the size of its access is one of the three, that its
limit is `RegistersFrom` of its request, that between the two halves of a
read-modify-write the value read is still what the register holds (if the
board answers), and what `gone`, `fake` and `pattern` record. The bounds of an
access come from a few lemmas about division. `NoLostUpdate` is an action
property from this invariant. Nothing is assumed of the scratch register or the
BAR index; `GoneIsNoticed` and `ReportIsReal` say what holds while the scratch
register lies in the BAR, and `SetScratch` cannot move it during a test because it
takes the lock. Results: `RegTypes`, `LoopIsInside`,
`LastRegister`, `GoneIsNoticed`, `ReportIsReal`, `NoLostUpdate`.

**Life of a driver** (`DriverLifeProofs`). `LifeInv` adds `Phases` (which of board,
mapping and `/proc` entry exist at which point), `Structures` (what init has
built so far), `WillBeFreed` (a handler is one that remove will find through
`irq_mode` and `enbl_irq_num`, unless its board was refused one) and `OwnSlot`
(addresses of a board only appear in its own slot). Results: `LifeTypes`,
`TableStaysConsistent` (unless an init ran out of memory), `HandlersAreFreed`,
`AddressesAreCurrent`.

**Descriptions** (`DescriptionProofs`, for boards with any descriptions,
well-formed or not). `DescriptionInv` describes a walk in progress: it has read
exactly the descriptions up to where it is, in the order of the pointers
(`ChainSoFar`) or of the BARs (`BarsSoFar`), or it is stuck for ever in a BAR whose
pointer is not zero (`Stuck`). The module list, which remove does not free, is a
pile of walks: each entry is the first of its board or lies on the entry read
before it (`Linked`). Entries of one board with one number therefore have one
place (`SamePlace`), which is why a lookup finds the board's own module even when
the board was plugged in more than once. On a well-formed board the walk is at a
lower rank than anything it has read (`Falls`). Results: `DescriptionSafety`,
`ProjectsAreOwn`, `ModulesAreOwn`, `WalksAreFresh`.

Every invariant, action property and refinement that a passing run checks is
proved. Only model-checked: `CallsReturn`, `EntryIsBounded` and `ProbeEnds`
(liveness under fairness is beyond the prover), and the disagreements.

## 5. Not modelled, and the plan

* **mmap**: a range check and `remap_pfn_range`. The pages stay mapped after a
  removal, but no code of the driver runs when a program uses them.
* **pread/pwrite positions**: size, BAR and offset are decoded from the address
  of `f_pos` instead of its value, so they are arbitrary; such a request is one
  of those `RegAccess` has, with a BAR index that may lie outside the arrays.
* **After a lost access**: what a call does once it has left the BAR or the
  arrays, or a reader once it has left the list.
* **Module entry** (`upciedev_drv.c`): its loop clears a copy of the table nothing
  else uses, and its 16th turn writes behind the array of 15 slots; it is listed
  as a hazard, and has no behaviour to explore.
* **Data of ioctls** that only copy fields out, the text of `/proc`, print
  macros, configuration space reads and DMA masks.
* **`Doc/html`** is the output of Doxygen. Its scripts are no part of the driver.

Planned next: the same abstract view of files for `SemDevice`, where a release
that gives up leaves its file listed; and a module that relates what `PcieDev` and
`DriverLife` each say of the one remove.
