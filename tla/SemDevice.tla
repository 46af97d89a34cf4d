------------------------------ MODULE SemDevice ------------------------------
(***************************************************************************)
(* One device structure in the USE_SEMAPHORE build, where EnterCritRegion  *)
(* can give up: CritRegionLock with open, release and remove on top of it, *)
(* and with what PCIEDEV_LOCK_DEVICE answers to programs.  The null        *)
(* device, which has a lock of its own, is only a place files are moved to.*)
(***************************************************************************)
EXTENDS CritRegionLock

CONSTANTS Files, NoFile

ASSUME FileAssumption == NoFile \notin Files /\ "short" \in Calls

VARIABLES
  filp,           \* the file a thread opens or releases, or NoFile
  done,           \* has the thread done its work in the region?
  fstate,         \* life cycle of each struct file, kept by the VFS
  attached,       \* files whose private_data is this structure
  dev_file_list,
  abandoned,      \* history: files whose release gave up
  told,           \* programs that were told they have locked the device,
                  \* and not that they have lost it
  misled          \* history: programs that were told so after the lock call
                  \* gave up, or whose lock was given back by a call of theirs

devVars == <<filp, done, fstate, attached, dev_file_list, abandoned>>
semVars == <<vars, devVars, told, misled>>

SemTypeOK ==
  /\ TypeOK
  /\ filp \in [Threads -> Files \cup {NoFile}]
  /\ done \in [Threads -> BOOLEAN]
  /\ fstate \in [Files -> {"new", "opening", "open", "releasing", "gone"}]
  /\ attached \in SUBSET Files
  /\ dev_file_list \in SUBSET Files
  /\ abandoned \in SUBSET Files
  /\ told \in SUBSET Threads
  /\ misled \in SUBSET Threads

SemInit ==
  /\ InitCritRegionLock
  /\ filp = [t \in Threads |-> NoFile]
  /\ done = [t \in Threads |-> FALSE]
  /\ fstate = [f \in Files |-> "new"]
  /\ attached = {}
  /\ dev_file_list = {}
  /\ abandoned = {}
  /\ told = {}
  /\ misled = {}

-----------------------------------------------------------------------------
SetFile(f, s) == fstate' = [fstate EXCEPT ![f] = s]

\* pciedev_open_exp and pciedev_release_exp begin.  A file that was moved
\* to the null device is released there.
FileBegin(t, f) ==
  /\ CallBegin(t, "short")
  /\ \/ fstate[f] = "new" /\ SetFile(f, "opening")
     \/ fstate[f] = "open" /\ f \in attached /\ SetFile(f, "releasing")
  /\ filp' = [filp EXCEPT ![t] = f]
  /\ UNCHANGED <<done, attached, dev_file_list, abandoned, told, misled>>

ReleaseNull(f) ==
  /\ fstate[f] = "open"
  /\ f \notin attached
  /\ SetFile(f, "gone")
  /\ UNCHANGED <<vars, filp, done, attached, dev_file_list, abandoned, told,
                 misled>>

\* Every other call.
OtherBegin(t, o) ==
  /\ CallBegin(t, o)
  /\ UNCHANGED <<devVars, told, misled>>

LockDevice(t) ==
  /\ LongLockOfCriticalRegion(t)
  /\ UNCHANGED <<devVars, told, misled>>

\* PCIEDEV_UNLOCK_DEVICE, whatever it answers.
UnlockDevice(t) ==
  /\ \/ UnlockLongCritRegion(t)
     \/ At(t, "user") /\ m_lnPID # t /\ t \in told /\ UNCHANGED vars
  /\ told' = told \ {t}
  /\ misled' = misled \ {t}
  /\ UNCHANGED devVars

-----------------------------------------------------------------------------
\* Has the thread work to do on the list when it is in the region?
HasWork(t) == (filp[t] # NoFile \/ op[t] = "remove") /\ ~ done[t]

\* Mutant: release leaves the file on the list.
WorkOnFileKept(t) ==
  LET f == filp[t]
  IN IF fstate[f] = "opening"
       THEN /\ attached' = attached \cup {f}
            /\ dev_file_list' = dev_file_list \cup {f}
       ELSE UNCHANGED <<attached, dev_file_list>>

\* open lists the file, release takes it off.
WorkOnFile(t) ==
  LET f == filp[t]
  IN IF fstate[f] = "opening"
       THEN /\ attached' = attached \cup {f}
            /\ dev_file_list' = dev_file_list \cup {f}
       ELSE /\ dev_file_list' = dev_file_list \ {f}
            /\ UNCHANGED attached

\* Mutant: files are taken off the list, and keep their pointer.
WorkOfRemoveForgets == dev_file_list' = {} /\ UNCHANGED attached

\* remove hands every listed file to the null device.
WorkOfRemove ==
  /\ attached' = attached \ dev_file_list
  /\ dev_file_list' = {}

Work(t) ==
  /\ At(t, "region")
  /\ HasWork(t)
  /\ IF op[t] = "remove" THEN WorkOfRemove ELSE WorkOnFile(t)
  /\ done' = [done EXCEPT ![t] = TRUE]
  /\ UNCHANGED <<vars, filp, fstate, abandoned, told, misled>>

\* A call returns.  Without its work done it has given up: open fails, and
\* the VFS disposes of a file whatever release answered.
FileReturns(t) ==
  LET f == filp[t]
  IN /\ filp' = [filp EXCEPT ![t] = NoFile]
     /\ done' = [done EXCEPT ![t] = FALSE]
     /\ \/ f = NoFile /\ UNCHANGED <<fstate, abandoned>>
        \/ /\ f # NoFile /\ fstate[f] = "opening"
           /\ SetFile(f, IF done[t] THEN "open" ELSE "new")
           /\ UNCHANGED abandoned
        \/ /\ f # NoFile /\ fstate[f] = "releasing"
           /\ SetFile(f, "gone")
           /\ abandoned' = IF done[t] THEN abandoned ELSE abandoned \cup {f}
     /\ UNCHANGED <<attached, dev_file_list>>

\* Steps of the lock inside a call.
InsideStep(t) ==
  /\ EnterOwned(t) \/ EnterWait(t) \/ Down(t) \/ TimedOut(t) \/ EnterAgain(t)
  /\ UNCHANGED <<devVars, told, misled>>

\* LOCK_DEVICE answers 0, and that is true.
RecordStep(t) ==
  /\ Record(t)
  /\ IF op[t] = "long" THEN told' = told \cup {t} /\ misled' = misled \ {t}
                       ELSE UNCHANGED <<told, misled>>
  /\ UNCHANGED devVars

\* The end of a turn.  The last one ends the call, and LOCK_DEVICE answers
\* 0 although it gave up.  told0: the programs that were not sent a signal.
TurnStep(t, told0) ==
  IF pc'[t] = "user"
    THEN /\ told' = IF op[t] = "long" THEN told0 \cup {t} ELSE told0
         /\ misled' = IF op[t] = "long" THEN misled \cup {t} ELSE misled
         /\ FileReturns(t)
    ELSE told' = told0 /\ UNCHANGED <<misled, devVars>>

WaitStep(t) == (KeepWaiting(t) \/ AskFree(t)) /\ TurnStep(t, told)

\* Mutant: the owner is not sent the signal.
ReclaimSilently(t) == Reclaim(t) /\ TurnStep(t, told)

\* KillPidWithInfo tells the owner that it has lost the lock.
ReclaimStep(t) == Reclaim(t) /\ TurnStep(t, told \ {m_lnPID})

\* The call leaves the region.  Nobody looks at the answer _TIMEOUT_ of
\* LeaveCritRegion, so a program whose long lock is given back is not told.
LeaveStep(t) ==
  /\ LeaveCritRegion(t) \/ ReturnInside(t)
  /\ ~ HasWork(t)
  /\ FileReturns(t)
  /\ misled' = IF m_lnPID = t /\ m_lnPID' # t THEN misled \cup {t} ELSE misled
  /\ UNCHANGED told

-----------------------------------------------------------------------------
CallStep(t) == InsideStep(t) \/ RecordStep(t) \/ WaitStep(t) \/ ReclaimStep(t)
               \/ Work(t) \/ LeaveStep(t)

SemNext ==
  \/ Expire /\ UNCHANGED <<devVars, told, misled>>
  \/ \E f \in Files : ReleaseNull(f)
  \/ \E t \in Threads :
       \/ CallStep(t)
       \/ \E f \in Files : FileBegin(t, f)
       \/ \E o \in Calls : OtherBegin(t, o)
       \/ LockDevice(t) \/ UnlockDevice(t)

SemSpec == SemInit /\ [][SemNext]_semVars

\* As in CritRegionLock.
SemFairness ==
  /\ WF_semVars(Expire /\ UNCHANGED <<devVars, told, misled>>)
  /\ \A t \in Threads :
       /\ WF_semVars(CallStep(t))
       /\ SF_semVars(Down(t) /\ UNCHANGED <<devVars, told, misled>>)

FairSemSpec == SemSpec /\ SemFairness

-----------------------------------------------------------------------------
(***************************************************************************)
(* Remove finds every open file that still points to the structure.        *)
(***************************************************************************)
OpenFilesAreListed ==
  \A f \in Files :
    fstate[f] = "open" /\ f \in attached => f \in dev_file_list

(***************************************************************************)
(* A file that the VFS has disposed of stays on the list, for remove to    *)
(* write to, only if EnterCritRegion gave up in its release.               *)
(***************************************************************************)
GoneFilesWereAbandoned ==
  \A f \in dev_file_list :
    fstate[f] \in {"opening", "open", "releasing"} \/ f \in abandoned

(***************************************************************************)
(* A program that was told it has locked the device has it, or was sent a  *)
(* signal when it was taken away.  Two exceptions: LOCK_DEVICE answers 0   *)
(* when it gave up, and a call that finds it was asked to free the lock    *)
(* gives it back without a word.                                           *)
(***************************************************************************)
ToldPrograms == \A t \in told : m_lnPID = t \/ t \in misled
=============================================================================
