--------------------------- MODULE SemDeviceProofs ---------------------------
(***************************************************************************)
(* Proofs about SemDevice for any threads, files and number of turns.      *)
(* Every step is a step of CritRegionLock or leaves the lock alone, so     *)
(* that LockInv holds here too; on it rests the invariant of the files,    *)
(* which says what a call has done to its file at each point of the call.  *)
(***************************************************************************)
EXTENDS SemDevice, CritRegionLockProofs

\* A thread has a file only in open or release, and no two have the same.
FileOfCall ==
  \A t \in Threads :
    /\ At(t, "user") => filp[t] = NoFile
    /\ filp[t] # NoFile => /\ op[t] = "short"
                           /\ fstate[filp[t]] \in {"opening", "releasing"}
    /\ \A u \in Threads : filp[t] # NoFile /\ filp[u] = filp[t] => u = t

\* The work of a call is done in the region, and what it did stands until
\* the call returns.
WorkStands ==
  \A t \in Threads :
    /\ done[t] => At(t, "region") /\ op[t] \in {"short", "remove"}
    /\ filp[t] # NoFile =>
         /\ fstate[filp[t]] = "opening" =>
              (done[t] <=> filp[t] \in dev_file_list)
         /\ fstate[filp[t]] = "releasing" /\ done[t] =>
              filp[t] \notin dev_file_list

\* Listed files point to the structure; a file that is not open is listed
\* only during a call, or after a release that gave up.
ListIsCurrent ==
  \A f \in dev_file_list :
    /\ f \in attached
    /\ fstate[f] # "new"
    /\ fstate[f] = "gone" => f \in abandoned

FileInv == SemTypeOK /\ FileOfCall /\ WorkStands /\ ListIsCurrent
             /\ OpenFilesAreListed

SemInv == LockInv /\ FileInv /\ ToldPrograms

USE FileAssumption

-----------------------------------------------------------------------------
(* The device's calls use the lock as CritRegionLock describes.            *)
LEMMA SemStepIsLockStep == [SemNext]_semVars => [Next]_vars
<1> SUFFICES ASSUME [SemNext]_semVars PROVE [Next]_vars
  OBVIOUS
<1> USE DEF Next, DriverStep, UserStep
<1>1. CASE UNCHANGED semVars
  BY <1>1 DEF semVars
<1>2. ASSUME NEW t \in Threads, CallStep(t) PROVE [Next]_vars
  <2>1. CASE Work(t)
    BY <2>1 DEF Work
  <2> QED
    BY <1>2, <2>1 DEF CallStep, InsideStep, RecordStep, WaitStep, ReclaimStep,
                      LeaveStep
<1>3. ASSUME NEW t \in Threads, NEW f \in Files, FileBegin(t, f)
      PROVE  [Next]_vars
  BY <1>3 DEF FileBegin
<1>4. ASSUME NEW t \in Threads, NEW o \in Calls, OtherBegin(t, o)
      PROVE  [Next]_vars
  BY <1>4 DEF OtherBegin
<1>5. ASSUME NEW t \in Threads, LockDevice(t) \/ UnlockDevice(t)
      PROVE  [Next]_vars
  BY <1>5 DEF LockDevice, UnlockDevice
<1>6. ASSUME NEW f \in Files, ReleaseNull(f) PROVE [Next]_vars
  BY <1>6 DEF ReleaseNull
<1> QED
  BY <1>1, <1>2, <1>3, <1>4, <1>5, <1>6 DEF SemNext

(***************************************************************************)
(* A device with its open, release and remove is a use of the lock, so     *)
(* what is proved about the lock holds of the device.                      *)
(***************************************************************************)
THEOREM DeviceUsesLock == SemSpec => Spec
<1>1. SemInit => InitCritRegionLock
  BY DEF SemInit
<1>2. [SemNext]_semVars => [Next]_vars
  BY SemStepIsLockStep
<1> QED
  BY <1>1, <1>2, PTL DEF SemSpec, Spec

-----------------------------------------------------------------------------
(* SemInit establishes the invariant.                                      *)
LEMMA SemInitial == SemInit => SemInv
<1> SUFFICES ASSUME SemInit PROVE SemInv
  OBVIOUS
<1>1. LockInv
  BY LockInitial DEF SemInit
<1>2. \A t \in Threads : done[t] = FALSE /\ filp[t] = NoFile
  BY DEF SemInit
<1>3. done \in [Threads -> BOOLEAN]
  BY Zenon DEF SemInit
<1>4. SemTypeOK
  BY <1>1, <1>3 DEF SemInit, SemTypeOK, LockInv
<1>5. FileOfCall /\ WorkStands /\ ListIsCurrent /\ OpenFilesAreListed
        /\ ToldPrograms
  BY <1>2 DEF SemInit, FileOfCall, WorkStands, ListIsCurrent,
              OpenFilesAreListed, ToldPrograms
<1> QED
  BY <1>1, <1>4, <1>5 DEF SemInv, FileInv

(* The return of a call keeps the files in their types.                    *)
LEMMA ReturnType ==
  ASSUME SemTypeOK, NEW t \in Threads, FileReturns(t)
  PROVE  /\ filp' \in [Threads -> Files \cup {NoFile}]
         /\ done' \in [Threads -> BOOLEAN]
         /\ fstate' \in [Files -> {"new", "opening", "open", "releasing",
                                   "gone"}]
         /\ attached' \in SUBSET Files /\ dev_file_list' \in SUBSET Files
         /\ abandoned' \in SUBSET Files
<1> USE DEF SemTypeOK, FileReturns, SetFile
<1>1. done' \in [Threads -> BOOLEAN]
  BY Zenon
<1>2. filp[t] \in Files \cup {NoFile}
  OBVIOUS
<1>3. /\ fstate' \in [Files -> {"new", "opening", "open", "releasing",
                                "gone"}]
      /\ abandoned' \in SUBSET Files
  BY <1>2
<1> QED
  BY <1>1, <1>3

(* Every step keeps the device's variables in their types.                 *)
LEMMA SemTypeStep == SemInv /\ [SemNext]_semVars => SemTypeOK'
<1> SUFFICES ASSUME SemInv, [SemNext]_semVars PROVE SemTypeOK'
  OBVIOUS
<1>0. TypeOK'
  BY LockTypeStep, SemStepIsLockStep DEF SemInv
<1> USE <1>0 DEF SemInv, FileInv, SemTypeOK
<1>1. ASSUME UNCHANGED devVars, told' \in SUBSET Threads,
             misled' \in SUBSET Threads
      PROVE  SemTypeOK'
  BY <1>1 DEF devVars
<1>2. CASE UNCHANGED semVars
  BY <1>1, <1>2 DEF semVars
<1>3. CASE Expire /\ UNCHANGED <<devVars, told, misled>>
  BY <1>1, <1>3
<1>4. ASSUME NEW t \in Threads, CallStep(t) PROVE SemTypeOK'
  <2>1. CASE InsideStep(t)
    BY <1>1, <2>1 DEF InsideStep
  <2>2. CASE RecordStep(t)
    BY <1>1, <2>2 DEF RecordStep
  <2>3. ASSUME NEW T \in SUBSET Threads, TurnStep(t, T) PROVE SemTypeOK'
    <3>1. told' \in SUBSET Threads /\ misled' \in SUBSET Threads
      BY <2>3 DEF TurnStep
    <3>2. CASE FileReturns(t)
      BY <3>1, <3>2, ReturnType
    <3> QED
      BY <1>1, <2>3, <3>1, <3>2 DEF TurnStep
  <2>4. CASE WaitStep(t) \/ ReclaimStep(t)
    BY <2>3, <2>4 DEF WaitStep, ReclaimStep
  <2>5. CASE Work(t)
    <3>1. done' \in [Threads -> BOOLEAN]
      BY <2>5, Zenon DEF Work
    <3>2. filp[t] = NoFile => op[t] = "remove"
      BY <2>5 DEF Work, HasWork
    <3>3. attached' \in SUBSET Files /\ dev_file_list' \in SUBSET Files
      BY <2>5, <3>2 DEF Work, WorkOfRemove, WorkOnFile
    <3> QED
      BY <2>5, <3>1, <3>3 DEF Work
  <2>6. CASE LeaveStep(t)
    <3>1. FileReturns(t) /\ misled' \in SUBSET Threads /\ told' = told
      BY <2>6 DEF LeaveStep
    <3> QED
      BY <3>1, ReturnType
  <2> QED
    BY <1>4, <2>1, <2>2, <2>4, <2>5, <2>6 DEF CallStep
<1>5. ASSUME NEW t \in Threads, NEW f \in Files, FileBegin(t, f)
      PROVE  SemTypeOK'
  BY <1>5 DEF FileBegin, SetFile
<1>6. ASSUME NEW t \in Threads, NEW o \in Calls, OtherBegin(t, o)
      PROVE  SemTypeOK'
  BY <1>1, <1>6 DEF OtherBegin
<1>7. ASSUME NEW t \in Threads, LockDevice(t) \/ UnlockDevice(t)
      PROVE  SemTypeOK'
  BY <1>1, <1>7 DEF LockDevice, UnlockDevice
<1>8. ASSUME NEW f \in Files, ReleaseNull(f) PROVE SemTypeOK'
  BY <1>8 DEF ReleaseNull, SetFile
<1> QED
  BY <1>2, <1>3, <1>4, <1>5, <1>6, <1>7, <1>8 DEF SemNext

-----------------------------------------------------------------------------
(* A step that leaves the files alone keeps their invariant if no thread   *)
(* with a file or with its work done is moved out of place.                *)
LEMMA FilesUntouched ==
  ASSUME FileInv, UNCHANGED devVars,
         \A t \in Threads :
           /\ filp[t] # NoFile => op'[t] = op[t] /\ pc'[t] # "user"
           /\ pc'[t] = "user" => pc[t] = "user" \/ filp[t] = NoFile
           /\ done[t] => op'[t] = op[t] /\ pc'[t] = pc[t]
  PROVE  (FileOfCall /\ WorkStands /\ ListIsCurrent /\ OpenFilesAreListed)'
BY DEF FileInv, FileOfCall, WorkStands, ListIsCurrent, OpenFilesAreListed,
       devVars, At

(* The return of a call that has done its work, or has none to do, or has  *)
(* given up outside the region.                                            *)
LEMMA FilesAfterReturn ==
  ASSUME FileInv, NEW t \in Threads, FileReturns(t),
         filp[t] # NoFile => done[t] \/ ~ At(t, "region"),
         pc' = [pc EXCEPT ![t] = "user"], op' = [op EXCEPT ![t] = "none"],
         pc \in [Threads -> Pcs], op \in [Threads -> Ops]
  PROVE  (FileOfCall /\ WorkStands /\ ListIsCurrent /\ OpenFilesAreListed)'
<1> USE DEF FileInv, SemTypeOK
<1>1. \A u \in Threads : u # t => /\ pc'[u] = pc[u] /\ op'[u] = op[u]
                                  /\ filp'[u] = filp[u] /\ done'[u] = done[u]
  BY DEF FileReturns
<1>2. filp'[t] = NoFile /\ done'[t] = FALSE /\ pc'[t] = "user"
  BY DEF FileReturns
<1>3. UNCHANGED <<attached, dev_file_list>>
  BY DEF FileReturns
<1>4. CASE filp[t] = NoFile
  <2>1. UNCHANGED <<fstate, abandoned>>
    BY <1>4 DEF FileReturns
  <2> QED
    BY <1>1, <1>2, <1>3, <2>1
       DEF FileOfCall, WorkStands, ListIsCurrent, OpenFilesAreListed, At
<1>5. CASE filp[t] # NoFile
  <2> DEFINE f == filp[t]
  <2>1. f \in Files
    BY <1>5
  <2>2. \A g \in Files : g # f => fstate'[g] = fstate[g]
    BY <1>5, <2>1 DEF FileReturns, SetFile
  <2>3. \A u \in Threads : u # t => filp[u] # f
    BY <1>5 DEF FileOfCall
  <2>4. \A u \in Threads : filp[u] \in Files \cup {NoFile}
    OBVIOUS
  <2>5. FileOfCall' /\ WorkStands'
    BY <1>1, <1>2, <1>3, <2>2, <2>3, <2>4 DEF FileOfCall, WorkStands, At
  <2>6. \/ fstate[f] = "opening" /\ fstate'[f] = "open" /\ f \in dev_file_list
        \/ fstate[f] = "opening" /\ fstate'[f] = "new" /\ f \notin dev_file_list
        \/ fstate'[f] = "gone" /\ f \notin dev_file_list
        \/ fstate'[f] = "gone" /\ f \in abandoned'
    BY <1>5, <2>1 DEF FileReturns, SetFile, WorkStands, At
  <2>7. abandoned \subseteq abandoned'
    BY <1>5 DEF FileReturns
  <2>8. ListIsCurrent' /\ OpenFilesAreListed'
    BY <1>3, <2>1, <2>2, <2>6, <2>7 DEF ListIsCurrent, OpenFilesAreListed
  <2> QED
    BY <2>5, <2>8
<1> QED
  BY <1>4, <1>5

(* Every step keeps the invariant of the files.                            *)
LEMMA FileStep == SemInv /\ [SemNext]_semVars => FileInv'
<1> SUFFICES ASSUME SemInv, [SemNext]_semVars PROVE FileInv'
  OBVIOUS
<1> DEFINE Core == FileOfCall /\ WorkStands /\ ListIsCurrent
                     /\ OpenFilesAreListed
<1>0. SemTypeOK'
  BY SemTypeStep
<1>t. /\ pc \in [Threads -> Pcs] /\ op \in [Threads -> Ops]
      /\ \A t \in Threads : filp[t] \in Files \cup {NoFile}
  BY DEF SemInv, FileInv, SemTypeOK, TypeOK
<1>i. FileInv
  BY DEF SemInv
<1>c. FileOfCall /\ WorkStands
  BY <1>i DEF FileInv
<1>1. CASE UNCHANGED semVars
  BY <1>1, <1>0, <1>i
     DEF FileInv, FileOfCall, WorkStands, ListIsCurrent, OpenFilesAreListed,
         semVars, devVars, vars, locals, At
<1>2. CASE Expire /\ UNCHANGED <<devVars, told, misled>>
  <2>1. Core'
    BY <1>2, <1>i, <1>c, FilesUntouched DEF Expire, locals, FileOfCall, At
  <2> QED
    BY <2>1, <1>0 DEF FileInv
<1>3. ASSUME NEW t \in Threads, CallStep(t) PROVE Core'
  <2>1. CASE InsideStep(t)
    <3>1. /\ \A u \in Threads : u # t => pc'[u] = pc[u] /\ op'[u] = op[u]
          /\ pc'[t] # "user" /\ pc[t] # "user"
          /\ filp[t] # NoFile => op'[t] = op[t]
          /\ ~ done[t] \/ UNCHANGED <<pc, op>>
      BY <2>1, <1>t, <1>c
         DEF InsideStep, EnterOwned, EnterWait, Down, TimedOut, EnterAgain,
             StartWaiting, Goto, Do, At, FileOfCall, WorkStands
    <3> QED
      BY <2>1, <3>1, <1>i, <1>c, FilesUntouched DEF InsideStep, FileOfCall, At
  <2>2. CASE RecordStep(t)
    <3>1. /\ \A u \in Threads : u # t => pc'[u] = pc[u] /\ op'[u] = op[u]
          /\ filp[t] # NoFile => op'[t] = op[t] /\ pc'[t] # "user"
          /\ ~ done[t]
      BY <2>2, <1>t, <1>c
         DEF RecordStep, Record, Return, Goto, Do, At, FileOfCall, WorkStands
    <3> QED
      BY <2>2, <3>1, <1>i, <1>c, FilesUntouched DEF RecordStep, FileOfCall, At
  <2>3. CASE WaitStep(t) \/ ReclaimStep(t)
    <3>1. At(t, "timedout") /\ Turn(t) /\ ~ done[t]
      BY <2>3, <1>c
         DEF WaitStep, ReclaimStep, KeepWaiting, AskFree, Reclaim, WorkStands,
             At
    <3>2. CASE pc'[t] = "user"
      <4>1. pc' = [pc EXCEPT ![t] = "user"] /\ op' = [op EXCEPT ![t] = "none"]
        BY <3>1, <3>2, <1>t DEF Turn, Return, Goto, Do
      <4>2. FileReturns(t)
        BY <2>3, <3>2 DEF WaitStep, ReclaimStep, TurnStep
      <4> QED
        BY <3>1, <4>1, <4>2, <1>t, <1>i, FilesAfterReturn DEF At
    <3>3. CASE pc'[t] # "user"
      <4>1. /\ \A u \in Threads : u # t => pc'[u] = pc[u] /\ op'[u] = op[u]
            /\ op'[t] = op[t]
        BY <3>1, <3>3, <1>t DEF Turn, Return, Goto, Do
      <4>2. UNCHANGED devVars
        BY <2>3, <3>3 DEF WaitStep, ReclaimStep, TurnStep
      <4> QED
        BY <3>1, <3>3, <4>1, <4>2, <1>i, <1>c, FilesUntouched
           DEF FileOfCall, At
    <3> QED
      BY <3>2, <3>3
  <2>4. CASE Work(t)
    <3>1. At(t, "region") /\ UNCHANGED <<pc, op, filp, fstate, abandoned>>
            /\ ~ done[t] /\ (filp[t] # NoFile \/ op[t] = "remove")
      BY <2>4 DEF Work, HasWork, vars, locals
    <3>2. \A u \in Threads : u # t => done'[u] = done[u] /\ ~ done[u]
      BY <2>4, <3>1, <1>i, <1>c
         DEF Work, FileInv, SemTypeOK, WorkStands, SemInv, LockInv,
             InsideOwns, Inside
    <3>3. done'[t] = TRUE
      BY <2>4, <1>i DEF Work, FileInv, SemTypeOK
    <3>4. CASE op[t] = "remove"
      <4>1. attached' = attached \ dev_file_list /\ dev_file_list' = {}
        BY <2>4, <3>4 DEF Work, WorkOfRemove
      <4>2. filp[t] = NoFile
        BY <3>4, <1>c DEF FileOfCall
      <4> QED
        BY <1>i, <1>t, <3>1, <3>2, <3>3, <3>4, <4>1, <4>2
           DEF FileInv, FileOfCall, WorkStands, ListIsCurrent,
               OpenFilesAreListed, At
    <3>5. CASE op[t] # "remove"
      <4> DEFINE f == filp[t]
      <4>1. f # NoFile /\ f \in Files /\ op[t] = "short"
              /\ fstate[f] \in {"opening", "releasing"}
        BY <3>1, <3>5, <1>c, <1>t DEF FileOfCall
      <4>2. \/ /\ fstate[f] = "opening"
               /\ attached' = attached \cup {f}
               /\ dev_file_list' = dev_file_list \cup {f}
            \/ /\ fstate[f] = "releasing"
               /\ attached' = attached
               /\ dev_file_list' = dev_file_list \ {f}
        BY <2>4, <3>5, <4>1 DEF Work, WorkOnFile
      <4>3. \A u \in Threads : u # t => filp[u] # f
        BY <4>1, <1>c DEF FileOfCall
      <4>4. FileOfCall'
        BY <3>1, <1>c DEF FileOfCall, At
      <4>5. WorkStands'
        BY <1>c, <1>t, <3>1, <3>2, <3>3, <4>1, <4>2, <4>3 DEF WorkStands, At
      <4>6. ListIsCurrent' /\ OpenFilesAreListed'
        BY <1>i, <3>1, <4>1, <4>2
           DEF FileInv, ListIsCurrent, OpenFilesAreListed
      <4> QED
        BY <4>4, <4>5, <4>6
    <3> QED
      BY <3>4, <3>5
  <2>5. CASE LeaveStep(t)
    <3>1. /\ At(t, "region") /\ FileReturns(t)
          /\ filp[t] # NoFile => done[t]
          /\ pc' = [pc EXCEPT ![t] = "user"]
          /\ op' = [op EXCEPT ![t] = "none"]
      BY <2>5 DEF LeaveStep, LeaveCritRegion, ReturnInside, HasWork, Return,
                  Goto, Do
    <3> QED
      BY <3>1, <1>t, <1>i, FilesAfterReturn
  <2> QED
    BY <1>3, <2>1, <2>2, <2>3, <2>4, <2>5 DEF CallStep
<1>4. ASSUME NEW t \in Threads, NEW g \in Files, FileBegin(t, g)
      PROVE  Core'
  <2>1. /\ At(t, "user")
        /\ pc' = [pc EXCEPT ![t] = "enter"] /\ op' = [op EXCEPT ![t] = "short"]
        /\ filp' = [filp EXCEPT ![t] = g]
        /\ UNCHANGED <<done, attached, dev_file_list, abandoned>>
    BY <1>4 DEF FileBegin, CallBegin, Goto, Do
  <2>2. /\ \/ fstate[g] = "new" /\ fstate'[g] = "opening"
           \/ fstate[g] = "open" /\ fstate'[g] = "releasing"
        /\ \A h \in Files : h # g => fstate'[h] = fstate[h]
    BY <1>4, <1>i DEF FileBegin, SetFile, FileInv, SemTypeOK
  <2>3. /\ filp'[t] = g /\ pc'[t] = "enter" /\ op'[t] = "short"
        /\ \A u \in Threads : u # t =>
             filp'[u] = filp[u] /\ pc'[u] = pc[u] /\ op'[u] = op[u]
        /\ \A u \in Threads : filp[u] # g
        /\ ~ done[t]
    BY <2>1, <2>2, <1>t, <1>i, <1>c
       DEF FileInv, SemTypeOK, FileOfCall, WorkStands, At
  <2>4. FileOfCall'
    BY <2>2, <2>3, <1>t, <1>c DEF FileOfCall, At
  <2>5. WorkStands'
    BY <2>1, <2>2, <2>3, <1>t, <1>c, <1>i
       DEF WorkStands, FileInv, ListIsCurrent, At
  <2>6. ListIsCurrent' /\ OpenFilesAreListed'
    BY <2>1, <2>2, <1>i DEF FileInv, SemTypeOK, ListIsCurrent,
                            OpenFilesAreListed
  <2> QED
    BY <2>4, <2>5, <2>6
<1>5. ASSUME NEW t \in Threads, NEW o \in Calls, OtherBegin(t, o)
      PROVE  Core'
  <2>1. /\ filp[t] = NoFile /\ ~ done[t] /\ pc'[t] = "enter"
        /\ \A u \in Threads : u # t => pc'[u] = pc[u] /\ op'[u] = op[u]
        /\ UNCHANGED devVars
    BY <1>5, <1>c, <1>t
       DEF OtherBegin, CallBegin, Goto, Do, FileOfCall, WorkStands, At
  <2> QED
    BY <2>1, <1>i, <1>c, FilesUntouched DEF FileOfCall, At
<1>6. ASSUME NEW t \in Threads, LockDevice(t) \/ UnlockDevice(t)
      PROVE  Core'
  <2>1. /\ filp[t] = NoFile /\ ~ done[t]
        /\ \A u \in Threads : u # t => pc'[u] = pc[u] /\ op'[u] = op[u]
        /\ UNCHANGED devVars
    BY <1>6, <1>c, <1>t
       DEF LockDevice, UnlockDevice, LongLockOfCriticalRegion, StartWaiting,
           UnlockLongCritRegion, Goto, Do, FileOfCall, WorkStands, At, vars,
           locals
  <2> QED
    BY <2>1, <1>i, <1>c, FilesUntouched DEF FileOfCall, At
<1>7. ASSUME NEW g \in Files, ReleaseNull(g) PROVE Core'
  <2>1. /\ fstate[g] = "open" /\ g \notin attached /\ fstate'[g] = "gone"
        /\ \A h \in Files : h # g => fstate'[h] = fstate[h]
        /\ UNCHANGED <<pc, op, filp, done, attached, dev_file_list, abandoned>>
    BY <1>7, <1>i DEF ReleaseNull, SetFile, FileInv, SemTypeOK, vars, locals
  <2>2. \A u \in Threads : filp[u] # g
    BY <2>1, <1>c DEF FileOfCall
  <2> QED
    BY <2>1, <2>2, <1>i, <1>t
       DEF FileInv, SemTypeOK, FileOfCall, WorkStands, ListIsCurrent,
           OpenFilesAreListed, At
<1> QED
  BY <1>0, <1>1, <1>2, <1>3, <1>4, <1>5, <1>6, <1>7 DEF SemNext, FileInv

(* Every step keeps what programs were told true of the lock.              *)
LEMMA ToldStep == SemInv /\ [SemNext]_semVars => ToldPrograms'
<1> SUFFICES ASSUME SemInv, [SemNext]_semVars PROVE ToldPrograms'
  OBVIOUS
<1> USE DEF ToldPrograms, SemInv
<1>1. CASE UNCHANGED semVars
  BY <1>1 DEF semVars, vars, fields
<1>2. CASE Expire /\ UNCHANGED <<devVars, told, misled>>
  BY <1>2 DEF Expire
<1>3. ASSUME NEW t \in Threads, CallStep(t) PROVE ToldPrograms'
  <2>1. CASE InsideStep(t)
    BY <2>1 DEF InsideStep, EnterOwned, EnterWait, Down, TimedOut, EnterAgain,
                fields
  <2>2. CASE RecordStep(t)
    <3>1. m_lnPID = NoThread /\ m_lnPID' = t
      BY <2>2 DEF RecordStep, Record, LockInv, OneTaker
    <3>2. told \subseteq misled
      BY <3>1, LockAssumption DEF FileInv, SemTypeOK
    <3> QED
      BY <2>2, <3>1, <3>2 DEF RecordStep
  <2>3. ASSUME NEW T, TurnStep(t, T),
               \A u \in T : m_lnPID' = u \/ u \in misled
        PROVE  ToldPrograms'
    BY <2>3 DEF TurnStep
  <2>4. CASE WaitStep(t)
    BY <2>3, <2>4 DEF WaitStep, KeepWaiting, AskFree, fields
  <2>5. CASE ReclaimStep(t)
    BY <2>3, <2>5 DEF ReclaimStep
  <2>6. CASE Work(t)
    BY <2>6 DEF Work, vars, fields
  <2>7. CASE LeaveStep(t)
    <3>1. m_lnPID = t
      BY <2>7 DEF LeaveStep, LeaveCritRegion, ReturnInside, LockInv,
                  InsideOwns, Inside
    <3> QED
      BY <2>7, <3>1 DEF LeaveStep
  <2> QED
    BY <1>3, <2>1, <2>2, <2>4, <2>5, <2>6, <2>7 DEF CallStep
<1>4. ASSUME NEW t \in Threads, NEW g \in Files, FileBegin(t, g)
      PROVE  ToldPrograms'
  BY <1>4 DEF FileBegin, CallBegin, fields
<1>5. ASSUME NEW t \in Threads, NEW o \in Calls, OtherBegin(t, o)
      PROVE  ToldPrograms'
  BY <1>5 DEF OtherBegin, CallBegin, fields
<1>6. ASSUME NEW t \in Threads, LockDevice(t) PROVE ToldPrograms'
  BY <1>6 DEF LockDevice, LongLockOfCriticalRegion, fields
<1>7. ASSUME NEW t \in Threads, UnlockDevice(t) PROVE ToldPrograms'
  BY <1>7 DEF UnlockDevice, UnlockLongCritRegion, vars, fields
<1>8. ASSUME NEW g \in Files, ReleaseNull(g) PROVE ToldPrograms'
  BY <1>8 DEF ReleaseNull, vars, fields
<1> QED
  BY <1>1, <1>2, <1>3, <1>4, <1>5, <1>6, <1>7, <1>8 DEF SemNext

-----------------------------------------------------------------------------
(* The inductive invariant of the lock, the files and the programs.        *)
THEOREM SemSafety == SemSpec => []SemInv
<1>1. SemInv /\ [SemNext]_semVars => SemInv'
  BY LockStep, SemStepIsLockStep, FileStep, ToldStep DEF SemInv
<1> QED
  BY SemInitial, <1>1, PTL DEF SemSpec

(***************************************************************************)
(* The types of the lock's and the device's variables; the waiting loop    *)
(* never counts past its last turn.                                        *)
(***************************************************************************)
THEOREM SemTypes == SemSpec => []SemTypeOK
<1>1. SemInv => SemTypeOK
  BY DEF SemInv, FileInv
<1> QED
  BY <1>1, SemSafety, PTL

(***************************************************************************)
(* With any number of opens, releases and removals that give up or not,    *)
(* remove finds every open file that still points to the structure.        *)
(***************************************************************************)
THEOREM RemoveFindsFiles == SemSpec => []OpenFilesAreListed
<1>1. SemInv => OpenFilesAreListed
  BY DEF SemInv, FileInv
<1> QED
  BY <1>1, SemSafety, PTL

(***************************************************************************)
(* A disposed file on the list is one whose release gave up: there is no   *)
(* other way for pciedev_release_exp to leave a dangling entry.            *)
(***************************************************************************)
THEOREM OnlyAbandonedLinger == SemSpec => []GoneFilesWereAbandoned
<1>1. SemInv => GoneFilesWereAbandoned
  BY DEF SemInv, FileInv, SemTypeOK, ListIsCurrent, GoneFilesWereAbandoned
<1> QED
  BY <1>1, SemSafety, PTL

(***************************************************************************)
(* Programs lose the long lock unannounced in the two known ways only.     *)
(***************************************************************************)
THEOREM ProgramsAreTold == SemSpec => []ToldPrograms
<1>1. SemInv => ToldPrograms
  BY DEF SemInv
<1> QED
  BY <1>1, SemSafety, PTL

(***************************************************************************)
(* The device keeps the region exclusive and the semaphore's unit, and     *)
(* implements the revocable lock, as the lock alone does.                  *)
(***************************************************************************)
THEOREM DeviceKeepsLock ==
  SemSpec => /\ []MutualExclusion
             /\ []SemaphoreConserved
             /\ ImplementsRevocableLock
BY DeviceUsesLock, RegionIsExclusive, UnitIsConserved, SemaphoreImplementsLock,
   PTL
=============================================================================
