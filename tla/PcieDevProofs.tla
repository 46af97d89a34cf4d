--------------------------- MODULE PcieDevProofs ---------------------------
(***************************************************************************)
(* Proofs about PcieDev for every number of threads, files, boards and     *)
(* structures, every set of calls, and whether or not hot-plug is          *)
(* serialised: a removed board leaves no file handle behind.               *)
(***************************************************************************)
EXTENDS PcieDev, FiniteSetTheorems, TLAPS

UserOps == AllCalls \cup {"open", "release"}

(***************************************************************************)
(* What a thread is doing at each program point, and with what arguments.  *)
(***************************************************************************)
CallShape(t) ==
  LET c == call[t] IN
  /\ pc[t] = "idle" <=> c.op = "none"
  /\ pc[t] \in {"check", "io", "noleave"} => c.op \in AllCalls
  /\ pc[t] \in {"enter", "locked", "leave"} => c.op \in UserOps \cup {"remove"}
  /\ pc[t] = "store" => c.op \in {"open", "release", "remove"}
  /\ pc[t] \in {"unbind", "count", "move"} => c.op = "remove"
  /\ pc[t] \in {"claim", "enable", "map", "publish", "counted", "oops"}
       => c.op = "probe"
  /\ IF c.op \in UserOps THEN c.file \in Files ELSE c.file = NoFile
  /\ c.op \in UserOps => c.dev \in Devs
  /\ c.op \in {"probe", "remove"} => c.brd \in Boards /\ c.dev # NullDev
  /\ c.op = "remove" => c.dev \in Devs
  /\ pc[t] \in {"enable", "map", "publish", "counted"} => c.dev \in Devs

(***************************************************************************)
(* The lock discipline of the calls that are running.                      *)
(***************************************************************************)
HoldsLock(t) == pc[t] \in HeldPcs => dev_mut[call[t].dev] = t

(***************************************************************************)
(* The life cycle the VFS gives a file, as seen by the call that uses it.  *)
(***************************************************************************)
FileLife(t) ==
  LET c == call[t] IN
  /\ c.op = "open" => fstate[c.file] = "opening"
  /\ c.op = "release" => fstate[c.file] = "releasing"
  /\ c.op \in AllCalls => fstate[c.file] = "open"

Exclusive(t, u) ==
  call[t].op \in {"open", "release"} /\ u # t => call[u].file # call[t].file

(***************************************************************************)
(* Where a file is listed while it is being opened or released.            *)
(***************************************************************************)
Listing(t) ==
  LET c == call[t] IN
  /\ c.op = "open" /\ pc[t] # "leave" =>
       \A d \in Devs : c.file \notin dev_file_list[d]
  /\ c.op = "open" /\ pc[t] \in {"store", "leave"} =>
       private_data[c.file] = c.dev
  /\ c.op = "open" /\ pc[t] = "leave" => c.file \in dev_file_list[c.dev]
  /\ c.op = "release" =>
       \A d \in Devs :
         c.file \in dev_file_list[d] => d = c.dev /\ pc[t] # "leave"
  /\ c.op = "remove" /\ pc[t] = "leave" => dev_file_list[c.dev] = {}

(***************************************************************************)
(* The inductive invariant.                                                *)
(***************************************************************************)
HandleInv ==
  /\ TypeOK
  /\ \A b \in Boards : drvdata[b] # NullDev
  /\ \A t \in Threads :
       CallShape(t) /\ HoldsLock(t) /\ FileLife(t) /\ Listing(t)
  /\ \A t, u \in Threads : Exclusive(t, u)
  /\ FileOnItsList
  /\ HandlesTracked

(* One step of one thread. *)
Step(t) ==
  BeginStep(t) \/ EnterCritRegion(t) \/ UserStep(t) \/ HotplugStep(t)

-----------------------------------------------------------------------------
(* Structures and call records.                                            *)

\* The null device is a structure; a NULL pointer and the place past the end of
\* the table are not.
LEMMA DevFacts ==
  /\ NullDev \in Devs
  /\ NoDev \notin Devs /\ Beyond \notin Devs
  /\ NullDev # Beyond
BY ConstantsAssumption DEF NullDev, Devs, NoDev, Beyond

\* Arguments of the right kind make a call record.
LEMMA NewCallType ==
  ASSUME NEW o \in Ops, NEW d \in Devs \cup {NoDev, Beyond},
         NEW f \in Files \cup {NoFile}, NEW b \in Boards \cup {NoBoard}
  PROVE  NewCall(o, d, f, b) \in CallRecords
BY DEF CallRecords, NewCall

\* The record of an idle thread.
LEMMA NoCallFields ==
  /\ NoCall \in CallRecords
  /\ NoCall.op = "none" /\ NoCall.file = NoFile
BY DEF CallRecords, NewCall, NoCall, Ops

\* Recording the board that was bound at the test changes nothing else.
LEMMA SetSeen ==
  ASSUME NEW c \in CallRecords, NEW b \in Boards \cup {NoBoard}
  PROVE  LET e == [c EXCEPT !.seen = b] IN
         /\ e \in CallRecords
         /\ e.op = c.op /\ e.dev = c.dev /\ e.file = c.file /\ e.brd = c.brd
         /\ e.io = c.io
BY DEF CallRecords

\* Recording the board that is accessed changes nothing else.
LEMMA SetIo ==
  ASSUME NEW c \in CallRecords, NEW b \in Boards \cup {NoBoard}
  PROVE  LET e == [c EXCEPT !.io = b] IN
         /\ e \in CallRecords
         /\ e.op = c.op /\ e.dev = c.dev /\ e.file = c.file /\ e.brd = c.brd
         /\ e.io = b
BY DEF CallRecords

\* SINGLE_IOC_ACCESS continues as an access: only the pattern changes.
LEMMA SetOp ==
  ASSUME NEW c \in CallRecords
  PROVE  LET e == [c EXCEPT !.op = "ioctl_rw"] IN
         /\ e \in CallRecords
         /\ e.op = "ioctl_rw" /\ e.dev = c.dev /\ e.file = c.file
         /\ e.brd = c.brd /\ e.io = c.io
<1>1. "ioctl_rw" \in Ops BY DEF Ops, AllCalls
<1> QED BY <1>1 DEF CallRecords

\* A step of one thread leaves the locals of the others alone.
LEMMA Frame ==
  ASSUME TypeOK, NEW t \in Threads, Step(t), NEW u \in Threads \ {t}
  PROVE  call'[u] = call[u] /\ pc'[u] = pc[u]
<1> USE DEF TypeOK, At, Goto, Now, Begin, Return, LeaveCritRegion
<1>1. CASE BeginStep(t)
  BY <1>1
    DEF BeginStep, OpenBegin, ReleaseBegin, CallBegin, ProbeScan, RemoveBegin
<1>2. CASE EnterCritRegion(t)
  BY <1>2 DEF EnterCritRegion
<1>3. CASE UserStep(t)
  BY <1>3
    DEF UserStep, OpenBody, OpenStore, LeaveOpen, ReleaseBody, ReleaseStore,
        LeaveRelease, CallNoDevice, CallCheck, CallUnlocked, CopyFault,
        NoAccess, Reenter, BarCheck, IoDone, LeaveCall, ReturnHolding
<1>4. CASE HotplugStep(t)
  BY <1>4
    DEF HotplugStep, ProbeClaim, ProbeOverrun, ProbeEnableFails,
        ProbeRegionsFail, ProbeEnabled, ProbeMap, ProbePublish, ProbeCounted,
        RemoveUnmap, RemoveUnbind, RemoveCount, RemoveMove, RemoveStore,
        RemoveMoved, LeaveRemove
<1> QED BY <1>1, <1>2, <1>3, <1>4 DEF Step

(***************************************************************************)
(* The actions that change what a file points to, where it is listed or    *)
(* its life cycle; no other step does.                                     *)
(***************************************************************************)
FileStep(t) ==
  \/ \E f \in Files, d \in Devs : OpenBegin(t, f, d)
  \/ \E f \in Files : ReleaseBegin(t, f)
  \/ OpenBody(t) \/ OpenStore(t) \/ LeaveOpen(t)
  \/ ReleaseStore(t) \/ LeaveRelease(t)
  \/ RemoveMove(t)

\* Every step that is not a FileStep leaves the files as they are.
LEMMA FileSteps ==
  ASSUME NEW t \in Threads, Step(t)
  PROVE  FileStep(t) \/ UNCHANGED <<dev_file_list, private_data, fstate>>
<1> USE DEF FileStep, fileVars
<1>1. CASE BeginStep(t)
  BY <1>1 DEF BeginStep, CallBegin, ProbeScan, RemoveBegin
<1>2. CASE EnterCritRegion(t)
  BY <1>2 DEF EnterCritRegion
<1>3. CASE UserStep(t)
  BY <1>3
    DEF UserStep, ReleaseBody, CallNoDevice, CallCheck, CallUnlocked,
        CopyFault, NoAccess, Reenter, BarCheck, IoDone, LeaveCall,
        ReturnHolding
<1>4. CASE HotplugStep(t)
  BY <1>4
    DEF HotplugStep, ProbeClaim, ProbeOverrun, ProbeEnableFails,
        ProbeRegionsFail, ProbeEnabled, ProbeMap, ProbePublish, ProbeCounted,
        RemoveUnmap, RemoveUnbind, RemoveCount, RemoveStore, RemoveMoved,
        LeaveRemove
<1> QED BY <1>1, <1>2, <1>3, <1>4 DEF Step

-----------------------------------------------------------------------------
(* The conjuncts of the invariant, one after the other.                    *)

\* Every step keeps the types.
LEMMA TypeStep ==
  ASSUME HandleInv, NEW t \in Threads, Step(t)
  PROVE  TypeOK'
<1> USE DevFacts
  DEF HandleInv, TypeOK, CallShape, UserOps, Pcs, HeldPcs, devVars, fileVars,
      boardVars, At, Doing, Goto, Now, Begin, Return, LeaveCritRegion,
      AfterAccess
<1>1. ASSUME NEW f \in Files, NEW d \in Devs, OpenBegin(t, f, d)
      PROVE  TypeOK'
  BY <1>1, NewCallType DEF OpenBegin, FileStates, Ops
<1>2. ASSUME NEW f \in Files, ReleaseBegin(t, f)
      PROVE  TypeOK'
  BY <1>2, NewCallType DEF ReleaseBegin, FileStates, Ops
<1>3. ASSUME NEW f \in Files, NEW k \in Calls, CallBegin(t, f, k)
      PROVE  TypeOK'
  BY <1>3, NewCallType, ConstantsAssumption DEF CallBegin, Ops
<1>4. ASSUME NEW b \in Boards, ProbeScan(t, b)
      PROVE  TypeOK'
  <2>1. PICK d \in Devs \cup {Beyond} :
          Begin(t, NewCall("probe", d, NoFile, b), "claim")
    BY <1>4 DEF ProbeScan
  <2>2. NewCall("probe", d, NoFile, b) \in CallRecords
    BY NewCallType DEF Ops
  <2> QED BY <1>4, <2>1, <2>2 DEF ProbeScan
<1>10. ASSUME NEW b \in Boards, RemoveBegin(t, b)
      PROVE  TypeOK'
  BY <1>10, NewCallType DEF RemoveBegin, Ops
<1>5. CASE EnterCritRegion(t)
  BY <1>5 DEF EnterCritRegion
<1>6. CASE CallCheck(t)
  <2>1. call[t].dev \in Devs
    BY <1>6 DEF CallCheck
  <2>2. pciedev_pci_dev[call[t].dev] \in Boards \cup {NoBoard}
    BY <2>1
  <2> QED BY <1>6, <2>2, SetSeen DEF CallCheck
<1>7. CASE BarCheck(t)
  <2>1. call[t].dev \in Devs
    BY <1>7 DEF BarCheck, AllCalls
  <2>2. PICK b \in {memmory_base[call[t].dev], NoBoard} :
          /\ Now(t, [call[t] EXCEPT !.io = b])
          /\ Goto(t, IF b = NoBoard THEN AfterAccess(t) ELSE "io")
    BY <1>7 DEF BarCheck
  <2>3. b \in Boards \cup {NoBoard}
    BY <2>1
  <2> QED BY <1>7, <2>2, <2>3, SetIo DEF BarCheck
<1>8. CASE UserStep(t) /\ ~ CallCheck(t) /\ ~ BarCheck(t)
  <2>1. CASE OpenBody(t)
    BY <2>1 DEF OpenBody, Load
  <2>2. CASE OpenStore(t)
    BY <2>2 DEF OpenStore, Store
  <2>3. CASE LeaveOpen(t)
    BY <2>3, NoCallFields DEF LeaveOpen, FileStates
  <2>4. CASE ReleaseBody(t)
    BY <2>4 DEF ReleaseBody, Load
  <2>5. CASE ReleaseStore(t)
    BY <2>5 DEF ReleaseStore, Store, Unlist
  <2>6. CASE LeaveRelease(t)
    BY <2>6, NoCallFields DEF LeaveRelease, FileStates
  <2>7. CASE CallNoDevice(t)
    BY <2>7, NoCallFields DEF CallNoDevice
  <2>8. CASE CallUnlocked(t)
    BY <2>8, NoCallFields DEF CallUnlocked
  <2>9. CASE CopyFault(t)
    BY <2>9 DEF CopyFault
  <2>10. CASE NoAccess(t)
    BY <2>10 DEF NoAccess
  <2>11. CASE Reenter(t)
    BY <2>11, SetOp DEF Reenter
  <2>12. CASE IoDone(t)
    BY <2>12 DEF IoDone
  <2>13. CASE LeaveCall(t)
    BY <2>13, NoCallFields DEF LeaveCall
  <2>14. CASE ReturnHolding(t)
    BY <2>14, NoCallFields DEF ReturnHolding
  <2> QED BY <1>8, <2>1, <2>2, <2>3, <2>4, <2>5, <2>6, <2>7, <2>8, <2>9,
      <2>10, <2>11, <2>12, <2>13, <2>14
    DEF UserStep
<1>9. CASE HotplugStep(t)
  <2>1. CASE ProbeClaim(t)
    BY <2>1 DEF ProbeClaim
  <2>2. CASE ProbeOverrun(t)
    BY <2>2 DEF ProbeOverrun
  <2>3. CASE ProbeEnableFails(t)
    BY <2>3, NoCallFields DEF ProbeEnableFails
  <2>4. CASE ProbeRegionsFail(t)
    BY <2>4, NoCallFields DEF ProbeRegionsFail
  <2>5. CASE ProbeEnabled(t)
    BY <2>5 DEF ProbeEnabled
  <2>6. CASE ProbeMap(t)
    BY <2>6 DEF ProbeMap
  <2>7. CASE ProbePublish(t)
    BY <2>7 DEF ProbePublish
  <2>8. CASE ProbeCounted(t)
    BY <2>8, NoCallFields DEF ProbeCounted
  <2>9. CASE RemoveUnmap(t)
    BY <2>9 DEF RemoveUnmap
  <2>10. CASE RemoveUnbind(t)
    BY <2>10 DEF RemoveUnbind
  <2>11. CASE RemoveCount(t)
    BY <2>11 DEF RemoveCount
  <2>12. CASE RemoveMove(t)
    BY <2>12 DEF RemoveMove, Load, Detach, Unlist
  <2>13. CASE RemoveStore(t)
    BY <2>13 DEF RemoveStore, Store
  <2>14. CASE RemoveMoved(t)
    BY <2>14 DEF RemoveMoved
  <2>15. CASE LeaveRemove(t)
    BY <2>15, NoCallFields DEF LeaveRemove
  <2> QED BY <1>9, <2>1, <2>2, <2>3, <2>4, <2>5, <2>6, <2>7, <2>8, <2>9,
      <2>10, <2>11, <2>12, <2>13, <2>14, <2>15
    DEF HotplugStep
<1> QED BY <1>1, <1>2, <1>3, <1>4, <1>5, <1>6, <1>7, <1>8, <1>9, <1>10
        DEF Step, BeginStep

\* Every step leaves its thread in a consistent program point.
LEMMA ShapeStep ==
  ASSUME HandleInv, NEW t \in Threads, Step(t)
  PROVE  CallShape(t)'
<1> USE DevFacts
  DEF HandleInv, TypeOK, CallShape, UserOps, AllCalls, HeldPcs, At, Doing,
      Goto, Now, Begin, Return, LeaveCritRegion, AfterAccess
<1>1. CASE BeginStep(t)
  <2>1. ASSUME NEW f \in Files, NEW d \in Devs, OpenBegin(t, f, d)
        PROVE  CallShape(t)'
    BY <2>1 DEF OpenBegin, NewCall
  <2>2. ASSUME NEW f \in Files, ReleaseBegin(t, f)
        PROVE  CallShape(t)'
    BY <2>2 DEF ReleaseBegin, NewCall
  <2>3. ASSUME NEW f \in Files, NEW k \in Calls, CallBegin(t, f, k)
        PROVE  CallShape(t)'
    BY <2>3, ConstantsAssumption DEF CallBegin, NewCall
  <2>4. ASSUME NEW b \in Boards, ProbeScan(t, b)
        PROVE  CallShape(t)'
    BY <2>4 DEF ProbeScan, NewCall
  <2>5. ASSUME NEW b \in Boards, RemoveBegin(t, b)
        PROVE  CallShape(t)'
    BY <2>5 DEF RemoveBegin, NewCall
  <2> QED BY <1>1, <2>1, <2>2, <2>3, <2>4, <2>5 DEF BeginStep
<1>2. CASE EnterCritRegion(t)
  BY <1>2 DEF EnterCritRegion
<1>3. CASE CallCheck(t)
  BY <1>3, SetSeen DEF CallCheck
<1>6. CASE BarCheck(t)
  BY <1>6, SetIo DEF BarCheck
<1>7. CASE Reenter(t)
  BY <1>7, SetOp DEF Reenter
<1>4. CASE UserStep(t) /\ ~ (CallCheck(t) \/ BarCheck(t) \/ Reenter(t))
  BY <1>4, NoCallFields
  DEF UserStep, OpenBody, OpenStore, LeaveOpen, ReleaseBody, ReleaseStore,
      LeaveRelease, CallNoDevice, CallUnlocked, CopyFault, NoAccess, IoDone,
      LeaveCall, ReturnHolding
<1>5. CASE HotplugStep(t)
  BY <1>5, NoCallFields
    DEF HotplugStep, ProbeClaim, ProbeOverrun, ProbeEnableFails,
        ProbeRegionsFail, ProbeEnabled, ProbeMap, ProbePublish, ProbeCounted,
        RemoveUnmap, RemoveUnbind, RemoveCount, RemoveMove, RemoveStore,
        RemoveMoved, LeaveRemove
<1> QED BY <1>1, <1>2, <1>3, <1>4, <1>5, <1>6, <1>7 DEF Step

\* No board is ever given the null device.
LEMMA BoardsStep ==
  ASSUME HandleInv, NEW t \in Threads, Step(t), NEW b \in Boards
  PROVE  drvdata'[b] # NullDev
<1> USE DevFacts DEF HandleInv, TypeOK, CallShape, boardVars
<1>1. CASE BeginStep(t)
  BY <1>1
  DEF BeginStep, OpenBegin, ReleaseBegin, CallBegin, ProbeScan, RemoveBegin
<1>2. CASE EnterCritRegion(t)
  BY <1>2 DEF EnterCritRegion
<1>3. CASE UserStep(t)
  BY <1>3
    DEF UserStep, OpenBody, OpenStore, LeaveOpen, ReleaseBody, ReleaseStore,
        LeaveRelease, CallNoDevice, CallCheck, CallUnlocked, CopyFault,
        NoAccess, Reenter, BarCheck, IoDone, LeaveCall, ReturnHolding
<1>4. CASE HotplugStep(t)
  BY <1>4
    DEF HotplugStep, ProbeClaim, ProbeOverrun, ProbeEnableFails,
        ProbeRegionsFail, ProbeEnabled, ProbeMap, ProbePublish, ProbeCounted,
        RemoveUnmap, RemoveUnbind, RemoveCount, RemoveMove, RemoveStore,
        RemoveMoved, LeaveRemove, At
<1> QED BY <1>1, <1>2, <1>3, <1>4 DEF Step

\* A thread inside the region keeps owning the mutex: nobody else enters or
\* leaves for it.
LEMMA LockStep ==
  ASSUME HandleInv, NEW t \in Threads, Step(t), NEW u \in Threads
  PROVE  HoldsLock(u)'
<1> USE Frame
  DEF HandleInv, TypeOK, CallShape, HoldsLock, UserOps, HeldPcs, At, Doing,
      Goto, Now, Begin, Return, LeaveCritRegion, AfterAccess
<1>1. CASE BeginStep(t)
  BY <1>1
  DEF BeginStep, OpenBegin, ReleaseBegin, CallBegin, ProbeScan, RemoveBegin
<1>2. CASE EnterCritRegion(t)
  BY <1>2, ConstantsAssumption DEF EnterCritRegion
<1>3. CASE CallCheck(t)
  BY <1>3 DEF CallCheck
<1>4. CASE BarCheck(t)
  BY <1>4, SetIo DEF BarCheck, AllCalls
<1>5. CASE Reenter(t)
  BY <1>5 DEF Reenter
<1>6. CASE LeaveOpen(t) \/ LeaveRelease(t) \/ LeaveCall(t) \/ LeaveRemove(t)
  BY <1>6 DEF LeaveOpen, LeaveRelease, LeaveCall, LeaveRemove
<1>7. CASE /\ UserStep(t)
           /\ ~ (CallCheck(t) \/ BarCheck(t) \/ Reenter(t))
           /\ ~ (LeaveOpen(t) \/ LeaveRelease(t) \/ LeaveCall(t))
  BY <1>7
    DEF UserStep, OpenBody, OpenStore, ReleaseBody, ReleaseStore, CallNoDevice,
        CallUnlocked, CopyFault, NoAccess, IoDone, ReturnHolding
<1>8. CASE HotplugStep(t) /\ ~ LeaveRemove(t)
  BY <1>8
    DEF HotplugStep, ProbeClaim, ProbeOverrun, ProbeEnableFails,
        ProbeRegionsFail, ProbeEnabled, ProbeMap, ProbePublish, ProbeCounted,
        RemoveUnmap, RemoveUnbind, RemoveCount, RemoveMove, RemoveStore,
        RemoveMoved
<1> QED BY <1>1, <1>2, <1>3, <1>4, <1>5, <1>6, <1>7, <1>8 DEF Step

\* What a read, write or ioctl begins with.
LEMMA CallBegins ==
  ASSUME TypeOK, NEW t \in Threads, NEW f \in Files, NEW k \in Calls,
         CallBegin(t, f, k)
  PROVE  /\ call'[t].op = k /\ call'[t].file = f /\ pc'[t] = "check"
         /\ k \in AllCalls /\ k \notin {"open", "release", "remove"}
         /\ fstate[f] = "open" /\ UNCHANGED fileVars
<1>1. k \in AllCalls /\ k \notin {"open", "release", "remove"}
  BY ConstantsAssumption DEF AllCalls
<1> QED BY <1>1 DEF TypeOK, CallBegin, Begin, Now, Goto, NewCall

\* A step keeps its own file in the state its operation needs.
LEMMA LifeStep ==
  ASSUME HandleInv, NEW t \in Threads, Step(t)
  PROVE  FileLife(t)'
<1> USE
  DEF HandleInv, TypeOK, CallShape, FileLife, UserOps, AllCalls, fileVars, At,
      Doing, Goto, Now, Begin, Return, LeaveCritRegion, AfterAccess
<1>1. ASSUME NEW f \in Files, NEW d \in Devs, OpenBegin(t, f, d)
      PROVE  FileLife(t)'
  BY <1>1 DEF OpenBegin, NewCall
<1>2. ASSUME NEW f \in Files, ReleaseBegin(t, f)
      PROVE  FileLife(t)'
  BY <1>2 DEF ReleaseBegin, NewCall
<1>3. ASSUME NEW f \in Files, NEW k \in Calls, CallBegin(t, f, k)
      PROVE  FileLife(t)'
  BY <1>3, CallBegins
<1>4. ASSUME NEW b \in Boards, ProbeScan(t, b) \/ RemoveBegin(t, b)
      PROVE  FileLife(t)'
  BY <1>4 DEF ProbeScan, RemoveBegin, NewCall
<1>5. CASE EnterCritRegion(t)
  BY <1>5 DEF EnterCritRegion
<1>6. CASE CallCheck(t)
  BY <1>6, SetSeen DEF CallCheck
<1>7. CASE BarCheck(t)
  BY <1>7, SetIo DEF BarCheck
<1>8. CASE Reenter(t)
  BY <1>8, SetOp DEF Reenter
<1>9. CASE UserStep(t) /\ ~ (CallCheck(t) \/ BarCheck(t) \/ Reenter(t))
  BY <1>9, NoCallFields
    DEF UserStep, OpenBody, OpenStore, LeaveOpen, ReleaseBody, ReleaseStore,
        LeaveRelease, CallNoDevice, CallUnlocked, CopyFault, NoAccess, IoDone,
        LeaveCall, ReturnHolding
<1>10. CASE HotplugStep(t)
  BY <1>10, NoCallFields
    DEF HotplugStep, ProbeClaim, ProbeOverrun, ProbeEnableFails,
        ProbeRegionsFail, ProbeEnabled, ProbeMap, ProbePublish, ProbeCounted,
        RemoveUnmap, RemoveUnbind, RemoveCount, RemoveMove, RemoveStore,
        RemoveMoved, LeaveRemove
<1> QED BY <1>1, <1>2, <1>3, <1>4, <1>5, <1>6, <1>7, <1>8, <1>9, <1>10
        DEF Step, BeginStep

\* No step changes the state of a file another call is using.
LEMMA OthersLifeStep ==
  ASSUME HandleInv, NEW t \in Threads, Step(t), NEW u \in Threads \ {t}
  PROVE  FileLife(u)'
<1> USE Frame
  DEF HandleInv, TypeOK, CallShape, FileLife, Exclusive, UserOps, AllCalls, At,
      Doing, Goto, Now, Begin, Return, LeaveCritRegion, AfterAccess
<1>1. CASE FileStep(t)
  BY <1>1
    DEF FileStep, OpenBegin, ReleaseBegin, OpenBody, OpenStore, LeaveOpen,
        ReleaseStore, LeaveRelease, RemoveMove
<1>2. CASE UNCHANGED <<dev_file_list, private_data, fstate>>
  BY <1>2
<1> QED BY <1>1, <1>2, FileSteps

\* A file that is being opened or released is used by no other call.
LEMMA ExclusiveStep ==
  ASSUME HandleInv, NEW t \in Threads, Step(t), NEW u \in Threads \ {t}
  PROVE  Exclusive(t, u)' /\ Exclusive(u, t)'
<1> USE Frame, ConstantsAssumption
  DEF HandleInv, TypeOK, CallShape, FileLife, Exclusive, UserOps, AllCalls, At,
      Doing, Goto, Now, Begin, Return, LeaveCritRegion, AfterAccess
<1>1. ASSUME NEW f \in Files, NEW d \in Devs, OpenBegin(t, f, d)
      PROVE  Exclusive(t, u)' /\ Exclusive(u, t)'
  <2>1. fstate[f] = "closed" /\ call'[t].file = f
    BY <1>1 DEF OpenBegin, NewCall
  <2>2. call[u].file # f
    BY <2>1
  <2> QED BY <2>1, <2>2
<1>2. ASSUME NEW f \in Files, ReleaseBegin(t, f)
      PROVE  Exclusive(t, u)' /\ Exclusive(u, t)'
  <2>1. call[u].file # f /\ call'[t].file = f
    BY <1>2 DEF ReleaseBegin, NewCall
  <2> QED BY <2>1
<1>3. ASSUME NEW f \in Files, NEW k \in Calls, CallBegin(t, f, k)
      PROVE  Exclusive(t, u)' /\ Exclusive(u, t)'
  <2>1. /\ call'[t].op \notin {"open", "release"} /\ call'[t].file = f
        /\ fstate[f] = "open"
    BY <1>3, CallBegins
  <2>2. call'[u] = call[u]
    BY <1>3
  <2>3. call[u].op \in {"open", "release"} => call[u].file # f
    BY <2>1
  <2> QED BY <2>1, <2>2, <2>3
<1>4. ASSUME NEW b \in Boards, ProbeScan(t, b) \/ RemoveBegin(t, b)
      PROVE  Exclusive(t, u)' /\ Exclusive(u, t)'
  BY <1>4 DEF ProbeScan, RemoveBegin, NewCall
<1>5. CASE EnterCritRegion(t)
  BY <1>5 DEF EnterCritRegion
<1>6. CASE CallCheck(t)
  BY <1>6, SetSeen DEF CallCheck
<1>7. CASE BarCheck(t)
  BY <1>7, SetIo DEF BarCheck
<1>8. CASE Reenter(t)
  BY <1>8, SetOp DEF Reenter
<1>9. CASE UserStep(t) /\ ~ (CallCheck(t) \/ BarCheck(t) \/ Reenter(t))
  BY <1>9, NoCallFields
    DEF UserStep, OpenBody, OpenStore, LeaveOpen, ReleaseBody, ReleaseStore,
        LeaveRelease, CallNoDevice, CallUnlocked, CopyFault, NoAccess, IoDone,
        LeaveCall, ReturnHolding
<1>10. CASE HotplugStep(t)
  BY <1>10, NoCallFields
    DEF HotplugStep, ProbeClaim, ProbeOverrun, ProbeEnableFails,
        ProbeRegionsFail, ProbeEnabled, ProbeMap, ProbePublish, ProbeCounted,
        RemoveUnmap, RemoveUnbind, RemoveCount, RemoveMove, RemoveStore,
        RemoveMoved, LeaveRemove
<1> QED BY <1>1, <1>2, <1>3, <1>4, <1>5, <1>6, <1>7, <1>8, <1>9, <1>10
        DEF Step, BeginStep

\* No list entry outlives its file or names a file that points elsewhere.
LEMMA ListStep ==
  ASSUME HandleInv, NEW t \in Threads, Step(t)
  PROVE  FileOnItsList'
<1> USE DevFacts
  DEF HandleInv, TypeOK, CallShape, FileLife, Listing, FileOnItsList, UserOps,
      At, Doing, Goto, Now, Begin, Return, LeaveCritRegion, AfterAccess
<1>1. ASSUME NEW f \in Files, NEW d \in Devs, OpenBegin(t, f, d)
      PROVE  FileOnItsList'
  BY <1>1 DEF OpenBegin, NewCall
<1>2. ASSUME NEW f \in Files, ReleaseBegin(t, f)
      PROVE  FileOnItsList'
  BY <1>2 DEF ReleaseBegin, NewCall
<1>3. CASE OpenBody(t)
  BY <1>3 DEF OpenBody
<1>4. CASE OpenStore(t)
  BY <1>4 DEF OpenStore
<1>5. CASE LeaveOpen(t)
  BY <1>5 DEF LeaveOpen
<1>6. CASE ReleaseStore(t)
  BY <1>6 DEF ReleaseStore, Unlist
<1>7. CASE LeaveRelease(t)
  BY <1>7 DEF LeaveRelease
<1>8. CASE RemoveMove(t)
  BY <1>8 DEF RemoveMove, Detach, Unlist
<1>9. CASE UNCHANGED <<dev_file_list, private_data, fstate>>
  BY <1>9
<1> QED BY <1>1, <1>2, <1>3, <1>4, <1>5, <1>6, <1>7, <1>8, <1>9, FileSteps
        DEF FileStep

\* No open file escapes the list of the structure it points to.
LEMMA TrackStep ==
  ASSUME HandleInv, NEW t \in Threads, Step(t)
  PROVE  HandlesTracked'
<1> USE DevFacts
  DEF HandleInv, TypeOK, CallShape, FileLife, Listing, FileOnItsList,
      HandlesTracked, UserOps, At, Doing, Goto, Now, Begin, Return,
      LeaveCritRegion, AfterAccess
<1>1. ASSUME NEW f \in Files, NEW d \in Devs, OpenBegin(t, f, d)
      PROVE  HandlesTracked'
  BY <1>1 DEF OpenBegin, NewCall
<1>2. ASSUME NEW f \in Files, ReleaseBegin(t, f)
      PROVE  HandlesTracked'
  BY <1>2 DEF ReleaseBegin, NewCall
<1>3. CASE OpenBody(t)
  BY <1>3 DEF OpenBody
<1>4. CASE OpenStore(t)
  BY <1>4 DEF OpenStore
<1>5. CASE LeaveOpen(t)
  BY <1>5 DEF LeaveOpen
<1>6. CASE ReleaseStore(t)
  BY <1>6 DEF ReleaseStore, Unlist
<1>7. CASE LeaveRelease(t)
  BY <1>7 DEF LeaveRelease
<1>8. CASE RemoveMove(t)
  BY <1>8 DEF RemoveMove, Detach, Unlist
<1>9. CASE UNCHANGED <<dev_file_list, private_data, fstate>>
  BY <1>9
<1> QED BY <1>1, <1>2, <1>3, <1>4, <1>5, <1>6, <1>7, <1>8, <1>9, FileSteps
        DEF FileStep

\* No step moves a file that another thread is opening or releasing under its
\* lock.
LEMMA OthersListingStep ==
  ASSUME HandleInv, NEW t \in Threads, Step(t), NEW u \in Threads \ {t}
  PROVE  Listing(u)'
<1> USE Frame, DevFacts
  DEF HandleInv, TypeOK, CallShape, HoldsLock, HeldPcs, FileLife, Exclusive,
      Listing, FileOnItsList, UserOps, At, Doing, Goto, Now, Begin, Return,
      LeaveCritRegion, AfterAccess
<1>1. ASSUME NEW f \in Files, NEW d \in Devs, OpenBegin(t, f, d)
      PROVE  Listing(u)'
  BY <1>1 DEF OpenBegin, NewCall
<1>2. ASSUME NEW f \in Files, ReleaseBegin(t, f)
      PROVE  Listing(u)'
  BY <1>2 DEF ReleaseBegin, NewCall
<1>3. CASE OpenBody(t)
  BY <1>3 DEF OpenBody
<1>4. CASE OpenStore(t)
  BY <1>4 DEF OpenStore
<1>5. CASE LeaveOpen(t)
  BY <1>5 DEF LeaveOpen
<1>6. CASE ReleaseStore(t)
  BY <1>6 DEF ReleaseStore, Unlist
<1>7. CASE LeaveRelease(t)
  BY <1>7 DEF LeaveRelease
<1>8. CASE RemoveMove(t)
  BY <1>8 DEF RemoveMove, Detach, Unlist
<1>9. CASE UNCHANGED <<dev_file_list, private_data, fstate>>
  BY <1>9
<1> QED BY <1>1, <1>2, <1>3, <1>4, <1>5, <1>6, <1>7, <1>8, <1>9, FileSteps
        DEF FileStep

\* Open lists its file before it leaves; release and remove unlist before they
\* leave.
LEMMA ListingStep ==
  ASSUME HandleInv, NEW t \in Threads, Step(t)
  PROVE  Listing(t)'
<1> USE DevFacts
  DEF HandleInv, TypeOK, CallShape, FileLife, Listing, FileOnItsList, UserOps,
      AllCalls, fileVars, At, Doing, Goto, Now, Begin, Return, LeaveCritRegion,
      AfterAccess
<1>1. ASSUME NEW f \in Files, NEW d \in Devs, OpenBegin(t, f, d)
      PROVE  Listing(t)'
  BY <1>1 DEF OpenBegin, NewCall
<1>2. ASSUME NEW f \in Files, ReleaseBegin(t, f)
      PROVE  Listing(t)'
  BY <1>2 DEF ReleaseBegin, NewCall
<1>3. ASSUME NEW f \in Files, NEW k \in Calls, CallBegin(t, f, k)
      PROVE  Listing(t)'
  BY <1>3, CallBegins
<1>4. ASSUME NEW b \in Boards, ProbeScan(t, b) \/ RemoveBegin(t, b)
      PROVE  Listing(t)'
  BY <1>4 DEF ProbeScan, RemoveBegin, NewCall
<1>5. CASE EnterCritRegion(t)
  BY <1>5 DEF EnterCritRegion
<1>6. CASE CallCheck(t)
  BY <1>6, SetSeen DEF CallCheck
<1>7. CASE BarCheck(t)
  BY <1>7, SetIo DEF BarCheck
<1>8. CASE Reenter(t)
  BY <1>8, SetOp DEF Reenter
<1>9. CASE OpenBody(t)
  BY <1>9 DEF OpenBody
<1>10. CASE OpenStore(t)
  BY <1>10 DEF OpenStore
<1>11. CASE ReleaseBody(t) \/ ReleaseStore(t)
  BY <1>11 DEF ReleaseBody, ReleaseStore, Unlist
<1>12. CASE CopyFault(t) \/ NoAccess(t) \/ IoDone(t)
  BY <1>12 DEF CopyFault, NoAccess, IoDone
<1>13. CASE \/ LeaveOpen(t) \/ LeaveRelease(t) \/ CallNoDevice(t)
            \/ CallUnlocked(t) \/ LeaveCall(t) \/ ReturnHolding(t)
  <2>1. call'[t] = NoCall
    BY <1>13
    DEF LeaveOpen, LeaveRelease, CallNoDevice, CallUnlocked, LeaveCall,
        ReturnHolding
  <2> QED BY <2>1, NoCallFields
<1>14. CASE RemoveMove(t)
  BY <1>14 DEF RemoveMove
<1>15. CASE HotplugStep(t) /\ ~ RemoveMove(t)
  BY <1>15, NoCallFields
  DEF HotplugStep, ProbeClaim, ProbeOverrun, ProbeEnableFails,
      ProbeRegionsFail, ProbeEnabled, ProbeMap, ProbePublish, ProbeCounted,
      RemoveUnmap, RemoveUnbind, RemoveCount, RemoveStore, RemoveMoved,
      LeaveRemove
<1> QED BY <1>1, <1>2, <1>3, <1>4, <1>5, <1>6, <1>7, <1>8, <1>9, <1>10,
           <1>11, <1>12, <1>13, <1>14, <1>15
        DEF Step, BeginStep, UserStep

-----------------------------------------------------------------------------
(* The theorems.                                                           *)

\* The state that init leaves satisfies the invariant.
LEMMA HandleInit == Init => HandleInv
<1> SUFFICES ASSUME Init PROVE HandleInv
  OBVIOUS
<1>1. TypeOK
  <2>1. binded \in [Devs -> BOOLEAN]
    BY Zenon DEF Init
  <2>2. dev_sts \in [Devs -> BOOLEAN] /\ overrun \in BOOLEAN
    BY DEF Init
  <2>3. call \in [Threads -> CallRecords] /\ pc \in [Threads -> Pcs]
    BY NoCallFields DEF Init, Pcs
  <2>4. private_data \in [Files -> Devs] /\ fstate \in [Files -> FileStates]
    BY DevFacts DEF Init, FileStates
  <2>5. /\ memmory_base \in [Devs -> Boards \cup {NoBoard}]
        /\ pciedev_pci_dev \in [Devs -> Boards \cup {NoBoard}]
        /\ dev_mut \in [Devs -> Threads \cup {NoThread}]
        /\ drvdata \in [Boards -> Devs \cup {NoDev}]
    BY DEF Init
  <2>6. /\ dev_file_ref \in [Devs -> Int] /\ ref \in [Threads -> Int]
        /\ dev_file_list \in [Devs -> SUBSET Files]
        /\ bound \subseteq Boards /\ pciedevModuleNum \in Int
    BY DEF Init
  <2> QED BY <2>1, <2>2, <2>3, <2>4, <2>5, <2>6 DEF TypeOK
<1>2. \A t \in Threads :
        pc[t] = "idle" /\ call[t].op = "none" /\ call[t].file = NoFile
  BY NoCallFields DEF Init
<1>3. \A t \in Threads :
        CallShape(t) /\ HoldsLock(t) /\ FileLife(t) /\ Listing(t)
  BY <1>2
    DEF CallShape, HoldsLock, FileLife, Listing, HeldPcs, UserOps, AllCalls
<1>4. \A t, u \in Threads : Exclusive(t, u)
  BY <1>2 DEF Exclusive
<1>5. \A b \in Boards : drvdata[b] # NullDev
  BY DevFacts DEF Init
<1>6. FileOnItsList /\ HandlesTracked
  BY DEF Init, FileOnItsList, HandlesTracked
<1> QED BY <1>1, <1>3, <1>4, <1>5, <1>6 DEF HandleInv

\* Every step preserves the invariant.
LEMMA HandleStep == HandleInv /\ [Next]_vars => HandleInv'
<1> SUFFICES ASSUME HandleInv, [Next]_vars PROVE HandleInv'
  OBVIOUS
<1>1. ASSUME NEW t \in Threads, Step(t) PROVE HandleInv'
  <2>1. \A u \in Threads : CallShape(u)'
    <3>1. \A u \in Threads \ {t} : CallShape(u)'
      BY <1>1, Frame DEF HandleInv, CallShape
    <3> QED BY <1>1, <3>1, ShapeStep
  <2>2. \A u \in Threads : HoldsLock(u)' /\ FileLife(u)' /\ Listing(u)'
    BY <1>1, LockStep, LifeStep, OthersLifeStep, ListingStep, OthersListingStep
  <2>3. \A u, v \in Threads : Exclusive(u, v)'
    <3>1. ASSUME NEW u \in Threads, NEW v \in Threads PROVE Exclusive(u, v)'
      <4>1. CASE u = v
        BY <4>1 DEF Exclusive
      <4>2. CASE u # v /\ (u = t \/ v = t)
        BY <1>1, <4>2, ExclusiveStep
      <4>3. CASE u # t /\ v # t
        BY <1>1, <4>3, Frame DEF HandleInv, Exclusive
      <4> QED BY <4>1, <4>2, <4>3
    <3> QED BY <3>1
  <2>4. TypeOK' /\ FileOnItsList' /\ HandlesTracked'
    BY <1>1, TypeStep, ListStep, TrackStep
  <2>5. \A b \in Boards : drvdata'[b] # NullDev
    BY <1>1, BoardsStep
  <2> QED BY <2>1, <2>2, <2>3, <2>4, <2>5 DEF HandleInv
<1>2. CASE UNCHANGED vars
  BY <1>2
  DEF vars, devVars, fileVars, boardVars, HandleInv, TypeOK, CallShape,
      HoldsLock, FileLife, Listing, Exclusive, FileOnItsList, HandlesTracked
<1> QED BY <1>1, <1>2 DEF Next, Step

(***************************************************************************)
(* The inductive invariant holds in every reachable state.                 *)
(***************************************************************************)
THEOREM HandleSafety == Spec => []HandleInv
BY HandleInit, HandleStep, PTL DEF Spec

(***************************************************************************)
(* Every variable keeps its type, in particular private_data is never NULL *)
(* while pciedev_remove_exp detaches files.                                *)
(***************************************************************************)
THEOREM TypeCorrect == Spec => []TypeOK
BY HandleSafety, PTL DEF HandleInv

(***************************************************************************)
(* Entries of dev_file_list name live files that point to that structure,  *)
(* however open, release and pciedev_remove_exp interleave.                *)
(***************************************************************************)
THEOREM NoDanglingHandle == Spec => []FileOnItsList
BY HandleSafety, PTL DEF HandleInv

(***************************************************************************)
(* Every open file of a usable structure has an entry on its list, for     *)
(* pciedev_remove_exp to find.                                             *)
(***************************************************************************)
THEOREM NoLostHandle == Spec => []HandlesTracked
BY HandleSafety, PTL DEF HandleInv

(***************************************************************************)
(* When pciedev_remove_exp returns, no open file points to the structure   *)
(* it gave up, even if other probes and removes run beside it.             *)
(***************************************************************************)
THEOREM RemoveIsComplete == Spec => []RemoveDetachesFiles
<1>1. HandleInv => RemoveDetachesFiles
  BY
    DEF HandleInv, CallShape, Listing, HandlesTracked, RemoveDetachesFiles, At,
        Doing
<1> QED BY <1>1, HandleSafety, PTL
-----------------------------------------------------------------------------
(* The counter of a structure's files.                                     *)

(***************************************************************************)
(* A release decrements the structure it read private_data from, even when *)
(* pciedev_remove_exp has moved its file away meanwhile.  So the counter   *)
(* has to cover the files that are listed and those still to be taken off. *)
(***************************************************************************)
Owes(t, d, f) ==
  /\ call[t].op = "release" /\ pc[t] \in {"enter", "locked", "store"}
  /\ call[t].dev = d /\ call[t].file = f

Owed(d) ==
  dev_file_list[d] \cup {f \in Files : \E t \in Threads : Owes(t, d, f)}

(***************************************************************************)
(* Between the load and the store of ++ and -- the counter of a structure  *)
(* that boards use does not change: both happen under its dev_mut.         *)
(***************************************************************************)
Loaded(t) ==
  pc[t] = "store" /\ call[t].op \in {"open", "release"}
    /\ call[t].dev # NullDev => ref[t] = dev_file_ref[call[t].dev]

RefInv ==
  /\ HandleInv
  /\ \A t \in Threads : Loaded(t)
  /\ \A d \in Devs \ {NullDev} : dev_file_ref[d] >= Cardinality(Owed(d))

\* Only open, release and remove write a counter, each its own.
LEMMA RefFrame ==
  ASSUME NEW t \in Threads, Step(t)
  PROVE  \/ OpenStore(t) \/ ReleaseStore(t) \/ RemoveStore(t)
         \/ UNCHANGED dev_file_ref
<1> USE DEF fileVars
<1>1. CASE BeginStep(t)
  BY <1>1
    DEF BeginStep, OpenBegin, ReleaseBegin, CallBegin, ProbeScan, RemoveBegin
<1>2. CASE EnterCritRegion(t)
  BY <1>2 DEF EnterCritRegion
<1>3. CASE UserStep(t)
  BY <1>3
    DEF UserStep, OpenBody, LeaveOpen, ReleaseBody, LeaveRelease, CallNoDevice,
        CallCheck, CallUnlocked, CopyFault, NoAccess, Reenter, BarCheck,
        IoDone, LeaveCall, ReturnHolding
<1>4. CASE HotplugStep(t)
  BY <1>4
    DEF HotplugStep, ProbeClaim, ProbeOverrun, ProbeEnableFails,
        ProbeRegionsFail, ProbeEnabled, ProbeMap, ProbePublish, ProbeCounted,
        RemoveUnmap, RemoveUnbind, RemoveCount, RemoveMove, RemoveMoved,
        LeaveRemove
<1> QED BY <1>1, <1>2, <1>3, <1>4 DEF Step

\* A step of one thread leaves the loaded value of the others alone.
LEMMA RefLocalFrame ==
  ASSUME TypeOK, NEW t \in Threads, Step(t), NEW u \in Threads \ {t}
  PROVE  ref'[u] = ref[u]
<1> USE DEF TypeOK, Load, Store
<1>1. CASE BeginStep(t)
  BY <1>1
    DEF BeginStep, OpenBegin, ReleaseBegin, CallBegin, ProbeScan, RemoveBegin
<1>2. CASE EnterCritRegion(t)
  BY <1>2 DEF EnterCritRegion
<1>3. CASE UserStep(t)
  BY <1>3
    DEF UserStep, OpenBody, OpenStore, LeaveOpen, ReleaseBody, ReleaseStore,
        LeaveRelease, CallNoDevice, CallCheck, CallUnlocked, CopyFault,
        NoAccess, Reenter, BarCheck, IoDone, LeaveCall, ReturnHolding
<1>4. CASE HotplugStep(t)
  BY <1>4
    DEF HotplugStep, ProbeClaim, ProbeOverrun, ProbeEnableFails,
        ProbeRegionsFail, ProbeEnabled, ProbeMap, ProbePublish, ProbeCounted,
        RemoveUnmap, RemoveUnbind, RemoveCount, RemoveMove, RemoveStore,
        RemoveMoved, LeaveRemove
<1> QED BY <1>1, <1>2, <1>3, <1>4 DEF Step

\* A thread comes to its store only by the load before it.
LEMMA LoadedStep ==
  ASSUME RefInv, NEW t \in Threads, Step(t)
  PROVE  Loaded(t)'
<1> USE
  DEF RefInv, HandleInv, TypeOK, CallShape, Loaded, UserOps, AllCalls,
      fileVars, At, Doing, Goto, Now, Begin, Return, LeaveCritRegion, AfterAccess
<1>1. CASE BeginStep(t)
  BY <1>1
    DEF BeginStep, OpenBegin, ReleaseBegin, CallBegin, ProbeScan, RemoveBegin
<1>2. CASE EnterCritRegion(t)
  BY <1>2 DEF EnterCritRegion
<1>3. CASE OpenBody(t) \/ ReleaseBody(t)
  BY <1>3 DEF OpenBody, ReleaseBody, Load
<1>4. CASE UserStep(t) /\ ~ OpenBody(t) /\ ~ ReleaseBody(t)
  BY <1>4
    DEF UserStep, OpenStore, LeaveOpen, ReleaseStore, LeaveRelease,
        CallNoDevice, CallCheck, CallUnlocked, CopyFault, NoAccess, Reenter,
        BarCheck, IoDone, LeaveCall, ReturnHolding
<1>5. CASE HotplugStep(t)
  BY <1>5
    DEF HotplugStep, ProbeClaim, ProbeOverrun, ProbeEnableFails,
        ProbeRegionsFail, ProbeEnabled, ProbeMap, ProbePublish, ProbeCounted,
        RemoveUnmap, RemoveUnbind, RemoveCount, RemoveMove, RemoveStore,
        RemoveMoved, LeaveRemove
<1> QED BY <1>1, <1>2, <1>3, <1>4, <1>5 DEF Step

\* No other thread writes the counter between the load and the store.
LEMMA OthersLoadedStep ==
  ASSUME RefInv, NEW t \in Threads, Step(t), NEW u \in Threads \ {t}
  PROVE  Loaded(u)'
<1> USE Frame, RefLocalFrame
  DEF RefInv, HandleInv, TypeOK, CallShape, HoldsLock, HeldPcs, Loaded,
      UserOps, At, Doing, Store
<1>1. CASE OpenStore(t) \/ ReleaseStore(t)
  BY <1>1 DEF OpenStore, ReleaseStore
<1>2. CASE RemoveStore(t)
  BY <1>2 DEF RemoveStore
<1>3. CASE UNCHANGED dev_file_ref
  BY <1>3
<1> QED BY <1>1, <1>2, <1>3, RefFrame

\* What a structure owes is finite, before and after a step.
LEMMA OwedFinite ==
  ASSUME HandleInv, NEW d \in Devs
  PROVE  IsFiniteSet(Owed(d)) /\ Cardinality(Owed(d)) \in Nat
<1>1. Owed(d) \subseteq Files
  BY DEF HandleInv, TypeOK, Owed
<1> QED BY <1>1, FilesFinite, FS_Subset, FS_CardinalityType

\* A step that is not the store of an open owes no more than was owed.
LEMMA OwedShrinks ==
  ASSUME HandleInv, NEW t \in Threads, Step(t), ~ OpenStore(t),
         NEW d \in Devs \ {NullDev}
  PROVE  Owed(d)' \subseteq Owed(d)
<1> SUFFICES ASSUME NEW f \in Owed(d)' PROVE f \in Owed(d)
  OBVIOUS
<1>1. ASSUME f \in dev_file_list'[d] PROVE f \in dev_file_list[d]
  <2> USE DEF HandleInv, TypeOK, Unlist, Detach
  <2>1. CASE FileStep(t)
    BY <1>1, <2>1
    DEF FileStep, OpenBegin, ReleaseBegin, OpenBody, LeaveOpen, ReleaseStore,
        LeaveRelease, RemoveMove
  <2>2. CASE UNCHANGED <<dev_file_list, private_data, fstate>>
    BY <1>1, <2>2
  <2> QED BY <2>1, <2>2, FileSteps
<1>2. ASSUME NEW u \in Threads \ {t}, Owes(u, d, f)' PROVE Owes(u, d, f)
  BY <1>2, Frame DEF HandleInv, Owes
<1>3. ASSUME Owes(t, d, f)' PROVE Owes(t, d, f) \/ f \in dev_file_list[d]
  <2> USE <1>3
    DEF HandleInv, TypeOK, CallShape, UserOps, AllCalls, Owes, At, Doing, Goto,
        Now, Begin, Return, LeaveCritRegion, AfterAccess
  <2>1. ASSUME NEW g \in Files, ReleaseBegin(t, g) PROVE f \in dev_file_list[d]
    BY <2>1 DEF ReleaseBegin, NewCall, HandlesTracked
  <2>2. CASE BeginStep(t) /\ ~ \E g \in Files : ReleaseBegin(t, g)
    BY <2>2, ConstantsAssumption
      DEF BeginStep, OpenBegin, CallBegin, ProbeScan, RemoveBegin, NewCall
  <2>3. CASE EnterCritRegion(t)
    BY <2>3 DEF EnterCritRegion
  <2>4. CASE CallCheck(t)
    <3>1. call[t].dev \in Devs
      BY <2>4 DEF CallCheck
    <3>2. pciedev_pci_dev[call[t].dev] \in Boards \cup {NoBoard}
      BY <3>1
    <3>3. call'[t].op = call[t].op
      BY <2>4, <3>2, SetSeen DEF CallCheck
    <3> QED BY <2>4, <3>3 DEF CallCheck
  <2>5. CASE BarCheck(t)
    BY <2>5, SetIo DEF BarCheck
  <2>6. CASE Reenter(t)
    BY <2>6, SetOp DEF Reenter
  <2>7. CASE UserStep(t) /\ ~ (CallCheck(t) \/ BarCheck(t) \/ Reenter(t))
    BY <2>7, NoCallFields
      DEF UserStep, OpenBody, OpenStore, LeaveOpen, ReleaseBody, ReleaseStore,
          LeaveRelease, CallNoDevice, CallUnlocked, CopyFault, NoAccess,
          IoDone, LeaveCall, ReturnHolding
  <2>8. CASE HotplugStep(t)
    BY <2>8, NoCallFields
      DEF HotplugStep, ProbeClaim, ProbeOverrun, ProbeEnableFails,
          ProbeRegionsFail, ProbeEnabled, ProbeMap, ProbePublish, ProbeCounted,
          RemoveUnmap, RemoveUnbind, RemoveCount, RemoveMove, RemoveStore,
          RemoveMoved, LeaveRemove
  <2> QED BY <2>1, <2>2, <2>3, <2>4, <2>5, <2>6, <2>7, <2>8
          DEF Step, BeginStep
<1>4. f \in dev_file_list'[d] \/ \E u \in Threads : Owes(u, d, f)'
  BY DEF Owed
<1>5. f \in Files
  BY TypeStep DEF Owed, TypeOK
<1> QED BY <1>1, <1>2, <1>3, <1>4, <1>5 DEF Owed

\* The store of an open adds one file and one to the counter.
LEMMA OpenCounts ==
  ASSUME RefInv, NEW t \in Threads, OpenStore(t), NEW d \in Devs \ {NullDev}
  PROVE  dev_file_ref'[d] >= Cardinality(Owed(d)')
<1>0. PICK f : f = call[t].file
  OBVIOUS
<1>1. /\ call[t].dev \in Devs /\ f \in Files
      /\ IsFiniteSet(Owed(d)) /\ Cardinality(Owed(d)) \in Nat
  BY <1>0, OwedFinite
    DEF RefInv, HandleInv, CallShape, UserOps, OpenStore, Doing
<1>3. \A g \in Files, u \in Threads : Owes(u, d, g)' => Owes(u, d, g)
  BY DEF RefInv, HandleInv, TypeOK, Owes, OpenStore, Goto
<1>4. CASE call[t].dev = d
  <2>1. dev_file_list'[d] = dev_file_list[d] \cup {f}
    BY <1>0, <1>1, <1>4 DEF RefInv, HandleInv, TypeOK, OpenStore
  <2>2. Owed(d)' \subseteq Owed(d) \cup {f}
    BY <1>1, <1>3, <2>1 DEF Owed
  <2>3. dev_file_ref'[d] = dev_file_ref[d] + 1
    BY <1>1, <1>4
      DEF RefInv, HandleInv, TypeOK, Loaded, OpenStore, Store, At, Doing
  <2>4. /\ IsFiniteSet(Owed(d) \cup {f})
        /\ Cardinality(Owed(d) \cup {f}) <= Cardinality(Owed(d)) + 1
    <3>1. /\ IsFiniteSet(Owed(d) \cup {f})
          /\ \/ Cardinality(Owed(d) \cup {f}) = Cardinality(Owed(d))
             \/ Cardinality(Owed(d) \cup {f}) = Cardinality(Owed(d)) + 1
      BY <1>1, FS_AddElement, Zenon
    <3> QED BY <1>1, <3>1
  <2>5. /\ Cardinality(Owed(d)') <= Cardinality(Owed(d) \cup {f})
        /\ IsFiniteSet(Owed(d)')
    BY <2>2, <2>4, FS_Subset
  <2>6. Cardinality(Owed(d)') \in Nat /\ Cardinality(Owed(d) \cup {f}) \in Nat
    BY <2>4, <2>5, FS_CardinalityType
  <2>7. dev_file_ref[d] \in Int /\ dev_file_ref[d] >= Cardinality(Owed(d))
    BY DEF RefInv, HandleInv, TypeOK
  <2> QED BY <1>1, <2>3, <2>4, <2>5, <2>6, <2>7
<1>5. CASE call[t].dev # d
  <2>1. /\ dev_file_list'[d] = dev_file_list[d]
        /\ dev_file_ref'[d] = dev_file_ref[d]
    BY <1>1, <1>5 DEF RefInv, HandleInv, TypeOK, OpenStore, Store
  <2>2. Owed(d)' \subseteq Owed(d)
    BY <1>3, <2>1 DEF Owed
  <2>3. /\ Cardinality(Owed(d)') <= Cardinality(Owed(d))
        /\ IsFiniteSet(Owed(d)')
    BY <1>1, <2>2, FS_Subset
  <2>4. Cardinality(Owed(d)') \in Nat
    BY <2>3, FS_CardinalityType
  <2> QED BY <1>1, <2>1, <2>3, <2>4 DEF RefInv, HandleInv, TypeOK
<1> QED BY <1>4, <1>5

\* The store of a release takes one file off what is owed, whether or not the
\* file is still listed, and one off the counter.
LEMMA ReleaseCounts ==
  ASSUME RefInv, NEW t \in Threads, ReleaseStore(t),
         NEW d \in Devs \ {NullDev}, call[t].dev = d
  PROVE  dev_file_ref'[d] >= Cardinality(Owed(d)')
<1>0. PICK f : f = call[t].file
  OBVIOUS
<1>1. /\ f \in Files /\ Owes(t, d, f)
      /\ IsFiniteSet(Owed(d)) /\ Cardinality(Owed(d)) \in Nat
  BY <1>0, OwedFinite
    DEF RefInv, HandleInv, CallShape, UserOps, ReleaseStore, Doing, At, Owes
<1>2. f \in Owed(d)
  BY <1>1 DEF Owed
<1>3. Step(t) /\ ~ OpenStore(t)
  BY DEF Step, UserStep, ReleaseStore, OpenStore, Doing
<1>4. Owed(d)' \subseteq Owed(d)
  BY <1>3, OwedShrinks DEF RefInv
<1>5. f \notin Owed(d)'
  <2>1. f \notin dev_file_list'[d]
    BY <1>0 DEF RefInv, HandleInv, TypeOK, ReleaseStore, Unlist
  <2>2. ~ Owes(t, d, f)'
    BY DEF RefInv, HandleInv, TypeOK, ReleaseStore, Owes, Goto
  <2>3. \A u \in Threads \ {t} : ~ Owes(u, d, f)'
    BY <1>0, <1>3, Frame
      DEF RefInv, HandleInv, Exclusive, Owes, ReleaseStore, Doing
  <2> QED BY <2>1, <2>2, <2>3 DEF Owed
<1>6. /\ IsFiniteSet(Owed(d) \ {f})
      /\ Cardinality(Owed(d) \ {f}) = Cardinality(Owed(d)) - 1
  BY <1>1, <1>2, FS_RemoveElement
<1>7. /\ Cardinality(Owed(d)') <= Cardinality(Owed(d) \ {f})
      /\ IsFiniteSet(Owed(d)')
  BY <1>4, <1>5, <1>6, FS_Subset
<1>8. Cardinality(Owed(d)') \in Nat
  BY <1>7, FS_CardinalityType
<1>9. dev_file_ref'[d] = dev_file_ref[d] - 1
  BY DEF RefInv, HandleInv, TypeOK, Loaded, ReleaseStore, Store, At, Doing
<1>10. dev_file_ref[d] \in Int /\ dev_file_ref[d] >= Cardinality(Owed(d))
  BY DEF RefInv, HandleInv, TypeOK
<1> QED BY <1>1, <1>6, <1>7, <1>8, <1>9, <1>10

\* Every step keeps the counter at least as large as what is owed.
LEMMA OwedStep ==
  ASSUME RefInv, NEW t \in Threads, Step(t), NEW d \in Devs \ {NullDev}
  PROVE  dev_file_ref'[d] >= Cardinality(Owed(d)')
<1>1. CASE OpenStore(t)
  BY <1>1, OpenCounts
<1>2. CASE ReleaseStore(t) /\ call[t].dev = d
  BY <1>2, ReleaseCounts
<1>3. CASE ~ OpenStore(t) /\ ~ (ReleaseStore(t) /\ call[t].dev = d)
  <2>1. dev_file_ref'[d] = dev_file_ref[d]
    BY <1>3, RefFrame
      DEF RefInv, HandleInv, TypeOK, ReleaseStore, RemoveStore, Store
  <2>2. IsFiniteSet(Owed(d)) /\ Cardinality(Owed(d)) \in Nat
    BY OwedFinite DEF RefInv
  <2>3. Owed(d)' \subseteq Owed(d)
    BY <1>3, OwedShrinks DEF RefInv
  <2>4. /\ Cardinality(Owed(d)') <= Cardinality(Owed(d))
        /\ IsFiniteSet(Owed(d)')
    BY <2>2, <2>3, FS_Subset
  <2>5. Cardinality(Owed(d)') \in Nat
    BY <2>4, FS_CardinalityType
  <2> QED BY <2>1, <2>2, <2>4, <2>5 DEF RefInv, HandleInv, TypeOK
<1> QED BY <1>1, <1>2, <1>3

\* The state that init leaves owes nothing.
LEMMA RefInit == Init => RefInv
<1> SUFFICES ASSUME Init PROVE RefInv
  OBVIOUS
<1>1. \A t \in Threads : Loaded(t) /\ pc[t] = "idle"
  BY DEF Init, Loaded
<1>2. \A d \in Devs : Owed(d) = {} /\ dev_file_ref[d] = 0
  BY <1>1 DEF Init, Owed, Owes
<1>3. Cardinality({}) = 0
  BY FS_EmptySet
<1> QED BY <1>1, <1>2, <1>3, HandleInit DEF RefInv

\* Every step preserves the invariant.
LEMMA RefStep == RefInv /\ [Next]_vars => RefInv'
<1> SUFFICES ASSUME RefInv, [Next]_vars PROVE RefInv'
  OBVIOUS
<1>1. HandleInv'
  BY HandleStep DEF RefInv
<1>2. ASSUME NEW t \in Threads, Step(t) PROVE RefInv'
  <2>1. \A u \in Threads : Loaded(u)'
    BY <1>2, LoadedStep, OthersLoadedStep
  <2>2. \A d \in Devs \ {NullDev} : dev_file_ref'[d] >= Cardinality(Owed(d)')
    BY <1>2, OwedStep
  <2> QED BY <1>1, <2>1, <2>2 DEF RefInv
<1>3. CASE UNCHANGED vars
  BY <1>1, <1>3 DEF vars, fileVars, RefInv, Loaded, Owed, Owes
<1> QED BY <1>2, <1>3 DEF Next, Step

(***************************************************************************)
(* dev_file_ref of a structure that boards use never falls below the       *)
(* number of files on its list, for any number of opens, releases and      *)
(* removes that overlap.                                                   *)
(***************************************************************************)
THEOREM RefIsEnough == Spec => []RefCoversList
<1>1. RefInv => RefCoversList
  <2> SUFFICES ASSUME RefInv, NEW d \in Devs \ {NullDev}
               PROVE  dev_file_ref[d] >= Cardinality(dev_file_list[d])
    BY DEF RefCoversList
  <2>1. IsFiniteSet(Owed(d)) /\ Cardinality(Owed(d)) \in Nat
    BY OwedFinite DEF RefInv
  <2>2. /\ Cardinality(dev_file_list[d]) <= Cardinality(Owed(d))
        /\ IsFiniteSet(dev_file_list[d])
    BY <2>1, FS_Subset DEF Owed
  <2>3. Cardinality(dev_file_list[d]) \in Nat
    BY <2>2, FS_CardinalityType
  <2> QED BY <2>1, <2>2, <2>3 DEF RefInv, HandleInv, TypeOK
<1>2. Spec => []RefInv
  BY RefInit, RefStep, PTL DEF Spec
<1> QED BY <1>1, <1>2, PTL
=============================================================================
