------------------------- MODULE PcieDevLockProofs -------------------------
(***************************************************************************)
(* Proof about PcieDev: calls whose user copies do not fail, and that do   *)
(* not use SINGLE_IOC_ACCESS, leave no dev_mut locked behind them, whoever *)
(* else opens, closes, accesses, plugs or unplugs meanwhile.               *)
(***************************************************************************)
EXTENDS PcieDevProofs

Leaky == {"single_read", "single_nested"}

\* The calls for which the code balances EnterCritRegion and LeaveCritRegion.
Gentle == UserFaults = FALSE /\ Calls \cap Leaky = {}

(***************************************************************************)
(* The owner of a mutex is a call that is running on that structure and    *)
(* that has yet to leave the region.                                       *)
(***************************************************************************)
Accounted(d) ==
  dev_mut[d] \in Threads =>
    pc[dev_mut[d]] \in HeldPcs /\ call[dev_mut[d]].dev = d

GentleInv ==
  /\ Gentle
  /\ HandleInv
  /\ \A t \in Threads : call[t].op \notin Leaky /\ pc[t] # "noleave"
  /\ \A d \in Devs : Accounted(d)

\* Without failing copies and SINGLE_IOC_ACCESS no call returns with the lock.
LEMMA NeverLeaky ==
  ASSUME GentleInv, NEW t \in Threads, Step(t)
  PROVE  call'[t].op \notin Leaky /\ pc'[t] # "noleave"
<1> USE
  DEF GentleInv, HandleInv, TypeOK, CallShape, Leaky, AfterAccess, At, Doing,
      Goto, Now, Begin, Return, LeaveCritRegion
<1>1. CASE BeginStep(t)
  BY <1>1
  DEF BeginStep, OpenBegin, ReleaseBegin, CallBegin, ProbeScan, RemoveBegin,
      NewCall, Gentle
<1>2. CASE EnterCritRegion(t)
  BY <1>2 DEF EnterCritRegion
<1>3. CASE CallCheck(t)
  <2>1. call[t].dev \in Devs
    BY <1>3 DEF CallCheck, UserOps
  <2>2. pciedev_pci_dev[call[t].dev] \in Boards \cup {NoBoard}
    BY <2>1
  <2> QED BY <1>3, <2>2, SetSeen DEF CallCheck
<1>4. CASE BarCheck(t)
  <2>1. call[t].dev \in Devs
    BY <1>4 DEF BarCheck, UserOps, AllCalls
  <2>2. PICK b \in {memmory_base[call[t].dev], NoBoard} :
          /\ Now(t, [call[t] EXCEPT !.io = b])
          /\ Goto(t, IF b = NoBoard THEN AfterAccess(t) ELSE "io")
    BY <1>4 DEF BarCheck
  <2>3. b \in Boards \cup {NoBoard}
    BY <2>1
  <2> QED BY <1>4, <2>2, <2>3, SetIo DEF BarCheck
<1>5. CASE Reenter(t)
  BY <1>5 DEF Reenter
<1>6. CASE UserStep(t) /\ ~ (CallCheck(t) \/ BarCheck(t) \/ Reenter(t))
  BY <1>6, NoCallFields
    DEF UserStep, OpenBody, OpenStore, LeaveOpen, ReleaseBody, ReleaseStore,
        LeaveRelease, CallNoDevice, CallUnlocked, CopyFault, NoAccess, IoDone,
        LeaveCall, ReturnHolding, Gentle
<1>7. CASE HotplugStep(t)
  BY <1>7, NoCallFields
    DEF HotplugStep, ProbeClaim, ProbeOverrun, ProbeEnableFails,
        ProbeRegionsFail, ProbeEnabled, ProbeMap, ProbePublish, ProbeCounted,
        RemoveUnmap, RemoveUnbind, RemoveCount, RemoveMove, RemoveStore,
        RemoveMoved, LeaveRemove
<1> QED BY <1>1, <1>2, <1>3, <1>4, <1>5, <1>6, <1>7 DEF Step

\* The owner of a mutex stays a call that will leave the region.
LEMMA AccountedStep ==
  ASSUME GentleInv, NEW t \in Threads, Step(t), NEW d \in Devs
  PROVE  Accounted(d)'
<1> USE Frame
  DEF GentleInv, HandleInv, TypeOK, CallShape, Accounted, HeldPcs, AfterAccess,
      At, Doing, Goto, Now, Begin, Return, LeaveCritRegion
<1>1. CASE BeginStep(t)
  BY <1>1
  DEF BeginStep, OpenBegin, ReleaseBegin, CallBegin, ProbeScan, RemoveBegin
<1>2. CASE EnterCritRegion(t)
  BY <1>2 DEF EnterCritRegion
<1>3. CASE CallCheck(t)
  BY <1>3 DEF CallCheck
<1>4. CASE BarCheck(t)
  <2>1. call[t].dev \in Devs
    BY <1>4 DEF BarCheck, UserOps, AllCalls
  <2>2. PICK b \in {memmory_base[call[t].dev], NoBoard} :
          /\ Now(t, [call[t] EXCEPT !.io = b])
          /\ Goto(t, IF b = NoBoard THEN AfterAccess(t) ELSE "io")
    BY <1>4 DEF BarCheck
  <2>3. b \in Boards \cup {NoBoard}
    BY <2>1
  <2> QED BY <1>4, <2>2, <2>3, SetIo DEF BarCheck
<1>5. CASE Reenter(t)
  BY <1>5 DEF Reenter, Leaky
<1>6. CASE LeaveOpen(t) \/ LeaveRelease(t) \/ LeaveCall(t) \/ LeaveRemove(t)
  BY <1>6, ConstantsAssumption, SMTT(30)
  DEF LeaveOpen, LeaveRelease, LeaveCall, LeaveRemove, HoldsLock
<1>7. CASE /\ UserStep(t)
           /\ ~ (CallCheck(t) \/ BarCheck(t) \/ Reenter(t))
           /\ ~ (LeaveOpen(t) \/ LeaveRelease(t) \/ LeaveCall(t))
  BY <1>7
    DEF UserStep, OpenBody, OpenStore, ReleaseBody, ReleaseStore, CallNoDevice,
        CallUnlocked, CopyFault, NoAccess, IoDone, ReturnHolding
<1>8. CASE HotplugStep(t) /\ ~ LeaveRemove(t)
  BY <1>8
    DEF HotplugStep, ProbeClaim, ProbeOverrun, ProbeEnableFails,
        ProbeRegionsFail, ProbeEnabled, ProbeMap, ProbePublish, ProbeCounted,
        RemoveUnmap, RemoveUnbind, RemoveCount, RemoveMove, RemoveStore,
        RemoveMoved
<1> QED BY <1>1, <1>2, <1>3, <1>4, <1>5, <1>6, <1>7, <1>8 DEF Step

\* The state that init leaves satisfies the invariant.
LEMMA GentleInit == Gentle /\ Init => GentleInv
<1> SUFFICES ASSUME Gentle, Init PROVE GentleInv
  OBVIOUS
<1>1. \A t \in Threads : call[t].op \notin Leaky /\ pc[t] # "noleave"
  BY NoCallFields DEF Init, Leaky
<1>2. \A d \in Devs : Accounted(d)
  BY ConstantsAssumption DEF Init, Accounted
<1> QED BY <1>1, <1>2, HandleInit DEF GentleInv

\* Every step preserves the invariant.
LEMMA GentleStep == GentleInv /\ [Next]_vars => GentleInv'
<1> SUFFICES ASSUME GentleInv, [Next]_vars PROVE GentleInv'
  OBVIOUS
<1>1. HandleInv'
  BY HandleStep DEF GentleInv
<1>2. ASSUME NEW t \in Threads, Step(t) PROVE GentleInv'
  <2>1. \A u \in Threads : call'[u].op \notin Leaky /\ pc'[u] # "noleave"
    BY <1>2, NeverLeaky, Frame DEF GentleInv, HandleInv
  <2>2. \A d \in Devs : Accounted(d)'
    BY <1>2, AccountedStep
  <2> QED BY <1>1, <2>1, <2>2 DEF GentleInv
<1>3. CASE UNCHANGED vars
  BY <1>1, <1>3 DEF vars, GentleInv, Accounted
<1> QED BY <1>2, <1>3 DEF Next, Step

(***************************************************************************)
(* The inductive invariant holds throughout.                               *)
(***************************************************************************)
THEOREM GentleSafety == Gentle /\ Spec => []GentleInv
BY GentleInit, GentleStep, PTL DEF Spec

(***************************************************************************)
(* A thread that has returned to user space owns no dev_mut.               *)
(***************************************************************************)
THEOREM NoLockIsLeaked == Gentle /\ Spec => []NoLockLeftBehind
<1>1. GentleInv => NoLockLeftBehind
  BY DEF GentleInv, Accounted, NoLockLeftBehind, HeldPcs, At
<1> QED BY <1>1, GentleSafety, PTL

(***************************************************************************)
(* A thread that waits in EnterCritRegion owns no dev_mut, so threads      *)
(* cannot wait for each other in a circle: pciedev_remove_exp in           *)
(* particular hands files to the null device without taking its lock.      *)
(***************************************************************************)
THEOREM NoCircularWait == Gentle /\ Spec => []NoHoldAndWait
<1>1. GentleInv => NoHoldAndWait
  BY DEF GentleInv, Accounted, NoHoldAndWait, HeldPcs, At
<1> QED BY <1>1, GentleSafety, PTL
=============================================================================
