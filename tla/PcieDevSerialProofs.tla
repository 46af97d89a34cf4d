------------------------ MODULE PcieDevSerialProofs ------------------------
(***************************************************************************)
(* Proofs about PcieDev when the PCI core runs one probe or remove at a    *)
(* time: a structure belongs to one board, registers are only accessed     *)
(* through a mapping that exists, and the boards are counted.  At the end, *)
(* for any hot-plug: PcieDev implements FileHandles.                       *)
(***************************************************************************)
EXTENDS PcieDevProofs

(***************************************************************************)
(* The one probe or remove that is running, and what it may rely on.       *)
(***************************************************************************)
HotplugShape(t) ==
  LET c == call[t] IN
  /\ c.op = "probe" => c.brd \notin bound
  /\ pc[t] = "claim" /\ c.dev \in Devs => ~ binded[c.dev]
  /\ pc[t] \in {"enable", "map", "publish", "counted"} =>
       binded[c.dev] /\ \A b \in bound : drvdata[b] # c.dev
  /\ pc[t] \in {"enable", "map"} =>
       memmory_base[c.dev] = NoBoard /\ ~ dev_sts[c.dev]
  /\ pc[t] \in {"map", "publish", "counted"} =>
       pciedev_pci_dev[c.dev] = c.brd /\ drvdata[c.brd] = c.dev
  /\ c.op = "remove" => c.brd \in bound /\ drvdata[c.brd] = c.dev
  /\ pc[t] = "unbind" => memmory_base[c.dev] = NoBoard

Alone(t, u) == Hotplugging(t) /\ Hotplugging(u) => t = u

LiveBar(t) ==
  pc[t] = "io" =>
    call[t].io # NoBoard /\ memmory_base[call[t].dev] = call[t].io

(***************************************************************************)
(* A mapping is of the board the structure was last given to.              *)
(***************************************************************************)
MappedBoard ==
  \A d \in Devs :
    memmory_base[d] # NoBoard => pciedev_pci_dev[d] = memmory_base[d]

(***************************************************************************)
(* A bound board's structure is marked, until its remove gives it back.    *)
(***************************************************************************)
Owned(b) ==
  /\ drvdata[b] \in Devs
  /\ \/ binded[drvdata[b]]
     \/ \E t \in Threads : /\ call[t].op = "remove" /\ call[t].brd = b
                           /\ pc[t] \in {"count", "move", "store", "leave"}

SerialInv ==
  /\ SerialHotplug
  /\ HandleInv
  /\ \A t, u \in Threads : Alone(t, u)
  /\ \A t \in Threads : HotplugShape(t) /\ LiveBar(t)
  /\ \A b \in bound : Owned(b)
  /\ MappedBoard
  /\ FreeStructureIsQuiet
  /\ OneBoardPerStructure

-----------------------------------------------------------------------------
(* Steps that are no part of a probe or remove change nothing about boards. *)

BoardFrame ==
  UNCHANGED <<binded, dev_sts, memmory_base, pciedev_pci_dev, drvdata, bound>>

\* A step of a read, write, ioctl, open or release touches no board state.
LEMMA UserFrame ==
  ASSUME HandleInv, NEW t \in Threads, UserStep(t)
  PROVE  BoardFrame /\ ~ Hotplugging(t) /\ ~ Hotplugging(t)'
<1> USE
  DEF HandleInv, TypeOK, CallShape, AllCalls, BoardFrame, Hotplugging, devVars,
      boardVars, At, Doing, Goto, Now, Begin, Return, LeaveCritRegion
<1>1. CASE CallCheck(t)
  <2>1. call[t].dev \in Devs
    BY <1>1 DEF CallCheck, UserOps
  <2>2. pciedev_pci_dev[call[t].dev] \in Boards \cup {NoBoard}
    BY <2>1
  <2> DEFINE c == [call[t] EXCEPT !.seen = pciedev_pci_dev[call[t].dev]]
  <2>3. c.op = call[t].op
    BY <2>2, SetSeen
  <2> HIDE DEF c
  <2>4. call'[t] = c
    BY <1>1 DEF CallCheck, c
  <2>5. call[t].op \notin {"probe", "remove"}
    BY <1>1 DEF CallCheck
  <2> QED BY <1>1, <2>3, <2>4, <2>5 DEF CallCheck
<1>2. CASE BarCheck(t)
  BY <1>2, SetIo DEF BarCheck
<1>3. CASE Reenter(t)
  BY <1>3, SetOp DEF Reenter
<1>4. CASE ~ (CallCheck(t) \/ BarCheck(t) \/ Reenter(t))
  BY <1>4, NoCallFields
    DEF UserStep, OpenBody, OpenStore, LeaveOpen, ReleaseBody, ReleaseStore,
        LeaveRelease, CallNoDevice, CallUnlocked, CopyFault, NoAccess, IoDone,
        LeaveCall, ReturnHolding
<1> QED BY <1>1, <1>2, <1>3, <1>4

UserBegin(t) ==
  \/ \E f \in Files, d \in Devs : OpenBegin(t, f, d)
  \/ \E f \in Files : ReleaseBegin(t, f)
  \/ \E f \in Files, k \in Calls : CallBegin(t, f, k)

\* The start of a user call touches no board state.
LEMMA BeginFrame ==
  ASSUME HandleInv, NEW t \in Threads, UserBegin(t)
  PROVE  BoardFrame /\ ~ Hotplugging(t) /\ ~ Hotplugging(t)'
<1> USE
  DEF HandleInv, TypeOK, CallShape, BoardFrame, Hotplugging, devVars,
      boardVars, NewCall, At, Doing, Goto, Now, Begin, Return, LeaveCritRegion
<1>1. CASE \E f \in Files, d \in Devs : OpenBegin(t, f, d)
  BY <1>1 DEF OpenBegin
<1>2. CASE \E f \in Files : ReleaseBegin(t, f)
  BY <1>2 DEF ReleaseBegin
<1>3. CASE \E f \in Files, k \in Calls : CallBegin(t, f, k)
  BY <1>3, ConstantsAssumption DEF CallBegin, AllCalls
<1> QED BY <1>1, <1>2, <1>3 DEF UserBegin

(***************************************************************************)
(* A step of user code, for the purposes of hot-plug.                      *)
(***************************************************************************)
Quiet(t) == BoardFrame /\ ~ Hotplugging(t) /\ ~ Hotplugging(t)'

\* The steps that matter to hot-plug.
LEMMA StepCases ==
  ASSUME HandleInv, NEW t \in Threads, Step(t)
  PROVE  \/ Quiet(t)
         \/ EnterCritRegion(t)
         \/ \E b \in Boards : ProbeScan(t, b) \/ RemoveBegin(t, b)
         \/ HotplugStep(t)
BY UserFrame, BeginFrame DEF Quiet, Step, BeginStep, UserBegin

\* No second probe or remove starts while one is running.
LEMMA AloneStep ==
  ASSUME SerialInv, NEW t \in Threads, Step(t), NEW u \in Threads \ {t}
  PROVE  Alone(t, u)' /\ Alone(u, t)'
<1> USE Frame
  DEF SerialInv, HandleInv, TypeOK, CallShape, Alone, Hotplugging, At, Doing,
      Goto, Now, Begin, Return, LeaveCritRegion
<1>1. CASE Quiet(t)
  BY <1>1 DEF Quiet
<1>2. CASE EnterCritRegion(t)
  BY <1>2 DEF EnterCritRegion
<1>3. ASSUME NEW b \in Boards, ProbeScan(t, b)
      PROVE  Alone(t, u)' /\ Alone(u, t)'
  BY <1>3 DEF ProbeScan, MayHotplug, NewCall
<1>4. ASSUME NEW b \in Boards, RemoveBegin(t, b)
      PROVE  Alone(t, u)' /\ Alone(u, t)'
  BY <1>4 DEF RemoveBegin, MayHotplug, NewCall
<1>5. CASE ProbeClaim(t)
  BY <1>5 DEF ProbeClaim
<1>6. CASE ProbeOverrun(t)
  BY <1>6 DEF ProbeOverrun
<1>7. CASE ProbeEnableFails(t)
  BY <1>7, NoCallFields DEF ProbeEnableFails
<1>8. CASE ProbeRegionsFail(t)
  BY <1>8, NoCallFields DEF ProbeRegionsFail
<1>9. CASE ProbeEnabled(t)
  BY <1>9 DEF ProbeEnabled
<1>10. CASE ProbeMap(t)
  BY <1>10 DEF ProbeMap
<1>11. CASE ProbePublish(t)
  BY <1>11 DEF ProbePublish
<1>12. CASE ProbeCounted(t)
  BY <1>12, NoCallFields DEF ProbeCounted
<1>13. CASE RemoveUnmap(t)
  BY <1>13 DEF RemoveUnmap
<1>14. CASE RemoveUnbind(t)
  BY <1>14 DEF RemoveUnbind
<1>15. CASE RemoveCount(t)
  BY <1>15 DEF RemoveCount
<1>16. CASE RemoveMove(t)
  BY <1>16 DEF RemoveMove
<1>17. CASE RemoveStore(t)
  BY <1>17 DEF RemoveStore
<1>18. CASE RemoveMoved(t)
  BY <1>18 DEF RemoveMoved
<1>19. CASE LeaveRemove(t)
  BY <1>19, NoCallFields DEF LeaveRemove
<1> QED BY StepCases, <1>1, <1>2, <1>3, <1>4, <1>5, <1>6, <1>7, <1>8, <1>9,
    <1>10, <1>11, <1>12, <1>13, <1>14, <1>15, <1>16, <1>17, <1>18, <1>19
        DEF HotplugStep

\* The structure that probe claims belongs to no bound board.
LEMMA Claimed ==
  ASSUME SerialInv, NEW t \in Threads, ProbeClaim(t), NEW b \in bound
  PROVE  drvdata[b] # call[t].dev
<1>1. /\ pc[t] = "claim" /\ call[t].op = "probe" /\ ~ binded[call[t].dev]
  BY DEF SerialInv, HandleInv, CallShape, HotplugShape, ProbeClaim, At
<1>2. \A u \in Threads : call[u].op # "remove"
  BY <1>1 DEF SerialInv, Alone, Hotplugging
<1>3. binded[drvdata[b]]
  BY <1>2 DEF SerialInv, Owned
<1> QED BY <1>1, <1>3

\* A thread whose call returns is idle.
LEMMA ReturnsIdle ==
  ASSUME TypeOK, NEW t \in Threads, Return(t)
  PROVE  pc'[t] = "idle" /\ call'[t] = NoCall
<1>1. pc \in [Threads -> Pcs] /\ DOMAIN call = Threads
  BY DEF TypeOK
<1> QED BY <1>1 DEF Return, Goto, Now

\* An idle thread has no probe or remove to speak of.
LEMMA IdleShape ==
  ASSUME NEW t \in Threads, pc'[t] = "idle", call'[t] = NoCall
  PROVE  HotplugShape(t)'
BY NoCallFields DEF HotplugShape

\* Nor has a thread whose remove is over.
LEMMA RemovedShape ==
  ASSUME TypeOK, NEW t \in Threads, LeaveRemove(t)
  PROVE  HotplugShape(t)'
<1>1. Return(t)
  BY DEF LeaveRemove, LeaveCritRegion
<1> QED BY <1>1, ReturnsIdle, IdleShape

\* What probe finds after it has claimed a structure.
LEMMA ClaimShape ==
  ASSUME SerialInv, NEW t \in Threads, ProbeClaim(t)
  PROVE  HotplugShape(t)'
<1>1. /\ pc[t] = "claim" /\ call[t].op = "probe" /\ call[t].dev \in Devs
      /\ call[t].brd \notin bound /\ ~ binded[call[t].dev]
  BY DEF SerialInv, HandleInv, CallShape, HotplugShape, ProbeClaim, At
<1>2. memmory_base[call[t].dev] = NoBoard /\ ~ dev_sts[call[t].dev]
  BY <1>1 DEF SerialInv, FreeStructureIsQuiet
<1>3. \A b \in bound : drvdata[b] # call[t].dev
  BY Claimed
<1>4. call' = call /\ pc'[t] = "enable" /\ binded'[call[t].dev]
  <2>1. pc \in [Threads -> Pcs] /\ binded \in [Devs -> BOOLEAN]
    BY DEF SerialInv, HandleInv, TypeOK
  <2> QED BY <1>1, <2>1 DEF ProbeClaim, Goto
<1>5. UNCHANGED <<memmory_base, dev_sts, bound, drvdata>>
  BY SMTT(30) DEF ProbeClaim, boardVars
<1> QED BY <1>1, <1>2, <1>3, <1>4, <1>5 DEF HotplugShape

\* Probe and remove find the structure as the step before left it.
LEMMA ShapeOfHotplug ==
  ASSUME SerialInv, NEW t \in Threads, Step(t)
  PROVE  HotplugShape(t)'
<1> USE DevFacts
  DEF SerialInv, HandleInv, TypeOK, CallShape, HotplugShape,
      FreeStructureIsQuiet, Hotplugging, BoardFrame, devVars, boardVars, At,
      Doing, Goto, Now, Begin, Return, LeaveCritRegion
<1>1. CASE Quiet(t)
  BY <1>1, ShapeStep DEF Quiet
<1>2. CASE EnterCritRegion(t)
  BY <1>2 DEF EnterCritRegion
<1>3. ASSUME NEW b \in Boards, ProbeScan(t, b)
      PROVE  HotplugShape(t)'
  <2>1. PICK d \in (Devs \cup {Beyond}) \ {NullDev} :
          FirstFree(d) /\ Begin(t, NewCall("probe", d, NoFile, b), "claim")
    BY <1>3 DEF ProbeScan
  <2>2. call'[t].op = "probe" /\ call'[t].dev = d /\ call'[t].brd = b
    BY <2>1 DEF NewCall
  <2>3. b \notin bound /\ BoardFrame
    BY <1>3 DEF ProbeScan
  <2>4. d \in Devs => ~ binded[d]
    BY <2>1 DEF FirstFree
  <2>5. pc'[t] = "claim"
    BY <2>1
  <2> QED BY <2>2, <2>3, <2>4, <2>5
<1>4. ASSUME NEW b \in Boards, RemoveBegin(t, b)
      PROVE  HotplugShape(t)'
  BY <1>4 DEF RemoveBegin, MayHotplug, NewCall
<1>5. CASE ProbeClaim(t)
  BY <1>5, ClaimShape
<1>6. CASE ProbeOverrun(t)
  BY <1>6 DEF ProbeOverrun
<1>7. CASE ProbeEnableFails(t)
  BY <1>7, NoCallFields DEF ProbeEnableFails
<1>8. CASE ProbeRegionsFail(t)
  BY <1>8, NoCallFields DEF ProbeRegionsFail
<1>9. CASE ProbeEnabled(t)
  BY <1>9 DEF ProbeEnabled
<1>10. CASE ProbeMap(t)
  BY <1>10 DEF ProbeMap
<1>11. CASE ProbePublish(t)
  BY <1>11 DEF ProbePublish
<1>12. CASE ProbeCounted(t)
  BY <1>12, NoCallFields DEF ProbeCounted
<1>13. CASE RemoveUnmap(t)
  BY <1>13 DEF RemoveUnmap
<1>14. CASE RemoveUnbind(t)
  BY <1>14 DEF RemoveUnbind
<1>15. CASE RemoveCount(t)
  BY <1>15 DEF RemoveCount
<1>16. CASE RemoveMove(t)
  BY <1>16 DEF RemoveMove
<1>17. CASE RemoveStore(t)
  BY <1>17 DEF RemoveStore
<1>18. CASE RemoveMoved(t)
  BY <1>18 DEF RemoveMoved
<1>19. CASE LeaveRemove(t)
  BY <1>19, RemovedShape, SMTT(30)
<1> QED BY StepCases, <1>1, <1>2, <1>3, <1>4, <1>5, <1>6, <1>7, <1>8, <1>9,
    <1>10, <1>11, <1>12, <1>13, <1>14, <1>15, <1>16, <1>17, <1>18, <1>19
        DEF HotplugStep

\* No other thread disturbs the probe or remove that is running.
LEMMA OthersShape ==
  ASSUME SerialInv, NEW t \in Threads, Step(t), NEW u \in Threads \ {t}
  PROVE  HotplugShape(u)'
<1> USE Frame
  DEF SerialInv, HandleInv, TypeOK, CallShape, Alone, HotplugShape,
      Hotplugging, BoardFrame, devVars, boardVars, At, Doing, Goto, Now, Begin,
      Return, LeaveCritRegion
<1>1. CASE Quiet(t)
  BY <1>1 DEF Quiet
<1>2. CASE EnterCritRegion(t)
  BY <1>2 DEF EnterCritRegion
<1>3. ASSUME NEW b \in Boards, ProbeScan(t, b)
      PROVE  HotplugShape(u)'
  BY <1>3 DEF ProbeScan, MayHotplug, NewCall
<1>4. ASSUME NEW b \in Boards, RemoveBegin(t, b)
      PROVE  HotplugShape(u)'
  BY <1>4 DEF RemoveBegin, MayHotplug, NewCall
<1>5. CASE ProbeClaim(t)
  BY <1>5 DEF ProbeClaim
<1>6. CASE ProbeOverrun(t)
  BY <1>6 DEF ProbeOverrun
<1>7. CASE ProbeEnableFails(t)
  BY <1>7, NoCallFields DEF ProbeEnableFails
<1>8. CASE ProbeRegionsFail(t)
  BY <1>8, NoCallFields DEF ProbeRegionsFail
<1>9. CASE ProbeEnabled(t)
  BY <1>9 DEF ProbeEnabled
<1>10. CASE ProbeMap(t)
  BY <1>10 DEF ProbeMap
<1>11. CASE ProbePublish(t)
  BY <1>11 DEF ProbePublish
<1>12. CASE ProbeCounted(t)
  BY <1>12, NoCallFields DEF ProbeCounted
<1>13. CASE RemoveUnmap(t)
  BY <1>13 DEF RemoveUnmap
<1>14. CASE RemoveUnbind(t)
  BY <1>14 DEF RemoveUnbind
<1>15. CASE RemoveCount(t)
  BY <1>15 DEF RemoveCount
<1>16. CASE RemoveMove(t)
  BY <1>16 DEF RemoveMove
<1>17. CASE RemoveStore(t)
  BY <1>17 DEF RemoveStore
<1>18. CASE RemoveMoved(t)
  BY <1>18 DEF RemoveMoved
<1>19. CASE LeaveRemove(t)
  BY <1>19, NoCallFields DEF LeaveRemove
<1> QED BY StepCases, <1>1, <1>2, <1>3, <1>4, <1>5, <1>6, <1>7, <1>8, <1>9,
    <1>10, <1>11, <1>12, <1>13, <1>14, <1>15, <1>16, <1>17, <1>18, <1>19
        DEF HotplugStep

\* A thread starts an access only through the mapping it has just read.
LEMMA BarStep ==
  ASSUME SerialInv, NEW t \in Threads, Step(t)
  PROVE  LiveBar(t)'
<1> USE
  DEF SerialInv, HandleInv, TypeOK, CallShape, LiveBar, At, Doing, Goto, Now,
      Begin, Return, LeaveCritRegion
<1>1. CASE BeginStep(t)
  BY <1>1
  DEF BeginStep, OpenBegin, ReleaseBegin, CallBegin, ProbeScan, RemoveBegin
<1>2. CASE EnterCritRegion(t)
  BY <1>2 DEF EnterCritRegion
<1>3. CASE BarCheck(t)
  <2>1. call[t].dev \in Devs
    BY <1>3 DEF BarCheck, UserOps, AllCalls
  <2>2. PICK b \in {memmory_base[call[t].dev], NoBoard} :
          /\ Now(t, [call[t] EXCEPT !.io = b])
          /\ Goto(t, IF b = NoBoard THEN AfterAccess(t) ELSE "io")
    BY <1>3 DEF BarCheck
  <2>3. b \in Boards \cup {NoBoard}
    BY <2>1
  <2> QED BY <1>3, <2>2, <2>3, SetIo DEF BarCheck, devVars, AfterAccess
<1>4. CASE UserStep(t) /\ ~ BarCheck(t)
  BY <1>4
    DEF UserStep, OpenBody, OpenStore, LeaveOpen, ReleaseBody, ReleaseStore,
        LeaveRelease, CallNoDevice, CallCheck, CallUnlocked, CopyFault,
        NoAccess, Reenter, IoDone, LeaveCall, ReturnHolding, AfterAccess
<1>5. CASE HotplugStep(t)
  BY <1>5
    DEF HotplugStep, ProbeClaim, ProbeOverrun, ProbeEnableFails,
        ProbeRegionsFail, ProbeEnabled, ProbeMap, ProbePublish, ProbeCounted,
        RemoveUnmap, RemoveUnbind, RemoveCount, RemoveMove, RemoveStore,
        RemoveMoved, LeaveRemove
<1> QED BY <1>1, <1>2, <1>3, <1>4, <1>5 DEF Step

\* No other thread unmaps or remaps what an access is using.
LEMMA OthersBarStep ==
  ASSUME SerialInv, NEW t \in Threads, Step(t), NEW u \in Threads \ {t}
  PROVE  LiveBar(u)'
<1> USE Frame
  DEF SerialInv, HandleInv, TypeOK, CallShape, LiveBar, HoldsLock, HeldPcs,
      HotplugShape, Hotplugging, BoardFrame, devVars, boardVars, At, Doing,
      Goto, Now, Begin, Return, LeaveCritRegion
<1>1. CASE Quiet(t)
  BY <1>1 DEF Quiet
<1>2. CASE EnterCritRegion(t)
  BY <1>2 DEF EnterCritRegion
<1>3. ASSUME NEW b \in Boards, ProbeScan(t, b)
      PROVE  LiveBar(u)'
  BY <1>3 DEF ProbeScan, MayHotplug, NewCall
<1>4. ASSUME NEW b \in Boards, RemoveBegin(t, b)
      PROVE  LiveBar(u)'
  BY <1>4 DEF RemoveBegin, MayHotplug, NewCall
<1>5. CASE ProbeClaim(t)
  BY <1>5 DEF ProbeClaim
<1>6. CASE ProbeOverrun(t)
  BY <1>6 DEF ProbeOverrun
<1>7. CASE ProbeEnableFails(t)
  BY <1>7, NoCallFields DEF ProbeEnableFails
<1>8. CASE ProbeRegionsFail(t)
  BY <1>8, NoCallFields DEF ProbeRegionsFail
<1>9. CASE ProbeEnabled(t)
  BY <1>9 DEF ProbeEnabled
<1>10. CASE ProbeMap(t)
  BY <1>10 DEF ProbeMap
<1>11. CASE ProbePublish(t)
  BY <1>11 DEF ProbePublish
<1>12. CASE ProbeCounted(t)
  BY <1>12, NoCallFields DEF ProbeCounted
<1>13. CASE RemoveUnmap(t)
  BY <1>13 DEF RemoveUnmap
<1>14. CASE RemoveUnbind(t)
  BY <1>14 DEF RemoveUnbind
<1>15. CASE RemoveCount(t)
  BY <1>15 DEF RemoveCount
<1>16. CASE RemoveMove(t)
  BY <1>16 DEF RemoveMove
<1>17. CASE RemoveStore(t)
  BY <1>17 DEF RemoveStore
<1>18. CASE RemoveMoved(t)
  BY <1>18 DEF RemoveMoved
<1>19. CASE LeaveRemove(t)
  BY <1>19, NoCallFields DEF LeaveRemove
<1> QED BY StepCases, <1>1, <1>2, <1>3, <1>4, <1>5, <1>6, <1>7, <1>8, <1>9,
    <1>10, <1>11, <1>12, <1>13, <1>14, <1>15, <1>16, <1>17, <1>18, <1>19
        DEF HotplugStep

\* A mapping belongs to the current board, and a free structure has none.
LEMMA MappedStep ==
  ASSUME SerialInv, NEW t \in Threads, Step(t)
  PROVE  MappedBoard' /\ FreeStructureIsQuiet'
<1> USE
  DEF SerialInv, HandleInv, TypeOK, CallShape, MappedBoard,
      FreeStructureIsQuiet, HotplugShape, BoardFrame, devVars, boardVars, At,
      Doing, Goto, Now, Begin, Return, LeaveCritRegion
<1>1. CASE Quiet(t)
  BY <1>1 DEF Quiet
<1>2. CASE EnterCritRegion(t)
  BY <1>2 DEF EnterCritRegion
<1>3. ASSUME NEW b \in Boards, ProbeScan(t, b)
      PROVE  MappedBoard' /\ FreeStructureIsQuiet'
  BY <1>3 DEF ProbeScan, MayHotplug, NewCall
<1>4. ASSUME NEW b \in Boards, RemoveBegin(t, b)
      PROVE  MappedBoard' /\ FreeStructureIsQuiet'
  BY <1>4 DEF RemoveBegin, MayHotplug, NewCall
<1>5. CASE ProbeClaim(t)
  BY <1>5 DEF ProbeClaim
<1>6. CASE ProbeOverrun(t)
  BY <1>6 DEF ProbeOverrun
<1>7. CASE ProbeEnableFails(t)
  BY <1>7, NoCallFields DEF ProbeEnableFails
<1>8. CASE ProbeRegionsFail(t)
  BY <1>8, NoCallFields DEF ProbeRegionsFail
<1>9. CASE ProbeEnabled(t)
  BY <1>9 DEF ProbeEnabled
<1>10. CASE ProbeMap(t)
  BY <1>10 DEF ProbeMap
<1>11. CASE ProbePublish(t)
  BY <1>11 DEF ProbePublish
<1>12. CASE ProbeCounted(t)
  BY <1>12, NoCallFields DEF ProbeCounted
<1>13. CASE RemoveUnmap(t)
  BY <1>13 DEF RemoveUnmap
<1>14. CASE RemoveUnbind(t)
  BY <1>14 DEF RemoveUnbind
<1>15. CASE RemoveCount(t)
  BY <1>15 DEF RemoveCount
<1>16. CASE RemoveMove(t)
  BY <1>16 DEF RemoveMove
<1>17. CASE RemoveStore(t)
  BY <1>17 DEF RemoveStore
<1>18. CASE RemoveMoved(t)
  BY <1>18 DEF RemoveMoved
<1>19. CASE LeaveRemove(t)
  BY <1>19, NoCallFields DEF LeaveRemove
<1> QED BY StepCases, <1>1, <1>2, <1>3, <1>4, <1>5, <1>6, <1>7, <1>8, <1>9,
    <1>10, <1>11, <1>12, <1>13, <1>14, <1>15, <1>16, <1>17, <1>18, <1>19
        DEF HotplugStep

\* The structure of a bound board stays marked until its remove gives it back.
LEMMA OwnedStep ==
  ASSUME SerialInv, NEW t \in Threads, Step(t), NEW c \in bound'
  PROVE  Owned(c)'
<1> USE Frame
  DEF SerialInv, HandleInv, TypeOK, CallShape, Owned, OneBoardPerStructure,
      Alone, HotplugShape, Hotplugging, BoardFrame, devVars, boardVars, At,
      Doing, Goto, Now, Begin, Return, LeaveCritRegion
<1>1. CASE Quiet(t)
  BY <1>1 DEF Quiet
<1>2. CASE EnterCritRegion(t)
  BY <1>2 DEF EnterCritRegion
<1>3. ASSUME NEW b \in Boards, ProbeScan(t, b)
      PROVE  Owned(c)'
  BY <1>3 DEF ProbeScan, MayHotplug, NewCall
<1>4. ASSUME NEW b \in Boards, RemoveBegin(t, b)
      PROVE  Owned(c)'
  BY <1>4 DEF RemoveBegin, MayHotplug, NewCall
<1>5. CASE ProbeClaim(t)
  BY <1>5 DEF ProbeClaim
<1>6. CASE ProbeOverrun(t)
  BY <1>6 DEF ProbeOverrun
<1>7. CASE ProbeEnableFails(t)
  BY <1>7, NoCallFields DEF ProbeEnableFails
<1>8. CASE ProbeRegionsFail(t)
  BY <1>8, NoCallFields DEF ProbeRegionsFail
<1>9. CASE ProbeEnabled(t)
  BY <1>9 DEF ProbeEnabled
<1>10. CASE ProbeMap(t)
  BY <1>10 DEF ProbeMap
<1>11. CASE ProbePublish(t)
  BY <1>11 DEF ProbePublish
<1>12. CASE ProbeCounted(t)
  BY <1>12, NoCallFields DEF ProbeCounted
<1>13. CASE RemoveUnmap(t)
  BY <1>13 DEF RemoveUnmap
<1>14. CASE RemoveUnbind(t)
  BY <1>14 DEF RemoveUnbind
<1>15. CASE RemoveCount(t)
  BY <1>15 DEF RemoveCount
<1>16. CASE RemoveMove(t)
  BY <1>16 DEF RemoveMove
<1>17. CASE RemoveStore(t)
  BY <1>17 DEF RemoveStore
<1>18. CASE RemoveMoved(t)
  BY <1>18 DEF RemoveMoved
<1>19. CASE LeaveRemove(t)
  BY <1>19, NoCallFields DEF LeaveRemove
<1> QED BY StepCases, <1>1, <1>2, <1>3, <1>4, <1>5, <1>6, <1>7, <1>8, <1>9,
    <1>10, <1>11, <1>12, <1>13, <1>14, <1>15, <1>16, <1>17, <1>18, <1>19
        DEF HotplugStep

\* No step gives one structure to two boards.
LEMMA OneBoardStep ==
  ASSUME SerialInv, NEW t \in Threads, Step(t)
  PROVE  OneBoardPerStructure'
<1> USE
  DEF SerialInv, HandleInv, TypeOK, CallShape, OneBoardPerStructure,
      HotplugShape, BoardFrame, devVars, boardVars, At, Doing, Goto, Now,
      Begin, Return, LeaveCritRegion
<1>1. CASE Quiet(t)
  BY <1>1 DEF Quiet
<1>2. CASE EnterCritRegion(t)
  BY <1>2 DEF EnterCritRegion
<1>3. ASSUME NEW b \in Boards, ProbeScan(t, b)
      PROVE  OneBoardPerStructure'
  BY <1>3 DEF ProbeScan, MayHotplug, NewCall
<1>4. ASSUME NEW b \in Boards, RemoveBegin(t, b)
      PROVE  OneBoardPerStructure'
  BY <1>4 DEF RemoveBegin, MayHotplug, NewCall
<1>5. CASE ProbeClaim(t)
  BY <1>5 DEF ProbeClaim
<1>6. CASE ProbeOverrun(t)
  BY <1>6 DEF ProbeOverrun
<1>7. CASE ProbeEnableFails(t)
  BY <1>7, NoCallFields DEF ProbeEnableFails
<1>8. CASE ProbeRegionsFail(t)
  BY <1>8, NoCallFields DEF ProbeRegionsFail
<1>9. CASE ProbeEnabled(t)
  BY <1>9 DEF ProbeEnabled
<1>10. CASE ProbeMap(t)
  BY <1>10 DEF ProbeMap
<1>11. CASE ProbePublish(t)
  BY <1>11 DEF ProbePublish
<1>12. CASE ProbeCounted(t)
  BY <1>12, NoCallFields DEF ProbeCounted
<1>13. CASE RemoveUnmap(t)
  BY <1>13 DEF RemoveUnmap
<1>14. CASE RemoveUnbind(t)
  BY <1>14 DEF RemoveUnbind
<1>15. CASE RemoveCount(t)
  BY <1>15 DEF RemoveCount
<1>16. CASE RemoveMove(t)
  BY <1>16 DEF RemoveMove
<1>17. CASE RemoveStore(t)
  BY <1>17 DEF RemoveStore
<1>18. CASE RemoveMoved(t)
  BY <1>18 DEF RemoveMoved
<1>19. CASE LeaveRemove(t)
  BY <1>19, NoCallFields DEF LeaveRemove
<1> QED BY StepCases, <1>1, <1>2, <1>3, <1>4, <1>5, <1>6, <1>7, <1>8, <1>9,
    <1>10, <1>11, <1>12, <1>13, <1>14, <1>15, <1>16, <1>17, <1>18, <1>19
        DEF HotplugStep

-----------------------------------------------------------------------------
(* The theorems.                                                           *)

\* The state that init leaves satisfies the invariant.
LEMMA SerialInit == SerialHotplug /\ Init => SerialInv
<1> SUFFICES ASSUME SerialHotplug, Init PROVE SerialInv
  OBVIOUS
<1>1. HandleInv
  BY HandleInit
<1>2. \A t \in Threads : pc[t] = "idle" /\ call[t].op = "none"
  BY NoCallFields DEF Init
<1>3. \A t, u \in Threads : Alone(t, u)
  BY <1>2 DEF Alone, Hotplugging
<1>4. \A t \in Threads : HotplugShape(t) /\ LiveBar(t)
  BY <1>2 DEF HotplugShape, LiveBar
<1>5. /\ \A b \in bound : Owned(b)
      /\ MappedBoard /\ FreeStructureIsQuiet /\ OneBoardPerStructure
  BY DEF Init, MappedBoard, FreeStructureIsQuiet, OneBoardPerStructure
<1> QED BY <1>1, <1>3, <1>4, <1>5 DEF SerialInv

\* Every step preserves the invariant.
LEMMA SerialStep == SerialInv /\ [Next]_vars => SerialInv'
<1> SUFFICES ASSUME SerialInv, [Next]_vars PROVE SerialInv'
  OBVIOUS
<1>1. HandleInv'
  BY HandleStep DEF SerialInv
<1>2. ASSUME NEW t \in Threads, Step(t) PROVE SerialInv'
  <2>1. \A u, v \in Threads : Alone(u, v)'
    <3>1. ASSUME NEW u \in Threads, NEW v \in Threads PROVE Alone(u, v)'
      <4>1. CASE u = v
        BY <4>1 DEF Alone
      <4>2. CASE u # v /\ (u = t \/ v = t)
        BY <1>2, <4>2, AloneStep
      <4>3. CASE u # t /\ v # t
        BY <1>2, <4>3, Frame DEF SerialInv, HandleInv, Alone, Hotplugging
      <4> QED BY <4>1, <4>2, <4>3
    <3> QED BY <3>1
  <2>2. \A u \in Threads : HotplugShape(u)' /\ LiveBar(u)'
    BY <1>2, ShapeOfHotplug, OthersShape, BarStep, OthersBarStep
  <2>3. \A b \in bound' : Owned(b)'
    BY <1>2, OwnedStep
  <2>4. MappedBoard' /\ FreeStructureIsQuiet' /\ OneBoardPerStructure'
    BY <1>2, MappedStep, OneBoardStep
  <2> QED BY <1>1, <2>1, <2>2, <2>3, <2>4 DEF SerialInv
<1>3. CASE UNCHANGED vars
  BY <1>1, <1>3
  DEF vars, devVars, fileVars, boardVars, SerialInv, Alone, Hotplugging,
      HotplugShape, LiveBar, Owned, MappedBoard, FreeStructureIsQuiet,
      OneBoardPerStructure
<1> QED BY <1>2, <1>3 DEF Next, Step

(***************************************************************************)
(* With serialised hot-plug the inductive invariant holds in every         *)
(* reachable state.                                                        *)
(***************************************************************************)
THEOREM SerialSafety == SerialHotplug /\ Spec => []SerialInv
BY SerialInit, SerialStep, PTL DEF Spec

(***************************************************************************)
(* With serialised hot-plug, pciedev_read_inline and pciedev_write_inline  *)
(* only use a mapping that exists, of the board the structure belongs to,  *)
(* however the call raced with pciedev_remove_exp and a later probe.       *)
(***************************************************************************)
THEOREM AccessIsSafe == SerialHotplug /\ Spec => []AccessUsesLiveBar
<1>1. SerialInv => AccessUsesLiveBar
  <2> SUFFICES ASSUME SerialInv, NEW t \in Threads, At(t, "io")
               PROVE  LET d == call[t].dev
                      IN  /\ memmory_base[d] = call[t].io
                          /\ pciedev_pci_dev[d] = call[t].io
    BY DEF AccessUsesLiveBar
  <2>1. call[t].dev \in Devs
    BY DEF SerialInv, HandleInv, CallShape, UserOps, At
  <2> QED BY <2>1 DEF SerialInv, LiveBar, MappedBoard, At
<1> QED BY <1>1, SerialSafety, PTL

(***************************************************************************)
(* With serialised hot-plug, the unlocked scan and claim of binded in      *)
(* pciedev_probe_exp never give one structure to two boards.               *)
(***************************************************************************)
THEOREM StructuresAreOwned == SerialHotplug /\ Spec => []OneBoardPerStructure
<1>1. SerialInv => OneBoardPerStructure
  BY DEF SerialInv
<1> QED BY <1>1, SerialSafety, PTL

(***************************************************************************)
(* With serialised hot-plug, what pciedev_probe_exp hands out is unmapped  *)
(* and unpublished.                                                        *)
(***************************************************************************)
THEOREM FreeIsQuiet == SerialHotplug /\ Spec => []FreeStructureIsQuiet
<1>1. SerialInv => FreeStructureIsQuiet
  BY DEF SerialInv
<1> QED BY <1>1, SerialSafety, PTL
-----------------------------------------------------------------------------
(* The count of boards.                                                    *)

(***************************************************************************)
(* A remove that has decremented the count while the driver core still     *)
(* holds its board as bound.                                               *)
(***************************************************************************)
Uncounted(t) ==
  call[t].op = "remove" /\ pc[t] \in {"move", "store", "leave"}

(***************************************************************************)
(* Between the load and the store of ++ and -- no other probe or remove    *)
(* changes the count.                                                      *)
(***************************************************************************)
Sampled(t) == pc[t] \in {"counted", "count"} => ref[t] = pciedevModuleNum

NumInv ==
  /\ SerialInv
  /\ IsFiniteSet(bound)
  /\ \A t \in Threads : Sampled(t)
  /\ (\A t \in Threads : ~ Uncounted(t))
       => pciedevModuleNum = Cardinality(bound)
  /\ (\E t \in Threads : Uncounted(t))
       => pciedevModuleNum = Cardinality(bound) - 1

\* Three steps change the count or the bound boards; no other step does, and
\* no other step starts or ends the time in which a board is uncounted.
LEMMA NumFrame ==
  ASSUME HandleInv, NEW t \in Threads, Step(t)
  PROVE  \/ ProbeCounted(t) \/ RemoveCount(t) \/ LeaveRemove(t)
         \/ /\ UNCHANGED <<pciedevModuleNum, bound>>
            /\ Uncounted(t)' <=> Uncounted(t)
<1> USE
  DEF HandleInv, TypeOK, CallShape, Uncounted, UserOps, AllCalls, boardVars,
      At, Doing, Goto, Now, Begin, Return, LeaveCritRegion, AfterAccess
<1>1. CASE BeginStep(t)
  BY <1>1
    DEF BeginStep, OpenBegin, ReleaseBegin, CallBegin, ProbeScan, RemoveBegin
<1>2. CASE EnterCritRegion(t)
  BY <1>2 DEF EnterCritRegion
<1>3. CASE UserStep(t)
  <2>1. UNCHANGED <<pciedevModuleNum, bound>>
    BY <1>3
      DEF UserStep, OpenBody, OpenStore, LeaveOpen, ReleaseBody, ReleaseStore,
          LeaveRelease, CallNoDevice, CallCheck, CallUnlocked, CopyFault,
          NoAccess, Reenter, BarCheck, IoDone, LeaveCall, ReturnHolding
  <2>2. ~ Uncounted(t) /\ ~ Uncounted(t)'
    BY <1>3, UserFrame DEF Hotplugging
  <2> QED BY <2>1, <2>2
<1>4. CASE HotplugStep(t)
  BY <1>4, NoCallFields
    DEF HotplugStep, ProbeClaim, ProbeOverrun, ProbeEnableFails,
        ProbeRegionsFail, ProbeEnabled, ProbeMap, ProbePublish,
        RemoveUnmap, RemoveUnbind, RemoveMove, RemoveStore, RemoveMoved
<1> QED BY <1>1, <1>2, <1>3, <1>4 DEF Step

\* A probe or remove stores the count only after it has loaded it.
LEMMA SampledStep ==
  ASSUME NumInv, NEW t \in Threads, Step(t)
  PROVE  Sampled(t)'
<1> USE
  DEF NumInv, SerialInv, HandleInv, TypeOK, CallShape, Sampled, UserOps,
      AllCalls, boardVars, At, Doing, Goto, Now, Begin, Return,
      LeaveCritRegion, AfterAccess
<1>1. CASE BeginStep(t)
  BY <1>1
    DEF BeginStep, OpenBegin, ReleaseBegin, CallBegin, ProbeScan, RemoveBegin
<1>2. CASE EnterCritRegion(t)
  BY <1>2 DEF EnterCritRegion
<1>3. CASE UserStep(t)
  BY <1>3
    DEF UserStep, OpenBody, OpenStore, LeaveOpen, ReleaseBody, ReleaseStore,
        LeaveRelease, CallNoDevice, CallCheck, CallUnlocked, CopyFault,
        NoAccess, Reenter, BarCheck, IoDone, LeaveCall, ReturnHolding
<1>4. CASE ProbePublish(t) \/ RemoveUnbind(t)
  BY <1>4 DEF ProbePublish, RemoveUnbind
<1>5. CASE HotplugStep(t) /\ ~ ProbePublish(t) /\ ~ RemoveUnbind(t)
  BY <1>5
    DEF HotplugStep, ProbeClaim, ProbeOverrun, ProbeEnableFails,
        ProbeRegionsFail, ProbeEnabled, ProbeMap, ProbeCounted, RemoveUnmap,
        RemoveCount, RemoveMove, RemoveStore, RemoveMoved, LeaveRemove
<1> QED BY <1>1, <1>2, <1>3, <1>4, <1>5 DEF Step

\* While one thread probes or removes, the others neither hold a sample of the
\* count nor have a board uncounted, before and after its step.
LEMMA OthersQuiet ==
  ASSUME SerialInv, NEW t \in Threads, Step(t), Hotplugging(t),
         NEW u \in Threads \ {t}
  PROVE  /\ pc[u] \notin {"counted", "count"} /\ ~ Uncounted(u)
         /\ pc'[u] \notin {"counted", "count"} /\ ~ Uncounted(u)'
<1>1. ~ Hotplugging(u)
  BY DEF SerialInv, Alone
<1>2. pc[u] \notin {"counted", "count"} /\ ~ Uncounted(u)
  BY <1>1 DEF SerialInv, HandleInv, CallShape, Hotplugging, Uncounted
<1> QED BY <1>2, Frame DEF SerialInv, HandleInv, Uncounted

\* No other thread changes the count between a load and its store.
LEMMA OthersSampledStep ==
  ASSUME NumInv, NEW t \in Threads, Step(t), NEW u \in Threads \ {t}
  PROVE  Sampled(u)'
<1>1. CASE ProbeCounted(t) \/ RemoveCount(t) \/ LeaveRemove(t)
  <2>1. Hotplugging(t)
    BY <1>1
      DEF NumInv, SerialInv, HandleInv, CallShape, Hotplugging, ProbeCounted,
          RemoveCount, LeaveRemove, At, Doing
  <2> QED BY <2>1, OthersQuiet DEF NumInv, Sampled
<1>2. CASE UNCHANGED <<pciedevModuleNum, bound>>
  BY <1>2, Frame, RefLocalFrame
    DEF NumInv, SerialInv, HandleInv, Sampled
<1> QED BY <1>1, <1>2, NumFrame DEF NumInv, SerialInv

\* Every step keeps the count right.
LEMMA CountStep ==
  ASSUME NumInv, NEW t \in Threads, Step(t)
  PROVE  /\ IsFiniteSet(bound')
         /\ (\A u \in Threads : ~ Uncounted(u)')
              => pciedevModuleNum' = Cardinality(bound')
         /\ (\E u \in Threads : Uncounted(u)')
              => pciedevModuleNum' = Cardinality(bound') - 1
<1>1. Cardinality(bound) \in Nat
  BY FS_CardinalityType DEF NumInv
<1>2. CASE ProbeCounted(t)
  <2>1. Hotplugging(t) /\ call[t].brd \notin bound /\ ~ Uncounted(t)
    BY <1>2
      DEF NumInv, SerialInv, HandleInv, CallShape, HotplugShape, Hotplugging,
          Uncounted, ProbeCounted, At
  <2>2. \A u \in Threads : ~ Uncounted(u)
    BY <2>1, OthersQuiet DEF NumInv
  <2>3. ~ Uncounted(t)'
    BY <1>2, NoCallFields
      DEF NumInv, SerialInv, HandleInv, TypeOK, Uncounted, ProbeCounted,
          Return, Now
  <2>4. \A u \in Threads : ~ Uncounted(u)'
    BY <2>1, <2>3, OthersQuiet DEF NumInv
  <2>5. /\ IsFiniteSet(bound \cup {call[t].brd})
        /\ Cardinality(bound \cup {call[t].brd}) = Cardinality(bound) + 1
    BY <2>1, FS_AddElement DEF NumInv
  <2>6. /\ bound' = bound \cup {call[t].brd}
        /\ pciedevModuleNum' = pciedevModuleNum + 1
    BY <1>2 DEF NumInv, Sampled, ProbeCounted, At
  <2> QED BY <2>2, <2>4, <2>5, <2>6 DEF NumInv
<1>3. CASE RemoveCount(t)
  <2>1. Hotplugging(t) /\ ~ Uncounted(t)
    BY <1>3
      DEF NumInv, SerialInv, HandleInv, CallShape, Hotplugging, Uncounted,
          RemoveCount, At
  <2>2. \A u \in Threads : ~ Uncounted(u)
    BY <2>1, OthersQuiet DEF NumInv
  <2>3. Uncounted(t)'
    BY <1>3
      DEF NumInv, SerialInv, HandleInv, TypeOK, CallShape, Uncounted,
          RemoveCount, At, Goto
  <2>4. bound' = bound /\ pciedevModuleNum' = pciedevModuleNum - 1
    BY <1>3 DEF NumInv, Sampled, RemoveCount, At
  <2> QED BY <2>2, <2>3, <2>4 DEF NumInv
<1>4. CASE LeaveRemove(t)
  <2>1. Hotplugging(t) /\ call[t].brd \in bound /\ Uncounted(t)
    BY <1>4
      DEF NumInv, SerialInv, HotplugShape, Hotplugging, Uncounted,
          LeaveRemove, LeaveCritRegion, At, Doing
  <2>2. ~ Uncounted(t)'
    BY <1>4, NoCallFields
      DEF NumInv, SerialInv, HandleInv, TypeOK, Uncounted, LeaveRemove,
          LeaveCritRegion, Return, Now
  <2>3. \A u \in Threads : ~ Uncounted(u)'
    BY <2>1, <2>2, OthersQuiet DEF NumInv
  <2>4. /\ IsFiniteSet(bound \ {call[t].brd})
        /\ Cardinality(bound \ {call[t].brd}) = Cardinality(bound) - 1
    BY <2>1, FS_RemoveElement DEF NumInv
  <2>5. bound' = bound \ {call[t].brd} /\ pciedevModuleNum' = pciedevModuleNum
    BY <1>4 DEF LeaveRemove
  <2> QED BY <2>1, <2>3, <2>4, <2>5 DEF NumInv
<1>5. CASE /\ UNCHANGED <<pciedevModuleNum, bound>>
           /\ Uncounted(t)' <=> Uncounted(t)
  <2>1. \A u \in Threads : Uncounted(u)' <=> Uncounted(u)
    BY <1>5, Frame DEF NumInv, SerialInv, HandleInv, Uncounted
  <2> QED BY <1>5, <2>1 DEF NumInv
<1> QED BY <1>2, <1>3, <1>4, <1>5, NumFrame DEF NumInv, SerialInv

\* The state that init leaves counts no board.
LEMMA NumInit == SerialHotplug /\ Init => NumInv
<1> SUFFICES ASSUME SerialHotplug, Init PROVE NumInv
  OBVIOUS
<1>1. \A t \in Threads : Sampled(t) /\ ~ Uncounted(t)
  BY DEF Init, Sampled, Uncounted
<1>2. bound = {} /\ pciedevModuleNum = 0
  BY DEF Init
<1>3. IsFiniteSet(bound) /\ Cardinality(bound) = 0
  BY <1>2, FS_EmptySet
<1> QED BY <1>1, <1>2, <1>3, SerialInit DEF NumInv

\* Every step preserves the invariant.
LEMMA NumStep == NumInv /\ [Next]_vars => NumInv'
<1> SUFFICES ASSUME NumInv, [Next]_vars PROVE NumInv'
  OBVIOUS
<1>1. SerialInv'
  BY SerialStep DEF NumInv
<1>2. ASSUME NEW t \in Threads, Step(t) PROVE NumInv'
  <2>1. \A u \in Threads : Sampled(u)'
    BY <1>2, SampledStep, OthersSampledStep
  <2> QED BY <1>1, <1>2, <2>1, CountStep DEF NumInv
<1>3. CASE UNCHANGED vars
  BY <1>1, <1>3 DEF vars, boardVars, NumInv, Sampled, Uncounted
<1> QED BY <1>2, <1>3 DEF Next, Step

(***************************************************************************)
(* With serialised hot-plug, pciedevModuleNum is the number of bound       *)
(* boards whenever no probe or remove is running, though it is a plain int *)
(* that several failing and succeeding probes and removes have written.    *)
(***************************************************************************)
THEOREM CountIsRight == SerialHotplug /\ Spec => []ModuleNumCounts
<1>1. NumInv => ModuleNumCounts
  BY DEF NumInv, ModuleNumCounts, Hotplugging, Uncounted
<1>2. SerialHotplug /\ Spec => []NumInv
  BY NumInit, NumStep, PTL DEF Spec
<1> QED BY <1>1, <1>2, PTL

-----------------------------------------------------------------------------
(* The refinement of FileHandles, serialised hot-plug or not.              *)

(***************************************************************************)
(* What a probe and a remove know about their own board, even when others  *)
(* run beside them.                                                        *)
(***************************************************************************)
HomeShape(t) ==
  LET c == call[t] IN
  /\ c.op = "probe" => c.brd \notin bound
  /\ pc[t] \in {"map", "publish", "counted"} => drvdata[c.brd] = c.dev
  /\ c.op = "remove" => c.brd \in bound /\ drvdata[c.brd] = c.dev

Apart(t, u) ==
  Hotplugging(t) /\ Hotplugging(u) /\ t # u => call[t].brd # call[u].brd

HomeInv ==
  /\ HandleInv
  /\ SerialHotplug => SerialInv
  /\ \A t \in Threads : HomeShape(t)
  /\ \A t, u \in Threads : Apart(t, u)

\* The steps that change which board has which structure.
LEMMA HomeFrame ==
  ASSUME HandleInv, NEW t \in Threads, Step(t)
  PROVE  \/ ProbeRegionsFail(t) \/ ProbeEnabled(t) \/ ProbeCounted(t)
         \/ LeaveRemove(t)
         \/ UNCHANGED <<drvdata, bound>>
<1> USE DEF boardVars
<1>1. CASE Quiet(t)
  BY <1>1 DEF Quiet, BoardFrame
<1>2. CASE EnterCritRegion(t)
  BY <1>2 DEF EnterCritRegion
<1>3. CASE \E b \in Boards : ProbeScan(t, b) \/ RemoveBegin(t, b)
  BY <1>3 DEF ProbeScan, RemoveBegin
<1>4. CASE HotplugStep(t)
  BY <1>4
    DEF HotplugStep, ProbeClaim, ProbeOverrun, ProbeEnableFails, ProbeMap,
        ProbePublish, RemoveUnmap, RemoveUnbind, RemoveCount, RemoveMove,
        RemoveStore, RemoveMoved
<1> QED BY StepCases, <1>1, <1>2, <1>3, <1>4

\* A step that starts no probe or remove keeps the board of the one it is in.
LEMMA HomeLocalFrame ==
  ASSUME HandleInv, NEW t \in Threads, Step(t)
  PROVE  \/ \E b \in Boards : ProbeScan(t, b) \/ RemoveBegin(t, b)
         \/ ~ Hotplugging(t)'
         \/ Hotplugging(t) /\ call'[t] = call[t]
<1> USE
  DEF HandleInv, TypeOK, CallShape, Hotplugging, At, Doing, Goto, Now, Return,
      LeaveCritRegion
<1>1. CASE Quiet(t)
  BY <1>1 DEF Quiet
<1>2. CASE EnterCritRegion(t)
  BY <1>2 DEF EnterCritRegion
<1>3. CASE HotplugStep(t)
  <2>1. \/ call' = call
        \/ call' = [call EXCEPT ![t] = NoCall]
    BY <1>3
      DEF HotplugStep, ProbeClaim, ProbeOverrun, ProbeEnableFails,
          ProbeRegionsFail, ProbeEnabled, ProbeMap, ProbePublish,
          ProbeCounted, RemoveUnmap, RemoveUnbind, RemoveCount, RemoveMove,
          RemoveStore, RemoveMoved, LeaveRemove
  <2> QED BY <2>1, NoCallFields
<1> QED BY StepCases, <1>1, <1>2, <1>3

\* Two probes or removes never work on one board.
LEMMA ApartStep ==
  ASSUME HomeInv, NEW t \in Threads, Step(t), NEW u \in Threads \ {t}
  PROVE  Apart(t, u)' /\ Apart(u, t)'
<1> USE Frame DEF HomeInv, HandleInv, TypeOK, Apart, Hotplugging
<1>1. ASSUME NEW b \in Boards, ProbeScan(t, b)
      PROVE  Apart(t, u)' /\ Apart(u, t)'
  BY <1>1 DEF ProbeScan, MayHotplug, NewCall, Begin, Now
<1>2. ASSUME NEW b \in Boards, RemoveBegin(t, b)
      PROVE  Apart(t, u)' /\ Apart(u, t)'
  BY <1>2 DEF RemoveBegin, MayHotplug, NewCall, Begin, Now
<1>3. CASE ~ Hotplugging(t)'
  BY <1>3
<1>4. CASE Hotplugging(t) /\ call'[t] = call[t]
  BY <1>4
<1> QED BY HomeLocalFrame, <1>1, <1>2, <1>3, <1>4

\* A probe or remove keeps to its board and its structure.
LEMMA HomeShapeStep ==
  ASSUME HomeInv, NEW t \in Threads, Step(t)
  PROVE  HomeShape(t)'
<1> USE DevFacts
  DEF HomeInv, HandleInv, TypeOK, CallShape, HomeShape, Hotplugging, At,
      Doing, Goto, Now, Begin, Return, LeaveCritRegion
<1>1. ASSUME NEW b \in Boards, ProbeScan(t, b)
      PROVE  HomeShape(t)'
  BY <1>1 DEF ProbeScan, NewCall, boardVars
<1>2. ASSUME NEW b \in Boards, RemoveBegin(t, b)
      PROVE  HomeShape(t)'
  BY <1>2 DEF RemoveBegin, NewCall, boardVars
<1>3. CASE ~ Hotplugging(t)'
  BY <1>3, ShapeStep
<1>4. CASE ProbeEnabled(t)
  BY <1>4 DEF ProbeEnabled
<1>5. CASE ProbeRegionsFail(t)
  BY <1>5, NoCallFields DEF ProbeRegionsFail
<1>6. CASE ProbeCounted(t)
  BY <1>6, NoCallFields DEF ProbeCounted
<1>7. CASE LeaveRemove(t)
  BY <1>7, NoCallFields DEF LeaveRemove
<1>8. CASE /\ Hotplugging(t) /\ call'[t] = call[t]
           /\ UNCHANGED <<drvdata, bound>> /\ ~ ProbeEnabled(t)
  <2>1. pc'[t] \in {"map", "publish", "counted"}
          => pc[t] \in {"map", "publish", "counted"}
    <3>1. CASE EnterCritRegion(t)
      BY <3>1 DEF EnterCritRegion
    <3>2. CASE \E b \in Boards : ProbeScan(t, b) \/ RemoveBegin(t, b)
      BY <3>2 DEF ProbeScan, RemoveBegin
    <3>3. CASE HotplugStep(t)
      BY <1>8, <3>3
        DEF HotplugStep, ProbeClaim, ProbeOverrun, ProbeEnableFails,
            ProbeRegionsFail, ProbeMap, ProbePublish, ProbeCounted,
            RemoveUnmap, RemoveUnbind, RemoveCount, RemoveMove, RemoveStore,
            RemoveMoved, LeaveRemove
    <3> QED BY <1>8, <3>1, <3>2, <3>3, StepCases DEF Quiet
  <2> QED BY <1>8, <2>1
<1> QED BY HomeFrame, HomeLocalFrame, <1>1, <1>2, <1>3, <1>4, <1>5, <1>6,
           <1>7, <1>8

\* No other thread touches the board of a probe or remove.
LEMMA OthersHomeShape ==
  ASSUME HomeInv, NEW t \in Threads, Step(t), NEW u \in Threads \ {t}
  PROVE  HomeShape(u)'
<1> USE Frame
  DEF HomeInv, HandleInv, TypeOK, CallShape, HomeShape, Apart, Hotplugging,
      At, Doing
<1>1. CASE UNCHANGED <<drvdata, bound>>
  BY <1>1
<1>2. CASE ProbeRegionsFail(t)
  BY <1>2 DEF ProbeRegionsFail
<1>3. CASE ProbeEnabled(t)
  BY <1>3 DEF ProbeEnabled
<1>4. CASE ProbeCounted(t)
  BY <1>4 DEF ProbeCounted
<1>5. CASE LeaveRemove(t)
  BY <1>5 DEF LeaveRemove
<1> QED BY HomeFrame, <1>1, <1>2, <1>3, <1>4, <1>5

\* The state that init leaves has no probe or remove.
LEMMA HomeInit == Init => HomeInv
<1> SUFFICES ASSUME Init PROVE HomeInv
  OBVIOUS
<1>1. \A t \in Threads : ~ Hotplugging(t) /\ HomeShape(t)
  BY NoCallFields DEF Init, Hotplugging, HomeShape
<1> QED BY <1>1, HandleInit, SerialInit DEF HomeInv, Apart

\* Every step preserves the invariant.
LEMMA HomeStep == HomeInv /\ [Next]_vars => HomeInv'
<1> SUFFICES ASSUME HomeInv, [Next]_vars PROVE HomeInv'
  OBVIOUS
<1>1. HandleInv' /\ (SerialHotplug => SerialInv')
  BY HandleStep, SerialStep DEF HomeInv
<1>2. ASSUME NEW t \in Threads, Step(t) PROVE HomeInv'
  <2>1. \A u, v \in Threads : Apart(u, v)'
    <3>1. ASSUME NEW u \in Threads, NEW v \in Threads PROVE Apart(u, v)'
      <4>1. CASE u = v
        BY <4>1 DEF Apart
      <4>2. CASE u # v /\ (u = t \/ v = t)
        BY <1>2, <4>2, ApartStep
      <4>3. CASE u # t /\ v # t
        BY <1>2, <4>3, Frame DEF HomeInv, HandleInv, Apart, Hotplugging
      <4> QED BY <4>1, <4>2, <4>3
    <3> QED BY <3>1
  <2>2. \A u \in Threads : HomeShape(u)'
    BY <1>2, HomeShapeStep, OthersHomeShape
  <2> QED BY <1>1, <2>1, <2>2 DEF HomeInv
<1>3. CASE UNCHANGED vars
  BY <1>1, <1>3 DEF vars, boardVars, HomeInv, Apart, Hotplugging, HomeShape
<1> QED BY <1>2, <1>3 DEF Next, Step

\* The steps on files leave the boards where they are.
LEMMA FileStepHome ==
  ASSUME NEW t \in Threads, FileStep(t)
  PROVE  Home' = Home
<1>1. UNCHANGED <<drvdata, bound>>
  BY DEF FileStep, OpenBegin, ReleaseBegin, OpenBody, OpenStore, LeaveOpen,
         ReleaseStore, LeaveRelease, RemoveMove, boardVars
<1> QED BY <1>1 DEF Home

\* An open hands out one structure, a release takes it back, a remove revokes
\* it; the other steps on files are invisible to the program.
LEMMA FileStepImplements ==
  ASSUME HandleInv, NEW t \in Threads, FileStep(t)
  PROVE  Abstract!HandlesNext \/ UNCHANGED Abstract!handleVars
<1> USE DevFacts
  DEF HandleInv, TypeOK, CallShape, UserOps, FileLife, Listing, At, Doing
<1>0. Home' = Home
  BY FileStepHome
<1>1. ASSUME NEW f \in Files, NEW d \in Devs, OpenBegin(t, f, d)
      PROVE  Handle' = Handle
  BY <1>1 DEF OpenBegin, Handle
<1>2. ASSUME NEW f \in Files, ReleaseBegin(t, f)
      PROVE  Abstract!HandlesNext
  <2>1. Handle[f] # NoDev
    BY <1>2 DEF ReleaseBegin, Handle
  <2>2. Handle' = [Handle EXCEPT ![f] = NoDev]
    BY <1>2 DEF ReleaseBegin, Handle
  <2> QED BY <1>0, <2>1, <2>2 DEF Abstract!HandlesNext, Abstract!Close
<1>3. CASE OpenBody(t)
  BY <1>3, <1>0 DEF OpenBody, Handle, Abstract!handleVars
<1>4. CASE OpenStore(t)
  BY <1>4, <1>0 DEF OpenStore, Handle, Abstract!handleVars
<1>5. CASE LeaveOpen(t)
  <2> DEFINE f == call[t].file
  <2>1. f \in Files /\ call[t].dev \in Devs
    BY <1>5 DEF LeaveOpen
  <2>2. Handle[f] = NoDev
    BY <1>5, <2>1 DEF LeaveOpen, Handle
  <2>3. private_data[f] = call[t].dev
    BY <1>5 DEF LeaveOpen, LeaveCritRegion
  <2>6. private_data' = private_data /\ fstate' = [fstate EXCEPT ![f] = "open"]
    BY <1>5 DEF LeaveOpen
  <2>4. Handle' = [Handle EXCEPT ![f] = call[t].dev]
    BY <2>1, <2>3, <2>6, ZenonT(40) DEF Handle
  <2>5. Abstract!Open(f, call[t].dev)
    BY <1>0, <2>2, <2>4 DEF Abstract!Open
  <2> HIDE DEF f
  <2> QED BY <2>1, <2>5 DEF Abstract!HandlesNext
<1>6. CASE ReleaseStore(t)
  BY <1>6, <1>0 DEF ReleaseStore, Handle, Abstract!handleVars
<1>7. CASE LeaveRelease(t)
  BY <1>7, <1>0 DEF LeaveRelease, Handle, Abstract!handleVars
<1>8. CASE RemoveMove(t)
  <2>1. PICK f \in dev_file_list[call[t].dev] : Detach(call[t].dev, f)
    BY <1>8 DEF RemoveMove
  <2>2. call[t].dev \in Devs /\ call[t].dev # NullDev
    BY <1>8 DEF RemoveMove
  <2>3. f \in Files /\ private_data[f] = call[t].dev
    BY <2>2 DEF FileOnItsList
  <2>4. /\ fstate' = fstate
        /\ private_data' = [private_data EXCEPT ![f] = NullDev]
    BY <1>8, <2>1 DEF RemoveMove, Detach
  <2>5. CASE fstate[f] = "open"
    <3>1. Handle[f] \notin {NoDev, NullDev}
      BY <2>2, <2>3, <2>5 DEF Handle
    <3>2. Handle' = [Handle EXCEPT ![f] = NullDev]
      BY <2>3, <2>4, <2>5, ZenonT(40) DEF Handle
    <3>3. Abstract!Revoke(f)
      BY <1>0, <3>1, <3>2 DEF Abstract!Revoke
    <3> QED BY <2>3, <3>3 DEF Abstract!HandlesNext
  <2>6. CASE fstate[f] # "open"
    <3>1. Handle' = Handle
      BY <2>3, <2>4, <2>6 DEF Handle
    <3> QED BY <1>0, <3>1 DEF Abstract!handleVars
  <2> QED BY <2>5, <2>6
<1> QED BY <1>0, <1>1, <1>2, <1>3, <1>4, <1>5, <1>6, <1>7, <1>8
    DEF FileStep, Abstract!handleVars

\* A board that has just been probed has a home nobody else has, and a board
\* is gone only when no file reaches its structure.
LEMMA BoardStepImplements ==
  ASSUME HomeInv, NEW t \in Threads, Step(t), ~ FileStep(t)
  PROVE  Abstract!HandlesNext \/ UNCHANGED Abstract!handleVars
<1> USE DevFacts
  DEF HomeInv, HandleInv, TypeOK, CallShape, HomeShape, At, Doing
<1>0. Handle' = Handle
  BY FileSteps DEF Handle
<1>1. CASE UNCHANGED <<drvdata, bound>>
  BY <1>0, <1>1 DEF Home, Abstract!handleVars
<1>2. CASE ProbeRegionsFail(t)
  <2>1. Home' = Home
    BY <1>2 DEF ProbeRegionsFail, Home
  <2> QED BY <1>0, <2>1 DEF Abstract!handleVars
<1>3. CASE ProbeEnabled(t)
  <2>1. Home' = Home
    BY <1>3 DEF ProbeEnabled, Home
  <2> QED BY <1>0, <2>1 DEF Abstract!handleVars
<1>4. CASE ProbeCounted(t)
  <2> DEFINE b == call[t].brd
             d == call[t].dev
  <2>1. /\ b \in Boards /\ b \notin bound
        /\ d \in Devs \ {NullDev} /\ drvdata[b] = d
    BY <1>4 DEF ProbeCounted
  <2>2. Home[b] = NoDev
    BY <2>1 DEF Home
  <2>3. Home' = [Home EXCEPT ![b] = d]
    BY <1>4, <2>1 DEF ProbeCounted, Home
  <2>4. SerialHotplug => \A c \in Boards : Home[c] # d
    BY <1>4, <2>1 DEF ProbeCounted, SerialInv, HotplugShape, Home
  <2>5. Abstract!Plug(b, d)
    BY <1>0, <2>2, <2>3, <2>4 DEF Abstract!Plug
  <2> HIDE DEF b, d
  <2> QED BY <2>1, <2>5 DEF Abstract!HandlesNext
<1>5. CASE LeaveRemove(t)
  <2> DEFINE b == call[t].brd
             d == call[t].dev
  <2>1. /\ b \in Boards /\ b \in bound
        /\ d \in Devs \ {NullDev} /\ drvdata[b] = d
    BY <1>5 DEF LeaveRemove
  <2>2. Home[b] = d
    BY <2>1 DEF Home
  <2>3. dev_file_list[d] = {}
    BY <1>5 DEF LeaveRemove, LeaveCritRegion, Listing
  <2>4. \A f \in Files : Handle[f] # d
    BY <2>1, <2>3 DEF HandlesTracked, Handle
  <2>5. Home' = [Home EXCEPT ![b] = NoDev]
    BY <1>5, <2>1 DEF LeaveRemove, Home
  <2>6. Abstract!Unplug(b)
    BY <1>0, <2>1, <2>2, <2>4, <2>5 DEF Abstract!Unplug
  <2> HIDE DEF b, d
  <2> QED BY <2>1, <2>6 DEF Abstract!HandlesNext
<1> QED BY HomeFrame, <1>1, <1>2, <1>3, <1>4, <1>5

(***************************************************************************)
(* The driver implements FileHandles, whether or not hot-plug is           *)
(* serialised: an open file reaches the structure it was opened on until   *)
(* it is closed or pciedev_remove_exp revokes it, and a board is gone only *)
(* when no open file reaches its structure.  With serialised hot-plug, a   *)
(* structure goes to one board at a time.                                  *)
(***************************************************************************)
THEOREM DriverImplementsHandles == Spec => ImplementsFileHandles
<1>1. Init => Abstract!HandlesInit
  BY DEF Init, Abstract!HandlesInit, Handle, Home
<1>2. HomeInv /\ [Next]_vars => [Abstract!HandlesNext]_(Abstract!handleVars)
  <2> SUFFICES ASSUME HomeInv, [Next]_vars
               PROVE  Abstract!HandlesNext \/ UNCHANGED Abstract!handleVars
    OBVIOUS
  <2>1. ASSUME NEW t \in Threads, Step(t)
        PROVE  Abstract!HandlesNext \/ UNCHANGED Abstract!handleVars
    BY <2>1, FileStepImplements, BoardStepImplements DEF HomeInv
  <2>2. CASE UNCHANGED vars
    BY <2>2
      DEF vars, fileVars, boardVars, Handle, Home, Abstract!handleVars
  <2> QED BY <2>1, <2>2 DEF Next, Step
<1> QED BY <1>1, <1>2, HomeInit, HomeStep, PTL
    DEF Spec, ImplementsFileHandles, Abstract!HandlesSpec
=============================================================================
