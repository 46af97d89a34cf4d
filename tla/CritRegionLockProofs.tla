------------------------ MODULE CritRegionLockProofs ------------------------
(***************************************************************************)
(* Proofs about CritRegionLock for any set of threads and any number of    *)
(* turns.  The inductive invariant says who owns the one unit of the       *)
(* semaphore (SemaphoreConserved, with at most one thread on its way to    *)
(* record itself), and that a thread in the region is the recorded owner   *)
(* of a lock that no waiter may take away.                                 *)
(***************************************************************************)
EXTENDS CritRegionLock, TLAPS

\* At most one thread holds the unit without having recorded itself, and
\* then nobody is recorded.
OneTaker ==
  /\ \A t, u \in Threads : At(t, "got") /\ At(u, "got") => t = u
  /\ (\E t \in Threads : At(t, "got")) => m_lnPID = NoThread

\* The type of the lock and its owner are recorded and cleared together.
TypeMatchesOwner == m_nLockingType = _NO_LOCK_ <=> m_lnPID = NoThread

\* A thread in the region owns a short lock, or a long one that is marked
\* as in use.
InsideOwns ==
  \A t \in Threads : Inside(t) =>
    /\ m_lnPID = t
    /\ m_nLockingType = _LONG_LOCK_UNLOCK_ => m_nInCriticalRegion

LockInv == TypeOK /\ OneTaker /\ SemaphoreConserved /\ TypeMatchesOwner
             /\ InsideOwns

USE LockAssumption DEF _NO_LOCK_, _SHORT_LOCK_UNLOCK_, _LONG_LOCK_UNLOCK_

(* InitCritRegionLock establishes the invariant.                           *)
LEMMA LockInitial == InitCritRegionLock => LockInv
<1> SUFFICES ASSUME InitCritRegionLock PROVE LockInv
  OBVIOUS
<1> USE DEF InitCritRegionLock, At
<1>1. TypeOK
  <2>1. m_nInCriticalRegion \in BOOLEAN /\ m_nShouldBeFreed \in BOOLEAN
          /\ expired \in BOOLEAN
    BY Zenon
  <2> QED
    BY <2>1 DEF TypeOK, Pcs, Ops, ShortOps, LockTypes
<1>2. \A t \in Threads : pc[t] = "user"
  OBVIOUS
<1>3. OneTaker /\ SemaphoreConserved
  BY <1>2 DEF OneTaker, SemaphoreConserved
<1>4. TypeMatchesOwner
  BY DEF TypeMatchesOwner
<1>5. InsideOwns
  BY <1>2 DEF InsideOwns, Inside
<1> QED
  BY <1>1, <1>3, <1>4, <1>5 DEF LockInv

(* The end of LeaveCritRegion and UnlockLongCritRegion keeps the fields    *)
(* of the lock in their types.                                             *)
LEMMA UnlockType ==
  ASSUME TypeOK, UnlockSemaphore
  PROVE  /\ m_semaphore' \in Nat
         /\ m_lnPID' \in Threads \cup {NoThread}
         /\ m_nInCriticalRegion' \in BOOLEAN
         /\ m_nShouldBeFreed' \in BOOLEAN
         /\ m_nLockingType' \in LockTypes
         /\ expired' \in BOOLEAN
<1>1. m_nInCriticalRegion' \in BOOLEAN /\ m_nShouldBeFreed' \in BOOLEAN
  BY Zenon DEF UnlockSemaphore
<1>2. m_semaphore' \in Nat /\ m_lnPID' \in Threads \cup {NoThread}
        /\ m_nLockingType' \in LockTypes /\ expired' \in BOOLEAN
  BY DEF UnlockSemaphore, TypeOK, LockTypes
<1> QED
  BY <1>1, <1>2

(* Every step of the lock's callers keeps the fields in their types.       *)
LEMMA LockTypeStep == LockInv /\ [Next]_vars => TypeOK'
<1> SUFFICES ASSUME LockInv, [Next]_vars PROVE TypeOK'
  OBVIOUS
<1> USE DEF LockInv, TypeOK, Pcs, Ops, ShortOps, LockTypes, fields, locals,
            At, Goto, Do, Return, StartWaiting, Turn
<1>1. CASE UNCHANGED vars
  BY <1>1 DEF vars
<1>2. CASE Expire
  BY <1>2 DEF Expire
<1>3. ASSUME NEW t \in Threads, DriverStep(t) PROVE TypeOK'
  <2>1. CASE EnterOwned(t) BY <2>1 DEF EnterOwned
  <2>2. CASE EnterWait(t) BY <2>2 DEF EnterWait
  <2>3. CASE Down(t) BY <2>3 DEF Down
  <2>4. CASE Record(t) BY <2>4 DEF Record
  <2>5. CASE TimedOut(t) BY <2>5 DEF TimedOut
  <2>6. CASE KeepWaiting(t) BY <2>6 DEF KeepWaiting
  <2>7. CASE AskFree(t) BY <2>7 DEF AskFree
  <2>8. CASE Reclaim(t) BY <2>8 DEF Reclaim
  <2>9. CASE EnterAgain(t) BY <2>9 DEF EnterAgain
  <2>10. CASE ReturnInside(t) BY <2>10 DEF ReturnInside
  <2>11. CASE LeaveCritRegion(t) BY <2>11, UnlockType DEF LeaveCritRegion
  <2> QED
    BY <1>3, <2>1, <2>2, <2>3, <2>4, <2>5, <2>6, <2>7, <2>8, <2>9, <2>10,
       <2>11 DEF DriverStep
<1>4. ASSUME NEW t \in Threads, NEW o \in Calls, CallBegin(t, o)
      PROVE  TypeOK'
  BY <1>4 DEF CallBegin
<1>5. ASSUME NEW t \in Threads, LongLockOfCriticalRegion(t) PROVE TypeOK'
  BY <1>5 DEF LongLockOfCriticalRegion
<1>6. ASSUME NEW t \in Threads, UnlockLongCritRegion(t) PROVE TypeOK'
  BY <1>6, UnlockType DEF UnlockLongCritRegion
<1> QED
  BY <1>1, <1>2, <1>3, <1>4, <1>5, <1>6 DEF Next, UserStep

(* A turn of the waiting loop leaves its thread outside the region, and    *)
(* moves no other thread.                                                  *)
LEMMA TurnOutside ==
  ASSUME TypeOK, NEW t \in Threads, At(t, "timedout"), Turn(t)
  PROVE  /\ \A u \in Threads : u # t => pc'[u] = pc[u] /\ op'[u] = op[u]
         /\ pc'[t] \in {"down", "enter", "user"}
         /\ pc'[t] = "enter" => op'[t] = "remove"
BY DEF TypeOK, Turn, At, Goto, Do, Return

(* Every step of the lock's callers keeps the invariant.                   *)
LEMMA LockStep == LockInv /\ [Next]_vars => LockInv'
<1> SUFFICES ASSUME LockInv, [Next]_vars PROVE LockInv'
  OBVIOUS
<1> DEFINE Core == OneTaker /\ SemaphoreConserved /\ TypeMatchesOwner
                     /\ InsideOwns
<1>0. TypeOK'
  BY LockTypeStep
<1> USE DEF LockInv, TypeOK, OneTaker, SemaphoreConserved, TypeMatchesOwner,
            InsideOwns, Inside, LockTypes, fields, locals,
            At, Goto, Do, Return, StartWaiting
<1>1. CASE UNCHANGED vars
  BY <1>1, <1>0 DEF vars
<1>2. CASE Expire
  BY <1>2, <1>0 DEF Expire
<1>3. ASSUME NEW t \in Threads, DriverStep(t) PROVE Core'
  <2>1. CASE EnterOwned(t)
    BY <2>1 DEF EnterOwned
  <2>2. CASE EnterWait(t)
    BY <2>2 DEF EnterWait
  <2>3. CASE Down(t)
    BY <2>3 DEF Down
  <2>4. CASE Record(t)
    BY <2>4 DEF Record
  <2>5. CASE TimedOut(t)
    BY <2>5 DEF TimedOut
  <2>6. CASE KeepWaiting(t)
    BY <2>6, TurnOutside DEF KeepWaiting, Overdue
  <2>7. CASE AskFree(t)
    BY <2>7, TurnOutside DEF AskFree, Overdue
  <2>8. CASE Reclaim(t)
    BY <2>8, TurnOutside DEF Reclaim, Overdue
  <2>9. CASE EnterAgain(t)
    BY <2>9 DEF EnterAgain
  <2>10. CASE ReturnInside(t)
    BY <2>10 DEF ReturnInside
  <2>11. CASE LeaveCritRegion(t)
    BY <2>11 DEF LeaveCritRegion, GivesBack, UnlockSemaphore
  <2> QED
    BY <1>3, <2>1, <2>2, <2>3, <2>4, <2>5, <2>6, <2>7, <2>8, <2>9, <2>10, <2>11
       DEF DriverStep
<1>4. ASSUME NEW t \in Threads, NEW o \in Calls, CallBegin(t, o)
      PROVE  Core'
  BY <1>4 DEF CallBegin, ShortOps
<1>5. ASSUME NEW t \in Threads, LongLockOfCriticalRegion(t) PROVE Core'
  BY <1>5 DEF LongLockOfCriticalRegion
<1>6. ASSUME NEW t \in Threads, UnlockLongCritRegion(t) PROVE Core'
  BY <1>6 DEF UnlockLongCritRegion, UnlockSemaphore
<1> QED
  BY <1>0, <1>1, <1>2, <1>3, <1>4, <1>5, <1>6 DEF Next, UserStep

-----------------------------------------------------------------------------
(* The inductive invariant holds throughout.                               *)
THEOREM LockSafety == Spec => []LockInv
<1>1. LockInv /\ [Next]_vars => LockInv'
  BY LockStep
<1> QED
  BY LockInitial, <1>1, PTL DEF Spec

(***************************************************************************)
(* Of any number of threads at most one is in the critical region of the   *)
(* semaphore build, with long locks taken away and calls that never leave. *)
(***************************************************************************)
THEOREM RegionIsExclusive == Spec => []MutualExclusion
<1>1. LockInv => MutualExclusion
  BY DEF LockInv, InsideOwns, MutualExclusion
<1> QED
  BY <1>1, LockSafety, PTL

(***************************************************************************)
(* No unit of the semaphore is lost or given back twice.                   *)
(***************************************************************************)
THEOREM UnitIsConserved == Spec => []SemaphoreConserved
<1>1. LockInv => SemaphoreConserved
  BY DEF LockInv
<1> QED
  BY <1>1, LockSafety, PTL

-----------------------------------------------------------------------------
(* The abstract lock's owner, in the two cases of its definition.          *)
LEMMA OwnerCases ==
  LockInv => /\ \A t \in Threads : At(t, "got") => Owner = t
             /\ (\A t \in Threads : ~ At(t, "got")) => Owner = m_lnPID
<1> SUFFICES ASSUME LockInv
             PROVE  /\ \A t \in Threads : At(t, "got") => Owner = t
                    /\ (\A t \in Threads : ~ At(t, "got")) => Owner = m_lnPID
  OBVIOUS
<1>1. ASSUME NEW t \in Threads, At(t, "got") PROVE Owner = t
  <2>1. \A u \in Threads : At(u, "got") => u = t
    BY <1>1 DEF LockInv, OneTaker
  <2> QED
    BY <1>1, <2>1 DEF Owner
<1> QED
  BY <1>1 DEF Owner

(* Every step maps to a step of the revocable lock, or to none.            *)
LEMMA LockStepImplements ==
  LockInv /\ LockInv' /\ [Next]_vars => [Abstract!LockNext]_(Abstract!lockVars)
<1> SUFFICES ASSUME LockInv, LockInv', [Next]_vars
             PROVE  [Abstract!LockNext]_(Abstract!lockVars)
  OBVIOUS
<1> DEFINE In == {t \in Threads : Inside(t)}
           Same == Owner' = Owner /\ In' = In
           Step == Same \/ Abstract!LockNext
<1>0. /\ \A t \in Threads : At(t, "got") => Owner = t
      /\ (\A t \in Threads : ~ At(t, "got")) => Owner = m_lnPID
      /\ \A t \in Threads : At(t, "got")' => Owner' = t
      /\ (\A t \in Threads : ~ At(t, "got")') => Owner' = m_lnPID'
  <2>1. /\ \A t \in Threads : At(t, "got") => Owner = t
        /\ (\A t \in Threads : ~ At(t, "got")) => Owner = m_lnPID
    BY OwnerCases
  <2>2. (/\ \A t \in Threads : At(t, "got") => Owner = t
         /\ (\A t \in Threads : ~ At(t, "got")) => Owner = m_lnPID)'
    BY OwnerCases, PTL
  <2> QED
    BY <2>1, <2>2
<1> USE DEF LockInv, TypeOK, OneTaker, SemaphoreConserved, TypeMatchesOwner,
            InsideOwns, Inside, LockTypes, fields, locals,
            At, Goto, Do, Return, StartWaiting
<1>1. ASSUME UNCHANGED vars PROVE Same
  <2>1. UNCHANGED <<pc, op, m_lnPID>>
    BY <1>1 DEF vars
  <2> QED
    BY <2>1 DEF Owner
<1>2. ASSUME Expire PROVE Same
  BY <1>0, <1>2 DEF Expire
<1>3. ASSUME NEW t \in Threads, DriverStep(t) PROVE Step
  <2>1. CASE EnterOwned(t)
    <3>1. Owner = t /\ Owner' = t
      BY <1>0, <2>1 DEF EnterOwned
    <3>2. In' = In \/ In' = In \cup {t}
      BY <2>1 DEF EnterOwned
    <3> QED
      BY <3>1, <3>2 DEF Abstract!LockNext, Abstract!Enter
  <2>2. CASE EnterWait(t)
    <3>1. Same
      BY <1>0, <2>2 DEF EnterWait
    <3> QED
      BY <3>1
  <2>3. CASE Down(t)
    <3>1. Owner = NoThread /\ Owner' = t /\ In' = In
      BY <1>0, <2>3 DEF Down
    <3> QED
      BY <3>1 DEF Abstract!LockNext, Abstract!Take
  <2>4. CASE Record(t)
    <3>1. Owner = t /\ Owner' = t
      BY <1>0, <2>4 DEF Record
    <3>2. In' = In \/ In' = In \cup {t}
      BY <2>4 DEF Record
    <3> QED
      BY <3>1, <3>2 DEF Abstract!LockNext, Abstract!Enter
  <2>5. CASE TimedOut(t)
    <3>1. Same
      BY <1>0, <2>5 DEF TimedOut
    <3> QED
      BY <3>1
  <2>6. CASE KeepWaiting(t)
    <3>1. Same
      BY <1>0, <2>6, TurnOutside DEF KeepWaiting
    <3> QED
      BY <3>1
  <2>7. CASE AskFree(t)
    <3>1. Same
      BY <1>0, <2>7, TurnOutside DEF AskFree
    <3> QED
      BY <3>1
  <2>8. CASE Reclaim(t)
    <3>1. Owner = m_lnPID /\ Owner' = NoThread /\ In' = In
      BY <1>0, <2>8, TurnOutside DEF Reclaim, Overdue
    <3>2. m_lnPID \notin In
      BY <2>8 DEF Reclaim, Overdue
    <3> QED
      BY <3>1, <3>2 DEF Abstract!LockNext, Abstract!Revoke
  <2>9. CASE EnterAgain(t)
    <3>1. Same
      BY <1>0, <2>9 DEF EnterAgain
    <3> QED
      BY <3>1
  <2>10. CASE ReturnInside(t)
    <3>1. t \in In /\ In' = In \ {t}
      BY <2>10 DEF ReturnInside
    <3>2. Owner' \in {Owner, NoThread}
      BY <1>0, <2>10 DEF ReturnInside
    <3> QED
      BY <3>1, <3>2 DEF Abstract!LockNext, Abstract!Leave
  <2>11. CASE LeaveCritRegion(t)
    <3>1. t \in In /\ In' = In \ {t}
      BY <2>11 DEF LeaveCritRegion
    <3>2. Owner' \in {Owner, NoThread}
      BY <1>0, <2>11 DEF LeaveCritRegion, GivesBack, UnlockSemaphore
    <3> QED
      BY <3>1, <3>2 DEF Abstract!LockNext, Abstract!Leave
  <2> QED
    BY <1>3, <2>1, <2>2, <2>3, <2>4, <2>5, <2>6, <2>7, <2>8, <2>9, <2>10, <2>11
       DEF DriverStep
<1>4. ASSUME NEW t \in Threads, NEW o \in Calls, CallBegin(t, o)
      PROVE  Same
  BY <1>0, <1>4 DEF CallBegin, ShortOps
<1>5. ASSUME NEW t \in Threads, LongLockOfCriticalRegion(t) PROVE Same
  BY <1>0, <1>5 DEF LongLockOfCriticalRegion
<1>6. ASSUME NEW t \in Threads, UnlockLongCritRegion(t)
      PROVE  Abstract!LockNext
  <2>1. Owner = t /\ Owner' = NoThread /\ In' = In /\ t \notin In
    BY <1>0, <1>6 DEF UnlockLongCritRegion, UnlockSemaphore
  <2> QED
    BY <2>1 DEF Abstract!LockNext, Abstract!Revoke
<1>7. Step
  BY <1>1, <1>2, <1>3, <1>4, <1>5, <1>6 DEF Next, UserStep
<1> QED
  BY <1>7 DEF Abstract!lockVars

(***************************************************************************)
(* The semaphore build implements the revocable lock: every step of        *)
(* criticalregionlock.c takes, enters, leaves, gives up or takes away the  *)
(* lock as RevocableLock allows, or changes neither owner nor region.      *)
(***************************************************************************)
THEOREM SemaphoreImplementsLock == Spec => ImplementsRevocableLock
<1>1. InitCritRegionLock => Abstract!LockInit
  BY OwnerCases, LockInitial
     DEF InitCritRegionLock, Abstract!LockInit, Inside, At
<1>2. LockInv /\ LockInv' /\ [Next]_vars
        => [Abstract!LockNext]_(Abstract!lockVars)
  BY LockStepImplements
<1> QED
  BY <1>1, <1>2, LockSafety, PTL
     DEF Spec, ImplementsRevocableLock, Abstract!LockSpec
=============================================================================
