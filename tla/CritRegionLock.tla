--------------------------- MODULE CritRegionLock ---------------------------
(***************************************************************************)
(* struct SCriticalRegionLock of the USE_SEMAPHORE build and the calls the *)
(* driver makes on it.  A step is a section under m_spinlock, or a call of *)
(* down_timeout.  Besides the short lock around one access there is the    *)
(* long lock of PCIEDEV_LOCK_DEVICE, kept while the owner is in user       *)
(* space, and taken away by a waiter when it is held for too long.         *)
(***************************************************************************)
EXTENDS Integers, FiniteSets

CONSTANTS
  Threads,
  NoThread,   \* m_lnPID = -1
  Calls,      \* calls that enter the region, a subset of ShortOps
  MaxIter     \* turns of the loop in LockCritRegionPrivate (100 in the code)

VARIABLES
  m_semaphore,          \* count of the semaphore
  m_lnPID,              \* recorded owner of a short or long lock
  m_nInCriticalRegion,
  m_nShouldBeFreed,
  m_nLockingType,
  expired,              \* is m_ullnStartJiffi longer ago than the timeout?
  pc, op, nIter         \* program counter and locals of each thread

fields == <<m_lnPID, m_nInCriticalRegion, m_nShouldBeFreed, m_nLockingType,
            expired>>
locals == <<pc, op, nIter>>
vars   == <<m_semaphore, fields, locals>>

(***************************************************************************)
(* What a thread is doing.                                                 *)
(*   short    a call that enters once and leaves once                      *)
(*   nested   SINGLE_IOC_ACCESS that enters twice and leaves once          *)
(*   again    the same, from its second entry on                           *)
(*   leaky    a call that enters and returns without leaving               *)
(*   remove   pciedev_remove_exp, which enters until it succeeds           *)
(*   long     PCIEDEV_LOCK_DEVICE                                          *)
(***************************************************************************)
ShortOps == {"short", "nested", "leaky", "remove"}
Ops      == ShortOps \cup {"none", "again", "long"}
Pcs      == {"user", "enter", "down", "timedout", "got", "region"}

ASSUME LockAssumption ==
  /\ MaxIter \in Nat \ {0}
  /\ NoThread \notin Threads
  /\ Calls \subseteq ShortOps

_NO_LOCK_           == "no"
_SHORT_LOCK_UNLOCK_ == "short"
_LONG_LOCK_UNLOCK_  == "long"

LockTypes == {_NO_LOCK_, _SHORT_LOCK_UNLOCK_, _LONG_LOCK_UNLOCK_}

TypeOK ==
  /\ m_semaphore \in Nat
  /\ m_lnPID \in Threads \cup {NoThread}
  /\ m_nInCriticalRegion \in BOOLEAN
  /\ m_nShouldBeFreed \in BOOLEAN
  /\ m_nLockingType \in LockTypes
  /\ expired \in BOOLEAN
  /\ pc \in [Threads -> Pcs]
  /\ op \in [Threads -> Ops]
  /\ nIter \in [Threads -> 0 .. (MaxIter - 1)]

InitCritRegionLock ==
  /\ m_semaphore = 1
  /\ m_lnPID = NoThread
  /\ m_nInCriticalRegion = FALSE
  /\ m_nShouldBeFreed = FALSE
  /\ m_nLockingType = _NO_LOCK_
  /\ expired = FALSE
  /\ pc = [t \in Threads |-> "user"]
  /\ op = [t \in Threads |-> "none"]
  /\ nIter = [t \in Threads |-> 0]

-----------------------------------------------------------------------------
At(t, p)   == pc[t] = p
Goto(t, p) == pc' = [pc EXCEPT ![t] = p]
Do(t, o)   == op' = [op EXCEPT ![t] = o]

Return(t) == Goto(t, "user") /\ Do(t, "none")

\* LockCritRegionPrivate begins; nIter is 0 outside its loop.
StartWaiting(t) == Goto(t, "down") /\ UNCHANGED nIter

\* A call that enters the region begins.
CallBegin(t, o) ==
  /\ At(t, "user")
  /\ Goto(t, "enter")
  /\ Do(t, o)
  /\ UNCHANGED <<m_semaphore, fields, nIter>>

\* EnterCritRegion: the recorded owner goes in, any other thread waits.
EnterOwned(t) ==
  /\ At(t, "enter")
  /\ m_lnPID = t
  /\ m_nInCriticalRegion' = TRUE
  /\ Goto(t, "region")
  /\ UNCHANGED <<m_semaphore, m_lnPID, m_nShouldBeFreed, m_nLockingType,
                 expired, op, nIter>>

EnterWait(t) ==
  /\ At(t, "enter")
  /\ m_lnPID # t
  /\ StartWaiting(t)
  /\ UNCHANGED <<m_semaphore, fields, op>>

\* LongLockOfCriticalRegion, when it does not answer _ALREADY_LOCKED_.
LongLockOfCriticalRegion(t) ==
  /\ At(t, "user")
  /\ m_lnPID # t
  /\ StartWaiting(t)
  /\ Do(t, "long")
  /\ UNCHANGED <<m_semaphore, fields>>

\* down_timeout succeeds, and the loop ends.
Down(t) ==
  /\ At(t, "down")
  /\ m_semaphore > 0
  /\ m_semaphore' = m_semaphore - 1
  /\ nIter' = [nIter EXCEPT ![t] = 0]
  /\ Goto(t, "got")
  /\ UNCHANGED <<fields, op>>

\* The lock is recorded; the long lock then returns to user space.
Record(t) ==
  /\ At(t, "got")
  /\ m_nLockingType' = IF op[t] = "long" THEN _LONG_LOCK_UNLOCK_
                                         ELSE _SHORT_LOCK_UNLOCK_
  /\ m_nInCriticalRegion' = TRUE
  /\ m_nShouldBeFreed' = FALSE
  /\ m_lnPID' = t
  /\ expired' = FALSE
  /\ IF op[t] = "long" THEN Return(t) ELSE Goto(t, "region") /\ UNCHANGED op
  /\ UNCHANGED <<m_semaphore, nIter>>

\* down_timeout gives up.
TimedOut(t) ==
  /\ At(t, "down")
  /\ m_semaphore = 0
  /\ Goto(t, "timedout")
  /\ UNCHANGED <<m_semaphore, fields, op, nIter>>

\* Mutants: the waiter does not count its turns; it takes one too many.
TurnUncounted(t) == Goto(t, "down") /\ UNCHANGED <<op, nIter>>

TurnOneMore(t) ==
  \/ /\ nIter[t] < MaxIter
     /\ nIter' = [nIter EXCEPT ![t] = @ + 1]
     /\ Goto(t, "down")
     /\ UNCHANGED op
  \/ /\ nIter[t] = MaxIter
     /\ nIter' = [nIter EXCEPT ![t] = 0]
     /\ Return(t)

\* The end of a turn of the loop: the last one returns -ETIME, on which
\* remove calls again and every other call returns.  (The long lock then
\* answers 0 all the same.)
Turn(t) ==
  \/ /\ nIter[t] + 1 < MaxIter
     /\ nIter' = [nIter EXCEPT ![t] = @ + 1]
     /\ Goto(t, "down")
     /\ UNCHANGED op
  \/ /\ nIter[t] + 1 = MaxIter
     /\ nIter' = [nIter EXCEPT ![t] = 0]
     /\ IF op[t] = "remove" THEN Goto(t, "enter") /\ UNCHANGED op
                            ELSE Return(t)

Overdue == m_nLockingType = _LONG_LOCK_UNLOCK_ /\ expired

\* The waiter finds no overdue long lock.
KeepWaiting(t) ==
  /\ At(t, "timedout")
  /\ ~ Overdue
  /\ Turn(t)
  /\ UNCHANGED <<m_semaphore, fields>>

\* The owner is in the region: it is asked to give the lock up.
AskFree(t) ==
  /\ At(t, "timedout")
  /\ Overdue
  /\ m_nInCriticalRegion
  /\ m_nShouldBeFreed' = TRUE
  /\ Turn(t)
  /\ UNCHANGED <<m_semaphore, m_lnPID, m_nInCriticalRegion, m_nLockingType,
                 expired>>

\* Mutants: the lock is taken away wherever its owner is; the type of the
\* lock that was taken away is not cleared.
ReclaimAnyway(t) ==
  /\ At(t, "timedout")
  /\ Overdue
  /\ m_semaphore' = m_semaphore + 1
  /\ m_nLockingType' = _NO_LOCK_
  /\ m_lnPID' = NoThread
  /\ Turn(t)
  /\ UNCHANGED <<m_nInCriticalRegion, m_nShouldBeFreed, expired>>

ReclaimTypeKept(t) ==
  /\ At(t, "timedout")
  /\ Overdue
  /\ ~ m_nInCriticalRegion
  /\ m_semaphore' = m_semaphore + 1
  /\ m_lnPID' = NoThread
  /\ Turn(t)
  /\ UNCHANGED <<m_nInCriticalRegion, m_nShouldBeFreed, m_nLockingType,
                 expired>>

\* The owner is outside: the lock is taken away, and the owner is sent a
\* signal.
Reclaim(t) ==
  /\ At(t, "timedout")
  /\ Overdue
  /\ ~ m_nInCriticalRegion
  /\ m_semaphore' = m_semaphore + 1
  /\ m_nLockingType' = _NO_LOCK_
  /\ m_lnPID' = NoThread
  /\ Turn(t)
  /\ UNCHANGED <<m_nInCriticalRegion, m_nShouldBeFreed, expired>>

\* SINGLE_IOC_ACCESS enters a second time.
EnterAgain(t) ==
  /\ At(t, "region")
  /\ op[t] = "nested"
  /\ Goto(t, "enter")
  /\ Do(t, "again")
  /\ UNCHANGED <<m_semaphore, fields, nIter>>

\* A call returns and never leaves the region.
ReturnInside(t) ==
  /\ At(t, "region")
  /\ op[t] = "leaky"
  /\ Return(t)
  /\ UNCHANGED <<m_semaphore, fields, nIter>>

\* unlockSemaphore of UnlockCritRegionPrivate.
UnlockSemaphore ==
  /\ m_semaphore' = m_semaphore + 1
  /\ m_lnPID' = NoThread
  /\ m_nShouldBeFreed' = FALSE
  /\ m_nLockingType' = _NO_LOCK_
  /\ m_nInCriticalRegion' = FALSE
  /\ UNCHANGED expired

\* LeaveCritRegion gives back a short lock, or a long one it was asked for.
GivesBack == m_nLockingType = _SHORT_LOCK_UNLOCK_ \/ m_nShouldBeFreed

LeaveCritRegion(t) ==
  /\ At(t, "region")
  /\ op[t] \in {"short", "again", "remove"}
  /\ \/ GivesBack /\ UnlockSemaphore
     \/ /\ ~ GivesBack
        /\ m_nInCriticalRegion' = FALSE
        /\ UNCHANGED <<m_semaphore, m_lnPID, m_nShouldBeFreed,
                       m_nLockingType, expired>>
  /\ Return(t)
  /\ UNCHANGED nIter

\* Mutant: any thread may unlock.
UnlockLongAnyOwner(t) ==
  /\ At(t, "user")
  /\ m_lnPID # NoThread
  /\ UnlockSemaphore
  /\ UNCHANGED locals

\* PCIEDEV_UNLOCK_DEVICE, when it does not answer _NOT_LOCK_OWNER__.
UnlockLongCritRegion(t) ==
  /\ At(t, "user")
  /\ m_lnPID = t
  /\ UnlockSemaphore
  /\ UNCHANGED locals

\* Time passes; only the age of a long lock is ever looked at.
Expire ==
  /\ m_nLockingType = _LONG_LOCK_UNLOCK_ /\ ~ expired
  /\ expired' = TRUE
  /\ UNCHANGED <<m_semaphore, m_lnPID, m_nInCriticalRegion,
                 m_nShouldBeFreed, m_nLockingType, locals>>

-----------------------------------------------------------------------------
DriverStep(t) ==
  \/ EnterOwned(t) \/ EnterWait(t) \/ Down(t) \/ Record(t) \/ TimedOut(t)
  \/ KeepWaiting(t) \/ AskFree(t) \/ Reclaim(t)
  \/ EnterAgain(t) \/ ReturnInside(t) \/ LeaveCritRegion(t)

UserStep(t) ==
  \/ \E o \in Calls : CallBegin(t, o)
  \/ LongLockOfCriticalRegion(t)
  \/ UnlockLongCritRegion(t)

Next == Expire \/ \E t \in Threads : DriverStep(t) \/ UserStep(t)

Spec == InitCritRegionLock /\ [][Next]_vars

(***************************************************************************)
(* A thread inside the driver takes its next step, and time passes.  The   *)
(* semaphore serves its waiters in order, so one that waits while it is    *)
(* released again and again gets it.                                       *)
(***************************************************************************)
Fairness ==
  /\ WF_vars(Expire)
  /\ \A t \in Threads : WF_vars(DriverStep(t)) /\ SF_vars(Down(t))

FairSpec == Spec /\ Fairness

-----------------------------------------------------------------------------
\* Between a successful EnterCritRegion and the call's return.
Inside(t) == At(t, "region") \/ (At(t, "enter") /\ op[t] = "again")

(***************************************************************************)
(* At most one thread executes between EnterCritRegion and its return,     *)
(* whatever long locks are kept, overdue, asked for and taken away.        *)
(***************************************************************************)
MutualExclusion ==
  \A t, u \in Threads : Inside(t) /\ Inside(u) => t = u

(***************************************************************************)
(* The semaphore is up exactly when no thread is recorded as owner and     *)
(* none is between down_timeout and recording itself: no unit is lost, and *)
(* none is given back twice by a waiter that takes a long lock away and    *)
(* the owner that still believes it has it.                                *)
(***************************************************************************)
SemaphoreConserved ==
  m_semaphore = IF m_lnPID = NoThread /\ \A t \in Threads : ~ At(t, "got")
                THEN 1 ELSE 0

\* The lock's owner: recorded, or about to be.
Owner == IF \E t \in Threads : At(t, "got")
         THEN CHOOSE t \in Threads : At(t, "got")
         ELSE m_lnPID

Abstract == INSTANCE RevocableLock
              WITH owner <- Owner, inside <- {t \in Threads : Inside(t)}

(***************************************************************************)
(* The semaphore build implements the revocable lock: in particular the    *)
(* time-out path of LockCritRegionPrivate never takes the lock from a      *)
(* thread that is in the region.                                           *)
(***************************************************************************)
ImplementsRevocableLock == Abstract!LockSpec

(***************************************************************************)
(* Every call but remove gets in or gives up with -ETIME, even behind a    *)
(* lock that is never given back.                                          *)
(***************************************************************************)
EntryIsBounded ==
  \A t \in Threads :
    At(t, "down") /\ op[t] # "remove" ~> At(t, "region") \/ At(t, "user")

(***************************************************************************)
(* A waiter that insists, as pciedev_remove_exp does, gets the lock from a *)
(* program that locked the device and then stays in user space.            *)
(***************************************************************************)
GuiltyIsReclaimed ==
  \A t \in Threads : At(t, "down") /\ op[t] = "remove" ~> At(t, "region")
=============================================================================
