--------------------------- MODULE RevocableLock ---------------------------
(***************************************************************************)
(* What criticalregionlock promises its callers, whichever build is used:  *)
(* a lock with at most one owner, which the owner may keep between several *)
(* visits to the critical region, and which can be taken away from an      *)
(* owner that is outside the region, but never from one that is inside.    *)
(***************************************************************************)
CONSTANTS Threads, NoThread

VARIABLES
  owner,   \* the thread the lock is given to, or NoThread
  inside   \* threads between a successful Enter and the matching Leave

lockVars == <<owner, inside>>

LockInit == owner = NoThread /\ inside = {}

Take(t) ==
  /\ owner = NoThread
  /\ owner' = t
  /\ UNCHANGED inside

Enter(t) ==
  /\ owner = t
  /\ inside' = inside \cup {t}
  /\ UNCHANGED owner

\* The owner leaves the region, and keeps the lock or gives it up.
Leave(t) ==
  /\ t \in inside
  /\ inside' = inside \ {t}
  /\ owner' \in {owner, NoThread}

\* The owner gives the lock up, or another thread takes it away.
Revoke ==
  /\ owner \notin inside
  /\ owner' = NoThread
  /\ UNCHANGED inside

LockNext ==
  \/ \E t \in Threads : Take(t) \/ Enter(t) \/ Leave(t)
  \/ Revoke

LockSpec == LockInit /\ [][LockNext]_lockVars
=============================================================================
