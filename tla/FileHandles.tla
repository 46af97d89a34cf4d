---------------------------- MODULE FileHandles ----------------------------
(***************************************************************************)
(* What the driver promises the programs that hold its device files, with  *)
(* all locks, lists and counters left out.  An open file reaches the       *)
(* structure it was opened on until it is closed, or until it is revoked;  *)
(* it is never passed on to another structure.  A board leaves only when   *)
(* no open file reaches its structure any more, so whoever gets the        *)
(* structure next is safe from the programs of the board before.           *)
(***************************************************************************)
CONSTANTS
  Files, Boards,
  Devs, NullDev,   \* structures; NullDev is the one of revoked files
  NoDev,           \* no structure
  SerialHotplug    \* do boards come and go one at a time?

VARIABLES
  handle,   \* the structure each open file reaches, or NoDev
  home      \* the structure each plugged board has, or NoDev

handleVars == <<handle, home>>

HandlesInit ==
  /\ handle = [f \in Files |-> NoDev]
  /\ home = [b \in Boards |-> NoDev]

Open(f, d) ==
  /\ handle[f] = NoDev
  /\ handle' = [handle EXCEPT ![f] = d]
  /\ UNCHANGED home

Revoke(f) ==
  /\ handle[f] \notin {NoDev, NullDev}
  /\ handle' = [handle EXCEPT ![f] = NullDev]
  /\ UNCHANGED home

Close(f) ==
  /\ handle[f] # NoDev
  /\ handle' = [handle EXCEPT ![f] = NoDev]
  /\ UNCHANGED home

\* A board gets a structure, one of its own if boards come one at a time.
Plug(b, d) ==
  /\ home[b] = NoDev
  /\ SerialHotplug => \A c \in Boards : home[c] # d
  /\ home' = [home EXCEPT ![b] = d]
  /\ UNCHANGED handle

Unplug(b) ==
  /\ home[b] # NoDev
  /\ \A f \in Files : handle[f] # home[b]
  /\ home' = [home EXCEPT ![b] = NoDev]
  /\ UNCHANGED handle

HandlesNext ==
  \/ \E f \in Files : Revoke(f) \/ Close(f) \/ \E d \in Devs : Open(f, d)
  \/ \E b \in Boards : Unplug(b) \/ \E d \in Devs \ {NullDev} : Plug(b, d)

HandlesSpec == HandlesInit /\ [][HandlesNext]_handleVars
=============================================================================
