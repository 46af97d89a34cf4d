---------------------------- MODULE DeviceTable ----------------------------
(***************************************************************************)
(* The pciedev_cdev of one top-level driver: upciedev_init_module_exp,     *)
(* which allocates the device structures and registers their cdevs one by  *)
(* one, and upciedev_cleanup_module_exp.                                   *)
(***************************************************************************)
EXTENDS Integers

CONSTANT PCIEDEV_NR_DEVS

VARIABLES
  cdev_pp,      \* the driver's pointer: "null", "table", or "freed"
  region,       \* are the device numbers and the class registered?
  allocated,    \* structures that exist
  cdevs,        \* structures whose cdev the kernel knows
  outOfMemory   \* history: has an init failed to allocate a structure?

tableVars == <<cdev_pp, region, allocated, cdevs, outOfMemory>>

Devs == 0 .. PCIEDEV_NR_DEVS

TableTypes ==
  /\ cdev_pp \in {"null", "table", "freed"}
  /\ region \in BOOLEAN
  /\ allocated \in SUBSET Devs
  /\ cdevs \in SUBSET Devs
  /\ outOfMemory \in BOOLEAN

TableInit ==
  /\ cdev_pp = "null"
  /\ region = FALSE
  /\ allocated = {}
  /\ cdevs = {}
  /\ outOfMemory = FALSE

\* The table itself is allocated; nobody looks whether the device numbers
\* were obtained.
InitTable ==
  /\ cdev_pp' = "table"
  /\ region' \in BOOLEAN
  /\ UNCHANGED <<allocated, cdevs, outOfMemory>>

\* The structure the loop of init works on.
Current(i) == i \in Devs /\ allocated = 0 .. (i - 1)

\* One turn of the loop: structure and cdev.
InitStructure(i) ==
  /\ Current(i)
  /\ allocated' = allocated \cup {i}
  /\ cdevs' = cdevs \cup {i}
  /\ UNCHANGED <<cdev_pp, region, outOfMemory>>

\* cdev_add fails: init returns 1 and leaves everything as it is.
InitCdevFails(i) ==
  /\ Current(i)
  /\ allocated' = allocated \cup {i}
  /\ UNCHANGED <<cdev_pp, region, cdevs, outOfMemory>>

\* kzalloc fails: init frees the structures and the table.
InitNoMemory(i) ==
  /\ Current(i)
  /\ allocated' = {}
  /\ cdev_pp' = "freed"
  /\ outOfMemory' = TRUE
  /\ UNCHANGED <<region, cdevs>>

\* Mutant: the last structure, the null device, is forgotten.
CleanupShort ==
  /\ cdev_pp' = "null"
  /\ region' = FALSE
  /\ cdevs' = cdevs \ (allocated \ {PCIEDEV_NR_DEVS})
  /\ allocated' = allocated \cap {PCIEDEV_NR_DEVS}
  /\ UNCHANGED outOfMemory

\* Cleanup deletes the cdev of every structure in the table and frees it.
Cleanup ==
  /\ cdev_pp' = "null"
  /\ region' = FALSE
  /\ cdevs' = cdevs \ allocated
  /\ allocated' = {}
  /\ UNCHANGED outOfMemory
=============================================================================
