----------------------------- MODULE Interrupts -----------------------------
(***************************************************************************)
(* The interrupts of one device structure: what probe prepares, what the   *)
(* top-level driver requests with pciedev_setup_interrupt, and what remove *)
(* gives back.  The structure is the cookie of every handler.              *)
(***************************************************************************)
EXTENDS Chips

CONSTANT
  Vectors       \* values of num the top-level driver uses

VARIABLES
  irq_mode,
  enbl_irq_num, \* as a set of numbers
  msi,
  msiEnabled,   \* boards whose message interrupts the kernel has enabled
  registered,   \* <<board, num>>: handlers the kernel knows
  refused       \* history: boards that were refused an interrupt while they
                \* had another one

irqVars == <<irq_mode, enbl_irq_num, msi, msiEnabled, registered, refused>>

IrqTypes ==
  /\ irq_mode \in BOOLEAN
  /\ enbl_irq_num \in SUBSET Vectors
  /\ msi \in BOOLEAN
  /\ msiEnabled \in SUBSET Boards
  /\ registered \in SUBSET (Boards \X Vectors)
  /\ refused \in SUBSET Boards

\* State of a structure that was just allocated; kernel state aside.
IrqFresh ==
  /\ irq_mode' = FALSE
  /\ enbl_irq_num' = {}
  /\ msi' = FALSE
  /\ UNCHANGED <<msiEnabled, registered, refused>>

IrqInit ==
  /\ irq_mode = FALSE
  /\ enbl_irq_num = {}
  /\ msi = FALSE
  /\ msiEnabled = {}
  /\ registered = {}
  /\ refused = {}

\* Probe, before it reads the board.
ResetInterrupts ==
  /\ enbl_irq_num' = {}
  /\ UNCHANGED <<irq_mode, msi, msiEnabled, registered, refused>>

\* Probe, when it knows the board: the kernel enables message interrupts,
\* or does not.
PrepareInterrupts(b) ==
  /\ msi' \in BOOLEAN
  /\ msiEnabled' = IF msi' THEN msiEnabled \cup {b} ELSE msiEnabled
  /\ irq_mode' = FALSE
  /\ UNCHANGED <<enbl_irq_num, registered, refused>>

\* pciedev_setup_interrupt, and request_irq answers 0.
SetupGranted(b, n) ==
  /\ irq_mode' = TRUE
  /\ enbl_irq_num' = enbl_irq_num \cup {n}
  /\ registered' = registered \cup {<<b, n>>}
  /\ UNCHANGED <<msi, msiEnabled, refused>>

\* pciedev_setup_interrupt, and request_irq answers an error.
SetupRefused(b, n) ==
  /\ irq_mode' = FALSE
  /\ refused' = IF \E k \in Vectors : <<b, k>> \in registered
                THEN refused \cup {b} ELSE refused
  /\ UNCHANGED <<enbl_irq_num, msi, msiEnabled, registered>>

\* Mutant: only one handler is freed.
FreeOnlyOne(b) ==
  /\ registered' = IF irq_mode /\ enbl_irq_num # {}
                   THEN registered \ {<<b, CHOOSE n \in enbl_irq_num : TRUE>>}
                   ELSE registered
  /\ msiEnabled' = IF msi THEN msiEnabled \ {b} ELSE msiEnabled
  /\ UNCHANGED <<irq_mode, enbl_irq_num, msi, refused>>

\* Remove.
FreeInterrupts(b) ==
  /\ registered' = IF irq_mode THEN registered \ ({b} \X enbl_irq_num)
                               ELSE registered
  /\ msiEnabled' = IF msi THEN msiEnabled \ {b} ELSE msiEnabled
  /\ UNCHANGED <<irq_mode, enbl_irq_num, msi, refused>>
=============================================================================
