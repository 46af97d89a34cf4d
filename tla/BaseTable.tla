------------------------------ MODULE BaseTable ------------------------------
(***************************************************************************)
(* base_upciedev_dev.dev_phys_addresses: the physical addresses of the     *)
(* boards, by slot.  One table for all drivers; they read it to let boards *)
(* reach each other.  An address is represented by the board it leads to.  *)
(***************************************************************************)
EXTENDS Chips

VARIABLE dev_phys_addresses

NoAddresses == [dev_stst |-> FALSE, bars |-> [i \in Bars |-> NoBoard]]

PhysTypes ==
  dev_phys_addresses \in
    [Slots -> [dev_stst : BOOLEAN, bars : [Bars -> Boards \cup {NoBoard}]]]

\* The table the structures point to is a static object of pciedev_ufn.c:
\* zero when the module is loaded.  The loop in upciedev_drv.c clears that
\* file's own copy of it.
PhysInit == dev_phys_addresses = [s \in Slots |-> NoAddresses]

\* Probe: only the BARs the board has are written.
EnterAddresses(b) ==
  dev_phys_addresses' =
    [dev_phys_addresses EXCEPT ![Chip[b].slot] =
       [dev_stst |-> TRUE,
        bars     |-> [i \in Bars |-> IF i \in Chip[b].bars THEN b ELSE @.bars[i]]]]

\* Mutant: the addresses stay, only the slot is marked as empty.
ClearStatus(b) ==
  dev_phys_addresses' =
    [dev_phys_addresses EXCEPT ![Chip[b].slot].dev_stst = FALSE]

\* Remove.
ClearAddresses(b) ==
  dev_phys_addresses' =
    [dev_phys_addresses EXCEPT ![Chip[b].slot] = NoAddresses]

\* pciedev_get_slot_pciedevp, pciedev_get_physical_address: what a driver
\* is told of a BAR in slot s.
PhysicalAddress(s, i) == dev_phys_addresses[s].bars[i]
=============================================================================
