----------------------------- MODULE DriverLife -----------------------------
(***************************************************************************)
(* The life of a top-level driver around one device structure, structure   *)
(* 0: the driver is loaded and unloaded, boards are probed and removed,    *)
(* interrupts are requested, and the descriptions are shown in /proc.      *)
(* Composes DeviceTable, BoardInfo, Interrupts and BaseTable.  The locking *)
(* of probe and remove, and their failures before a board is mapped, are   *)
(* in PcieDev; the boards of all other structures and drivers appear here  *)
(* only in the table of addresses they share.                              *)
(***************************************************************************)
EXTENDS DeviceTable, BoardInfo, Interrupts, BaseTable

CONSTANTS
  Elsewhere,    \* boards that may also be plugged in at other structures
  MaxRefused,   \* bound: no probe when more boards were refused interrupts
  MaxKept,      \* bound: no probe when more modules than this are listed
  MaxWalk       \* bound: descriptions read in one probe

ASSUME LifeAssumption ==
  /\ PCIEDEV_NR_DEVS \in Nat
  /\ Elsewhere \subseteq Boards
  /\ MaxRefused \in Nat
  /\ MaxKept \in Nat
  /\ MaxWalk \in Nat

VARIABLES
  pc,           \* where the driver is
  board,        \* the board of structure 0
  memmory_base, \* the board whose BARs are mapped
  procEntry,    \* is the /proc entry of structure 0 registered?
  reader,       \* entry of prj_info_list a reader of /proc is at, 0, or Lost
  others,       \* boards of other structures and drivers
  hosts         \* history: SHAPI boards structure 0 has had

lifeVars == <<pc, board, memmory_base, procEntry, reader, others, hosts>>
vars     == <<tableVars, infoVars, irqVars, dev_phys_addresses, lifeVars>>

Lost == -1     \* a reader that followed a pointer of a freed entry

Removing == {"free", "clear", "unmap", "unpublish"}
Pcs      == {"unloaded", "init", "failed", "idle", "info", "list", "walk",
             "bound"} \cup Removing

TypeOK ==
  /\ TableTypes /\ InfoTypes /\ IrqTypes /\ PhysTypes
  /\ pc \in Pcs
  /\ board \in Boards \cup {NoBoard}
  /\ memmory_base \in Boards \cup {NoBoard}
  /\ procEntry \in BOOLEAN
  /\ reader \in Nat \cup {Lost}
  /\ others \in SUBSET Boards
  /\ hosts \in SUBSET Boards

Init ==
  /\ TableInit /\ InfoInit /\ IrqInit /\ PhysInit
  /\ pc = "unloaded"
  /\ board = NoBoard
  /\ memmory_base = NoBoard
  /\ procEntry = FALSE
  /\ reader = 0
  /\ others = {}
  /\ hosts = {}

At(p)   == pc = p
Goto(p) == pc' = p

-----------------------------------------------------------------------------
\* Loading and unloading the driver.
Load ==
  /\ At("unloaded")
  /\ InitTable
  /\ Goto("init")
  /\ UNCHANGED <<infoVars, irqVars, dev_phys_addresses, board, memmory_base,
                 procEntry, reader, others, hosts>>

LoadStructure ==
  /\ At("init")
  /\ \E i \in Devs : /\ InitStructure(i)
                     /\ Goto(IF i = PCIEDEV_NR_DEVS THEN "idle" ELSE "init")
  /\ UNCHANGED <<infoVars, irqVars, dev_phys_addresses, board, memmory_base,
                 procEntry, reader, others, hosts>>

LoadFails ==
  /\ At("init")
  /\ \E i \in Devs : \/ InitCdevFails(i) /\ Goto("failed")
                     \/ InitNoMemory(i) /\ Goto("unloaded")
  /\ UNCHANGED <<infoVars, irqVars, dev_phys_addresses, board, memmory_base,
                 procEntry, reader, others, hosts>>

\* The top-level driver cleans up when it has no boards, also after an init
\* that returned 1.  The structure is gone; the next one starts from zero.
Unload ==
  /\ pc \in {"idle", "failed"}
  /\ Cleanup
  /\ InfoFresh
  /\ IrqFresh
  /\ hosts' = {}
  /\ Goto("unloaded")
  /\ UNCHANGED <<dev_phys_addresses, board, memmory_base, procEntry, reader,
                 others>>

-----------------------------------------------------------------------------
\* pciedev_probe_exp.
ProbeBegin(b) ==
  /\ At("idle")
  /\ b \notin others
  /\ Len(module_info_list) <= MaxKept
  /\ Cardinality(refused) <= MaxRefused
  /\ EnterAddresses(b)
  /\ ResetInterrupts
  /\ board' = b
  /\ memmory_base' = b
  /\ Goto("info")
  /\ UNCHANGED <<tableVars, infoVars, procEntry, reader, others, hosts>>

ProbeInfo ==
  /\ At("info")
  /\ GetBrdinfo(board)
  /\ Goto("list")
  /\ UNCHANGED <<tableVars, irqVars, dev_phys_addresses, board, memmory_base,
                 procEntry, reader, others, hosts>>

ProbeList ==
  /\ At("list")
  /\ \/ startup_brd /\ GetPrjinfo(board)
     \/ shapi_brd /\ GetShapiModuleInfo(board)
     \/ ~ startup_brd /\ ~ shapi_brd /\ UNCHANGED infoVars
  /\ hosts' = IF shapi_brd THEN hosts \cup {board} ELSE hosts
  /\ Goto("walk")
  /\ UNCHANGED <<tableVars, irqVars, dev_phys_addresses, board, memmory_base,
                 procEntry, reader, others>>

ProbeWalk ==
  /\ At("walk")
  /\ place # Nowhere
  /\ \/ /\ startup_brd
        /\ Len(prj_info_list) < MaxWalk
        /\ FillPrjInfo(board)
     \/ /\ shapi_brd
        /\ Len(module_info_list) < MaxKept + MaxWalk
        /\ FillShapiModuleInfo(board)
  /\ UNCHANGED <<tableVars, irqVars, dev_phys_addresses, lifeVars>>

ProbePublish ==
  /\ At("walk")
  /\ place = Nowhere
  /\ PrepareInterrupts(board)
  /\ procEntry' = TRUE
  /\ Goto("bound")
  /\ UNCHANGED <<tableVars, infoVars, dev_phys_addresses, board, memmory_base,
                 reader, others, hosts>>

ProbeStep == ProbeInfo \/ ProbeList \/ ProbeWalk \/ ProbePublish

\* The top-level driver asks for an interrupt.  Assumed of it: it does not
\* ask again for a number it was granted (the library would let it).
SetupInterrupt(n) ==
  /\ At("bound")
  /\ <<board, n>> \notin registered
  /\ SetupGranted(board, n) \/ SetupRefused(board, n)
  /\ UNCHANGED <<tableVars, infoVars, dev_phys_addresses, lifeVars>>

-----------------------------------------------------------------------------
\* pciedev_remove_exp.
RemoveInfo ==
  /\ At("bound")
  /\ FreePrjInfo
  /\ Goto("free")
  /\ UNCHANGED <<tableVars, irqVars, dev_phys_addresses, board, memmory_base,
                 procEntry, reader, others, hosts>>

RemoveInterrupts ==
  /\ At("free")
  /\ FreeInterrupts(board)
  /\ Goto("clear")
  /\ UNCHANGED <<tableVars, infoVars, dev_phys_addresses, board, memmory_base,
                 procEntry, reader, others, hosts>>

RemoveAddresses ==
  /\ At("clear")
  /\ ClearAddresses(board)
  /\ Goto("unmap")
  /\ UNCHANGED <<tableVars, infoVars, irqVars, board, memmory_base, procEntry,
                 reader, others, hosts>>

RemoveUnmap ==
  /\ At("unmap")
  /\ memmory_base' = NoBoard
  /\ Goto("unpublish")
  /\ UNCHANGED <<tableVars, infoVars, irqVars, dev_phys_addresses, board,
                 procEntry, reader, others, hosts>>

\* remove_proc_entry waits for the readers of the entry, for ever when one
\* is lost.
RemoveUnpublish ==
  /\ At("unpublish")
  /\ reader = 0
  /\ procEntry' = FALSE
  /\ board' = NoBoard
  /\ Goto("idle")
  /\ UNCHANGED <<tableVars, infoVars, irqVars, dev_phys_addresses,
                 memmory_base, reader, others, hosts>>

-----------------------------------------------------------------------------
\* pciedev_proc_show walks over the projects and takes no lock.
ProcShow ==
  /\ procEntry
  /\ reader = 0
  /\ prj_info_list # <<>>
  /\ reader' = 1
  /\ UNCHANGED <<tableVars, infoVars, irqVars, dev_phys_addresses, pc, board,
                 memmory_base, procEntry, others, hosts>>

\* list_for_each: the next entry, or out.  From an entry that remove freed
\* the reader follows what the memory holds now: it comes out, or it is lost.
ProcNext ==
  /\ reader > 0
  /\ \/ reader < Len(prj_info_list) /\ reader' = reader + 1
     \/ reader = Len(prj_info_list) /\ reader' = 0
     \/ reader > Len(prj_info_list) /\ reader' \in {0, Lost}
  /\ UNCHANGED <<tableVars, infoVars, irqVars, dev_phys_addresses, pc, board,
                 memmory_base, procEntry, others, hosts>>

\* Probe and remove of a board that has another structure.
OtherProbe(b) ==
  /\ b # board /\ b \notin others
  /\ EnterAddresses(b)
  /\ others' = others \cup {b}
  /\ UNCHANGED <<tableVars, infoVars, irqVars, pc, board, memmory_base,
                 procEntry, reader, hosts>>

OtherRemove(b) ==
  /\ b \in others
  /\ ClearAddresses(b)
  /\ others' = others \ {b}
  /\ UNCHANGED <<tableVars, infoVars, irqVars, pc, board, memmory_base,
                 procEntry, reader, hosts>>

Next ==
  \/ Load \/ LoadStructure \/ LoadFails \/ Unload
  \/ \E b \in Boards : ProbeBegin(b)
  \/ ProbeStep
  \/ \E n \in Vectors : SetupInterrupt(n)
  \/ RemoveInfo \/ RemoveInterrupts \/ RemoveAddresses \/ RemoveUnmap
  \/ RemoveUnpublish
  \/ ProcShow \/ ProcNext
  \/ \E b \in Elsewhere : OtherProbe(b) \/ OtherRemove(b)

Spec == Init /\ [][Next]_vars

\* A probe that has begun takes its next step.
FairSpec == Spec /\ WF_vars(ProbeStep)

-----------------------------------------------------------------------------
(***************************************************************************)
(* Every cdev the kernel knows lies in a structure that exists, and        *)
(* nothing is left once the driver is unloaded, also after an init that    *)
(* failed half-way in cdev_add.  The exception is an init that ran out of  *)
(* memory: it frees structures whose cdevs are live.                       *)
(***************************************************************************)
TableIsConsistent ==
  ~ outOfMemory =>
    /\ cdevs \subseteq allocated
    /\ cdev_pp = "null" <=> pc = "unloaded"
    /\ pc = "unloaded" => allocated = {} /\ ~ region
    /\ pc \notin {"unloaded", "init", "failed"} => cdevs = Devs

(***************************************************************************)
(* A handler that is registered can rely on its board: it is still bound   *)
(* and mapped.  So remove frees every handler before it unmaps the BARs,   *)
(* and no handler outlives the structure that is its cookie.  The          *)
(* exception is a board that was refused an interrupt when it already had  *)
(* one: pciedev_setup_interrupt then clears irq_mode.                      *)
(***************************************************************************)
HandlersHaveBoard ==
  /\ \A h \in registered :
       \/ h[1] = board /\ memmory_base = h[1] /\ 0 \in allocated
       \/ h[1] \in refused
  /\ msiEnabled \subseteq {board}

(***************************************************************************)
(* The table of physical addresses never gives out an address of a board   *)
(* that was removed, even when boards that report the same slot come and   *)
(* go in any order; and a slot in use has a board.                         *)
(***************************************************************************)
Present == others \cup
           (IF pc \in {"unmap", "unpublish"} THEN {} ELSE {board} \ {NoBoard})

NoStaleAddress ==
  \A s \in Slots :
    /\ \A i \in Bars : PhysicalAddress(s, i) \in Present \cup {NoBoard}
    /\ dev_phys_addresses[s].dev_stst =>
         \E b \in Present : Chip[b].slot = s

\* The places of the n newest entries of a list, oldest first.
PlacesOf(list, n) == [k \in 1 .. n |-> list[n - k + 1].place]

(***************************************************************************)
(* A published DESY board is shown with its own identification and with    *)
(* exactly its own projects, whatever boards the structure had before.  Of *)
(* a board of another kind only that its list of projects is empty; what   *)
(* else is shown of it is the subject of ShowsOwnBoard.                    *)
(***************************************************************************)
DesyDescription ==
  At("bound") =>
    IF startup_brd
    THEN /\ Kind(board) = "desy"
         /\ brd_info_list = board
         /\ startup_prj_num = Len(prj_info_list)
         /\ \A k \in DOMAIN prj_info_list : prj_info_list[k].board = board
         /\ Describes(board, PlacesOf(prj_info_list, Len(prj_info_list)))
    ELSE prj_info_list = <<>>

(***************************************************************************)
(* A published SHAPI board is shown with its own identification, and the   *)
(* newest entries of the module list are exactly its modules.  The lookup  *)
(* by number finds them, unless the structure had another SHAPI board      *)
(* before, whose modules remove did not free.                              *)
(***************************************************************************)
ShapiDescription ==
  At("bound") /\ shapi_brd =>
    LET places == PlacesOf(module_info_list, shapi_module_num)
    IN /\ Kind(board) = "shapi"
       /\ device_info_list = board
       /\ shapi_module_num <= Len(module_info_list)
       /\ Describes(board, places)
       /\ hosts = {board} =>
            \A n \in 1 .. shapi_module_num :
              /\ Matches(n) # {}
              /\ ModInfo(n) =
                   [board |-> board, place |-> places[n], module_num |-> n]

(***************************************************************************)
(* What pciedev_proc_show and PCIEDEV_FIRMWARE_VERSION tell of a published *)
(* board, its identification and its number of projects, is its own or     *)
(* nothing.  Not so: for a board that is no DESY board pciedev_get_brdinfo *)
(* and probe leave both as an earlier board of the structure had them.     *)
(***************************************************************************)
ShowsOwnBoard ==
  At("bound") =>
    /\ brd_info_list \in {board, NoBoard}
    /\ startup_prj_num = Len(prj_info_list)

(***************************************************************************)
(* A reader of /proc is only ever at a project that is allocated.  Not so: *)
(* remove deletes and frees the projects while pciedev_proc_show may be    *)
(* walking over them without a lock.                                       *)
(***************************************************************************)
ReaderOnLiveProject == reader # Lost /\ reader <= Len(prj_info_list)

(***************************************************************************)
(* The walks over a well-formed board never come back to a description     *)
(* they have read, so they cannot go on for longer than the board has      *)
(* descriptions, however its pointers are laid out.                        *)
(***************************************************************************)
WalkIsFresh ==
  At("walk") /\ WellFormed(board) =>
    /\ startup_brd =>
         \A k \in DOMAIN prj_info_list : prj_info_list[k].place # place
    /\ shapi_brd =>
         \A k \in 1 .. shapi_module_num : module_info_list[k].place # place

(***************************************************************************)
(* The probe of a board whose descriptions are well-formed comes to an     *)
(* end: both walks terminate.                                              *)
(***************************************************************************)
ProbeEnds ==
  \A b \in Boards :
    WellFormed(b) =>
      (board = b /\ pc \in {"info", "list", "walk"} ~> At("bound"))
=============================================================================
