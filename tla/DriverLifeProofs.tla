-------------------------- MODULE DriverLifeProofs --------------------------
(***************************************************************************)
(* Proofs about DriverLife, for any boards, any descriptions on them, any  *)
(* number of structures and interrupts, and any value of the bounds.  The  *)
(* inductive invariant ties what the driver's position says of structure 0 *)
(* (Phases, Structures) to the handlers the kernel knows and to the table  *)
(* of addresses the drivers share.                                         *)
(***************************************************************************)
EXTENDS DriverLife, WellFoundedInduction, TLAPS

\* Structure 0 has a board from the beginning of probe to the end of remove,
\* its BARs are mapped until shortly before, and it is published in between.
Phases ==
  /\ board = NoBoard <=> pc \in {"unloaded", "init", "failed", "idle"}
  /\ memmory_base = IF pc = "unpublish" THEN NoBoard ELSE board
  /\ procEntry <=> pc \in {"bound"} \cup Removing

\* The table is full once the driver is loaded, with or without cdevs that
\* an earlier init left behind.
Structures ==
  /\ pc = "unloaded" => allocated = {}
  /\ pc \notin {"unloaded", "init", "failed"} => allocated = Devs
  /\ pc = "init" /\ ~ outOfMemory => cdevs = allocated

\* Remove will find every handler that was not forgotten by a refusal, and
\* every message interrupt.
WillBeFreed ==
  /\ \A h \in registered :
       \/ h[1] \in refused
       \/ /\ h[1] = board /\ pc \in {"bound", "free"}
          /\ irq_mode /\ h[2] \in enbl_irq_num
  /\ \A b \in msiEnabled : b = board /\ pc \in {"bound", "free"} /\ msi

\* A board's addresses are in its own slot only.
OwnSlot ==
  \A s \in Slots, i \in Bars :
    PhysicalAddress(s, i) # NoBoard => Chip[PhysicalAddress(s, i)].slot = s

LifeInv == TypeOK /\ Phases /\ Structures /\ TableIsConsistent /\ WillBeFreed
             /\ OwnSlot /\ NoStaleAddress

USE ChipAssumption, LifeAssumption

-----------------------------------------------------------------------------
Less == {ss \in Nat \X Nat : ss[1] < ss[2]}

(* A set of numbers has a least element.                                   *)
LEMMA LeastOf ==
  ASSUME NEW S \in SUBSET Nat, S # {}
  PROVE  \E k \in S : \A m \in S : k <= m
<1>1. IsWellFoundedOn(Less, Nat)
  BY NatLessThanWellFounded DEF OpToRel, Less
<1>2. PICK x \in S : \A y \in S : ~ (<<y, x>> \in Less)
  BY <1>1, WFMin
<1>3. ASSUME NEW y \in S PROVE x <= y
  <2>1. x \in Nat /\ y \in Nat /\ <<y, x>> \notin Less
    BY <1>2
  <2>2. <<y, x>> \in Nat \X Nat
    BY <2>1
  <2>3. y < x => <<y, x>> \in Less
    BY <2>1, <2>2 DEF Less
  <2> QED
    BY <2>1, <2>3
<1> QED
  BY <1>3

(* What is known of every board.                                           *)
LEMMA ChipFields ==
  ASSUME NEW b \in Boards
  PROVE  /\ Chip[b].slot \in Slots
         /\ Chip[b].bars \subseteq Bars
         /\ Chip[b].first \in Offsets \cup {0}
         /\ \A p \in Places : Chip[b].next[p] \in Offsets \cup {0, NoMagic}
BY DEF ChipType, Slots

(* A walk never leaves the places of the board.                            *)
LEMMA BarFromType ==
  ASSUME NEW b \in Boards, NEW i \in Nat \ {0}
  PROVE  BarFrom(b, i) \in Places \cup {Nowhere}
<1> DEFINE S == {k \in Chip[b].bars : k >= i}
<1>1. Chip[b].bars \subseteq Bars
  BY ChipFields
<1>2. S \in SUBSET Nat
  BY <1>1 DEF Bars
<1>3. CASE \E k \in Chip[b].bars : k >= i
  <2>1. \E k \in S : \A m \in S : k <= m
    <3>1. S # {}
      BY <1>3
    <3> HIDE DEF S
    <3> QED
      BY <1>2, <3>1, LeastOf
  <2> DEFINE c == CHOOSE k \in Chip[b].bars :
                    k >= i /\ \A m \in Chip[b].bars : m >= i => k <= m
  <2>2. c \in Chip[b].bars /\ c >= i
    BY <2>1
  <2> HIDE DEF c
  <2>3. c \in Bars \ {0}
    BY <1>1, <2>2 DEF Bars
  <2>4. <<c, 0>> \in Places
    BY <2>3 DEF Places
  <2> QED
    BY <1>3, <2>4 DEF BarFrom, c
<1>4. CASE ~ \E k \in Chip[b].bars : k >= i
  BY <1>4 DEF BarFrom
<1> QED
  BY <1>3, <1>4

LEMMA WalkFromType ==
  ASSUME NEW b \in Boards, NEW o \in Offsets \cup {0}
  PROVE  WalkFrom(b, o) \in Places \cup {Nowhere}
<1>1. BarFrom(b, 1) \in Places \cup {Nowhere}
  BY BarFromType
<1>2. o # 0 => <<0, o>> \in Places
  BY DEF Places
<1> QED
  BY <1>1, <1>2 DEF WalkFrom

LEMMA WalkOnType ==
  ASSUME NEW b \in Boards, place \in Places
  PROVE  WalkOn(b) \in Places \cup {Nowhere}
<1> DEFINE next == IF HasMagic(b, place) THEN Chip[b].next[place] ELSE 0
<1>1. next \in Offsets \cup {0}
  BY ChipFields DEF HasMagic
<1>2. place[1] \in Bars
  BY DEF Places, Bars
<1>3. CASE place[1] = 0
  <2>1. next # 0 => <<0, next>> \in Places
    BY <1>1 DEF Places
  <2> QED
    BY <1>3, <2>1 DEF WalkOn
<1>4. CASE place[1] # 0
  <2>1. BarFrom(b, place[1] + 1) \in Places \cup {Nowhere}
    BY <1>2, BarFromType DEF Bars
  <2> QED
    BY <1>4, <2>1 DEF WalkOn
<1> QED
  BY <1>3, <1>4
-----------------------------------------------------------------------------
(* The components keep their variables in their types.                     *)
LEMMA TableKeeps ==
  ASSUME TableTypes,
         \/ UNCHANGED tableVars \/ InitTable \/ Cleanup
         \/ \E i \in Devs : InitStructure(i) \/ InitCdevFails(i)
                              \/ InitNoMemory(i)
  PROVE  TableTypes'
<1> USE DEF TableTypes, tableVars
<1>1. CASE UNCHANGED tableVars
  BY <1>1
<1>2. CASE InitTable
  BY <1>2 DEF InitTable
<1>3. CASE Cleanup
  <2>1. region' \in BOOLEAN
    BY <1>3, Zenon DEF Cleanup
  <2> QED
    BY <1>3, <2>1 DEF Cleanup
<1>4. ASSUME NEW i \in Devs, InitStructure(i) \/ InitCdevFails(i)
      PROVE  TableTypes'
  BY <1>4 DEF InitStructure, InitCdevFails
<1>5. ASSUME NEW i \in Devs, InitNoMemory(i) PROVE TableTypes'
  <2>1. outOfMemory' \in BOOLEAN
    BY <1>5, Zenon DEF InitNoMemory
  <2> QED
    BY <1>5, <2>1 DEF InitNoMemory
<1> QED
  BY <1>1, <1>2, <1>3, <1>4, <1>5

LEMMA Prepended ==
  ASSUME NEW S, NEW list \in Seq(S), NEW e \in S
  PROVE  /\ <<e>> \o list \in Seq(S)
         /\ Len(<<e>> \o list) = Len(list) + 1
         /\ (<<e>> \o list)[1] = e
         /\ \A k \in 1 .. Len(list) : (<<e>> \o list)[k + 1] = list[k]
OBVIOUS

LEMMA InfoKeeps ==
  ASSUME InfoTypes,
         \/ UNCHANGED infoVars \/ InfoFresh \/ FreePrjInfo
         \/ \E b \in Boards :
              \/ GetBrdinfo(b) \/ GetPrjinfo(b) \/ GetShapiModuleInfo(b)
              \/ place # Nowhere /\ (FillPrjInfo(b) \/ FillShapiModuleInfo(b))
  PROVE  InfoTypes'
<1> USE DEF InfoTypes, infoVars
<1>1. CASE UNCHANGED infoVars
  BY <1>1
<1>2. CASE InfoFresh
  <2>1. startup_brd' \in BOOLEAN /\ shapi_brd' \in BOOLEAN
    BY <1>2, Zenon DEF InfoFresh
  <2> QED
    BY <1>2, <2>1 DEF InfoFresh
<1>3. ASSUME NEW b \in Boards, GetBrdinfo(b) PROVE InfoTypes'
  <2>1. startup_brd' \in BOOLEAN /\ shapi_brd' \in BOOLEAN
    BY <1>3, Zenon DEF GetBrdinfo
  <2>2. Chip[b].first \in Offsets \cup {0}
    BY ChipFields
  <2>3. /\ brd_info_list' \in Boards \cup {NoBoard}
        /\ device_info_list' \in Boards \cup {NoBoard}
        /\ PCIEDEV_PROJ_NEXT' \in Offsets \cup {0}
        /\ SHAPI_FIRST_MODULE_ADDRESS' \in Offsets \cup {0}
        /\ shapi_module_num' \in Nat
    BY <1>3, <2>2 DEF GetBrdinfo
  <2> QED
    BY <1>3, <2>1, <2>3 DEF GetBrdinfo
<1>4. ASSUME NEW b \in Boards, GetPrjinfo(b) PROVE InfoTypes'
  BY <1>4, WalkFromType DEF GetPrjinfo
<1>5. ASSUME NEW b \in Boards, GetShapiModuleInfo(b) PROVE InfoTypes'
  BY <1>5, WalkFromType DEF GetShapiModuleInfo
<1>6. CASE FreePrjInfo
  BY <1>6 DEF FreePrjInfo
<1>7. ASSUME NEW b \in Boards, place # Nowhere /\ FillPrjInfo(b)
      PROVE  InfoTypes'
  <2>1. place \in Places /\ place' \in Places \cup {Nowhere}
    BY <1>7, WalkOnType DEF FillPrjInfo
  <2>2. [board |-> b, place |-> place] \in PrjInfo
    BY <2>1 DEF PrjInfo
  <2>3. prj_info_list' \in Seq(PrjInfo)
    <3>1. <<[board |-> b, place |-> place]>> \o prj_info_list \in Seq(PrjInfo)
      BY <2>2, Prepended
    <3> QED
      BY <1>7, <3>1 DEF FillPrjInfo
  <2> QED
    BY <1>7, <2>1, <2>3 DEF FillPrjInfo
<1>8. ASSUME NEW b \in Boards, place # Nowhere /\ FillShapiModuleInfo(b)
      PROVE  InfoTypes'
  <2>1. place \in Places /\ place' \in Places \cup {Nowhere}
    BY <1>8, WalkOnType DEF FillShapiModuleInfo
  <2> DEFINE e == [board |-> b, place |-> place,
                   module_num |-> shapi_module_num + 1]
  <2>2. e \in ModuleInfo
    BY <2>1 DEF ModuleInfo
  <2>3. module_info_list' \in Seq(ModuleInfo)
    <3>1. <<e>> \o module_info_list \in Seq(ModuleInfo)
      BY <2>2, Prepended
    <3> QED
      BY <1>8, <3>1 DEF FillShapiModuleInfo
  <2> QED
    BY <1>8, <2>1, <2>3 DEF FillShapiModuleInfo
<1> QED
  BY <1>1, <1>2, <1>3, <1>4, <1>5, <1>6, <1>7, <1>8

LEMMA IrqKeeps ==
  ASSUME IrqTypes,
         \/ UNCHANGED irqVars \/ IrqFresh \/ ResetInterrupts
         \/ \E b \in Boards : PrepareInterrupts(b) \/ FreeInterrupts(b)
         \/ \E b \in Boards, n \in Vectors :
              SetupGranted(b, n) \/ SetupRefused(b, n)
  PROVE  IrqTypes'
<1> USE DEF IrqTypes, irqVars
<1>1. CASE UNCHANGED irqVars
  BY <1>1
<1>2. CASE IrqFresh
  <2>1. irq_mode' \in BOOLEAN /\ msi' \in BOOLEAN
    BY <1>2, Zenon DEF IrqFresh
  <2> QED
    BY <1>2, <2>1 DEF IrqFresh
<1>3. CASE ResetInterrupts
  BY <1>3 DEF ResetInterrupts
<1>4. ASSUME NEW b \in Boards, PrepareInterrupts(b) PROVE IrqTypes'
  <2>1. irq_mode' \in BOOLEAN
    BY <1>4, Zenon DEF PrepareInterrupts
  <2> QED
    BY <1>4, <2>1 DEF PrepareInterrupts
<1>5. ASSUME NEW b \in Boards, FreeInterrupts(b) PROVE IrqTypes'
  BY <1>5 DEF FreeInterrupts
<1>6. ASSUME NEW b \in Boards, NEW n \in Vectors, SetupGranted(b, n)
      PROVE  IrqTypes'
  <2>1. irq_mode' \in BOOLEAN
    BY <1>6, Zenon DEF SetupGranted
  <2> QED
    BY <1>6, <2>1 DEF SetupGranted
<1>7. ASSUME NEW b \in Boards, NEW n \in Vectors, SetupRefused(b, n)
      PROVE  IrqTypes'
  <2>1. irq_mode' \in BOOLEAN
    BY <1>7, Zenon DEF SetupRefused
  <2> QED
    BY <1>7, <2>1 DEF SetupRefused
<1> QED
  BY <1>1, <1>2, <1>3, <1>4, <1>5, <1>6, <1>7

(* Entering and clearing addresses: what is in the table afterwards.       *)
LEMMA AddressesEntered ==
  ASSUME PhysTypes, NEW b \in Boards, EnterAddresses(b)
  PROVE  /\ PhysTypes'
         /\ \A s \in Slots : s # Chip[b].slot =>
              dev_phys_addresses'[s] = dev_phys_addresses[s]
         /\ \A i \in Bars :
              PhysicalAddress(Chip[b].slot, i)' \in
                {b, PhysicalAddress(Chip[b].slot, i)}
<1> DEFINE s == Chip[b].slot
           R == [dev_stst : BOOLEAN, bars : [Bars -> Boards \cup {NoBoard}]]
           old == dev_phys_addresses[s]
           new == [dev_stst |-> TRUE,
                   bars |-> [i \in Bars |-> IF i \in Chip[b].bars
                                            THEN b ELSE old.bars[i]]]
<1>1. s \in Slots
  BY ChipFields
<1>2. dev_phys_addresses \in [Slots -> R] /\ old \in R
  BY <1>1 DEF PhysTypes
<1>3. dev_phys_addresses' = [dev_phys_addresses EXCEPT ![s] = new]
  BY <1>1, <1>2 DEF EnterAddresses
<1>4. new \in R
  <2>1. old.bars \in [Bars -> Boards \cup {NoBoard}]
    BY <1>2
  <2>2. new.bars \in [Bars -> Boards \cup {NoBoard}]
    BY <2>1
  <2>3. TRUE \in BOOLEAN
    OBVIOUS
  <2> QED
    BY <2>2, <2>3
<1>5. \A i \in Bars : new.bars[i] \in {b, old.bars[i]}
  OBVIOUS
<1> HIDE DEF new, R
<1>6. PhysTypes'
  BY <1>2, <1>3, <1>4 DEF PhysTypes, R
<1>7. dev_phys_addresses'[s] = new
  BY <1>1, <1>2, <1>3
<1> QED
  BY <1>2, <1>3, <1>5, <1>6, <1>7 DEF PhysicalAddress

LEMMA AddressesCleared ==
  ASSUME PhysTypes, NEW b \in Boards, ClearAddresses(b)
  PROVE  /\ PhysTypes'
         /\ \A s \in Slots : s # Chip[b].slot =>
              dev_phys_addresses'[s] = dev_phys_addresses[s]
         /\ \A i \in Bars : PhysicalAddress(Chip[b].slot, i)' = NoBoard
         /\ dev_phys_addresses'[Chip[b].slot].dev_stst = FALSE
<1> DEFINE s == Chip[b].slot
           R == [dev_stst : BOOLEAN, bars : [Bars -> Boards \cup {NoBoard}]]
<1>1. s \in Slots
  BY ChipFields
<1>2. dev_phys_addresses \in [Slots -> R]
  BY DEF PhysTypes
<1>3. NoAddresses \in R
  <2>1. FALSE \in BOOLEAN
    OBVIOUS
  <2>2. [i \in Bars |-> NoBoard] \in [Bars -> Boards \cup {NoBoard}]
    OBVIOUS
  <2> QED
    BY <2>1, <2>2 DEF NoAddresses
<1>4. PhysTypes'
  BY <1>1, <1>2, <1>3 DEF PhysTypes, ClearAddresses
<1>5. dev_phys_addresses'[s] = NoAddresses
  BY <1>1, <1>2 DEF ClearAddresses
<1>6. \A i \in Bars : NoAddresses.bars[i] = NoBoard
  BY DEF NoAddresses
<1>7. NoAddresses.dev_stst = FALSE
  BY DEF NoAddresses
<1> QED
  BY <1>2, <1>4, <1>5, <1>6, <1>7 DEF PhysicalAddress, ClearAddresses
-----------------------------------------------------------------------------
(* Init establishes the invariant.                                         *)
LEMMA LifeInitial == Init => LifeInv
<1> SUFFICES ASSUME Init PROVE LifeInv
  OBVIOUS
<1> USE DEF Init
<1>1. TableTypes
  <2>1. region \in BOOLEAN /\ outOfMemory \in BOOLEAN
    BY Zenon DEF TableInit
  <2> QED
    BY <2>1 DEF TableInit, TableTypes
<1>2. InfoTypes
  <2>1. startup_brd \in BOOLEAN /\ shapi_brd \in BOOLEAN
    BY Zenon DEF InfoInit
  <2> QED
    BY <2>1 DEF InfoInit, InfoTypes
<1>3. IrqTypes
  <2>1. irq_mode \in BOOLEAN /\ msi \in BOOLEAN
    BY Zenon DEF IrqInit
  <2> QED
    BY <2>1 DEF IrqInit, IrqTypes
<1>4. PhysTypes
  <2>1. FALSE \in BOOLEAN
    OBVIOUS
  <2>2. [i \in Bars |-> NoBoard] \in [Bars -> Boards \cup {NoBoard}]
    OBVIOUS
  <2>3. NoAddresses \in [dev_stst : BOOLEAN,
                         bars : [Bars -> Boards \cup {NoBoard}]]
    BY <2>1, <2>2 DEF NoAddresses
  <2> QED
    BY <2>3 DEF PhysInit, PhysTypes
<1>5. TypeOK
  <2>1. procEntry \in BOOLEAN
    BY Zenon
  <2> QED
    BY <1>1, <1>2, <1>3, <1>4, <2>1 DEF TypeOK, Pcs
<1>6. Phases /\ Structures /\ TableIsConsistent /\ WillBeFreed
  BY DEF Phases, Structures, TableIsConsistent, WillBeFreed,
         Removing, TableInit, IrqInit
<1>7. \A s \in Slots : /\ dev_phys_addresses[s].dev_stst = FALSE
                       /\ \A i \in Bars : PhysicalAddress(s, i) = NoBoard
  BY DEF PhysInit, NoAddresses, PhysicalAddress
<1>8. OwnSlot /\ NoStaleAddress
  BY <1>7 DEF OwnSlot, NoStaleAddress
<1> QED
  BY <1>5, <1>6, <1>8 DEF LifeInv

(* The board of a probe or a remove is a board.                            *)
LEMMA HasBoard ==
  LifeInv /\ pc \notin {"unloaded", "init", "failed", "idle"}
    => board \in Boards
BY DEF LifeInv, TypeOK, Phases

(* Every step keeps the types.                                             *)
LEMMA LifeTypeStep == LifeInv /\ [Next]_vars => TypeOK'
<1> SUFFICES ASSUME LifeInv, [Next]_vars PROVE TypeOK'
  OBVIOUS
<1> DEFINE Life == /\ pc' \in Pcs
                   /\ board' \in Boards \cup {NoBoard}
                   /\ memmory_base' \in Boards \cup {NoBoard}
                   /\ procEntry' \in BOOLEAN /\ reader' \in Nat \cup {Lost}
                   /\ others' \in SUBSET Boards /\ hosts' \in SUBSET Boards
           Parts == TableTypes' /\ InfoTypes' /\ IrqTypes' /\ PhysTypes'
<1>0. TableTypes /\ InfoTypes /\ IrqTypes /\ PhysTypes /\ TypeOK
  BY DEF LifeInv, TypeOK
<1>p. UNCHANGED dev_phys_addresses => PhysTypes'
  BY <1>0 DEF PhysTypes
<1> USE DEF Goto, At, Pcs, Removing
<1>1. CASE UNCHANGED vars
  BY <1>0, <1>1 DEF vars, lifeVars, TypeOK, tableVars, infoVars, irqVars,
                    TableTypes, InfoTypes, IrqTypes, PhysTypes
<1>2. CASE Load
  <2>1. Parts
    BY <1>0, <1>p, <1>2, TableKeeps, InfoKeeps, IrqKeeps DEF Load
  <2>2. Life
    BY <1>0, <1>2 DEF Load, TypeOK
  <2> QED
    BY <2>1, <2>2 DEF TypeOK
<1>3. CASE LoadStructure
  <2>1. Parts
    BY <1>0, <1>p, <1>3, TableKeeps, InfoKeeps, IrqKeeps DEF LoadStructure
  <2>2. Life
    BY <1>0, <1>3 DEF LoadStructure, TypeOK
  <2> QED
    BY <2>1, <2>2 DEF TypeOK
<1>4. CASE LoadFails
  <2>1. Parts
    BY <1>0, <1>p, <1>4, TableKeeps, InfoKeeps, IrqKeeps DEF LoadFails
  <2>2. Life
    BY <1>0, <1>4 DEF LoadFails, TypeOK
  <2> QED
    BY <2>1, <2>2 DEF TypeOK
<1>5. CASE Unload
  <2>1. Parts
    BY <1>0, <1>p, <1>5, TableKeeps, InfoKeeps, IrqKeeps DEF Unload
  <2>2. Life
    BY <1>0, <1>5 DEF Unload, TypeOK
  <2> QED
    BY <2>1, <2>2 DEF TypeOK
<1>6. ASSUME NEW b \in Boards, ProbeBegin(b) PROVE TypeOK'
  <2>1. Parts
    BY <1>0, <1>6, TableKeeps, InfoKeeps, IrqKeeps, AddressesEntered
       DEF ProbeBegin
  <2>2. Life
    BY <1>0, <1>6 DEF ProbeBegin, TypeOK
  <2> QED
    BY <2>1, <2>2 DEF TypeOK
<1>7. CASE ProbeStep
  <2>1. board \in Boards
    BY <1>7, HasBoard DEF ProbeStep, ProbeInfo, ProbeList, ProbeWalk,
                          ProbePublish
  <2>2. Parts
    <3>1. CASE ProbeInfo
      BY <1>0, <1>p, <2>1, <3>1, TableKeeps, InfoKeeps, IrqKeeps
         DEF ProbeInfo
    <3>2. CASE ProbeList
      BY <1>0, <1>p, <2>1, <3>2, TableKeeps, InfoKeeps, IrqKeeps
         DEF ProbeList
    <3>3. CASE ProbeWalk
      BY <1>0, <1>p, <2>1, <3>3, TableKeeps, InfoKeeps, IrqKeeps
         DEF ProbeWalk
    <3>4. CASE ProbePublish
      BY <1>0, <1>p, <2>1, <3>4, TableKeeps, InfoKeeps, IrqKeeps
         DEF ProbePublish
    <3> QED
      BY <1>7, <3>1, <3>2, <3>3, <3>4 DEF ProbeStep
  <2>3. Life
    <3>1. CASE ProbePublish
      <4>1. procEntry' \in BOOLEAN
        BY <3>1, Zenon DEF ProbePublish
      <4> QED
        BY <1>0, <3>1, <4>1 DEF ProbePublish, TypeOK
    <3> QED
      BY <1>0, <1>7, <2>1, <3>1
         DEF ProbeStep, ProbeInfo, ProbeList, ProbeWalk, lifeVars, TypeOK
  <2> QED
    BY <2>2, <2>3 DEF TypeOK
<1>8. ASSUME NEW n \in Vectors, SetupInterrupt(n) PROVE TypeOK'
  <2>1. board \in Boards
    BY <1>8, HasBoard DEF SetupInterrupt
  <2>2. Parts
    BY <1>0, <1>p, <1>8, <2>1, TableKeeps, InfoKeeps, IrqKeeps
       DEF SetupInterrupt
  <2>3. Life
    BY <1>0, <1>8 DEF SetupInterrupt, TypeOK, lifeVars
  <2> QED
    BY <2>2, <2>3 DEF TypeOK
<1>9. CASE RemoveInfo \/ RemoveInterrupts \/ RemoveAddresses \/ RemoveUnmap
             \/ RemoveUnpublish
  <2> USE DEF RemoveInfo, RemoveInterrupts, RemoveAddresses, RemoveUnmap,
              RemoveUnpublish
  <2>1. board \in Boards
    BY <1>9, HasBoard
  <2>2. Parts
    BY <1>0, <1>p, <1>9, <2>1, TableKeeps, InfoKeeps, IrqKeeps,
       AddressesCleared
  <2>3. Life
    <3>1. procEntry' \in BOOLEAN
      <4>1. CASE RemoveUnpublish
        BY <4>1, Zenon
      <4> QED
        BY <1>0, <1>9, <4>1 DEF TypeOK
    <3> QED
      BY <1>0, <1>9, <3>1 DEF TypeOK
  <2> QED
    BY <2>2, <2>3 DEF TypeOK
<1>10. CASE ProcShow \/ ProcNext
  <2>1. Parts
    BY <1>0, <1>p, <1>10, TableKeeps, InfoKeeps, IrqKeeps
       DEF ProcShow, ProcNext
  <2>2. Life
    BY <1>0, <1>10 DEF ProcShow, ProcNext, TypeOK
  <2> QED
    BY <2>1, <2>2 DEF TypeOK
<1>11. ASSUME NEW b \in Elsewhere, OtherProbe(b) \/ OtherRemove(b)
       PROVE  TypeOK'
  <2>1. b \in Boards
    OBVIOUS
  <2>2. Parts
    BY <1>0, <1>11, <2>1, TableKeeps, InfoKeeps, IrqKeeps, AddressesEntered,
       AddressesCleared DEF OtherProbe, OtherRemove
  <2>3. Life
    BY <1>0, <1>11, <2>1 DEF OtherProbe, OtherRemove, TypeOK
  <2> QED
    BY <2>2, <2>3 DEF TypeOK
<1> QED
  BY <1>1, <1>2, <1>3, <1>4, <1>5, <1>6, <1>7, <1>8, <1>9, <1>10, <1>11
     DEF Next
-----------------------------------------------------------------------------
(* Every step keeps position and board in line.                            *)
LEMMA PhaseStep == LifeInv /\ [Next]_vars => Phases'
<1> SUFFICES ASSUME LifeInv, [Next]_vars PROVE Phases'
  OBVIOUS
<1>0. Phases /\ pc \in Pcs
  BY DEF LifeInv, TypeOK
<1> USE <1>0 DEF Phases, Pcs, Removing, At, Goto
<1>1. CASE UNCHANGED vars
  BY <1>1 DEF vars, lifeVars
<1>2. CASE Load \/ LoadStructure \/ LoadFails \/ Unload
  BY <1>2 DEF Load, LoadStructure, LoadFails, Unload
<1>3. ASSUME NEW b \in Boards, ProbeBegin(b) PROVE Phases'
  BY <1>3 DEF ProbeBegin
<1>4. CASE ProbeStep
  BY <1>4 DEF ProbeStep, ProbeInfo, ProbeList, ProbeWalk, ProbePublish,
              lifeVars
<1>5. ASSUME NEW n \in Vectors, SetupInterrupt(n) PROVE Phases'
  BY <1>5 DEF SetupInterrupt, lifeVars
<1>6. CASE RemoveInfo \/ RemoveInterrupts \/ RemoveAddresses \/ RemoveUnmap
             \/ RemoveUnpublish
  BY <1>6 DEF RemoveInfo, RemoveInterrupts, RemoveAddresses, RemoveUnmap,
              RemoveUnpublish
<1>7. CASE ProcShow \/ ProcNext
  BY <1>7 DEF ProcShow, ProcNext
<1>8. ASSUME NEW b \in Elsewhere, OtherProbe(b) \/ OtherRemove(b)
      PROVE  Phases'
  BY <1>8 DEF OtherProbe, OtherRemove
<1> QED
  BY <1>1, <1>2, <1>3, <1>4, <1>5, <1>6, <1>7, <1>8 DEF Next

(* Every step keeps the table in line with the position.                   *)
LEMMA TableStep == LifeInv /\ [Next]_vars => Structures' /\ TableIsConsistent'
<1> SUFFICES ASSUME LifeInv, [Next]_vars
             PROVE  Structures' /\ TableIsConsistent'
  OBVIOUS
<1>0. Structures /\ TableIsConsistent /\ TableTypes /\ pc \in Pcs
  BY DEF LifeInv, TypeOK
<1> USE <1>0 DEF Structures, TableIsConsistent, TableTypes, Pcs, Removing,
                 At, Goto
<1>1. ASSUME UNCHANGED tableVars,
             pc' = pc \/ {pc, pc'} \cap {"unloaded", "init", "failed"} = {}
      PROVE  Structures' /\ TableIsConsistent'
  BY <1>1 DEF tableVars
<1>2. CASE UNCHANGED vars
  BY <1>1, <1>2 DEF vars, lifeVars
<1>3. CASE Load
  BY <1>3 DEF Load, InitTable
<1>4. CASE LoadStructure
  <2>1. PICK i \in Devs :
          InitStructure(i) /\ Goto(IF i = PCIEDEV_NR_DEVS THEN "idle" ELSE "init")
    BY <1>4 DEF LoadStructure
  <2>2. allocated' = 0 .. i
    BY <2>1 DEF InitStructure, Current, Devs
  <2>3. CASE i = PCIEDEV_NR_DEVS
    BY <1>4, <2>1, <2>2, <2>3 DEF LoadStructure, InitStructure, Devs
  <2>4. CASE i # PCIEDEV_NR_DEVS
    BY <1>4, <2>1, <2>2, <2>4 DEF LoadStructure, InitStructure, Devs
  <2> QED
    BY <2>3, <2>4
<1>5. CASE LoadFails
  <2>1. PICK i \in Devs : \/ InitCdevFails(i) /\ Goto("failed")
                          \/ InitNoMemory(i) /\ Goto("unloaded")
    BY <1>5 DEF LoadFails
  <2> QED
    BY <1>5, <2>1 DEF LoadFails, InitCdevFails, InitNoMemory
<1>6. CASE Unload
  BY <1>6 DEF Unload, Cleanup
<1>7. ASSUME NEW b \in Boards, ProbeBegin(b)
      PROVE  Structures' /\ TableIsConsistent'
  BY <1>1, <1>7 DEF ProbeBegin
<1>8. CASE ProbeStep
  BY <1>1, <1>8 DEF ProbeStep, ProbeInfo, ProbeList, ProbeWalk, ProbePublish,
                    lifeVars
<1>9. ASSUME NEW n \in Vectors, SetupInterrupt(n)
      PROVE  Structures' /\ TableIsConsistent'
  BY <1>1, <1>9 DEF SetupInterrupt, lifeVars
<1>10. CASE RemoveInfo \/ RemoveInterrupts \/ RemoveAddresses \/ RemoveUnmap
              \/ RemoveUnpublish
  BY <1>1, <1>10 DEF RemoveInfo, RemoveInterrupts, RemoveAddresses,
                     RemoveUnmap, RemoveUnpublish
<1>11. CASE ProcShow \/ ProcNext
  BY <1>1, <1>11 DEF ProcShow, ProcNext
<1>12. ASSUME NEW b \in Elsewhere, OtherProbe(b) \/ OtherRemove(b)
       PROVE  Structures' /\ TableIsConsistent'
  BY <1>1, <1>12 DEF OtherProbe, OtherRemove
<1> QED
  BY <1>2, <1>3, <1>4, <1>5, <1>6, <1>7, <1>8, <1>9, <1>10, <1>11, <1>12
     DEF Next

(* Every step keeps the handlers within remove's reach.                    *)
LEMMA HandlerStep == LifeInv /\ [Next]_vars => WillBeFreed'
<1> SUFFICES ASSUME LifeInv, [Next]_vars PROVE WillBeFreed'
  OBVIOUS
<1>0. WillBeFreed /\ Phases /\ IrqTypes
  BY DEF LifeInv, TypeOK
<1> USE <1>0 DEF WillBeFreed, Phases, At, Goto
<1>1. ASSUME UNCHANGED <<irqVars, board>>,
             pc' = pc \/ pc \notin {"bound", "free"}
                \/ {pc, pc'} \subseteq {"bound", "free"}
      PROVE  WillBeFreed'
  BY <1>1 DEF irqVars
<1>2. CASE UNCHANGED vars
  BY <1>1, <1>2 DEF vars, lifeVars
<1>3. CASE Load \/ LoadStructure \/ LoadFails
  BY <1>1, <1>3 DEF Load, LoadStructure, LoadFails
<1>4. CASE Unload
  BY <1>4 DEF Unload, IrqFresh
<1>5. ASSUME NEW b \in Boards, ProbeBegin(b) PROVE WillBeFreed'
  BY <1>5 DEF ProbeBegin, ResetInterrupts
<1>6. CASE ProbeInfo \/ ProbeList \/ ProbeWalk
  BY <1>1, <1>6 DEF ProbeInfo, ProbeList, ProbeWalk, lifeVars
<1>7. CASE ProbePublish
  BY <1>7 DEF ProbePublish, PrepareInterrupts
<1>8. ASSUME NEW n \in Vectors, SetupInterrupt(n) PROVE WillBeFreed'
  <2>0. At("bound") /\ UNCHANGED <<pc, board>> /\ board # NoBoard
    BY <1>8 DEF SetupInterrupt, lifeVars
  <2>1. CASE SetupGranted(board, n)
    <3>1. \A h \in registered : h[1] \in refused \/
            (h[1] = board /\ h[2] \in enbl_irq_num)
      OBVIOUS
    <3>2. /\ registered' = registered \cup {<<board, n>>}
          /\ enbl_irq_num' = enbl_irq_num \cup {n} /\ irq_mode' = TRUE
          /\ UNCHANGED <<msi, msiEnabled, refused>>
      BY <2>1 DEF SetupGranted
    <3> QED
      BY <2>0, <3>1, <3>2
  <2>2. CASE SetupRefused(board, n)
    <3>1. \A h \in registered : h \in Boards \X Vectors /\ h = <<h[1], h[2]>>
      BY DEF IrqTypes
    <3>2. /\ UNCHANGED <<registered, msi, msiEnabled>>
          /\ refused' = IF \E k \in Vectors : <<board, k>> \in registered
                        THEN refused \cup {board} ELSE refused
      BY <2>2 DEF SetupRefused
    <3>3. \A h \in registered : h[1] \in refused'
      BY <3>1, <3>2
    <3> QED
      BY <2>0, <3>2, <3>3
  <2> QED
    BY <1>8, <2>1, <2>2 DEF SetupInterrupt
<1>9. CASE RemoveInfo \/ RemoveAddresses \/ RemoveUnmap
  BY <1>1, <1>9 DEF RemoveInfo, RemoveAddresses, RemoveUnmap
<1>10. CASE RemoveInterrupts
  <2>1. \A h \in registered : h = <<h[1], h[2]>>
    BY DEF IrqTypes
  <2>2. \A h \in registered' : h[1] \in refused
    BY <1>10, <2>1 DEF RemoveInterrupts, FreeInterrupts
  <2>3. msiEnabled' = {} /\ UNCHANGED refused
    BY <1>10 DEF RemoveInterrupts, FreeInterrupts
  <2> QED
    BY <2>2, <2>3
<1>11. CASE RemoveUnpublish
  BY <1>11 DEF RemoveUnpublish, irqVars
<1>12. CASE ProcShow \/ ProcNext
  BY <1>1, <1>12 DEF ProcShow, ProcNext
<1>13. ASSUME NEW b \in Elsewhere, OtherProbe(b) \/ OtherRemove(b)
       PROVE  WillBeFreed'
  BY <1>1, <1>13 DEF OtherProbe, OtherRemove
<1> QED
  BY <1>2, <1>3, <1>4, <1>5, <1>6, <1>7, <1>8, <1>9, <1>10, <1>11, <1>12,
     <1>13 DEF Next, ProbeStep

-----------------------------------------------------------------------------
(* Every step keeps the shared table free of removed boards.               *)
LEMMA AddressStep == LifeInv /\ [Next]_vars => OwnSlot' /\ NoStaleAddress'
<1> SUFFICES ASSUME LifeInv, [Next]_vars PROVE OwnSlot' /\ NoStaleAddress'
  OBVIOUS
<1>0. /\ OwnSlot /\ NoStaleAddress /\ Phases /\ PhysTypes
      /\ board \in Boards \cup {NoBoard} /\ others \subseteq Boards
  BY DEF LifeInv, TypeOK
<1> DEFINE Good == OwnSlot' /\ NoStaleAddress'
<1>1. ASSUME UNCHANGED dev_phys_addresses, Present \subseteq Present'
      PROVE  Good
  <2>1. \A s \in Slots, i \in Bars :
          PhysicalAddress(s, i)' = PhysicalAddress(s, i)
    BY <1>1 DEF PhysicalAddress
  <2> QED
    BY <1>0, <1>1, <2>1 DEF OwnSlot, NoStaleAddress
<1>2. ASSUME NEW b \in Boards, EnterAddresses(b), b \in Present',
             Present \subseteq Present'
      PROVE  Good
  <2>1. /\ \A s \in Slots : s # Chip[b].slot =>
             dev_phys_addresses'[s] = dev_phys_addresses[s]
        /\ \A i \in Bars : PhysicalAddress(Chip[b].slot, i)' \in
                             {b, PhysicalAddress(Chip[b].slot, i)}
    BY <1>0, <1>2, AddressesEntered
  <2>2. \A s \in Slots, i \in Bars :
          \/ PhysicalAddress(s, i)' = PhysicalAddress(s, i)
          \/ PhysicalAddress(s, i)' = b /\ s = Chip[b].slot
    BY <2>1 DEF PhysicalAddress
  <2>3. OwnSlot'
    BY <1>0, <2>2 DEF OwnSlot
  <2>4. \A s \in Slots, i \in Bars :
          PhysicalAddress(s, i)' \in Present' \cup {NoBoard}
    BY <1>0, <1>2, <2>2 DEF NoStaleAddress
  <2>5. \A s \in Slots : dev_phys_addresses'[s].dev_stst =>
          \E c \in Present' : Chip[c].slot = s
    BY <1>0, <1>2, <2>1 DEF NoStaleAddress
  <2> QED
    BY <2>3, <2>4, <2>5 DEF NoStaleAddress
<1>3. ASSUME NEW b \in Boards, ClearAddresses(b), Present \subseteq Present' \cup {b}
      PROVE  Good
  <2>1. /\ \A s \in Slots : s # Chip[b].slot =>
             dev_phys_addresses'[s] = dev_phys_addresses[s]
        /\ \A i \in Bars : PhysicalAddress(Chip[b].slot, i)' = NoBoard
        /\ dev_phys_addresses'[Chip[b].slot].dev_stst = FALSE
    BY <1>0, <1>3, AddressesCleared
  <2>2. \A s \in Slots, i \in Bars :
          \/ PhysicalAddress(s, i)' = NoBoard
          \/ /\ PhysicalAddress(s, i)' = PhysicalAddress(s, i)
             /\ s # Chip[b].slot
    BY <2>1 DEF PhysicalAddress
  <2>3. OwnSlot'
    BY <1>0, <2>2 DEF OwnSlot
  <2>4. \A s \in Slots, i \in Bars :
          PhysicalAddress(s, i)' \in Present' \cup {NoBoard}
    BY <1>0, <1>3, <2>2 DEF NoStaleAddress, OwnSlot
  <2>5. \A s \in Slots : dev_phys_addresses'[s].dev_stst =>
          \E c \in Present' : Chip[c].slot = s
    BY <1>0, <1>3, <2>1 DEF NoStaleAddress
  <2> QED
    BY <2>3, <2>4, <2>5 DEF NoStaleAddress
<1> USE <1>0 DEF Present, Phases, Removing, At, Goto
<1>4. CASE UNCHANGED vars
  BY <1>1, <1>4 DEF vars, lifeVars
<1>5. CASE Load \/ LoadStructure \/ LoadFails \/ Unload
  BY <1>1, <1>5 DEF Load, LoadStructure, LoadFails, Unload
<1>6. ASSUME NEW b \in Boards, ProbeBegin(b) PROVE Good
  <2>1. b \in Present' /\ Present \subseteq Present' /\ EnterAddresses(b)
    BY <1>6 DEF ProbeBegin
  <2> QED
    BY <1>2, <2>1
<1>7. CASE ProbeStep
  BY <1>1, <1>7 DEF ProbeStep, ProbeInfo, ProbeList, ProbeWalk, ProbePublish,
                    lifeVars
<1>8. ASSUME NEW n \in Vectors, SetupInterrupt(n) PROVE Good
  BY <1>1, <1>8 DEF SetupInterrupt, lifeVars
<1>9. CASE RemoveInfo \/ RemoveInterrupts \/ RemoveUnmap \/ RemoveUnpublish
  BY <1>1, <1>9 DEF RemoveInfo, RemoveInterrupts, RemoveUnmap,
                    RemoveUnpublish
<1>10. CASE RemoveAddresses
  <2>1. /\ board \in Boards /\ ClearAddresses(board)
        /\ Present \subseteq Present' \cup {board}
    BY <1>10 DEF RemoveAddresses
  <2> QED
    BY <1>3, <2>1
<1>11. CASE ProcShow \/ ProcNext
  BY <1>1, <1>11 DEF ProcShow, ProcNext
<1>12. ASSUME NEW b \in Elsewhere, OtherProbe(b) PROVE Good
  <2>1. /\ b \in Boards /\ b \in Present' /\ Present \subseteq Present'
        /\ EnterAddresses(b)
    BY <1>12 DEF OtherProbe
  <2> QED
    BY <1>2, <2>1
<1>13. ASSUME NEW b \in Elsewhere, OtherRemove(b) PROVE Good
  <2>1. /\ b \in Boards /\ Present \subseteq Present' \cup {b}
        /\ ClearAddresses(b)
    BY <1>13 DEF OtherRemove
  <2> QED
    BY <1>3, <2>1
<1> QED
  BY <1>4, <1>5, <1>6, <1>7, <1>8, <1>9, <1>10, <1>11, <1>12, <1>13 DEF Next

-----------------------------------------------------------------------------
(* The inductive invariant holds throughout.                               *)
THEOREM LifeSafety == Spec => []LifeInv
<1>1. LifeInv /\ [Next]_vars => LifeInv'
  BY LifeTypeStep, PhaseStep, TableStep, HandlerStep, AddressStep
     DEF LifeInv
<1> QED
  BY LifeInitial, <1>1, PTL DEF Spec

(***************************************************************************)
(* The walks of pciedev_get_prjinfo and pciedev_get_shapi_module_info read *)
(* a board at its descriptions' places only, and every other variable has  *)
(* its type.                                                               *)
(***************************************************************************)
THEOREM LifeTypes == Spec => []TypeOK
<1>1. LifeInv => TypeOK
  BY DEF LifeInv
<1> QED
  BY <1>1, LifeSafety, PTL

(***************************************************************************)
(* Loading, failing in cdev_add and unloading leave no cdev without its    *)
(* structure, for any number of structures, as long as no init has run out *)
(* of memory.                                                              *)
(***************************************************************************)
THEOREM TableStaysConsistent == Spec => []TableIsConsistent
<1>1. LifeInv => TableIsConsistent
  BY DEF LifeInv
<1> QED
  BY <1>1, LifeSafety, PTL

(***************************************************************************)
(* No handler that remove can find outlives its board, for any number of   *)
(* interrupts granted and refused.                                         *)
(***************************************************************************)
THEOREM HandlersAreFreed == Spec => []HandlersHaveBoard
<1>1. LifeInv => HandlersHaveBoard
  <2> SUFFICES ASSUME LifeInv PROVE HandlersHaveBoard
    OBVIOUS
  <2>1. pc \in {"bound", "free"} => memmory_base = board /\ 0 \in allocated
    BY DEF LifeInv, Phases, Structures, Devs
  <2> QED
    BY <2>1 DEF LifeInv, WillBeFreed, HandlersHaveBoard
<1> QED
  BY <1>1, LifeSafety, PTL

(***************************************************************************)
(* The table of addresses leads to no removed board, for any number of     *)
(* boards that report the same or different slots.                         *)
(***************************************************************************)
THEOREM AddressesAreCurrent == Spec => []NoStaleAddress
<1>1. LifeInv => NoStaleAddress
  BY DEF LifeInv
<1> QED
  BY <1>1, LifeSafety, PTL
=============================================================================
