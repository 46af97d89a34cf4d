----------------------------- MODULE BoardInfo -----------------------------
(***************************************************************************)
(* What a device structure knows of its board: pciedev_get_brdinfo, the    *)
(* walks over the project descriptions of a DESY board and the module      *)
(* descriptions of a SHAPI board, and the lists they fill, newest first.   *)
(* A description is represented by its board and its place there.          *)
(***************************************************************************)
EXTENDS Chips, Sequences

VARIABLES
  startup_brd, shapi_brd,
  brd_info_list,      \* board whose identification was copied, DESY
  device_info_list,   \* the same, SHAPI
  PCIEDEV_PROJ_NEXT, SHAPI_FIRST_MODULE_ADDRESS,
  startup_prj_num, shapi_module_num,
  prj_info_list, module_info_list,
  place               \* where the walk is, or Nowhere

infoVars ==
  <<startup_brd, shapi_brd, brd_info_list, device_info_list,
    PCIEDEV_PROJ_NEXT, SHAPI_FIRST_MODULE_ADDRESS,
    startup_prj_num, shapi_module_num, prj_info_list, module_info_list, place>>

Nowhere == <<NUMBER_OF_BARS, 0>>

PrjInfo    == [board : Boards, place : Places]
ModuleInfo == [board : Boards, place : Places, module_num : Nat]

InfoTypes ==
  /\ startup_brd \in BOOLEAN /\ shapi_brd \in BOOLEAN
  /\ brd_info_list \in Boards \cup {NoBoard}
  /\ device_info_list \in Boards \cup {NoBoard}
  /\ PCIEDEV_PROJ_NEXT \in Offsets \cup {0}
  /\ SHAPI_FIRST_MODULE_ADDRESS \in Offsets \cup {0}
  /\ startup_prj_num \in Nat /\ shapi_module_num \in Nat
  /\ prj_info_list \in Seq(PrjInfo)
  /\ module_info_list \in Seq(ModuleInfo)
  /\ place \in Places \cup {Nowhere}

\* The fields of a structure that was just allocated.
InfoInit ==
  /\ startup_brd = FALSE /\ shapi_brd = FALSE
  /\ brd_info_list = NoBoard /\ device_info_list = NoBoard
  /\ PCIEDEV_PROJ_NEXT = 0 /\ SHAPI_FIRST_MODULE_ADDRESS = 0
  /\ startup_prj_num = 0 /\ shapi_module_num = 0
  /\ prj_info_list = <<>> /\ module_info_list = <<>>
  /\ place = Nowhere

InfoFresh ==
  /\ startup_brd' = FALSE /\ shapi_brd' = FALSE
  /\ brd_info_list' = NoBoard /\ device_info_list' = NoBoard
  /\ PCIEDEV_PROJ_NEXT' = 0 /\ SHAPI_FIRST_MODULE_ADDRESS' = 0
  /\ startup_prj_num' = 0 /\ shapi_module_num' = 0
  /\ prj_info_list' = <<>> /\ module_info_list' = <<>>
  /\ place' = Nowhere

-----------------------------------------------------------------------------
Kind(b) == IF 0 \in Chip[b].bars THEN Chip[b].kind ELSE "other"

\* pciedev_get_brdinfo: what it does not read it leaves as it was.  The
\* scratch register it sets for a SHAPI board is in RegAccess.
GetBrdinfo(b) ==
  /\ startup_brd' = (Kind(b) = "desy")
  /\ shapi_brd' = (Kind(b) = "shapi")
  /\ shapi_module_num' =
       IF Kind(b) = "shapi" /\ Chip[b].first # 0 THEN 1 ELSE 0
  /\ IF Kind(b) = "desy"
       THEN brd_info_list' = b /\ PCIEDEV_PROJ_NEXT' = Chip[b].first
       ELSE UNCHANGED <<brd_info_list, PCIEDEV_PROJ_NEXT>>
  /\ IF Kind(b) = "shapi"
       THEN device_info_list' = b /\ SHAPI_FIRST_MODULE_ADDRESS' = Chip[b].first
       ELSE UNCHANGED <<device_info_list, SHAPI_FIRST_MODULE_ADDRESS>>
  /\ UNCHANGED <<startup_prj_num, prj_info_list, module_info_list, place>>

\* The start of the first mapped BAR from i on.
BarFrom(b, i) ==
  IF \E k \in Chip[b].bars : k >= i
  THEN <<CHOOSE k \in Chip[b].bars :
           k >= i /\ \A m \in Chip[b].bars : m >= i => k <= m, 0>>
  ELSE Nowhere

\* Where a walk begins: the chain in BAR 0, or the other BARs.
WalkFrom(b, offset) == IF offset # 0 THEN <<0, offset>> ELSE BarFrom(b, 1)

\* Mutants: the pointer is used whether there is a description or not; the
\* place is not left when there is none; the BAR is not left.
WalkOnUnchecked(b) ==
  LET next == Chip[b].next[place]
  IN IF place[1] = 0
       THEN IF next # 0 THEN <<0, next>> ELSE Nowhere
       ELSE IF next # 0 THEN place ELSE BarFrom(b, place[1] + 1)

WalkOnNeverEnds(b) ==
  LET next == IF HasMagic(b, place) THEN Chip[b].next[place] ELSE place[2]
  IN IF place[1] = 0
       THEN IF next # 0 THEN <<0, next>> ELSE Nowhere
       ELSE IF next # 0 THEN place ELSE BarFrom(b, place[1] + 1)

WalkOnSameBar(b) ==
  LET next == IF HasMagic(b, place) THEN Chip[b].next[place] ELSE 0
  IN IF place[1] = 0
       THEN IF next # 0 THEN <<0, next>> ELSE Nowhere
       ELSE IF next # 0 THEN place ELSE BarFrom(b, place[1])

\* Where it goes on.  In BAR 0 the pointer is followed; another BAR is read
\* from its start again, until its pointer is zero.
WalkOn(b) ==
  LET next == IF HasMagic(b, place) THEN Chip[b].next[place] ELSE 0
  IN IF place[1] = 0
       THEN IF next # 0 THEN <<0, next>> ELSE Nowhere
       ELSE IF next # 0 THEN place ELSE BarFrom(b, place[1] + 1)

\* pciedev_get_prjinfo up to its loops.
GetPrjinfo(b) ==
  /\ startup_prj_num' = 0
  /\ place' = WalkFrom(b, PCIEDEV_PROJ_NEXT)
  /\ UNCHANGED <<startup_brd, shapi_brd, brd_info_list, device_info_list,
                 PCIEDEV_PROJ_NEXT, SHAPI_FIRST_MODULE_ADDRESS,
                 shapi_module_num, prj_info_list, module_info_list>>

\* pciedev_fill_prj_info, and the loop that calls it.
FillPrjInfo(b) ==
  /\ IF HasMagic(b, place)
       THEN /\ startup_prj_num' = startup_prj_num + 1
            /\ PCIEDEV_PROJ_NEXT' = 0
            /\ prj_info_list' =
                 <<[board |-> b, place |-> place]>> \o prj_info_list
       ELSE UNCHANGED <<startup_prj_num, PCIEDEV_PROJ_NEXT, prj_info_list>>
  /\ place' = WalkOn(b)
  /\ UNCHANGED <<startup_brd, shapi_brd, brd_info_list, device_info_list,
                 SHAPI_FIRST_MODULE_ADDRESS, shapi_module_num,
                 module_info_list>>

\* Mutant: the count that get_brdinfo began is kept.
GetShapiModuleInfoKept(b) ==
  /\ place' = WalkFrom(b, SHAPI_FIRST_MODULE_ADDRESS)
  /\ UNCHANGED <<startup_brd, shapi_brd, brd_info_list, device_info_list,
                 PCIEDEV_PROJ_NEXT, SHAPI_FIRST_MODULE_ADDRESS,
                 startup_prj_num, shapi_module_num, prj_info_list,
                 module_info_list>>

\* pciedev_get_shapi_module_info up to its loops.
GetShapiModuleInfo(b) ==
  /\ shapi_module_num' = 0
  /\ place' = WalkFrom(b, SHAPI_FIRST_MODULE_ADDRESS)
  /\ UNCHANGED <<startup_brd, shapi_brd, brd_info_list, device_info_list,
                 PCIEDEV_PROJ_NEXT, SHAPI_FIRST_MODULE_ADDRESS,
                 startup_prj_num, prj_info_list, module_info_list>>

\* pciedev_fill_shapi_module__info, and the loop that calls it.
FillShapiModuleInfo(b) ==
  /\ IF HasMagic(b, place)
       THEN /\ shapi_module_num' = shapi_module_num + 1
            /\ module_info_list' =
                 <<[board |-> b, place |-> place,
                    module_num |-> shapi_module_num + 1]>> \o module_info_list
       ELSE UNCHANGED <<shapi_module_num, module_info_list>>
  /\ place' = WalkOn(b)
  /\ UNCHANGED <<startup_brd, shapi_brd, brd_info_list, device_info_list,
                 PCIEDEV_PROJ_NEXT, SHAPI_FIRST_MODULE_ADDRESS,
                 startup_prj_num, prj_info_list>>

\* Mutant: remove leaves the projects on their list.
KeepPrjInfo == UNCHANGED infoVars

\* Remove frees the projects; it does not touch the modules.
FreePrjInfo ==
  /\ prj_info_list' = <<>>
  /\ UNCHANGED <<startup_brd, shapi_brd, brd_info_list, device_info_list,
                 PCIEDEV_PROJ_NEXT, SHAPI_FIRST_MODULE_ADDRESS,
                 startup_prj_num, shapi_module_num, module_info_list, place>>

\* PCIEDEV_GET_SHAPI_MODINFO: the last entry with the number wins, and there
\* may be none.
Matches(n) ==
  {k \in 1 .. Len(module_info_list) : module_info_list[k].module_num = n}

ModInfo(n) ==
  module_info_list[CHOOSE k \in Matches(n) : \A m \in Matches(n) : m <= k]

-----------------------------------------------------------------------------
(***************************************************************************)
(* The places of the descriptions in list (newest first) are exactly those *)
(* that board b has, in the order of its pointers or of its BARs.          *)
(***************************************************************************)
IsChain(b, places) ==
  /\ \A k \in DOMAIN places : HasMagic(b, places[k])
  /\ \A k \in DOMAIN places \ {1} :
       /\ Chip[b].next[places[k - 1]] # 0
       /\ places[k] = <<0, Chip[b].next[places[k - 1]]>>
  /\ IF places = <<>>
       THEN ~ HasMagic(b, <<0, Chip[b].first>>)
       ELSE /\ places[1] = <<0, Chip[b].first>>
            /\ LET last == Chip[b].next[places[Len(places)]]
               IN last = 0 \/ ~ HasMagic(b, <<0, last>>)

IsBarList(b, places) ==
  /\ {places[k] : k \in DOMAIN places} =
       {p \in (Chip[b].bars \ {0}) \X {0} : HasMagic(b, p)}
  /\ \A j, k \in DOMAIN places : j < k => places[j][1] < places[k][1]

Describes(b, places) ==
  IF Chip[b].first # 0 THEN IsChain(b, places) ELSE IsBarList(b, places)
=============================================================================
