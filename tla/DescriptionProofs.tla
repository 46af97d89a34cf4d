------------------------- MODULE DescriptionProofs -------------------------
(***************************************************************************)
(* Proofs about DriverLife: what a published board is shown with is its    *)
(* own, for any boards with any descriptions on them, well-formed or not,  *)
(* plugged in and out in any order.                                        *)
(***************************************************************************)
EXTENDS DriverLifeProofs

USE ChipAssumption, LifeAssumption

(***************************************************************************)
(* A ranking of the descriptions in BAR 0 of a well-formed board.  A walk  *)
(* over them is at a lower rank than anything it has read.                 *)
(***************************************************************************)
Ranks(b, rank) ==
  \A o, p \in Offsets : Chip[b].next[<<0, o>>] = p => rank[p] < rank[o]

Rank(b) ==
  CHOOSE rank \in [Offsets -> 0 .. Cardinality(Offsets)] : Ranks(b, rank)

Falls(b, ps, p) ==
  WellFormed(b) /\ p # Nowhere =>
    \A k \in 1 .. Len(ps) : Rank(b)[p[2]] < Rank(b)[ps[k][2]]

(***************************************************************************)
(* A walk in progress.  ps are the places of the descriptions read so far, *)
(* oldest first, and p is where the walk is.                               *)
(***************************************************************************)
ChainSoFar(b, ps, p) ==
  /\ \A k \in 1 .. Len(ps) : HasMagic(b, ps[k])
  /\ \A k \in 2 .. Len(ps) : /\ Chip[b].next[ps[k - 1]] # 0
                             /\ ps[k] = <<0, Chip[b].next[ps[k - 1]]>>
  /\ IF ps = <<>>
       THEN \/ p = <<0, Chip[b].first>>
            \/ p = Nowhere /\ ~ HasMagic(b, <<0, Chip[b].first>>)
       ELSE /\ ps[1] = <<0, Chip[b].first>>
            /\ LET last == Chip[b].next[ps[Len(ps)]]
               IN \/ last # 0 /\ p = <<0, last>>
                  \/ p = Nowhere /\ (last = 0 \/ ~ HasMagic(b, <<0, last>>))
  /\ Falls(b, ps, p)

BarPlaces(b) == (Chip[b].bars \ {0}) \X {0}
Described(b) == {q \in BarPlaces(b) : HasMagic(b, q)}

(***************************************************************************)
(* A description outside BAR 0 whose next pointer is not zero is read over *)
(* and over: the walk never gets past it.                                  *)
(***************************************************************************)
Loops(b, p) == p \in Described(b) /\ Chip[b].next[p] # 0

BarsSoFar(b, ps, p) ==
  /\ p \in BarPlaces(b) \cup {Nowhere}
  /\ \A k \in 1 .. Len(ps) :
       ps[k] \in Described(b) /\ ~ Loops(b, ps[k]) /\ ps[k][1] < p[1]
  /\ \A q \in Described(b) : q[1] < p[1] => \E k \in 1 .. Len(ps) : q = ps[k]
  /\ \A j, k \in 1 .. Len(ps) : j < k => ps[j][1] < ps[k][1]

Stuck(b, ps, p) == ps # <<>> /\ ps[Len(ps)] = p /\ Loops(b, p)

WalkSoFar(b, ps, p) ==
  IF Chip[b].first # 0 THEN ChainSoFar(b, ps, p)
                       ELSE BarsSoFar(b, ps, p) \/ Stuck(b, ps, p)

(***************************************************************************)
(* Which description of board b is its first one, and which one is read    *)
(* after the one at p.                                                     *)
(***************************************************************************)
IsFirst(b, q) ==
  IF Chip[b].first # 0
    THEN q = <<0, Chip[b].first>>
    ELSE q \in Described(b) /\ \A r \in Described(b) : q[1] <= r[1]

Follows(b, p, q) ==
  IF Chip[b].first # 0
    THEN q = <<0, Chip[b].next[p]>>
    ELSE IF Chip[b].next[p] # 0
         THEN q = p
         ELSE /\ q \in Described(b) /\ p[1] < q[1]
              /\ \A r \in Described(b) : p[1] < r[1] => q[1] <= r[1]

(***************************************************************************)
(* The module list is a pile of walks, the newest on top: every entry is   *)
(* the first of its board or lies on the entry that was read before it.    *)
(* So entries of one board with one number have one place.                 *)
(***************************************************************************)
Linked(list) ==
  \A j \in 1 .. Len(list) :
    LET e == list[j] IN
    /\ e.module_num >= 1
    /\ e.module_num = 1 => IsFirst(e.board, e.place)
    /\ e.module_num > 1 =>
         /\ j < Len(list)
         /\ list[j + 1].board = e.board
         /\ list[j + 1].module_num = e.module_num - 1
         /\ Follows(e.board, list[j + 1].place, e.place)

SamePlace(list) ==
  \A j, k \in 1 .. Len(list) :
    /\ list[j].board = list[k].board
    /\ list[j].module_num = list[k].module_num
    => list[j].place = list[k].place

(***************************************************************************)
(* What pciedev_get_brdinfo found out is true of the board.                *)
(***************************************************************************)
Identified ==
  pc \in {"list", "walk", "bound"} =>
    /\ startup_brd <=> Kind(board) = "desy"
    /\ shapi_brd <=> Kind(board) = "shapi"
    /\ startup_brd => /\ brd_info_list = board
                      /\ pc = "list" => PCIEDEV_PROJ_NEXT = Chip[board].first
    /\ shapi_brd =>
         /\ device_info_list = board
         /\ pc = "list" => SHAPI_FIRST_MODULE_ADDRESS = Chip[board].first

(***************************************************************************)
(* The project list: empty but for the DESY board that is being probed or  *)
(* is published.                                                           *)
(***************************************************************************)
ProjectsSoFar ==
  IF pc \in {"walk", "bound"} /\ startup_brd
    THEN /\ startup_prj_num = Len(prj_info_list)
         /\ \A k \in 1 .. Len(prj_info_list) : prj_info_list[k].board = board
         /\ WalkSoFar(board, PlacesOf(prj_info_list, Len(prj_info_list)),
                      place)
    ELSE prj_info_list = <<>>

(***************************************************************************)
(* The module list: the newest entries are those of the current SHAPI      *)
(* board, numbered from one; below them are those of earlier walks.        *)
(***************************************************************************)
ModulesSoFar ==
  /\ \A k \in 1 .. Len(module_info_list) : module_info_list[k].board \in hosts
  /\ Linked(module_info_list)
  /\ SamePlace(module_info_list)
  /\ pc \in {"walk", "bound"} /\ shapi_brd =>
       /\ board \in hosts
       /\ shapi_module_num <= Len(module_info_list)
       /\ \A k \in 1 .. shapi_module_num :
            /\ module_info_list[k].board = board
            /\ module_info_list[k].module_num = shapi_module_num - k + 1
       /\ WalkSoFar(board, PlacesOf(module_info_list, shapi_module_num), place)

DescriptionInv ==
  /\ Identified
  /\ ProjectsSoFar
  /\ ModulesSoFar
  /\ pc = "bound" => place = Nowhere
-----------------------------------------------------------------------------
(* Walks.                                                                  *)

\* The first mapped BAR from i on is not before i, and there is none between.
LEMMA BarFromLeast ==
  ASSUME NEW b \in Boards, NEW i \in 1 .. NUMBER_OF_BARS
  PROVE  LET p == BarFrom(b, i) IN
         /\ p \in BarPlaces(b) \cup {Nowhere}
         /\ p[1] \in Nat /\ p[1] >= i
         /\ \A q \in BarPlaces(b) : q[1] >= i => p[1] <= q[1]
<1> DEFINE S == {k \in Chip[b].bars : k >= i}
<1>1. Chip[b].bars \subseteq Bars
  BY ChipFields
<1>2. S \in SUBSET Nat
  BY <1>1 DEF Bars
<1>3. CASE \E k \in Chip[b].bars : k >= i
  <2>1. \E k \in S : \A m \in S : k <= m
    <3>1. S # {}
      BY <1>3
    <3> HIDE DEF S
    <3> QED BY <1>2, <3>1, LeastOf
  <2> DEFINE c == CHOOSE k \in Chip[b].bars :
                    k >= i /\ \A m \in Chip[b].bars : m >= i => k <= m
  <2>2. /\ c \in Chip[b].bars /\ c >= i
        /\ \A m \in Chip[b].bars : m >= i => c <= m
    BY <2>1
  <2> HIDE DEF c
  <2>3. BarFrom(b, i) = <<c, 0>>
    BY <1>3 DEF BarFrom, c
  <2>4. c \in Nat /\ c # 0
    BY <1>1, <2>2 DEF Bars
  <2> QED BY <2>2, <2>3, <2>4 DEF BarPlaces
<1>4. CASE ~ \E k \in Chip[b].bars : k >= i
  <2>1. BarFrom(b, i) = <<NUMBER_OF_BARS, 0>>
    BY <1>4 DEF BarFrom, Nowhere
  <2>2. \A q \in BarPlaces(b) : ~ (q[1] >= i)
    BY <1>4 DEF BarPlaces
  <2> QED BY <2>1, <2>2 DEF Nowhere
<1> QED BY <1>3, <1>4

\* The places outside BAR 0.
LEMMA BarPlaceFacts ==
  ASSUME NEW b \in Boards, NEW q \in BarPlaces(b)
  PROVE  /\ q \in Places /\ q = <<q[1], 0>>
         /\ q[1] \in Chip[b].bars /\ q[1] \in Nat
         /\ 0 < q[1] /\ q[1] < NUMBER_OF_BARS
<1>1. Chip[b].bars \subseteq Bars
  BY ChipFields
<1> QED BY <1>1 DEF BarPlaces, Places, Bars

\* Nowhere is no place of a board.
LEMMA NowhereFacts ==
  /\ Nowhere \notin Places /\ Nowhere[1] = NUMBER_OF_BARS
  /\ \A o : Nowhere # <<0, o>>
<1>1. Nowhere[1] = NUMBER_OF_BARS
  BY DEF Nowhere
<1>2. \A q \in Places : q[1] < NUMBER_OF_BARS
  BY DEF Places, Bars
<1> QED BY <1>1, <1>2 DEF Nowhere

\* A walk begins with nothing read.
LEMMA WalkBegins ==
  ASSUME NEW b \in Boards
  PROVE  WalkSoFar(b, <<>>, WalkFrom(b, Chip[b].first))
<1>1. CASE Chip[b].first # 0
  BY <1>1 DEF WalkSoFar, ChainSoFar, Falls, WalkFrom
<1>2. CASE Chip[b].first = 0
  <2>1. WalkFrom(b, Chip[b].first) = BarFrom(b, 1)
    BY <1>2 DEF WalkFrom
  <2>2. /\ BarFrom(b, 1) \in BarPlaces(b) \cup {Nowhere}
        /\ BarFrom(b, 1)[1] \in Nat
        /\ \A q \in BarPlaces(b) : q[1] >= 1 => BarFrom(b, 1)[1] <= q[1]
    BY BarFromLeast
  <2>3. \A q \in Described(b) : ~ (q[1] < BarFrom(b, 1)[1])
    BY <2>2, BarPlaceFacts DEF Described
  <2>4. BarsSoFar(b, <<>>, BarFrom(b, 1))
    BY <2>2, <2>3 DEF BarsSoFar
  <2> QED BY <1>2, <2>1, <2>4 DEF WalkSoFar
<1> QED BY <1>1, <1>2

\* A well-formed board has a ranking.
LEMMA RankType ==
  ASSUME NEW b \in Boards, WellFormed(b)
  PROVE  Rank(b) \in [Offsets -> Int] /\ Ranks(b, Rank(b))
<1>1. \E rank \in [Offsets -> 0 .. Cardinality(Offsets)] : Ranks(b, rank)
  BY DEF WellFormed, Ranks
<1>2. /\ Rank(b) \in [Offsets -> 0 .. Cardinality(Offsets)]
      /\ Ranks(b, Rank(b))
  BY <1>1 DEF Rank
<1> QED BY <1>2

\* Following the pointers in BAR 0.
LEMMA ChainStep ==
  ASSUME NEW b \in Boards, NEW ps \in Seq(Places), place \in Places,
         ChainSoFar(b, ps, place)
  PROVE  ChainSoFar(b, IF HasMagic(b, place) THEN Append(ps, place) ELSE ps,
                    WalkOn(b))
<1>1. place # Nowhere
  BY NowhereFacts
<1>2. place[1] = 0
  BY <1>1 DEF ChainSoFar
<1>3. CASE ~ HasMagic(b, place)
  <2>1. WalkOn(b) = Nowhere
    BY <1>2, <1>3 DEF WalkOn
  <2> QED BY <1>1, <1>3, <2>1 DEF ChainSoFar, Falls
<1>4. CASE HasMagic(b, place)
  <2> DEFINE qs == Append(ps, place)
             n == Len(ps)
             next == Chip[b].next[place]
  <2>1. /\ qs \in Seq(Places) /\ Len(qs) = n + 1 /\ qs # <<>> /\ n \in Nat
        /\ \A k \in 1 .. n : qs[k] = ps[k]
        /\ qs[n + 1] = place
    OBVIOUS
  <2>2. WalkOn(b) = IF next # 0 THEN <<0, next>> ELSE Nowhere
    BY <1>2, <1>4 DEF WalkOn
  <2> HIDE DEF qs
  <2>3. \A k \in 1 .. n + 1 : HasMagic(b, qs[k])
    <3>1. \A k \in 1 .. n : HasMagic(b, ps[k])
      BY DEF ChainSoFar
    <3> SUFFICES ASSUME NEW k \in 1 .. n + 1 PROVE HasMagic(b, qs[k])
      OBVIOUS
    <3>2. CASE k = n + 1
      BY <1>4, <2>1, <3>2
    <3>3. CASE k \in 1 .. n
      BY <2>1, <3>1, <3>3
    <3> QED BY <2>1, <3>2, <3>3
  <2>4. \A k \in 2 .. n + 1 : /\ Chip[b].next[qs[k - 1]] # 0
                              /\ qs[k] = <<0, Chip[b].next[qs[k - 1]]>>
    <3> SUFFICES ASSUME NEW k \in 2 .. n + 1
                 PROVE  /\ Chip[b].next[qs[k - 1]] # 0
                        /\ qs[k] = <<0, Chip[b].next[qs[k - 1]]>>
      OBVIOUS
    <3>1. qs[k - 1] = ps[k - 1]
      BY <2>1
    <3>2. CASE k = n + 1
      <4>1. ps # <<>> /\ qs[k - 1] = ps[n] /\ qs[k] = place
        BY <2>1, <3>1, <3>2
      <4> QED BY <1>1, <4>1 DEF ChainSoFar
    <3>3. CASE k \in 2 .. n
      <4>1. qs[k] = ps[k]
        BY <2>1, <3>3
      <4> QED BY <3>1, <3>3, <4>1 DEF ChainSoFar
    <3> QED BY <2>1, <3>2, <3>3
  <2>5. qs[1] = <<0, Chip[b].first>>
    <3>1. CASE ps = <<>>
      <4>1. place = <<0, Chip[b].first>>
        BY <1>1, <3>1 DEF ChainSoFar
      <4> QED BY <2>1, <3>1, <4>1
    <3>2. CASE ps # <<>>
      <4>1. ps[1] = <<0, Chip[b].first>>
        BY <3>2 DEF ChainSoFar
      <4> QED BY <2>1, <3>2, <4>1
    <3> QED BY <3>1, <3>2
  <2>6. Falls(b, qs, WalkOn(b))
    <3> SUFFICES ASSUME WellFormed(b), next # 0, NEW k \in 1 .. n + 1
                 PROVE  Rank(b)[next] < Rank(b)[qs[k][2]]
      BY <2>1, <2>2 DEF Falls
    <3>1. place[2] \in Offsets /\ place = <<0, place[2]>>
      BY <1>2 DEF Places
    <3>2. next \in Offsets
      BY <1>4, ChipFields DEF HasMagic
    <3>3. Rank(b) \in [Offsets -> Int] /\ Rank(b)[next] < Rank(b)[place[2]]
      BY <3>1, <3>2, RankType DEF Ranks
    <3>4. CASE k = n + 1
      BY <2>1, <3>3, <3>4
    <3>5. CASE k \in 1 .. n
      <4>1. ps[k] \in Places /\ ps[k][1] = 0 /\ qs[k] = ps[k]
        <5>1. ps # <<>>
          BY <3>5
        <5>2. CASE k = 1
          BY <2>1, <3>5, <5>1, <5>2 DEF ChainSoFar
        <5>3. CASE k \in 2 .. n
          BY <2>1, <3>5, <5>3 DEF ChainSoFar
        <5> QED BY <3>5, <5>2, <5>3
      <4>2. ps[k][2] \in Offsets
        BY <4>1 DEF Places
      <4>3. Rank(b)[place[2]] < Rank(b)[ps[k][2]]
        BY <1>1, <3>5 DEF ChainSoFar, Falls
      <4>4. /\ Rank(b)[next] \in Int /\ Rank(b)[place[2]] \in Int
            /\ Rank(b)[ps[k][2]] \in Int
        BY <3>1, <3>2, <3>3, <4>2
      <4>5. Rank(b)[next] < Rank(b)[ps[k][2]]
        BY <3>3, <4>3, <4>4
      <4> QED BY <4>1, <4>5
    <3> QED BY <2>1, <3>4, <3>5
  <2>7. ChainSoFar(b, qs, WalkOn(b))
    BY <2>1, <2>2, <2>3, <2>4, <2>5, <2>6 DEF ChainSoFar
  <2> QED BY <1>4, <2>7 DEF qs
<1> QED BY <1>3, <1>4

\* Going through the other BARs.
LEMMA BarsStep ==
  ASSUME NEW b \in Boards, NEW ps \in Seq(Places), place \in Places,
         BarsSoFar(b, ps, place), ~ Loops(b, place)
  PROVE  BarsSoFar(b, IF HasMagic(b, place) THEN Append(ps, place) ELSE ps,
                   WalkOn(b))
<1> DEFINE i == place[1]
           p == WalkOn(b)
           n == Len(ps)
<1>1. /\ place \in BarPlaces(b) /\ i \in Nat /\ 0 < i /\ i < NUMBER_OF_BARS
      /\ place = <<i, 0>>
  BY NowhereFacts, BarPlaceFacts DEF BarsSoFar
<1>2. p = BarFrom(b, i + 1)
  BY <1>1 DEF WalkOn, Loops, Described
<1>3. /\ p \in BarPlaces(b) \cup {Nowhere}
      /\ p[1] \in Nat /\ p[1] > i
      /\ \A q \in BarPlaces(b) : q[1] > i => p[1] <= q[1]
  <2>1. i + 1 \in 1 .. NUMBER_OF_BARS
    BY <1>1
  <2>2. /\ p \in BarPlaces(b) \cup {Nowhere}
        /\ p[1] \in Nat /\ p[1] >= i + 1
        /\ \A q \in BarPlaces(b) : q[1] >= i + 1 => p[1] <= q[1]
    BY <1>2, <2>1, BarFromLeast
  <2> QED BY <1>1, <2>2, BarPlaceFacts
<1> HIDE DEF p
<1>4. \A q \in Described(b) :
        q \in BarPlaces(b) /\ q[1] \in Nat /\ q = <<q[1], 0>>
  BY BarPlaceFacts DEF Described
<1>5. \A k \in 1 .. n :
        /\ ps[k] \in Described(b) /\ ~ Loops(b, ps[k])
        /\ ps[k][1] < i /\ ps[k][1] \in Nat
  BY <1>4 DEF BarsSoFar
<1>6. \A q \in Described(b) :
        q[1] < p[1] => q = place \/ \E k \in 1 .. n : q = ps[k]
  <2> SUFFICES ASSUME NEW q \in Described(b), q[1] < p[1], q # place
               PROVE  \E k \in 1 .. n : q = ps[k]
    OBVIOUS
  <2>1. q[1] # i
    BY <1>1, <1>4
  <2>2. q[1] < i
    BY <1>1, <1>3, <1>4, <2>1
  <2> QED BY <2>2 DEF BarsSoFar
<1>7. CASE ~ HasMagic(b, place)
  <2>1. place \notin Described(b)
    BY <1>7 DEF Described
  <2>2. \A k \in 1 .. n :
          ps[k] \in Described(b) /\ ~ Loops(b, ps[k]) /\ ps[k][1] < p[1]
    BY <1>1, <1>3, <1>5
  <2> QED BY <1>3, <1>6, <1>7, <2>1, <2>2 DEF BarsSoFar, p
<1>8. CASE HasMagic(b, place)
  <2> DEFINE qs == Append(ps, place)
  <2>1. /\ Len(qs) = n + 1 /\ n \in Nat
        /\ \A k \in 1 .. n : qs[k] = ps[k]
        /\ qs[n + 1] = place
    OBVIOUS
  <2> HIDE DEF qs
  <2>2. place \in Described(b)
    BY <1>1, <1>8 DEF Described
  <2>3. \A k \in 1 .. n + 1 :
          qs[k] \in Described(b) /\ ~ Loops(b, qs[k]) /\ qs[k][1] < p[1]
    <3> SUFFICES ASSUME NEW k \in 1 .. n + 1
                 PROVE  /\ qs[k] \in Described(b) /\ ~ Loops(b, qs[k])
                        /\ qs[k][1] < p[1]
      OBVIOUS
    <3>1. CASE k = n + 1
      BY <1>3, <2>1, <2>2, <3>1
    <3>2. CASE k \in 1 .. n
      BY <1>1, <1>3, <1>5, <2>1, <3>2, SMTT(30)
    <3> QED BY <2>1, <3>1, <3>2
  <2>4. \A q \in Described(b) :
          q[1] < p[1] => \E k \in 1 .. n + 1 : q = qs[k]
    BY <1>6, <2>1
  <2>5. \A j, k \in 1 .. n + 1 : j < k => qs[j][1] < qs[k][1]
    <3> SUFFICES ASSUME NEW j \in 1 .. n + 1, NEW k \in 1 .. n + 1, j < k
                 PROVE  qs[j][1] < qs[k][1]
      OBVIOUS
    <3>1. j \in 1 .. n
      BY <2>1
    <3>2. CASE k = n + 1
      BY <1>5, <2>1, <3>1, <3>2
    <3>3. CASE k \in 1 .. n
      BY <2>1, <3>1, <3>3 DEF BarsSoFar
    <3> QED BY <2>1, <3>2, <3>3
  <2>6. BarsSoFar(b, qs, p)
    BY <1>3, <2>1, <2>3, <2>4, <2>5 DEF BarsSoFar
  <2> QED BY <1>8, <2>6 DEF qs, p
<1> QED BY <1>7, <1>8

\* Reading the same BAR again.
LEMMA LoopStep ==
  ASSUME NEW b \in Boards, NEW ps \in Seq(Places), Loops(b, place)
  PROVE  /\ HasMagic(b, place)
         /\ Stuck(b, Append(ps, place), WalkOn(b))
<1>1. HasMagic(b, place) /\ place \in Places /\ place[1] # 0
  BY BarPlaceFacts DEF Loops, Described
<1>2. WalkOn(b) = place
  BY <1>1 DEF WalkOn, Loops
<1>3. LET qs == Append(ps, place) IN qs # <<>> /\ qs[Len(qs)] = place
  BY <1>1
<1> QED BY <1>1, <1>2, <1>3 DEF Stuck

\* Every turn of the loops of pciedev_get_prjinfo and
\* pciedev_get_shapi_module_info carries the walk on.
LEMMA WalkStep ==
  ASSUME NEW b \in Boards, NEW ps \in Seq(Places), place \in Places,
         WalkSoFar(b, ps, place)
  PROVE  WalkSoFar(b, IF HasMagic(b, place) THEN Append(ps, place) ELSE ps,
                   WalkOn(b))
<1>1. CASE Chip[b].first # 0
  BY <1>1, ChainStep DEF WalkSoFar
<1>2. CASE Chip[b].first = 0 /\ Loops(b, place)
  BY <1>2, LoopStep DEF WalkSoFar
<1>3. CASE Chip[b].first = 0 /\ ~ Loops(b, place)
  <2>1. BarsSoFar(b, ps, place)
    BY <1>3 DEF WalkSoFar, Stuck
  <2> QED BY <1>3, <2>1, BarsStep DEF WalkSoFar
<1> QED BY <1>1, <1>2, <1>3

\* A walk that has ended has read exactly the board's descriptions.
LEMMA WalkEnds ==
  ASSUME NEW b \in Boards, NEW ps \in Seq(Places), WalkSoFar(b, ps, Nowhere)
  PROVE  Describes(b, ps)
<1>1. DOMAIN ps = 1 .. Len(ps) /\ Len(ps) \in Nat
  OBVIOUS
<1>2. CASE Chip[b].first # 0
  <2>1. ChainSoFar(b, ps, Nowhere)
    BY <1>2 DEF WalkSoFar
  <2>2. /\ \A k \in DOMAIN ps : HasMagic(b, ps[k])
        /\ \A k \in DOMAIN ps \ {1} :
             /\ Chip[b].next[ps[k - 1]] # 0
             /\ ps[k] = <<0, Chip[b].next[ps[k - 1]]>>
    BY <1>1, <2>1 DEF ChainSoFar
  <2>3. IF ps = <<>>
          THEN ~ HasMagic(b, <<0, Chip[b].first>>)
          ELSE /\ ps[1] = <<0, Chip[b].first>>
               /\ LET last == Chip[b].next[ps[Len(ps)]]
                  IN last = 0 \/ ~ HasMagic(b, <<0, last>>)
    BY <2>1, NowhereFacts DEF ChainSoFar
  <2> QED BY <1>2, <2>2, <2>3 DEF Describes, IsChain
<1>3. CASE Chip[b].first = 0
  <2>1. BarsSoFar(b, ps, Nowhere)
    <3>1. Nowhere \notin Described(b)
      BY NowhereFacts, BarPlaceFacts DEF Described
    <3> QED BY <1>3, <3>1 DEF WalkSoFar, Stuck, Loops
  <2>2. \A q \in Described(b) : q[1] < Nowhere[1]
    BY NowhereFacts, BarPlaceFacts DEF Described
  <2>3. {ps[k] : k \in DOMAIN ps} = Described(b)
    BY <1>1, <2>1, <2>2 DEF BarsSoFar
  <2>4. \A j, k \in DOMAIN ps : j < k => ps[j][1] < ps[k][1]
    BY <1>1, <2>1 DEF BarsSoFar
  <2> QED BY <1>3, <2>3, <2>4 DEF Describes, IsBarList, Described, BarPlaces
<1> QED BY <1>2, <1>3

\* What a walk reads next is determined by what it read last.
LEMMA WalkReads ==
  ASSUME NEW b \in Boards, NEW ps \in Seq(Places), NEW p \in Places,
         WalkSoFar(b, ps, p), HasMagic(b, p)
  PROVE  IF ps = <<>> THEN IsFirst(b, p) ELSE Follows(b, ps[Len(ps)], p)
<1>1. p # Nowhere
  BY NowhereFacts
<1>2. CASE Chip[b].first # 0
  BY <1>1, <1>2 DEF WalkSoFar, ChainSoFar, IsFirst, Follows
<1>3. CASE Chip[b].first = 0 /\ Stuck(b, ps, p)
  BY <1>3 DEF Stuck, Loops, Follows
<1>4. CASE Chip[b].first = 0 /\ ~ Stuck(b, ps, p)
  <2>1. BarsSoFar(b, ps, p)
    BY <1>4 DEF WalkSoFar
  <2>2. p \in Described(b)
    BY <1>1, <2>1 DEF BarsSoFar, Described
  <2>3. \A q \in Described(b) : q[1] \in Nat
    BY BarPlaceFacts DEF Described
  <2>4. CASE ps = <<>>
    <3>1. \A q \in Described(b) : ~ (q[1] < p[1])
      BY <2>1, <2>4 DEF BarsSoFar
    <3> QED BY <1>4, <2>2, <2>3, <2>4, <3>1 DEF IsFirst
  <2>5. CASE ps # <<>>
    <3> DEFINE n == Len(ps)
    <3>1. n \in 1 .. Len(ps) /\ n \in Nat
      BY <2>5
    <3>2. ps[n] \in Described(b) /\ ps[n][1] < p[1]
      BY <2>1, <3>1 DEF BarsSoFar
    <3>3. ASSUME NEW r \in Described(b), ps[n][1] < r[1] PROVE p[1] <= r[1]
      <4>1. SUFFICES ASSUME r[1] < p[1] PROVE FALSE
        BY <2>2, <2>3
      <4>2. PICK k \in 1 .. n : r = ps[k]
        BY <2>1, <4>1 DEF BarsSoFar
      <4>3. k < n => ps[k][1] < ps[n][1]
        BY <2>1, <3>1 DEF BarsSoFar
      <4> QED BY <2>3, <3>1, <3>2, <3>3, <4>2, <4>3
    <3>4. Chip[b].next[ps[n]] = 0
      BY <2>1, <3>1 DEF BarsSoFar, Loops
    <3> QED BY <1>4, <2>2, <2>5, <3>2, <3>3, <3>4 DEF Follows
  <2> QED BY <2>4, <2>5
<1> QED BY <1>2, <1>3, <1>4
\* A board has one first description, and one after each.
LEMMA ReadsOnePlace ==
  ASSUME NEW b \in Boards, NEW q, NEW r
  PROVE  /\ IsFirst(b, q) /\ IsFirst(b, r) => q = r
         /\ \A p : Follows(b, p, q) /\ Follows(b, p, r) => q = r
<1>1. \A x \in Described(b) : x[1] \in Nat /\ x = <<x[1], 0>>
  BY BarPlaceFacts DEF Described
<1>2. ASSUME IsFirst(b, q), IsFirst(b, r) PROVE q = r
  <2>1. CASE Chip[b].first # 0
    BY <1>2, <2>1 DEF IsFirst
  <2>2. CASE Chip[b].first = 0
    <3>1. q \in Described(b) /\ r \in Described(b)
      BY <1>2, <2>2 DEF IsFirst
    <3>2. q[1] <= r[1] /\ r[1] <= q[1]
      BY <1>2, <2>2, <3>1 DEF IsFirst
    <3>3. q[1] = r[1]
      BY <1>1, <3>1, <3>2
    <3> QED BY <1>1, <3>1, <3>3
  <2> QED BY <2>1, <2>2
<1>3. ASSUME NEW p, Follows(b, p, q), Follows(b, p, r) PROVE q = r
  <2>1. CASE Chip[b].first # 0 \/ Chip[b].next[p] # 0
    BY <1>3, <2>1 DEF Follows
  <2>2. CASE Chip[b].first = 0 /\ Chip[b].next[p] = 0
    <3>1. /\ q \in Described(b) /\ r \in Described(b)
          /\ p[1] < q[1] /\ p[1] < r[1]
      BY <1>3, <2>2 DEF Follows
    <3>2. q[1] <= r[1] /\ r[1] <= q[1]
      BY <1>3, <2>2, <3>1 DEF Follows
    <3>3. q[1] = r[1]
      BY <1>1, <3>1, <3>2
    <3> QED BY <1>1, <3>1, <3>3
  <2> QED BY <2>1, <2>2
<1> QED BY <1>2, <1>3

-----------------------------------------------------------------------------
(* Lists.                                                                  *)

\* The places of the newest n entries of a list, one by one.
LEMMA PlacesFacts ==
  ASSUME NEW S, \A e \in S : e.place \in Places,
         NEW list \in Seq(S), NEW n \in 0 .. Len(list)
  PROVE  /\ PlacesOf(list, n) \in Seq(Places)
         /\ Len(PlacesOf(list, n)) = n
         /\ \A k \in 1 .. n : PlacesOf(list, n)[k] = list[n - k + 1].place
<1>1. \A k \in 1 .. n : list[n - k + 1].place \in Places
  <2> SUFFICES ASSUME NEW k \in 1 .. n PROVE list[n - k + 1].place \in Places
    OBVIOUS
  <2>1. n - k + 1 \in 1 .. Len(list)
    OBVIOUS
  <2>2. list[n - k + 1] \in S
    BY <2>1
  <2> QED BY <2>2
<1>2. PlacesOf(list, n) \in [1 .. n -> Places]
  BY <1>1 DEF PlacesOf
<1>3. PlacesOf(list, n) \in Seq(Places) /\ Len(PlacesOf(list, n)) = n
  BY <1>2
<1> QED BY <1>3 DEF PlacesOf

\* An entry put on top of a list adds its place at the end.
LEMMA PlacesPushed ==
  ASSUME NEW S, \A e \in S : e.place \in Places,
         NEW list \in Seq(S), NEW n \in 0 .. Len(list), NEW e \in S
  PROVE  PlacesOf(<<e>> \o list, n + 1) = Append(PlacesOf(list, n), e.place)
<1> DEFINE more == <<e>> \o list
           ps   == PlacesOf(list, n)
           qs   == PlacesOf(more, n + 1)
           rs   == Append(ps, e.place)
<1>1. /\ more \in Seq(S) /\ Len(more) = Len(list) + 1 /\ more[1] = e
      /\ \A k \in 1 .. Len(list) : more[k + 1] = list[k]
  BY Prepended
<1> HIDE DEF more
<1>2. /\ ps \in Seq(Places) /\ Len(ps) = n
      /\ \A k \in 1 .. n : ps[k] = list[n - k + 1].place
  BY PlacesFacts
<1>0. n \in Nat /\ Len(list) \in Nat
  OBVIOUS
<1>3. /\ qs \in Seq(Places) /\ Len(qs) = n + 1
      /\ \A k \in 1 .. n + 1 : qs[k] = more[n - k + 2].place
  <2>1. PICK m : m = n + 1
    OBVIOUS
  <2>2. m \in 0 .. Len(more) /\ more \in Seq(S)
    BY <1>0, <1>1, <2>1
  <2>3. /\ PlacesOf(more, m) \in Seq(Places) /\ Len(PlacesOf(more, m)) = m
        /\ \A k \in 1 .. m : PlacesOf(more, m)[k] = more[m - k + 1].place
    BY <2>2, PlacesFacts
  <2>4. \A k \in 1 .. m : m - k + 1 = n - k + 2
    BY <1>0, <2>1
  <2> QED BY <2>1, <2>3, <2>4
<1> HIDE DEF ps, qs
<1>4. /\ rs \in Seq(Places) /\ Len(rs) = n + 1 /\ rs[n + 1] = e.place
      /\ \A k \in 1 .. n : rs[k] = ps[k]
  BY <1>2
<1> HIDE DEF rs
<1>5. ASSUME NEW k \in 1 .. n + 1 PROVE qs[k] = rs[k]
  <2>1. CASE k = n + 1
    BY <1>1, <1>3, <1>4, <2>1
  <2>2. CASE k \in 1 .. n
    <3>1. PICK m : m = n - k + 1
      OBVIOUS
    <3>2. m \in 1 .. Len(list) /\ n - k + 2 = m + 1
      BY <1>0, <2>2, <3>1
    <3>3. more[n - k + 2] = list[m]
      BY <1>1, <3>2
    <3>4. qs[k] = list[m].place
      BY <1>3, <3>3
    <3>5. rs[k] = list[m].place
      BY <1>2, <1>4, <2>2, <3>1
    <3> QED BY <3>4, <3>5
  <2>3. k = n + 1 \/ k \in 1 .. n
    BY <1>0
  <2> QED BY <2>1, <2>2, <2>3
<1>6. qs = rs
  BY <1>3, <1>4, <1>5
<1> QED BY <1>6 DEF qs, rs, ps, more

\* The module list stays a pile of walks when the next module of the newest
\* walk is put on it.
LEMMA Piled ==
  ASSUME NEW list \in Seq(ModuleInfo), Linked(list), SamePlace(list),
         NEW n \in 0 .. Len(list), NEW e \in ModuleInfo, e.module_num = n + 1,
         IF n = 0
           THEN IsFirst(e.board, e.place)
           ELSE /\ list[1].board = e.board /\ list[1].module_num = n
                /\ Follows(e.board, list[1].place, e.place)
  PROVE  Linked(<<e>> \o list) /\ SamePlace(<<e>> \o list)
<1> DEFINE more == <<e>> \o list
<1>1. /\ more \in Seq(ModuleInfo) /\ Len(more) = Len(list) + 1 /\ more[1] = e
      /\ \A k \in 1 .. Len(list) : more[k + 1] = list[k]
  BY Prepended
<1> HIDE DEF more
<1>2. \A k \in 1 .. Len(list) : /\ list[k] \in ModuleInfo
                                /\ list[k].board \in Boards
                                /\ list[k].module_num \in Nat
  <2> SUFFICES ASSUME NEW k \in 1 .. Len(list)
               PROVE  /\ list[k] \in ModuleInfo
                      /\ list[k].board \in Boards
                      /\ list[k].module_num \in Nat
    OBVIOUS
  <2>1. list[k] \in ModuleInfo
    OBVIOUS
  <2> QED BY <2>1 DEF ModuleInfo
<1>3. Len(list) \in Nat /\ n \in Nat /\ e.board \in Boards
  BY DEF ModuleInfo
<1>4. Linked(more)
  <2> SUFFICES
        ASSUME NEW j \in 1 .. Len(more)
        PROVE  LET d == more[j] IN
               /\ d.module_num >= 1
               /\ d.module_num = 1 => IsFirst(d.board, d.place)
               /\ d.module_num > 1 =>
                    /\ j < Len(more)
                    /\ more[j + 1].board = d.board
                    /\ more[j + 1].module_num = d.module_num - 1
                    /\ Follows(d.board, more[j + 1].place, d.place)
    BY DEF Linked
  <2>1. CASE j = 1
    <3>1. CASE n = 0
      BY <1>1, <2>1, <3>1
    <3>2. CASE n # 0
      <4>1. more[2] = list[1] /\ 1 < Len(more)
        BY <1>1, <1>3, <3>2
      <4> QED BY <1>1, <1>3, <2>1, <3>2, <4>1
    <3> QED BY <3>1, <3>2
  <2>2. CASE j # 1
    <3>1. PICK i \in 1 .. Len(list) : j = i + 1 /\ more[j] = list[i]
      <4>1. j - 1 \in 1 .. Len(list) /\ j = (j - 1) + 1
        BY <1>1, <1>3, <2>2
      <4> QED BY <1>1, <4>1
    <3>2. /\ list[i].module_num >= 1
          /\ list[i].module_num = 1 => IsFirst(list[i].board, list[i].place)
          /\ list[i].module_num > 1 =>
               /\ i < Len(list)
               /\ list[i + 1].board = list[i].board
               /\ list[i + 1].module_num = list[i].module_num - 1
               /\ Follows(list[i].board, list[i + 1].place, list[i].place)
      BY DEF Linked
    <3>3. i < Len(list) => j < Len(more) /\ more[j + 1] = list[i + 1]
      <4>1. i < Len(list) => i + 1 \in 1 .. Len(list) /\ j + 1 = (i + 1) + 1
        BY <1>3, <3>1
      <4> QED BY <1>1, <1>3, <3>1, <4>1
    <3> QED BY <3>1, <3>2, <3>3
  <2> QED BY <2>1, <2>2
<1>5. \A k \in 1 .. Len(list) :
        list[k].board = e.board /\ list[k].module_num = e.module_num
          => list[k].place = e.place
  <2> SUFFICES ASSUME NEW k \in 1 .. Len(list), list[k].board = e.board,
                      list[k].module_num = n + 1
               PROVE  list[k].place = e.place
    OBVIOUS
  <2>1. CASE n = 0
    <3>1. IsFirst(e.board, list[k].place)
      BY <1>3, <2>1 DEF Linked
    <3> QED BY <1>3, <2>1, <3>1, ReadsOnePlace
  <2>2. CASE n # 0
    <3>1. /\ k < Len(list) /\ list[k + 1].board = e.board
          /\ list[k + 1].module_num = n
          /\ Follows(e.board, list[k + 1].place, list[k].place)
      BY <1>3, <2>2 DEF Linked
    <3>2. k + 1 \in 1 .. Len(list) /\ 1 \in 1 .. Len(list)
      BY <1>3, <3>1
    <3>3. list[k + 1].place = list[1].place
      BY <2>2, <3>1, <3>2 DEF SamePlace
    <3> QED BY <1>3, <2>2, <3>1, <3>3, ReadsOnePlace
  <2> QED BY <2>1, <2>2
<1>6. SamePlace(more)
  <2> SUFFICES ASSUME NEW j \in 1 .. Len(more), NEW k \in 1 .. Len(more),
                      more[j].board = more[k].board,
                      more[j].module_num = more[k].module_num
               PROVE  more[j].place = more[k].place
    BY DEF SamePlace
  <2>1. \A i \in 1 .. Len(more) :
          more[i] = e \/ \E m \in 1 .. Len(list) : more[i] = list[m]
    <3> SUFFICES ASSUME NEW i \in 1 .. Len(more), i # 1
                 PROVE  \E m \in 1 .. Len(list) : more[i] = list[m]
      BY <1>1
    <3>1. i - 1 \in 1 .. Len(list) /\ (i - 1) + 1 = i
      BY <1>1, <1>3
    <3> QED BY <1>1, <3>1
  <2>2. CASE more[j] = e /\ more[k] # e
    BY <1>5, <2>1, <2>2
  <2>3. CASE more[j] # e /\ more[k] = e
    BY <1>5, <2>1, <2>3
  <2>4. CASE more[j] # e /\ more[k] # e
    <3>1. PICK i \in 1 .. Len(list), m \in 1 .. Len(list) :
            more[j] = list[i] /\ more[k] = list[m]
      BY <2>1, <2>4
    <3> QED BY <3>1 DEF SamePlace
  <2> QED BY <2>2, <2>3, <2>4
<1> QED BY <1>4, <1>6 DEF more
-----------------------------------------------------------------------------
(* Steps.                                                                  *)

(***************************************************************************)
(* A step that leaves the descriptions alone, and the board too if it has  *)
(* been identified.                                                        *)
(***************************************************************************)
Aside ==
  /\ UNCHANGED <<infoVars, hosts>>
  /\ \/ UNCHANGED <<pc, board>>
     \/ {pc, pc'} \cap {"list", "walk", "bound"} = {}

\* The steps that matter to the descriptions.
LEMMA InfoCases ==
  ASSUME [Next]_vars
  PROVE  \/ Unload \/ ProbeInfo \/ ProbeList \/ ProbeWalk \/ ProbePublish
         \/ RemoveInfo \/ Aside
<1> USE DEF Aside, At, Goto
<1>1. CASE UNCHANGED vars
  BY <1>1 DEF vars, lifeVars
<1>2. CASE Load
  BY <1>2 DEF Load
<1>3. CASE LoadStructure
  BY <1>3 DEF LoadStructure
<1>4. CASE LoadFails
  BY <1>4 DEF LoadFails
<1>5. ASSUME NEW b \in Boards, ProbeBegin(b) PROVE Aside
  BY <1>5 DEF ProbeBegin
<1>6. ASSUME NEW n \in Vectors, SetupInterrupt(n) PROVE Aside
  BY <1>6 DEF SetupInterrupt, lifeVars
<1>7. CASE RemoveInterrupts \/ RemoveAddresses \/ RemoveUnmap
             \/ RemoveUnpublish
  BY <1>7 DEF RemoveInterrupts, RemoveAddresses, RemoveUnmap, RemoveUnpublish
<1>8. CASE ProcShow \/ ProcNext
  BY <1>8 DEF ProcShow, ProcNext
<1>9. ASSUME NEW b \in Elsewhere, OtherProbe(b) \/ OtherRemove(b)
      PROVE  Aside
  BY <1>9 DEF OtherProbe, OtherRemove
<1> QED
  BY <1>1, <1>2, <1>3, <1>4, <1>5, <1>6, <1>7, <1>8, <1>9
     DEF Next, ProbeStep

\* The lists and their entries.
LEMMA ListFacts ==
  ASSUME LifeInv
  PROVE  /\ prj_info_list \in Seq(PrjInfo) /\ Len(prj_info_list) \in Nat
         /\ module_info_list \in Seq(ModuleInfo)
         /\ Len(module_info_list) \in Nat
         /\ place \in Places \cup {Nowhere}
         /\ startup_prj_num \in Nat /\ shapi_module_num \in Nat
         /\ startup_brd \in BOOLEAN /\ shapi_brd \in BOOLEAN
         /\ \A e \in PrjInfo : e.place \in Places
         /\ \A e \in ModuleInfo : e.place \in Places
BY DEF LifeInv, TypeOK, InfoTypes, PrjInfo, ModuleInfo

\* What was found out about the board stays true until it is removed.
LEMMA IdentifiedStep ==
  ASSUME LifeInv, DescriptionInv, [Next]_vars
  PROVE  Identified'
<1> USE DEF DescriptionInv, Identified, At, Goto
<1>1. CASE Unload
  BY <1>1 DEF Unload
<1>2. CASE ProbeInfo
  <2>1. GetBrdinfo(board) /\ board' = board /\ pc' = "list"
    BY <1>2 DEF ProbeInfo
  <2>2. (startup_brd <=> Kind(board) = "desy")'
    BY <2>1, Zenon DEF GetBrdinfo, Kind
  <2>3. (shapi_brd <=> Kind(board) = "shapi")'
    BY <2>1, Zenon DEF GetBrdinfo, Kind
  <2>4. /\ Kind(board) = "desy" =>
             brd_info_list' = board /\ PCIEDEV_PROJ_NEXT' = Chip[board].first
        /\ Kind(board) = "shapi" =>
             /\ device_info_list' = board
             /\ SHAPI_FIRST_MODULE_ADDRESS' = Chip[board].first
    BY <2>1 DEF GetBrdinfo
  <2>5. (Kind(board))' = Kind(board)
    BY <2>1 DEF Kind
  <2> QED BY <2>1, <2>2, <2>3, <2>4, <2>5
<1>3. CASE ProbeList
  <2>1. /\ pc = "list" /\ pc' = "walk" /\ board' = board
        /\ UNCHANGED <<startup_brd, shapi_brd>>
        /\ UNCHANGED <<brd_info_list, device_info_list>>
    BY <1>3 DEF ProbeList, GetPrjinfo, GetShapiModuleInfo, infoVars
  <2> QED BY <2>1 DEF Kind
<1>4. CASE ProbeWalk
  <2>1. /\ pc = "walk" /\ pc' = "walk" /\ board' = board
        /\ UNCHANGED <<startup_brd, shapi_brd>>
        /\ UNCHANGED <<brd_info_list, device_info_list>>
    BY <1>4 DEF ProbeWalk, FillPrjInfo, FillShapiModuleInfo, lifeVars
  <2> QED BY <2>1 DEF Kind
<1>5. CASE ProbePublish
  <2>1. /\ pc = "walk" /\ pc' = "bound" /\ board' = board
        /\ UNCHANGED <<startup_brd, shapi_brd>>
        /\ UNCHANGED <<brd_info_list, device_info_list>>
    BY <1>5 DEF ProbePublish, infoVars
  <2> QED BY <2>1 DEF Kind
<1>6. CASE RemoveInfo
  BY <1>6 DEF RemoveInfo
<1>7. CASE Aside
  BY <1>7 DEF Aside, infoVars, Kind
<1> QED BY <1>1, <1>2, <1>3, <1>4, <1>5, <1>6, <1>7, InfoCases

\* Reading one more place of a DESY board.
LEMMA ProjectRead ==
  ASSUME LifeInv, DescriptionInv, pc = "walk", startup_brd, place # Nowhere,
         FillPrjInfo(board)
  PROVE  /\ startup_prj_num' = Len(prj_info_list')
         /\ \A k \in 1 .. Len(prj_info_list') :
              prj_info_list'[k].board = board
         /\ WalkSoFar(board, PlacesOf(prj_info_list', Len(prj_info_list')),
                      place')
<1> DEFINE n  == Len(prj_info_list)
           ps == PlacesOf(prj_info_list, n)
           e  == [board |-> board, place |-> place]
           more == <<e>> \o prj_info_list
<1>1. /\ startup_prj_num = n
      /\ \A k \in 1 .. n : prj_info_list[k].board = board
      /\ WalkSoFar(board, ps, place)
  BY DEF DescriptionInv, ProjectsSoFar
<1>2. board \in Boards /\ place \in Places
  BY HasBoard, ListFacts
<1>0. /\ prj_info_list \in Seq(PrjInfo) /\ n \in 0 .. Len(prj_info_list)
      /\ \A d \in PrjInfo : d.place \in Places
  BY ListFacts
<1>3. ps \in Seq(Places)
  BY <1>0, PlacesFacts
<1>4. WalkSoFar(board, IF HasMagic(board, place) THEN Append(ps, place)
                                                 ELSE ps, place')
  BY <1>1, <1>2, <1>3, WalkStep DEF FillPrjInfo
<1>5. CASE ~ HasMagic(board, place)
  BY <1>1, <1>4, <1>5 DEF FillPrjInfo
<1>6. CASE HasMagic(board, place)
  <2>1. e \in PrjInfo /\ e.board = board /\ e.place = place
    BY <1>2 DEF PrjInfo
  <2>2. prj_info_list' = more /\ startup_prj_num' = n + 1
    BY <1>1, <1>6 DEF FillPrjInfo
  <2>3. n \in Nat /\ n \in 0 .. Len(prj_info_list)
    BY ListFacts
  <2> HIDE DEF e
  <2>4. /\ Len(more) = n + 1 /\ more[1] = e
        /\ \A k \in 1 .. n : more[k + 1] = prj_info_list[k]
    BY <2>1, ListFacts, Prepended
  <2>5. PlacesOf(more, n + 1) = Append(ps, place)
    <3>1. PlacesOf(more, n + 1) = Append(ps, e.place)
      BY <1>0, <2>1, PlacesPushed
    <3> QED BY <2>1, <3>1
  <2> HIDE DEF more
  <2>6. ASSUME NEW k \in 1 .. n + 1 PROVE more[k].board = board
    <3>1. CASE k = 1
      BY <2>1, <2>4, <3>1
    <3>2. CASE k # 1
      <4>1. k - 1 \in 1 .. n /\ (k - 1) + 1 = k
        BY <2>3, <3>2
      <4>2. more[k] = prj_info_list[k - 1]
        BY <2>4, <4>1
      <4> QED BY <1>1, <4>1, <4>2
    <3> QED BY <3>1, <3>2
  <2>7. WalkSoFar(board, PlacesOf(more, n + 1), place')
    BY <1>4, <1>6, <2>5
  <2> QED BY <2>2, <2>4, <2>6, <2>7
<1> QED BY <1>5, <1>6

\* No place is read yet.
LEMMA NoPlaces ==
  ASSUME NEW S, \A e \in S : e.place \in Places, NEW list \in Seq(S)
  PROVE  PlacesOf(list, 0) = <<>>
<1>1. 0 \in 0 .. Len(list)
  OBVIOUS
<1>2. PlacesOf(list, 0) \in Seq(Places) /\ Len(PlacesOf(list, 0)) = 0
  BY <1>1, PlacesFacts
<1> QED BY <1>2

\* The project list holds the projects of the board that is probed.
LEMMA ProjectsStep ==
  ASSUME LifeInv, DescriptionInv, [Next]_vars
  PROVE  ProjectsSoFar'
<1> USE DEF DescriptionInv, At, Goto
<1>1. CASE Unload
  BY <1>1 DEF Unload, InfoFresh, ProjectsSoFar
<1>2. CASE ProbeInfo
  BY <1>2 DEF ProbeInfo, GetBrdinfo, ProjectsSoFar
<1>3. CASE ProbeList
  <2>1. /\ pc = "list" /\ pc' = "walk" /\ board' = board
        /\ UNCHANGED <<startup_brd, prj_info_list>>
        /\ prj_info_list = <<>> /\ Len(prj_info_list) = 0
    BY <1>3
       DEF ProbeList, GetPrjinfo, GetShapiModuleInfo, infoVars, ProjectsSoFar
  <2>2. CASE startup_brd
    <3>1. GetPrjinfo(board) /\ PCIEDEV_PROJ_NEXT = Chip[board].first
      BY <1>3, <2>1, <2>2 DEF ProbeList, Identified
    <3>2. startup_prj_num' = 0 /\ place' = WalkFrom(board, Chip[board].first)
      BY <3>1 DEF GetPrjinfo
    <3>3. PlacesOf(prj_info_list, 0) = <<>>
      BY ListFacts, NoPlaces
    <3>4. WalkSoFar(board, PlacesOf(prj_info_list, 0), place')
      BY <2>1, <3>2, <3>3, HasBoard, WalkBegins
    <3> QED BY <2>1, <2>2, <3>2, <3>4 DEF ProjectsSoFar
  <2>3. CASE ~ startup_brd
    BY <2>1, <2>3 DEF ProjectsSoFar
  <2> QED BY <2>2, <2>3
<1>4. CASE ProbeWalk
  <2>1. /\ pc = "walk" /\ pc' = "walk" /\ board' = board /\ place # Nowhere
        /\ startup_brd' = startup_brd
    BY <1>4 DEF ProbeWalk, FillPrjInfo, FillShapiModuleInfo, lifeVars
  <2>2. CASE startup_brd
    <3>1. FillPrjInfo(board)
      BY <1>4, <2>1, <2>2 DEF ProbeWalk, Identified
    <3> QED BY <2>1, <2>2, <3>1, ProjectRead DEF ProjectsSoFar
  <2>3. CASE ~ startup_brd
    BY <1>4, <2>1, <2>3
       DEF ProbeWalk, FillShapiModuleInfo, ProjectsSoFar
  <2> QED BY <2>2, <2>3
<1>5. CASE ProbePublish
  BY <1>5 DEF ProbePublish, infoVars, ProjectsSoFar
<1>6. CASE RemoveInfo
  BY <1>6 DEF RemoveInfo, FreePrjInfo, ProjectsSoFar
<1>7. CASE Aside
  BY <1>7 DEF Aside, infoVars, ProjectsSoFar
<1> QED BY <1>1, <1>2, <1>3, <1>4, <1>5, <1>6, <1>7, InfoCases
(***************************************************************************)
(* The newest n entries of the module list are the walk over board b.      *)
(***************************************************************************)
OwnModules(b, list, n, p) ==
  /\ n <= Len(list)
  /\ \A k \in 1 .. n : list[k].board = b /\ list[k].module_num = n - k + 1
  /\ WalkSoFar(b, PlacesOf(list, n), p)

\* Reading one more place of a SHAPI board.
LEMMA ModuleRead ==
  ASSUME LifeInv, DescriptionInv, pc = "walk", shapi_brd, place # Nowhere,
         FillShapiModuleInfo(board)
  PROVE  /\ \A k \in 1 .. Len(module_info_list') :
              module_info_list'[k].board \in hosts
         /\ Linked(module_info_list') /\ SamePlace(module_info_list')
         /\ OwnModules(board, module_info_list', shapi_module_num', place')
<1> DEFINE list == module_info_list
           n    == shapi_module_num
           ps   == PlacesOf(list, n)
           e    == [board |-> board, place |-> place, module_num |-> n + 1]
           more == <<e>> \o list
<1>0. /\ list \in Seq(ModuleInfo) /\ \A d \in ModuleInfo : d.place \in Places
      /\ n \in Nat /\ Len(list) \in Nat
  BY ListFacts
<1>1. /\ \A k \in 1 .. Len(list) : list[k].board \in hosts
      /\ Linked(list) /\ SamePlace(list)
      /\ board \in hosts /\ n <= Len(list)
      /\ \A k \in 1 .. n :
           list[k].board = board /\ list[k].module_num = n - k + 1
      /\ WalkSoFar(board, ps, place)
  BY DEF DescriptionInv, ModulesSoFar
<1>2. board \in Boards /\ place \in Places /\ n \in 0 .. Len(list)
  BY <1>0, <1>1, HasBoard, ListFacts
<1>3. /\ ps \in Seq(Places) /\ Len(ps) = n
      /\ \A k \in 1 .. n : ps[k] = list[n - k + 1].place
  BY <1>0, <1>2, PlacesFacts
<1>4. WalkSoFar(board, IF HasMagic(board, place) THEN Append(ps, place)
                                                 ELSE ps, place')
  BY <1>1, <1>2, <1>3, WalkStep DEF FillShapiModuleInfo
<1>5. CASE ~ HasMagic(board, place)
  BY <1>1, <1>4, <1>5 DEF FillShapiModuleInfo, OwnModules
<1>6. CASE HasMagic(board, place)
  <2>1. /\ e \in ModuleInfo /\ e.board = board /\ e.place = place
        /\ e.module_num = n + 1
    BY <1>0, <1>2 DEF ModuleInfo
  <2>2. module_info_list' = more /\ shapi_module_num' = n + 1
    BY <1>6 DEF FillShapiModuleInfo
  <2> HIDE DEF e
  <2>3. /\ Len(more) = Len(list) + 1 /\ more[1] = e
        /\ \A k \in 1 .. Len(list) : more[k + 1] = list[k]
    BY <1>0, <2>1, Prepended
  <2>4. PlacesOf(more, n + 1) = Append(ps, place)
    <3>1. /\ list \in Seq(ModuleInfo) /\ n \in 0 .. Len(list)
          /\ \A d \in ModuleInfo : d.place \in Places
          /\ e \in ModuleInfo
      BY <1>0, <1>2, <2>1
    <3>2. PlacesOf(more, n + 1) = Append(ps, e.place)
      BY <3>1, PlacesPushed
    <3> QED BY <2>1, <3>2
  <2>5. Linked(more) /\ SamePlace(more)
    <3> HIDE DEF ps
    <3>1. IF ps = <<>> THEN IsFirst(board, place)
                       ELSE Follows(board, ps[Len(ps)], place)
      BY <1>1, <1>2, <1>3, <1>6, WalkReads
    <3>2. CASE n = 0
      <4>1. ps = <<>>
        BY <1>3, <3>2
      <4>2. IsFirst(e.board, e.place)
        BY <2>1, <3>1, <4>1
      <4> QED BY <1>0, <1>1, <1>2, <2>1, <3>2, <4>2, Piled
    <3>3. CASE n # 0
      <4>1. ps # <<>> /\ ps[Len(ps)] = list[1].place
        <5>1. n \in 1 .. n /\ n - n + 1 = 1
          BY <1>0, <3>3
        <5> QED BY <1>3, <3>3, <5>1
      <4>2. list[1].board = board /\ list[1].module_num = n
        <5>1. 1 \in 1 .. n /\ n - 1 + 1 = n
          BY <1>0, <3>3
        <5> QED BY <1>1, <5>1
      <4>3. Follows(e.board, list[1].place, e.place)
        BY <2>1, <3>1, <4>1
      <4> QED BY <1>0, <1>1, <1>2, <2>1, <3>3, <4>2, <4>3, Piled
    <3> QED BY <3>2, <3>3
  <2> HIDE DEF more
  <2>6. ASSUME NEW k \in 1 .. Len(more) PROVE more[k].board \in hosts
    <3>1. CASE k = 1
      BY <1>1, <2>1, <2>3, <3>1
    <3>2. CASE k # 1
      <4>1. k - 1 \in 1 .. Len(list) /\ (k - 1) + 1 = k
        BY <1>0, <2>3, <3>2
      <4>2. more[k] = list[k - 1]
        BY <2>3, <4>1
      <4> QED BY <1>1, <4>1, <4>2
    <3> QED BY <3>1, <3>2
  <2>7. ASSUME NEW k \in 1 .. n + 1
        PROVE  more[k].board = board /\ more[k].module_num = (n + 1) - k + 1
    <3>1. CASE k = 1
      BY <1>0, <2>1, <2>3, <3>1
    <3>2. CASE k # 1
      <4>1. PICK m \in 1 .. n : k = m + 1
        <5>1. k - 1 \in 1 .. n /\ k = (k - 1) + 1
          BY <1>0, <3>2
        <5> QED BY <5>1
      <4>2. m \in 1 .. Len(list)
        BY <1>0, <1>1
      <4>3. more[k] = list[m]
        BY <2>3, <4>1, <4>2
      <4>4. (n + 1) - k + 1 = n - m + 1
        BY <1>0, <4>1
      <4> QED BY <1>1, <4>3, <4>4
    <3> QED BY <3>1, <3>2
  <2>8. WalkSoFar(board, PlacesOf(more, n + 1), place')
    BY <1>4, <1>6, <2>4
  <2>9. n + 1 <= Len(more)
    BY <1>0, <1>1, <2>3
  <2>10. OwnModules(board, more, n + 1, place')
    BY <2>7, <2>8, <2>9 DEF OwnModules
  <2> QED BY <2>2, <2>5, <2>6, <2>10
<1> QED BY <1>5, <1>6

\* The module list holds walks only, the current one on top.
LEMMA ModulesStep ==
  ASSUME LifeInv, DescriptionInv, [Next]_vars
  PROVE  ModulesSoFar'
<1> USE DEF DescriptionInv, At, Goto
<1>1. CASE Unload
  <2>1. module_info_list' = <<>> /\ pc' = "unloaded"
    BY <1>1 DEF Unload, InfoFresh
  <2> QED BY <2>1 DEF ModulesSoFar, Linked, SamePlace
<1>2. CASE ProbeInfo
  <2>1. UNCHANGED <<module_info_list, hosts>> /\ pc' = "list"
    BY <1>2 DEF ProbeInfo, GetBrdinfo
  <2> QED BY <2>1 DEF ModulesSoFar
<1>3. CASE ProbeList
  <2>1. /\ pc = "list" /\ pc' = "walk" /\ board' = board
        /\ UNCHANGED <<shapi_brd, module_info_list>>
        /\ hosts' = IF shapi_brd THEN hosts \cup {board} ELSE hosts
    BY <1>3 DEF ProbeList, GetPrjinfo, GetShapiModuleInfo, infoVars
  <2>2. /\ \A k \in 1 .. Len(module_info_list) :
             module_info_list[k].board \in hosts'
        /\ Linked(module_info_list) /\ SamePlace(module_info_list)
    BY <2>1 DEF ModulesSoFar
  <2>3. CASE shapi_brd
    <3>1. /\ GetShapiModuleInfo(board)
          /\ SHAPI_FIRST_MODULE_ADDRESS = Chip[board].first
      BY <1>3, <2>1, <2>3 DEF ProbeList, Identified
    <3>2. shapi_module_num' = 0 /\ place' = WalkFrom(board, Chip[board].first)
      BY <3>1 DEF GetShapiModuleInfo
    <3>3. PlacesOf(module_info_list, 0) = <<>> /\ 0 <= Len(module_info_list)
      BY ListFacts, NoPlaces
    <3>4. WalkSoFar(board, PlacesOf(module_info_list, 0), place')
      BY <2>1, <3>2, <3>3, HasBoard, WalkBegins
    <3> QED BY <2>1, <2>2, <2>3, <3>2, <3>3, <3>4 DEF ModulesSoFar
  <2>4. CASE ~ shapi_brd
    BY <2>1, <2>2, <2>4 DEF ModulesSoFar
  <2> QED BY <2>3, <2>4
<1>4. CASE ProbeWalk
  <2>1. /\ pc = "walk" /\ pc' = "walk" /\ board' = board /\ place # Nowhere
        /\ UNCHANGED <<shapi_brd, hosts>>
    BY <1>4 DEF ProbeWalk, FillPrjInfo, FillShapiModuleInfo, lifeVars
  <2>2. CASE shapi_brd
    <3>1. FillShapiModuleInfo(board)
      BY <1>4, <2>1, <2>2 DEF ProbeWalk, Identified
    <3>2. board \in hosts
      BY <2>1, <2>2 DEF ModulesSoFar
    <3> QED BY <2>1, <2>2, <3>1, <3>2, ModuleRead
            DEF ModulesSoFar, OwnModules
  <2>3. CASE ~ shapi_brd
    <3>1. UNCHANGED module_info_list
      BY <1>4, <2>3 DEF ProbeWalk, FillPrjInfo
    <3> QED BY <2>1, <2>3, <3>1 DEF ModulesSoFar
  <2> QED BY <2>2, <2>3
<1>5. CASE ProbePublish
  BY <1>5 DEF ProbePublish, infoVars, ModulesSoFar
<1>6. CASE RemoveInfo
  <2>1. UNCHANGED <<module_info_list, hosts>> /\ pc' = "free"
    BY <1>6 DEF RemoveInfo, FreePrjInfo
  <2> QED BY <2>1 DEF ModulesSoFar
<1>7. CASE Aside
  BY <1>7 DEF Aside, infoVars, ModulesSoFar
<1> QED BY <1>1, <1>2, <1>3, <1>4, <1>5, <1>6, <1>7, InfoCases

-----------------------------------------------------------------------------
(* The theorems.                                                           *)

\* The state before the driver is loaded satisfies the invariant.
LEMMA DescriptionInit == Init => DescriptionInv
BY DEF Init, InfoInit, DescriptionInv, Identified, ProjectsSoFar,
       ModulesSoFar, Linked, SamePlace

\* Every step preserves it.
LEMMA DescriptionStep ==
  LifeInv /\ DescriptionInv /\ [Next]_vars => DescriptionInv'
<1> SUFFICES ASSUME LifeInv, DescriptionInv, [Next]_vars
             PROVE  DescriptionInv'
  OBVIOUS
<1>1. pc' = "bound" => place' = Nowhere
  <2> USE DEF DescriptionInv, At, Goto
  <2>1. CASE Unload \/ ProbeInfo \/ ProbeList \/ RemoveInfo
    BY <2>1 DEF Unload, ProbeInfo, ProbeList, RemoveInfo
  <2>2. CASE ProbeWalk
    BY <2>2 DEF ProbeWalk, lifeVars
  <2>3. CASE ProbePublish
    BY <2>3 DEF ProbePublish, infoVars
  <2>4. CASE Aside
    BY <2>4 DEF Aside, infoVars
  <2> QED BY <2>1, <2>2, <2>3, <2>4, InfoCases
<1> QED
  BY <1>1, IdentifiedStep, ProjectsStep, ModulesStep DEF DescriptionInv

(***************************************************************************)
(* The inductive invariant holds throughout: a walk in progress has read   *)
(* exactly the board's descriptions up to where it is.                     *)
(***************************************************************************)
THEOREM DescriptionSafety == Spec => []DescriptionInv
BY LifeSafety, DescriptionInit, DescriptionStep, PTL DEF Spec

\* A walk over a well-formed board is at no place it has read.
LEMMA WalkLeaves ==
  ASSUME NEW b \in Boards, NEW ps \in Seq(Places),
         NEW p \in Places \cup {Nowhere}, WalkSoFar(b, ps, p), WellFormed(b),
         NEW k \in 1 .. Len(ps)
  PROVE  ps[k] # p
<1>1. ps[k] \in Places
  OBVIOUS
<1>2. CASE p = Nowhere
  BY <1>1, <1>2, NowhereFacts
<1>3. CASE p # Nowhere /\ Chip[b].first # 0
  <2> SUFFICES ASSUME ps[k] = p PROVE FALSE
    OBVIOUS
  <2>1. p = <<0, p[2]>> /\ p[2] \in Offsets
    <3>1. p[1] = 0
      BY <1>3 DEF WalkSoFar, ChainSoFar
    <3> QED BY <1>3, <3>1 DEF Places
  <2>2. Rank(b)[p[2]] < Rank(b)[p[2]]
    BY <1>3 DEF WalkSoFar, ChainSoFar, Falls
  <2>3. Rank(b)[p[2]] \in Int
    BY <2>1, RankType
  <2> QED BY <2>2, <2>3
<1>4. CASE p # Nowhere /\ Chip[b].first = 0
  <2>1. \A q \in Described(b) : Chip[b].next[q] = 0 /\ q[1] \in Nat
    BY BarPlaceFacts DEF WellFormed, Described, HasMagic, Bars
  <2>2. ps[k] \in Described(b) /\ ps[k][1] < p[1]
    BY <1>4, <2>1 DEF WalkSoFar, Stuck, Loops, BarsSoFar
  <2> QED BY <2>1, <2>2
<1> QED BY <1>2, <1>3, <1>4

(***************************************************************************)
(* The walks over a well-formed board read no description twice, so each   *)
(* of them reads at most as many as the board has.                         *)
(***************************************************************************)
THEOREM WalksAreFresh == Spec => []WalkIsFresh
<1>1. LifeInv /\ DescriptionInv => WalkIsFresh
  <2> SUFFICES ASSUME LifeInv, DescriptionInv, pc = "walk", WellFormed(board)
               PROVE  WalkIsFresh
    BY DEF WalkIsFresh, At
  <2>0. board \in Boards /\ place \in Places \cup {Nowhere}
    BY HasBoard DEF LifeInv, TypeOK, InfoTypes
  <2>1. ASSUME startup_brd, NEW k \in DOMAIN prj_info_list
        PROVE  prj_info_list[k].place # place
    <3> DEFINE n  == Len(prj_info_list)
               ps == PlacesOf(prj_info_list, n)
    <3>1. /\ prj_info_list \in Seq(PrjInfo) /\ n \in 0 .. n /\ k \in 1 .. n
          /\ \A e \in PrjInfo : e.place \in Places
      BY <2>1, ListFacts
    <3>2. /\ ps \in Seq(Places) /\ Len(ps) = n
          /\ \A m \in 1 .. n : ps[m] = prj_info_list[n - m + 1].place
      BY <3>1, PlacesFacts, ZenonT(40)
    <3>3. WalkSoFar(board, ps, place)
      BY <2>1 DEF DescriptionInv, ProjectsSoFar
    <3>4. n - k + 1 \in 1 .. n /\ n - (n - k + 1) + 1 = k
      BY <3>1
    <3> HIDE DEF ps
    <3>5. ps[n - k + 1] # place
      BY <2>0, <3>2, <3>3, <3>4, WalkLeaves
    <3> QED BY <3>2, <3>4, <3>5
  <2>2. ASSUME shapi_brd, NEW k \in 1 .. shapi_module_num
        PROVE  module_info_list[k].place # place
    <3> DEFINE n  == shapi_module_num
               ps == PlacesOf(module_info_list, n)
    <3>1. /\ module_info_list \in Seq(ModuleInfo)
          /\ n \in 0 .. Len(module_info_list)
          /\ \A e \in ModuleInfo : e.place \in Places
      BY <2>2, ListFacts DEF DescriptionInv, ModulesSoFar
    <3>2. /\ ps \in Seq(Places) /\ Len(ps) = n
          /\ \A m \in 1 .. n : ps[m] = module_info_list[n - m + 1].place
      BY <3>1, PlacesFacts
    <3>3. WalkSoFar(board, ps, place)
      BY <2>2 DEF DescriptionInv, ModulesSoFar
    <3>4. n - k + 1 \in 1 .. n /\ n - (n - k + 1) + 1 = k
      BY <3>1
    <3> HIDE DEF ps
    <3>5. ps[n - k + 1] # place
      BY <2>0, <3>2, <3>3, <3>4, WalkLeaves
    <3> QED BY <3>2, <3>4, <3>5
  <2> QED BY <2>1, <2>2 DEF WalkIsFresh
<1> QED BY <1>1, LifeSafety, DescriptionSafety, PTL

(***************************************************************************)
(* A published DESY board is shown with its own identification and exactly *)
(* its own projects, and no other board with any, whatever boards          *)
(* pciedev_probe_exp and pciedev_remove_exp had in the structure before.   *)
(***************************************************************************)
THEOREM ProjectsAreOwn == Spec => []DesyDescription
<1>1. LifeInv /\ DescriptionInv => DesyDescription
  <2> SUFFICES ASSUME LifeInv, DescriptionInv, pc = "bound"
               PROVE  DesyDescription
    BY DEF DesyDescription, At
  <2>1. CASE startup_brd
    <3> DEFINE n == Len(prj_info_list)
    <3>1. Kind(board) = "desy" /\ brd_info_list = board
      BY <2>1 DEF DescriptionInv, Identified
    <3>2. /\ startup_prj_num = n
          /\ \A k \in 1 .. n : prj_info_list[k].board = board
          /\ WalkSoFar(board, PlacesOf(prj_info_list, n), Nowhere)
      BY <2>1 DEF DescriptionInv, ProjectsSoFar
    <3>3. /\ prj_info_list \in Seq(PrjInfo) /\ n \in 0 .. Len(prj_info_list)
          /\ \A e \in PrjInfo : e.place \in Places
          /\ DOMAIN prj_info_list = 1 .. n
      BY ListFacts
    <3>4. PlacesOf(prj_info_list, n) \in Seq(Places)
      BY <3>3, PlacesFacts
    <3>5. Describes(board, PlacesOf(prj_info_list, n))
      BY <3>2, <3>4, HasBoard, WalkEnds
    <3> QED BY <2>1, <3>1, <3>2, <3>3, <3>5 DEF DesyDescription
  <2>2. CASE ~ startup_brd
    BY <2>2 DEF DescriptionInv, ProjectsSoFar, DesyDescription
  <2> QED BY <2>1, <2>2
<1> QED BY <1>1, LifeSafety, DescriptionSafety, PTL

\* A set of numbers up to some bound has a greatest element.
LEMMA GreatestOf ==
  ASSUME NEW n \in Nat, NEW S \in SUBSET (1 .. n), S # {}
  PROVE  \E k \in S : \A m \in S : m <= k
<1> DEFINE T == {n - k : k \in S}
<1>1. T \in SUBSET Nat /\ T # {}
  <2>1. \A k \in S : n - k \in Nat
    OBVIOUS
  <2>2. PICK k : k \in S
    OBVIOUS
  <2>3. n - k \in T
    BY <2>2
  <2> QED BY <2>1, <2>3
<1> HIDE DEF T
<1>2. PICK x \in T : \A y \in T : x <= y
  BY <1>1, LeastOf
<1>3. PICK k \in S : x = n - k
  BY DEF T
<1>4. ASSUME NEW m \in S PROVE m <= k
  <2>1. n - m \in T
    BY DEF T
  <2>2. n - k <= n - m
    BY <1>2, <1>3, <2>1
  <2> QED BY <2>2
<1> QED BY <1>4

\* PCIEDEV_GET_SHAPI_MODINFO finds the board's own module, though the list
\* may hold it several times.
LEMMA LookupFindsOwn ==
  ASSUME LifeInv, DescriptionInv, pc = "bound", shapi_brd, hosts = {board},
         NEW n \in 1 .. shapi_module_num
  PROVE  /\ Matches(n) # {}
         /\ ModInfo(n) =
              [board |-> board,
               place |-> PlacesOf(module_info_list, shapi_module_num)[n],
               module_num |-> n]
<1> DEFINE list == module_info_list
           num  == shapi_module_num
<1>1. /\ list \in Seq(ModuleInfo) /\ Len(list) \in Nat /\ num \in Nat
      /\ \A e \in ModuleInfo : e.place \in Places
  BY ListFacts
<1>2. /\ \A k \in 1 .. Len(list) : list[k].board \in hosts
      /\ SamePlace(list) /\ num <= Len(list)
      /\ \A k \in 1 .. num :
           list[k].board = board /\ list[k].module_num = num - k + 1
  BY DEF DescriptionInv, ModulesSoFar
<1>3. PICK m : m = num - n + 1
  OBVIOUS
<1>4. m \in 1 .. num /\ m \in 1 .. Len(list) /\ num - m + 1 = n
  BY <1>1, <1>2, <1>3
<1>5. list[m].board = board /\ list[m].module_num = n
  BY <1>2, <1>4
<1>6. m \in Matches(n)
  BY <1>4, <1>5 DEF Matches
<1>7. PlacesOf(list, num)[n] = list[m].place
  BY <1>3 DEF PlacesOf
<1> DEFINE c == CHOOSE k \in Matches(n) : \A j \in Matches(n) : j <= k
<1>8. c \in Matches(n)
  <2>1. Matches(n) \in SUBSET (1 .. Len(list)) /\ Matches(n) # {}
    BY <1>6 DEF Matches
  <2>2. \E k \in Matches(n) : \A j \in Matches(n) : j <= k
    BY <1>1, <2>1, GreatestOf
  <2> QED BY <2>2
<1>9. ModInfo(n) = list[c]
  BY DEF ModInfo
<1> HIDE DEF c
<1>10. c \in 1 .. Len(list) /\ list[c].module_num = n
  BY <1>8 DEF Matches
<1>11. list[c].board = board
  BY <1>2, <1>10
<1>12. list[c].place = list[m].place
  BY <1>2, <1>4, <1>5, <1>10, <1>11 DEF SamePlace
<1>13. list[c] \in ModuleInfo
  BY <1>1, <1>10
<1>14. list[c] = [board |-> list[c].board, place |-> list[c].place,
                  module_num |-> list[c].module_num]
  BY <1>13 DEF ModuleInfo
<1> QED BY <1>6, <1>7, <1>9, <1>10, <1>11, <1>12, <1>14

(***************************************************************************)
(* A published SHAPI board is shown with its own identification, the       *)
(* newest modules of the list are exactly its own, and a lookup by number  *)
(* finds them as long as the structure had no other SHAPI board: removing  *)
(* and probing the same board again, which leaves its modules on the list  *)
(* twice, does no harm.                                                    *)
(***************************************************************************)
THEOREM ModulesAreOwn == Spec => []ShapiDescription
<1>1. LifeInv /\ DescriptionInv => ShapiDescription
  <2> SUFFICES ASSUME LifeInv, DescriptionInv, pc = "bound", shapi_brd
               PROVE  ShapiDescription
    BY DEF ShapiDescription, At
  <2> DEFINE ps == PlacesOf(module_info_list, shapi_module_num)
  <2>1. Kind(board) = "shapi" /\ device_info_list = board
    BY DEF DescriptionInv, Identified
  <2>2. /\ shapi_module_num <= Len(module_info_list)
        /\ WalkSoFar(board, ps, Nowhere)
    BY DEF DescriptionInv, ModulesSoFar
  <2>3. /\ module_info_list \in Seq(ModuleInfo)
        /\ shapi_module_num \in 0 .. Len(module_info_list)
        /\ \A e \in ModuleInfo : e.place \in Places
    BY <2>2, ListFacts
  <2>4. ps \in Seq(Places)
    BY <2>3, PlacesFacts
  <2>5. Describes(board, ps)
    BY <2>2, <2>4, HasBoard, WalkEnds
  <2>6. hosts = {board} =>
          \A n \in 1 .. shapi_module_num :
            /\ Matches(n) # {}
            /\ ModInfo(n) =
                 [board |-> board, place |-> ps[n], module_num |-> n]
    BY LookupFindsOwn
  <2> QED BY <2>1, <2>2, <2>5, <2>6 DEF ShapiDescription
<1> QED BY <1>1, LifeSafety, DescriptionSafety, PTL
=============================================================================
