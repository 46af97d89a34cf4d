------------------------------- MODULE Chips -------------------------------
(***************************************************************************)
(* The boards that can be plugged in, as far as the driver reads them.     *)
(*   kind   the magic number at the start of BAR 0                         *)
(*   slot   the slot number the switch reports                             *)
(*   bars   the BARs the board has                                         *)
(*   first  WORD_BOARD_TO_PROJ or WORD_FIRST_MODULE_ADDRESS                *)
(*   next   the next pointer of the project or module description at a     *)
(*          place, or NoMagic where there is no description                *)
(* A place is <<0, offset>> in BAR 0, or the start <<i, 0>> of another BAR.*)
(***************************************************************************)
EXTENDS Integers, FiniteSets

CONSTANTS
  Boards,
  NoBoard,
  Chip,             \* what is on each board
  NUMBER_OF_BARS,
  Offsets           \* offsets in BAR 0

Bars    == 0 .. (NUMBER_OF_BARS - 1)
NoMagic == -1
Places  == ({0} \X Offsets) \cup ((Bars \ {0}) \X {0})
Slots   == {Chip[b].slot : b \in Boards}

ChipType ==
  [kind  : {"desy", "shapi", "other"},
   slot  : Nat \ {0},
   bars  : SUBSET Bars,
   first : Offsets \cup {0},
   next  : [Places -> Offsets \cup {0, NoMagic}]]

ASSUME ChipAssumption ==
  /\ NUMBER_OF_BARS \in Nat \ {0}
  /\ Offsets \subseteq Nat \ {0}
  /\ NoBoard \notin Boards
  /\ Chip \in [Boards -> ChipType]

HasMagic(b, p) == Chip[b].next[p] # NoMagic

(***************************************************************************)
(* The descriptions of a well-formed board end: those in BAR 0 can be      *)
(* ranked so that every next pointer leads to a lower rank, and those at   *)
(* the start of another BAR point nowhere.                                 *)
(***************************************************************************)
WellFormed(b) ==
  /\ \A i \in Bars \ {0} : Chip[b].next[<<i, 0>>] \in {0, NoMagic}
  /\ \E rank \in [Offsets -> 0 .. Cardinality(Offsets)] :
       \A o, p \in Offsets : Chip[b].next[<<0, o>>] = p => rank[p] < rank[o]
=============================================================================
