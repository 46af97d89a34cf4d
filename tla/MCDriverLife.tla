---------------------------- MODULE MCDriverLife ----------------------------
(***************************************************************************)
(* DriverLife for TLC: a board for every way the descriptions can be laid  *)
(* out.  Two DESY boards (a chain of two in BAR 0; one in each other BAR)  *)
(* and two SHAPI boards (the same) share two slots; a third DESY board has *)
(* a chain that bites its tail; the last board has no BAR 0.               *)
(***************************************************************************)
EXTENDS DriverLife

CONSTANTS desy_chain, desy_bars, desy_cycle, shapi_chain, shapi_bar, plain

MCBoards == {desy_chain, desy_bars, desy_cycle, shapi_chain, shapi_bar, plain}

At4(o1, o2, b1, b2) ==
  [p \in Places |->
     CASE p = <<0, 1>> -> o1 [] p = <<0, 2>> -> o2
       [] p = <<1, 0>> -> b1 [] p = <<2, 0>> -> b2]

Layout(kind, slot, bars, first, next) ==
  [kind |-> kind, slot |-> slot, bars |-> bars, first |-> first, next |-> next]

MCChip ==
  [b \in MCBoards |->
     CASE b = desy_chain  -> Layout("desy", 1, {0, 1}, 1, At4(2, 0, 0, NoMagic))
       [] b = desy_bars   -> Layout("desy", 1, {0, 1, 2}, 0, At4(0, NoMagic, 0, 0))
       [] b = desy_cycle  -> Layout("desy", 2, {0}, 2, At4(2, 1, NoMagic, NoMagic))
       [] b = shapi_chain -> Layout("shapi", 2, {0}, 2, At4(NoMagic, 1, 0, 0))
       [] b = shapi_bar   -> Layout("shapi", 2, {0, 2}, 0, At4(0, 0, 0, 0))
       [] b = plain       -> Layout("other", 2, {1}, 0, At4(0, 0, 0, 0))]
=============================================================================
