----------------------------- MODULE MCPcieDev -----------------------------
(***************************************************************************)
(* PcieDev for TLC.  The constants are given in the .cfg files; threads,   *)
(* files and boards are interchangeable.                                   *)
(***************************************************************************)
EXTENDS PcieDev, TLC

Symmetry ==
  Permutations(Threads) \cup Permutations(Files) \cup Permutations(Boards)
=============================================================================
