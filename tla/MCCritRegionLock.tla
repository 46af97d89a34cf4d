-------------------------- MODULE MCCritRegionLock --------------------------
(***************************************************************************)
(* CritRegionLock for TLC; the constants are given in the .cfg files.      *)
(***************************************************************************)
EXTENDS CritRegionLock
=============================================================================
