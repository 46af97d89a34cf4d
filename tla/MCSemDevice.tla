----------------------------- MODULE MCSemDevice -----------------------------
(***************************************************************************)
(* SemDevice for TLC; the constants are given in the .cfg file.            *)
(***************************************************************************)
EXTENDS SemDevice
=============================================================================
