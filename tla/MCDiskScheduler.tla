--------------------------- MODULE MCDiskScheduler ---------------------------
(***************************************************************************)
(* DiskScheduler for TLC.                                                  *)
(***************************************************************************)
EXTENDS DiskScheduler
=============================================================================
