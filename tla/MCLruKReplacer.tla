--------------------------- MODULE MCLruKReplacer ---------------------------
(***************************************************************************)
(* LruKReplacer for TLC.  The frames are interchangeable: no definition    *)
(* compares two of them, only their access times.                          *)
(***************************************************************************)
EXTENDS LruKReplacer, TLC

FrameSymmetry == Permutations(Frame)
=============================================================================
