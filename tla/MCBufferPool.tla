---------------------------- MODULE MCBufferPool ----------------------------
(***************************************************************************)
(* BufferPool for TLC.  Threads and frames are interchangeable.            *)
(***************************************************************************)
EXTENDS BufferPool, TLC

Symmetry == Permutations(Thread) \cup Permutations(Frame)
=============================================================================
