\* k = 2 as in BufferPoolManager::new.  Seven accesses let three frames have
\* full histories with one access to spare.
SPECIFICATION Spec
CONSTANTS
  Frame = {f1, f2, f3}
  k = 2
  MaxTime = 7
SYMMETRY FrameSymmetry
INVARIANTS
  CurrSizeCountsEvictable
  VictimHasLargestKDistance
PROPERTY
  ImplementsReplacer
\* The clock's bound stops the model, and so do callers that make no call.
CHECK_DEADLOCK FALSE
