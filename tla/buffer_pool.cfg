SPECIFICATION Spec
CONSTANTS
  Thread = {t1, t2}
  Frame = {f1, f2}
  Value = {zero, v1}
  Zero = zero
  MaxPage = 3
  MaxGuards = 2
  MaxDeletes = 1
  Unallocated = Unallocated
  NoReply = NoReply
  Done = Done
  Failed = Failed
  NoThread = NoThread
  NoFrame = NoFrame
  NoPage = NoPage
SYMMETRY Symmetry
INVARIANTS
  TypeOK
  PageTableMatchesMetas
  PinsCountGuards
  EvictableIffUnpinned
  GuardKeepsItsFrame
  MutexHolderWaitsOnlyForDrops
PROPERTIES
  FramesAccountedFor
  ImplementsPageStore
