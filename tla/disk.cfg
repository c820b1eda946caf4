\* One slot of initial capacity and three pages: the file has to grow, twice.
SPECIFICATION Spec
CONSTANTS
  Client = {c1, c2}
  Page = {1, 2, 3}
  Value = {zero, v1}
  Zero = zero
  Capacity = 1
  MaxQueue = 2
  Unallocated = Unallocated
  NoReply = NoReply
  Done = Done
  Failed = Failed
INVARIANTS
  SlotsPartitioned
  SlotsInFile
  JoinedMeansDrained
PROPERTIES
  ReadsSeeEarlierWrites
  ImplementsDiskService
  EveryRequestAnswered
  DropTerminates
\* A joined scheduler has stopped.
CHECK_DEADLOCK FALSE
