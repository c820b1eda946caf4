\* One frame and two pages: every load of the other page evicts.
SPECIFICATION FairSpec
CONSTANTS
  Thread = {t1, t2}
  Frame = {f1}
  Value = {zero, v1}
  Zero = zero
  MaxPage = 2
  MaxGuards = 1
  MaxDeletes = 1
  Unallocated = Unallocated
  NoReply = NoReply
  Done = Done
  Failed = Failed
  NoThread = NoThread
  NoFrame = NoFrame
  NoPage = NoPage
PROPERTIES
  MutexReleased
  CallsReturn
  DeleteReachesDisk
