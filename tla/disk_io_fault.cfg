\* A freed slot is popped for a page whose I/O then fails.
SPECIFICATION FaultySpec
CONSTANTS
  Page = {1, 2, 3}
  Value = {zero, v1}
  Zero = zero
  Capacity = 4
INVARIANT
  AllocatedSlotIsUnused
