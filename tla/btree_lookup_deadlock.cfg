SPECIFICATION Spec
CONSTANTS
  Thread = {t1, t2}
  Entry <- Four
  Updated <- Four
  InitialTrees <- OnlyEmpty
  MayOverlap <- RemovesAndGets
  LeafMax = 3
  InternalMax = 3
  TombCap = 0
  Page = {1, 2, 3, 4, 5, 6}
INVARIANT NoLatchCycle
