SPECIFICATION Spec
CONSTANTS
  Thread = {t1}
  Entry <- Four
  Updated <- Four
  InitialTrees <- OnlyEmpty
  MayOverlap <- UpdatesAndReads
  LeafMax = 4
  InternalMax = 3
  TombCap = 1
  Page = {1, 2, 3, 4, 5}
PROPERTY ImplementsIndex
