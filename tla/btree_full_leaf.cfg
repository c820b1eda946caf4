SPECIFICATION Spec
CONSTANTS
  Thread = {t1}
  Entry <- Seven
  Updated <- Seven
  InitialTrees <- OnlyEmpty
  MayOverlap <- UpdatesAndReads
  LeafMax = 4
  InternalMax = 3
  TombCap = 0
  Page = {1, 2, 3, 4, 5}
INVARIANT NeverPanics
