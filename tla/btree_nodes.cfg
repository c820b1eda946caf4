SPECIFICATION Spec
CONSTANTS
  Thread = {t1}
  Entry <- Ten
  Updated <- Outer
  InitialTrees <- EmptyAndLoaded
  MayOverlap <- UpdatesAndReads
  LeafMax = 4
  InternalMax = 3
  TombCap = 0
  Page = {1, 2, 3, 4, 5, 6, 7, 8, 9, 10}
INVARIANTS SortedWhenQuiet BalancedWhenQuiet PanicsOnlyOnFullLeaf
PROPERTIES ImplementsIndex
