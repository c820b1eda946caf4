SPECIFICATION FairSpec
CONSTANTS
  Thread = {t1, t2}
  Entry <- Four
  Updated <- Four
  InitialTrees <- OnlyEmpty
  MayOverlap <- UpdatesAndReads
  LeafMax = 3
  InternalMax = 3
  TombCap = 0
  Page = {1, 2, 3, 4, 5}
INVARIANTS NoLatchCycle NoPageLeaked PanicsOnlyOnEmptiedTree AnswersInOrder
PROPERTIES ImplementsIndex EveryCallReturns
