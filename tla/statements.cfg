CONSTANTS
  Null = Null
  BatchSize = 3
  SortBatchSize = 2
  PageCapacity = 2
  TempCapacity = 2
  MaxStatements = 2
  MaxPages = 9
  MaxOf <- Widths
  Columns <- TwoTables
  InitialTables <- FourStates
  StatementSet <- AllStatements
SPECIFICATION Spec
INVARIANTS
  OnlyOpenScansBlock
  IndexFollowsHeap
  PanicsOnlyOnNullKeysOrMixedTypes
PROPERTIES
  ImplementsDatabase
  OnlyErrorsLeakPages
CHECK_DEADLOCK FALSE
