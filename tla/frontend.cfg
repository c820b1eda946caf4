CONSTANTS
  Null = Null
  MaxTables = 3
  MaxIndexes = 2
  MaxOf <- Widths
  Lowercase <- LowerNames
  Texts <- AllTexts
  InitialCatalogs <- Catalogs
SPECIFICATION Spec
INVARIANTS
  PlansMeanWhatWasWritten
  CatalogSound
PROPERTIES
  OnlyMeaningfulStatementsRun
  DefinitionsTakeEffectOrFail
