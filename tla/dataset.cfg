SPECIFICATION HDFairSpec
CONSTANTS
  hashBytes = 2
  Percents = 2
  Sizes <- AllSizes
  MaxThreads = 4
  NoItem = NoItem
  Garbled = Garbled
INVARIANTS
  NoWriteRace
  ProgressCountsItems
  CompleteOnReturn
PROPERTIES
  Returns
  ImplementsGenerateDataset
CHECK_DEADLOCK FALSE
