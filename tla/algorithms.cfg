SPECIFICATION GCFairSpec
CONSTANTS
  UintBits = 5
  OffsetBits = 8
  FnvPrime = 19
  hashWords = 4
  Lanes = 2
  datasetParents = 8
  cacheRounds = 3
  loopAccesses = 16
  keccak512 <- ToyHash
  Panic = Panic
  RowCounts = {2, 7, 17}
  Seeds <- ToySeeds
  FirstWords = {0, 10, 21, 30}
  CounterBits = 12
  DatasetRows = {3, 7}
INVARIANTS
  FullMatchesLight
  AvxMatchesScalar
  CMatchesGo
PROPERTIES
  MonitorEnds
  ReportsRise
CHECK_DEADLOCK FALSE
