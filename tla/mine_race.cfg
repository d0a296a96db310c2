SPECIFICATION MSpec
CONSTANTS
  FracBits = 3
  WordBits = 6
  MaxKvIdx = 2
  CHUNK_SIZE = 1
  User = {u1}
  Key = {k1, k2}
  Data <- TwoValues
  NoSkey = NoSkey
  Revert = Revert
  chunkSize = 1
  maxKvSize = 1
  startTime = 1
  storageCost = 4
  dcfFactor = 4
  KvSizeBits = 2
  MaxTime = 2
  Supply = 12
  shardEntryBits = 0
  randomChecks = 1
  minimumDiff = 1
  targetIntervalSec = 2
  cutoff = 1
  diffAdjDivisor = 1
  Prefund = 8
  Power = {2}
  NoHash = NoHash
  GenesisHash = GenesisHash
  MinedHash = {h1, h2}
  MaxShardLenBits = 0
  MaxBlocks = 3
  MaxSamples = 1
SYMMETRY KeySymmetry
PROPERTIES
  ImplementsShardedKV
  ReplayEarnsNothing
CHECK_DEADLOCK FALSE
