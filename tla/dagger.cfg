SPECIFICATION DSpec
CONSTANTS
  FracBits = 3
  WordBits = 6
  MaxKvIdx = 3
  CHUNK_SIZE = 1
  User = {u1}
  Key = {k1, k2, k3}
  Data <- TwoData
  NoSkey = NoSkey
  Revert = Revert
  chunkSize = 1
  maxKvSize = 2
  startTime = 1
  storageCost = 4
  dcfFactor = 4
  KvSizeBits = 2
  MaxTime = 2
  Supply = 24
  shardEntryBits = 1
  randomChecks = 1
  chunkLenBits = 1
  minimumDiff = 1
  targetIntervalSec = 2
  cutoff = 1
  diffAdjDivisor = 1
  Prefund = 16
  Power = {2}
  NoHash = NoHash
  GenesisHash = GenesisHash
  MinedHash = {h1}
  MaxShardLenBits = 1
  MaxBlocks = 2
SYMMETRY KeySymmetry
INVARIANT
  StoredChunksProvable
PROPERTIES
  ImplementsShardedKV
  MinersHoldTheData
CHECK_DEADLOCK FALSE
