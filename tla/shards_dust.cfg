SPECIFICATION SSpec
CONSTANTS
  FracBits = 3
  WordBits = 6
  MaxKvIdx = 3
  CHUNK_SIZE = 1
  User = {u1}
  Key = {k1, k2, k3}
  Data <- OneValue
  NoSkey = NoSkey
  Revert = Revert
  chunkSize = 1
  maxKvSize = 1
  startTime = 1
  storageCost = 5
  dcfFactor = 4
  KvSizeBits = 2
  MaxTime = 3
  Supply = 40
  shardEntryBits = 1
  minimumDiff = 1
  targetIntervalSec = 2
  cutoff = 1
  diffAdjDivisor = 1
  Prefund = 20
  NoHash = NoHash
  GenesisHash = GenesisHash
  MinedHash = {h1}
  MaxShardLenBits = 1
  MaxBlocks = 1
INVARIANT
  Funded
CHECK_DEADLOCK FALSE
