SPECIFICATION SSpec
CONSTANTS
  FracBits = 3
  WordBits = 6
  MaxKvIdx = 3
  CHUNK_SIZE = 2
  User = {u1}
  Key = {k1, k2, k3}
  Data <- LongValue
  NoSkey = NoSkey
  Revert = Revert
  chunkSize = 2
  maxKvSize = 2
  startTime = 1
  storageCost = 4
  dcfFactor = 4
  KvSizeBits = 1
  MaxTime = 3
  Supply = 24
  shardEntryBits = 1
  minimumDiff = 1
  targetIntervalSec = 2
  cutoff = 1
  diffAdjDivisor = 1
  Prefund = 16
  NoHash = NoHash
  GenesisHash = GenesisHash
  MinedHash = {h1}
  MaxShardLenBits = 1
  MaxBlocks = 2
SYMMETRY KeySymmetry
INVARIANTS
  PayableShardsOpened
  PayableShardsMinable
  Funded
PROPERTY
  RentNeverRestarts
CHECK_DEADLOCK FALSE
