SPECIFICATION Spec
CONSTANTS
  FracBits = 4
  WordBits = 8
  MaxKvIdx = 3
  CHUNK_SIZE = 1
  User = {u1, u2}
  Key = {k1, k2}
  Data <- SomeData
  NoSkey = NoSkey
  Revert = Revert
  chunkSize = 1
  maxKvSize = 2
  startTime = 1
  storageCost = 5
  dcfFactor = 11
  KvSizeBits = 2
  MaxTime = 3
  Supply = 18
SYMMETRY Symmetry
INVARIANTS
  ReverseLookup
  CountsEntries
  Retrievable
PROPERTIES
  OnlyLastSlotMoves
  ImplementsKVStore
CHECK_DEADLOCK FALSE
