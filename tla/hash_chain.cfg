SPECIFICATION Spec
CONSTANTS
  FracBits = 5
  WordBits = 10
  MaxExp = 40
  LastExact = 6
  Byte = {1, 2}
  ChunkSizes = {1, 2}
  MaxTreeBits = 3
  MaxLen = 5
  chunkWords = 2
  kvWords = 4
  DataWord = {1, 2}
  hash0 = hash0
  MaxAnswers = 3
  MaxTail = 2
  ByteBits = 4
  WordBytes = 2
  FnvPrime = 83
  shardEntryBits = 1
  Reverted = Reverted
  LastEpoch = 1
  HashBits = 16
  MaxHashes = 1
INVARIANT
  ChainMatchesMiner
CHECK_DEADLOCK FALSE
