SPECIFICATION Spec
CONSTANTS
  FracBits = 5
  WordBits = 10
  MaxExp = 40
  LastExact = 6
  Byte = {1, 2}
  ChunkSizes = {1, 2}
  MaxTreeBits = 3
  MaxLen = 5
  chunkWords = 2
  kvWords = 2
  DataWord = {1, 2}
  hash0 = hash0
  MaxAnswers = 3
  MaxTail = 2
  ByteBits = 4
  WordBytes = 2
  FnvPrime = 83
  shardEntryBits = 1
  Reverted = Reverted
  LastEpoch = 2049
  HashBits = 16
  MaxHashes = 3
INVARIANTS
  DiscountNeverOverflows
  RoundsDown
  ProofAcceptsItsChunk
  ProofBindsPosition
  MinTreeIsSmallest
  CommitmentBinds
  ChainMatchesMiner
  HashimotoMatchesPrototype
  SizesAreHighestPrimes
  NeverShortOfBits
  FreshBits
PROPERTY
  PriceNeverRises
CHECK_DEADLOCK FALSE
