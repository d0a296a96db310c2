SPECIFICATION Spec
CONSTANTS
  FracBits = 4
  WordBits = 8
  MaxKvIdx = 4
  CHUNK_SIZE = 1
  User = {u1}
  Key = {k1, k2, k3}
  Data <- OneOrEmpty
  NoSkey = NoSkey
  Revert = Revert
  chunkSize = 1
  maxKvSize = 1
  startTime = 0
  storageCost = 2
  dcfFactor = 8
  KvSizeBits = 2
  MaxTime = 1
  Supply = 8
INVARIANTS
  TypeOK
  KeysOwnSlots
  SlotsDense
  Solvent
CHECK_DEADLOCK FALSE
