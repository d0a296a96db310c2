---------------------- MODULE DKVDaggerHashimoto_proofs ---------------------
(***************************************************************************)
(* DKVDaggerHashimoto implements ShardedKV, whatever proofs of chunks are  *)
(* accepted, and so keeps what is proved of ShardedKV; and what the proofs *)
(* that it does accept say of the data that is stored.                     *)
(***************************************************************************)
EXTENDS DKVDaggerHashimoto, ShardedKV_proofs

(***************************************************************************)
(* What a solution says it is for.                                         *)
(***************************************************************************)
SolutionsTyped ==
  \A sol \in solutions :
    /\ sol.start \in Shard /\ sol.bits \in ShardLenBits
    /\ sol.start + 2 ^ sol.bits - 1 \in Shard
    /\ sol.minedTs \in Time
    /\ sol.id \in MinedHash
    /\ sol.samples \in [1..randomChecks -> Int]
    /\ sol.answers \in [1..randomChecks -> Answers]

LEMMA SamplesAreNumbers ==
  ASSUME NEW start, NEW bits, NEW chunk \in sampledChunks(start, bits)
  PROVE  chunk \in Int
BY DEF sampledChunks

LEMMA SolveTyped ==
  ASSUME SolutionsTyped, Solve
  PROVE  SolutionsTyped' /\ UNCHANGED shardVars
<1> DEFINE found(bits, start, minedTs, power, samples, answers) ==
             [id      |-> CHOOSE hash \in freshHash : TRUE,
              start   |-> start,
              bits    |-> bits,
              minedTs |-> minedTs,
              seen    |-> initHash(shardRange(start, bits)),
              samples |-> samples,
              answers |-> answers,
              power   |-> power]
<1>1. PICK bits \in ShardLenBits, start \in Shard, minedTs \in Time, power \in Power :
        /\ freshHash # {}
        /\ start + 2 ^ bits - 1 \in Shard
        /\ \E samples \in [1..randomChecks -> sampledChunks(start, bits)],
              answers \in [1..randomChecks -> Answers] :
             solutions' = solutions \cup {found(bits, start, minedTs, power, samples, answers)}
  BY DEF Solve
<1>2. (CHOOSE hash \in freshHash : TRUE) \in MinedHash
  BY <1>1 DEF freshHash
<1>3. PICK samples \in [1..randomChecks -> sampledChunks(start, bits)],
           answers \in [1..randomChecks -> Answers] :
        solutions' = solutions \cup {found(bits, start, minedTs, power, samples, answers)}
  BY <1>1
<1> DEFINE new == found(bits, start, minedTs, power, samples, answers)
<1>4. /\ new.start = start /\ new.bits = bits /\ new.minedTs = minedTs
      /\ new.id \in MinedHash /\ new.samples = samples /\ new.answers = answers
  BY <1>2
<1>5. solutions' = solutions \cup {new}
  BY <1>3
<1> HIDE DEF new
<1>6. samples \in [1..randomChecks -> Int]
  BY SamplesAreNumbers
<1>7. SolutionsTyped'
  BY <1>1, <1>4, <1>5, <1>6 DEF SolutionsTyped
<1>8. UNCHANGED shardVars
  BY DEF Solve
<1> QED BY <1>7, <1>8

(***************************************************************************)
(* A call of mine() that does not revert is a block of ShardedKV.          *)
(***************************************************************************)
LEMMA MineIsBlock == ASSUME SolutionsTyped, Mine PROVE SMine
<1>1. PICK sol \in solutions : mine(sol)
  BY DEF Mine
<1>2. /\ sol.start \in Shard /\ sol.bits \in ShardLenBits
      /\ sol.start + 2 ^ sol.bits - 1 \in Shard
      /\ sol.minedTs \in Time /\ sol.id \in MinedHash
  BY DEF SolutionsTyped
<1>3. totalDiff(shardsOf(sol), sol.minedTs) > 0
  <2>1. totalDiff(shardsOf(sol), sol.minedTs) \in 1..sol.power
    BY <1>1 DEF mine
  <2> QED BY <2>1
<1> QED BY <1>1, <1>2, <1>3 DEF mine, SMine, shardsOf

LEMMA StepImplements ==
  ASSUME SolutionsTyped, [DNext]_vars
  PROVE  SolutionsTyped' /\ [SNext]_shardVars
<1>1. CASE Contract /\ UNCHANGED <<solutions, used>>
  BY <1>1 DEF Contract, SNext, SolutionsTyped
<1>2. CASE Solve
  BY <1>2, SolveTyped
<1>3. CASE Mine
  BY <1>3, MineIsBlock DEF SNext, SolutionsTyped, Mine, mine
<1>4. CASE UNCHANGED vars
  BY <1>4 DEF vars, SolutionsTyped
<1> QED BY <1>1, <1>2, <1>3, <1>4 DEF DNext

(***************************************************************************)
(* Whatever solutions are found, and whenever they are submitted, the      *)
(* contract with Merkle proofs of chunks behaves as the sharded store.     *)
(***************************************************************************)
THEOREM DaggerImplements == DSpec => ImplementsShardedKV
<1>1. DInit => SInit /\ SolutionsTyped
  BY DEF DInit, SolutionsTyped
<1>2. SolutionsTyped /\ [DNext]_vars => SolutionsTyped' /\ [SNext]_shardVars
  BY StepImplements
<1> QED BY <1>1, <1>2, PTL DEF DSpec, ImplementsShardedKV, SSpec

(***************************************************************************)
(* Of this contract, too: payable shards are open, difficulty has a floor, *)
(* and rent is never paid twice.                                           *)
(***************************************************************************)
THEOREM DaggerSafe ==
  DSpec => [](STypeOK /\ PayableShardsOpened /\ DifficultyAtLeastMinimum) /\ RentNeverRestarts
<1> QED BY DaggerImplements, ShardsOpened, RentPaidOnce, PTL DEF ImplementsShardedKV
-----------------------------------------------------------------------------
(***************************************************************************)
(* The number of a chunk is that of its slot and its place there.          *)
(***************************************************************************)
LEMMA PlacesInSlot ==
  ASSUME NEW chunk \in Int
  PROVE  chunkIdxOf(chunk) \in Nat
<1> DEFINE m == 2 ^ chunkLenBits
<1>1. m \in Nat \ {0}
  BY DaggerAssumption, PowersPositive
<1>2. chunk % m \in 0..m - 1
  <2> HIDE DEF m
  <2> QED BY <1>1
<1> QED BY <1>2 DEF chunkIdxOf

LEMMA ChunkOfPlace ==
  ASSUME NEW i \in Nat, NEW j \in 0..2 ^ chunkLenBits - 1
  PROVE  /\ kvIdxOf(i * 2 ^ chunkLenBits + j) = i
         /\ chunkIdxOf(i * 2 ^ chunkLenBits + j) = j
<1> DEFINE m == 2 ^ chunkLenBits
           n == i * m + j
<1>1. m \in Nat \ {0} /\ j \in Nat /\ j < m
  BY DaggerAssumption, PowersPositive
<1> HIDE DEF m
<1>2. n \in Nat
  BY <1>1
<1> DEFINE q == n \div m
<1>3. q \in Nat /\ m * q <= n /\ n < m * q + m /\ n % m = n - m * q
  BY <1>1, <1>2, QuotientRange
<1> HIDE DEF q
<1>4. q = i
  <2>1. ~(q > i)
    <3> SUFFICES ASSUME q > i PROVE FALSE
      OBVIOUS
    <3>1. PICK e \in Nat : q = i + 1 + e
      <4>1. q - i - 1 \in Nat /\ q = i + 1 + (q - i - 1)
        BY <1>3
      <4> QED BY <4>1
    <3>2. m * q = i * m + m + m * e /\ m * e \in Nat
      BY <1>1, <3>1
    <3> QED BY <3>2, <1>1, <1>3
  <2>2. ~(i > q)
    <3> SUFFICES ASSUME i > q PROVE FALSE
      OBVIOUS
    <3>1. PICK e \in Nat : i = q + 1 + e
      <4>1. i - q - 1 \in Nat /\ i = q + 1 + (i - q - 1)
        BY <1>3
      <4> QED BY <4>1
    <3>2. i * m = m * q + m + m * e /\ m * e \in Nat
      BY <1>1, <1>3, <3>1
    <3> QED BY <3>2, <1>1, <1>3
  <2> QED BY <2>1, <2>2, <1>3
<1>5. n % m = j
  BY <1>1, <1>3, <1>4
<1> QED BY <1>4, <1>5 DEF kvIdxOf, chunkIdxOf, q, m
-----------------------------------------------------------------------------
(***************************************************************************)
(* The chunk that an answer carries is the one that a leaf hashes.         *)
(***************************************************************************)
LEMMA ChunkOfLeaf ==
  ASSUME NEW data \in Data, NEW i \in Nat
  PROVE  /\ i * chunkSize < Len(data)
              => leafAt(data, chunkSize, i) = hashChunk(chunkOf(data, i))
         /\ ~(i * chunkSize < Len(data)) => leafAt(data, chunkSize, i) = ZeroHash
<1>1. PICK off \in Nat : off = i * chunkSize
  BY ConstructorAssumption
<1>2. Len(data) \in Nat /\ chunkSize \in Nat
  BY DataAssumption, ConstructorAssumption
<1>3. /\ i * chunkSize < Len(data) <=> ~(off >= Len(data))
      /\ (Len(data) - off >= chunkSize) <=> (off + chunkSize <= Len(data))
  BY <1>1, <1>2
<1>4. chunkAt(data, chunkSize, i) = chunkOf(data, i)
  BY <1>1, <1>3, Zenon DEF chunkAt, chunkOf
<1> QED BY <1>1, <1>3, <1>4, Zenon DEF leafAt

LEMMA AnswersHaveProofs ==
  ASSUME NEW answer \in Answers
  PROVE  \E Sibling : answer.proofs \in Seq(Sibling)
<1>1. PICK data \in Data, bits \in 0..chunkLenBits : \E i : answer = answerFrom(data, bits, i)
  BY DEF Answers
<1>2. PICK i : answer = answerFrom(data, bits, i)
  BY <1>1
<1>3. answer.proofs = getProof(data, chunkSize, bits, i)
  BY <1>2 DEF answerFrom
<1>4. bits \in Nat
  BY DaggerAssumption
<1> QED BY <1>3, <1>4, ProofIsSequence

(***************************************************************************)
(* No chunk is proved against the zero word, and a chunk that is proved    *)
(* against the commitment of a value is the chunk of that value at that    *)
(* place.                                                                  *)
(***************************************************************************)
LEMMA ProofsBind ==
  ASSUME NEW answer \in Answers, NEW i \in Nat
  PROVE  /\ ~proves(i, answer, ZeroHash)
         /\ \A data \in Data :
              proves(i, answer, commitment[data]) => answer.data = chunkOf(data, i)
<1>1. PICK Sibling : answer.proofs \in Seq(Sibling)
  BY AnswersHaveProofs
<1>2. ~proves(i, answer, ZeroHash)
  BY <1>1, ClimbNotZero DEF proves
<1>3. ASSUME NEW data \in Data, proves(i, answer, commitment[data])
      PROVE  answer.data = chunkOf(data, i)
  <2>1. data \in Seq(Nat) /\ chunkSize \in Nat \ {0}
    BY DataAssumption, ConstructorAssumption
  <2>2. commitment[data] = merkleRootWithMinTree(data, chunkSize)
    BY DEF commitment
  <2>3. Len(data) # 0
    BY <1>2, <1>3, <2>2 DEF merkleRootWithMinTree
  <2>4. PICK b \in Nat : merkleRootWithMinTree(data, chunkSize) = merkleRoot(data, chunkSize, b)
    BY <2>1, <2>3, MinTree
  <2>5. verify(hashChunk(answer.data), i, merkleRoot(data, chunkSize, b), answer.proofs)
    BY <1>3, <2>2, <2>4, Zenon DEF proves, verify
  <2>6. i \in 0..(2 ^ Len(answer.proofs) - 1)
    <3>1. Len(answer.proofs) \in Nat
      BY <1>1
    <3>2. PICK p \in Nat : p = 2 ^ Len(answer.proofs)
      BY <3>1, PowersPositive
    <3>3. i < p
      BY <1>3, <3>2 DEF proves, chunkInScope
    <3> QED BY <3>2, <3>3
  <2>7. hashChunk(answer.data) = leafAt(data, chunkSize, i)
    BY <1>1, <2>5, <2>6, ProofsBindChunks
  <2>8. hashChunk(answer.data) = hashChunk(chunkOf(data, i))
    BY <2>7, ChunkOfLeaf, HashesDiffer
  <2> QED BY <2>8, ChunksAreFree
<1> QED BY <1>2, <1>3

(***************************************************************************)
(* Every full chunk of a value that fits a slot has a proof in the         *)
(* smallest tree of the value.                                             *)
(***************************************************************************)
LEMMA ProofsExist ==
  ASSUME NEW data \in Data, Len(data) <= maxKvSize, NEW i \in fullChunks(Len(data))
  PROVE  \E bits \in 0..chunkLenBits :
           /\ 2 ^ bits = minTreeSize(data, chunkSize)
           /\ proves(i, answerFrom(data, bits, i), commitment[data])
<1>1. /\ data \in Seq(Nat) /\ Len(data) \in Nat /\ chunkSize \in Nat \ {0} /\ chunkSize \in Nat
      /\ chunkLenBits \in Nat
  BY DataAssumption, ConstructorAssumption, DaggerAssumption
<1>2. i \in Nat /\ (i + 1) * chunkSize <= Len(data)
  <2>1. PICK m \in Nat : m = 2 ^ chunkLenBits
    BY <1>1, PowersPositive
  <2>2. i \in 0..(m - 1)
    BY <2>1 DEF fullChunks
  <2> QED BY <2>2 DEF fullChunks
<1>3. PICK off \in Nat : off = i * chunkSize
  BY <1>1, <1>2
<1>4. off + chunkSize <= Len(data)
  <2>1. (i + 1) * chunkSize = off + chunkSize
    BY <1>1, <1>2, <1>3
  <2> QED BY <1>2, <2>1
<1>5. Len(data) # 0 /\ off < Len(data)
  BY <1>1, <1>4
<1>6. PICK b \in Nat : /\ minTreeSize(data, chunkSize) = 2 ^ b
                        /\ Depth(data, chunkSize, b)
                        /\ merkleRootWithMinTree(data, chunkSize) = merkleRoot(data, chunkSize, b)
  BY <1>1, <1>5, MinTree
<1>7. b \in 0..chunkLenBits
  <2> SUFFICES ASSUME chunkLenBits < b PROVE FALSE
    BY <1>1
  <2>1. PICK m \in Nat : m = 2 ^ chunkLenBits
    BY <1>1, PowersPositive
  <2>2. m * chunkSize < Len(data)
    BY <1>1, <1>6, <2>1 DEF Depth
  <2>3. PICK x \in Nat : x = m * chunkSize /\ x = chunkSize * m
    BY <1>1
  <2> QED BY <1>1, <2>1, <2>2, <2>3, DaggerAssumption
<1>8. i \in 0..(2 ^ b - 1)
  <2>1. PICK p \in Nat : p = 2 ^ b
    BY PowersPositive
  <2>2. off < p * chunkSize
    <3>1. Len(data) <= p * chunkSize
      BY <1>6, <2>1 DEF Depth
    <3>2. PICK x \in Nat : x = p * chunkSize
      BY <1>1
    <3> QED BY <1>1, <1>5, <3>1, <3>2
  <2>3. i < p
    <3> SUFFICES ASSUME p <= i PROVE FALSE
      BY <1>2
    <3>1. p * chunkSize <= i * chunkSize
      BY <1>1, <1>2, MulMono
    <3>2. PICK x \in Nat : x = p * chunkSize
      BY <1>1
    <3> QED BY <1>3, <2>2, <3>1, <3>2
  <2> QED BY <1>2, <2>1, <2>3
<1> DEFINE proofs == getProof(data, chunkSize, b, i)
           answer == answerFrom(data, b, i)
<1>9. answer.data = chunkOf(data, i) /\ answer.proofs = proofs
  BY DEF answerFrom
<1>10. Len(proofs) = b
  BY ProofIsSequence
<1> HIDE DEF proofs, answer
<1>11. Len(answer.data) = chunkSize
  <2>1. chunkOf(data, i) = SubSeq(data, off + 1, off + chunkSize)
    BY <1>3, <1>4 DEF chunkOf
  <2> QED BY <1>1, <1>4, <1>9, <2>1
<1>12. chunkInScope(i, answer.proofs)
  <2>1. PICK p \in Nat : p = 2 ^ b
    BY PowersPositive
  <2> QED BY <1>8, <1>9, <1>10, <2>1 DEF chunkInScope
<1>13. leafAt(data, chunkSize, i) = hashChunk(answer.data)
  BY <1>2, <1>3, <1>5, <1>9, ChunkOfLeaf
<1>14. verify(leafAt(data, chunkSize, i), i, merkleRoot(data, chunkSize, b), proofs)
  BY <1>8, ProofsAccept DEF proofs
<1>15. commitment[data] = merkleRoot(data, chunkSize, b)
  BY <1>6 DEF commitment
<1>16. proves(i, answer, commitment[data])
  BY <1>9, <1>11, <1>12, <1>13, <1>14, <1>15, Zenon DEF proves, verify
<1> QED BY <1>6, <1>7, <1>16 DEF answer
-----------------------------------------------------------------------------
(***************************************************************************)
(* What the slots of a key hold survives rents, rewards and gifts, too.    *)
(***************************************************************************)
HeldInv == SolutionsTyped /\ ShardInv /\ ReadInv

LEMMA HeldInit == DInit => HeldInv
<1> SUFFICES ASSUME DInit PROVE HeldInv
  OBVIOUS
<1>1. ShardInv /\ KVInit
  BY ShardInit DEF DInit, SInit
<1>2. ReadInv
  BY <1>1, NothingHeld DEF ShardInv
<1> QED BY <1>1, <1>2 DEF HeldInv, SolutionsTyped, DInit

LEMMA HeldNext ==
  ASSUME NonEmptyWrites, Committable, HeldInv, [DNext]_vars
  PROVE  HeldInv'
<1>1. SolutionsTyped' /\ [SNext]_shardVars /\ ShardInv'
  BY StepImplements, ShardNext DEF HeldInv
<1>2. CASE [Next]_kvVars
  BY <1>1, <1>2, ReadNext DEF HeldInv
<1>3. CASE sendValue(1) \/ SMine
  <2>1. UNCHANGED <<kvMap, idxMap, lastKvIdx, dataMap>>
    BY <1>3 DEF sendValue, SMine, _rewardMiner
  <2> QED BY <2>1, <1>1, StillHeld DEF HeldInv, ShardInv
<1> QED BY <1>1, <1>2, <1>3 DEF SNext, SPut, SRemove, STick, Next, shardVars

(***************************************************************************)
(* A slot that has a commitment is in use, and the commitment is that of   *)
(* the data in it.                                                         *)
(***************************************************************************)
LEMMA CommittedSlots ==
  ASSUME ReadInv, NEW kvIdx, commitmentAt(kvIdx) # ZeroHash
  PROVE  /\ kvIdx < lastKvIdx
         /\ dataMap[kvIdx] \in Data
         /\ commitmentAt(kvIdx) = commitment[dataMap[kvIdx]]
<1> DEFINE s == idxMap[kvIdx]
<1>1. kvIdx \in KvIdx /\ s # NoSkey /\ commitmentAt(kvIdx) = kvMap[s].hash
  BY DEF commitmentAt
<1>2. kvIdx < lastKvIdx /\ s \in SKey
  BY <1>1 DEF ReadInv, SlotInv, SlotsDense, TypeOK
<1>3. Exists(s) /\ kvMap[s].kvIdx = kvIdx
  BY <1>1, <1>2 DEF ReadInv, ReverseLookup
<1>4. SlotHolds(s, dataMap[kvIdx])
  BY <1>2, <1>3 DEF ReadInv, SlotsHold
<1> QED BY <1>1, <1>2, <1>4 DEF SlotHolds

(***************************************************************************)
(* If no empty data is put, whoever mines a block of this contract         *)
(* answered with the chunks that the storage manager holds when the block  *)
(* is mined, in slots that are in use: whatever was overwritten, moved or  *)
(* removed since the answers were prepared.                                *)
(***************************************************************************)
THEOREM MinersHold ==
  ASSUME NonEmptyWrites, Committable
  PROVE  DSpec => MinersHoldTheData
<1>1. ASSUME HeldInv, NEW sol \in solutions, mine(sol), NEW k \in 1..randomChecks
      PROVE  LET chunk == sol.samples[k]
             IN  /\ kvIdxOf(chunk) < lastKvIdx
                 /\ sol.answers[k].data = chunkOf(dataMap[kvIdxOf(chunk)], chunkIdxOf(chunk))
  <2> DEFINE chunk  == sol.samples[k]
             answer == sol.answers[k]
  <2>1. proves(chunkIdxOf(chunk), answer, commitmentAt(kvIdxOf(chunk)))
    BY <1>1 DEF mine, accepted
  <2>2. chunk \in Int /\ answer \in Answers
    BY <1>1 DEF HeldInv, SolutionsTyped
  <2>3. chunkIdxOf(chunk) \in Nat
    BY <2>2, PlacesInSlot
  <2>4. /\ kvIdxOf(chunk) < lastKvIdx
        /\ dataMap[kvIdxOf(chunk)] \in Data
        /\ commitmentAt(kvIdxOf(chunk)) = commitment[dataMap[kvIdxOf(chunk)]]
    BY <1>1, <2>1, <2>2, <2>3, CommittedSlots, ProofsBind DEF HeldInv
  <2> QED BY <2>1, <2>2, <2>3, <2>4, ProofsBind
<1>2. HeldInv => \A sol \in solutions : mine(sol) =>
        \A k \in 1..randomChecks :
          LET chunk == sol.samples[k]
          IN  /\ kvIdxOf(chunk) < lastKvIdx
              /\ sol.answers[k].data = chunkOf(dataMap[kvIdxOf(chunk)], chunkIdxOf(chunk))
  BY <1>1
<1>3. HeldInv /\ [DNext]_vars => HeldInv'
  BY HeldNext
<1> QED BY <1>2, <1>3, HeldInit, PTL DEF DSpec, MinersHoldTheData

(***************************************************************************)
(* Under the same hypotheses about what is put, who stores what the        *)
(* storage manager stores can answer for every full chunk of every slot in *)
(* use.                                                                    *)
(***************************************************************************)
THEOREM MinersCanAnswer ==
  ASSUME NonEmptyWrites, Committable
  PROVE  DSpec => []StoredChunksProvable
<1>1. ASSUME HeldInv, NEW i \in KvIdx, i < lastKvIdx, NEW j \in fullChunks(size(idxMap[i]))
      PROVE  \E bits \in 0..chunkLenBits :
               /\ 2 ^ bits = minTreeSize(dataMap[i], chunkSize)
               /\ accepted(i * 2 ^ chunkLenBits + j, answerFrom(dataMap[i], bits, j))
  <2>1. /\ idxMap[i] \in SKey /\ Exists(idxMap[i]) /\ kvMap[idxMap[i]].kvIdx = i
        /\ commitmentAt(i) # ZeroHash
    BY <1>1 DEF HeldInv, ReadInv, SlotInv, SlotsDense, TypeOK, ReverseLookup, commitmentAt, Exists
  <2>2. dataMap[i] \in Data /\ commitmentAt(i) = commitment[dataMap[i]]
    BY <1>1, <2>1, CommittedSlots DEF HeldInv
  <2>3. size(idxMap[i]) = Len(dataMap[i]) /\ Len(dataMap[i]) <= maxKvSize
    BY <1>1, <2>1 DEF HeldInv, ReadInv, SlotsHold, SlotHolds, size
  <2>4. PICK bits \in 0..chunkLenBits :
          /\ 2 ^ bits = minTreeSize(dataMap[i], chunkSize)
          /\ proves(j, answerFrom(dataMap[i], bits, j), commitment[dataMap[i]])
    BY <1>1, <2>2, <2>3, ProofsExist
  <2>5. /\ kvIdxOf(i * 2 ^ chunkLenBits + j) = i
        /\ chunkIdxOf(i * 2 ^ chunkLenBits + j) = j
    BY <1>1, ChunkOfPlace DEF fullChunks, KvIdx
  <2> QED BY <2>2, <2>4, <2>5 DEF accepted
<1>2. HeldInv => StoredChunksProvable
  BY <1>1 DEF StoredChunksProvable
<1>3. HeldInv /\ [DNext]_vars => HeldInv'
  BY HeldNext
<1> QED BY <1>2, <1>3, HeldInit, PTL DEF DSpec
=============================================================================
