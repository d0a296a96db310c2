----------------------------- MODULE ShardedKV -----------------------------
(***************************************************************************)
(* What the two mining contracts, contracts/DecentralizedKVMinable.sol and *)
(* contracts/DKVDaggerHashimoto.sol, have in common, line for line: the    *)
(* slots of DecentralizedKV are grouped in shards, and each shard pays     *)
(* rent, second by second, to whoever mines a block of it.                 *)
(*                                                                         *)
(* A shard has 2^shardEntryBits slots and a MiningInfo.  Shards up to      *)
(* lastMinableShardIdx, one more than the shard being filled, are payable. *)
(* Here a block can be mined whenever its difficulty is defined: what a    *)
(* miner has to prove is left to the modules of the two contracts, which   *)
(* implement this specification.                                           *)
(***************************************************************************)
EXTENDS DecentralizedKV, MiningLib, FiniteSetsExt

CONSTANTS shardEntryBits,      \* constructor arguments, as in the code
          minimumDiff,
          targetIntervalSec,
          cutoff,
          diffAdjDivisor,
          Prefund,             \* wei sent to the constructor
          NoHash,              \* miningHash of a shard that was never opened
          GenesisHash,
          MinedHash,           \* the hashes of mined blocks
          MaxShardLenBits,     \* bound: the largest shardLenBits mined with
          MaxBlocks            \* bound: the blocks mined of a shard

ASSUME ShardAssumption ==
  /\ shardEntryBits \in Nat /\ 2 ^ shardEntryBits \in Nat \ {0}
  /\ minimumDiff \in Nat /\ targetIntervalSec \in Nat
  /\ cutoff \in Nat /\ diffAdjDivisor \in Nat
  /\ Prefund \in 0..Supply
  /\ NoHash \notin MinedHash \cup {GenesisHash}
  /\ MaxShardLenBits \in Nat /\ MaxBlocks \in Nat

VARIABLE infos                 \* shard -> MiningInfo

shardVars == <<kvVars, infos>>

shardEntries == 2 ^ shardEntryBits
Shard        == 0..(MaxKvIdx \div shardEntries + 1)

lastMinableShardIdx == lastKvIdx \div shardEntries + 1

Payable(shard) == shard <= lastMinableShardIdx

ShardLenBits == 0..MaxShardLenBits

shardRange(startShardId, shardLenBits) ==
  {s \in Shard : startShardId <= s /\ s < startShardId + 2 ^ shardLenBits}

(***************************************************************************)
(* The genesis: shards 0 and 1 are ready to mine.                          *)
(***************************************************************************)
SInit ==
  /\ KVInit
  /\ balance = Prefund
  /\ infos = [s \in Shard |->
                [miningHash   |-> IF s <= 1 THEN GenesisHash ELSE NoHash,
                 lastMineTime |-> IF s <= 1 THEN startTime ELSE 0,
                 difficulty   |-> 0,
                 blockMined   |-> 0]]
-----------------------------------------------------------------------------
opened(shard, time) ==
  [infos EXCEPT ![shard].lastMineTime = time,
                ![shard].miningHash = infos[shard - 1].miningHash]

(***************************************************************************)
(* Mutants of _preparePut: a shard is opened one slot late; its rent is    *)
(* due from the start.                                                     *)
(***************************************************************************)
_preparePutLate ==
  /\ lastKvIdx + 1 <= MaxKvIdx
  /\ infos' = IF lastKvIdx > 0 /\ lastKvIdx % shardEntries = 0
              THEN opened(lastKvIdx \div shardEntries + 1, timestamp)
              ELSE infos

_preparePutFromStart ==
  /\ lastKvIdx + 1 <= MaxKvIdx
  /\ infos' = IF (lastKvIdx + 1) % shardEntries = 0
              THEN opened((lastKvIdx + 1) \div shardEntries + 1, startTime)
              ELSE infos

(***************************************************************************)
(* The hook at the start of every put, an overwriting one included: when   *)
(* the slot after the next begins a shard, the shard after that one is     *)
(* opened, or opened again, paying from now on.  lastKvIdx + 1 is a uint40 *)
(* and reverts beyond MaxKvIdx.                                            *)
(***************************************************************************)
_preparePut ==
  /\ lastKvIdx + 1 <= MaxKvIdx
  /\ infos' = IF (lastKvIdx + 1) % shardEntries = 0
              THEN opened((lastKvIdx + 1) \div shardEntries + 1, timestamp)
              ELSE infos

SPut    == Put /\ _preparePut
SRemove == Remove /\ UNCHANGED infos
STick   == Tick /\ UNCHANGED infos

(***************************************************************************)
(* Anyone may give the contract wei.                                       *)
(***************************************************************************)
sendValue(value) ==
  /\ balance + value <= Supply
  /\ balance' = balance + value
  /\ UNCHANGED <<kvMap, idxMap, lastKvIdx, dataMap, timestamp, infos>>
-----------------------------------------------------------------------------
(***************************************************************************)
(* _calculateDiffAndInitHash(): the difficulties of all shards of a range  *)
(* add up, whether the shards are payable or not, and the proof of work    *)
(* starts from all their mining hashes.                                    *)
(***************************************************************************)
shardDiff(s, minedTs) ==
  expectedDiff(infos[s], minedTs, targetIntervalSec, cutoff, diffAdjDivisor, minimumDiff)

diffDefined(shards, minedTs) ==
  \A s \in shards :
    expectedDiffDefined(infos[s], minedTs, targetIntervalSec, cutoff, diffAdjDivisor)

totalDiff(shards, minedTs) ==
  SumFunction([s \in shards |-> shardDiff(s, minedTs)])

initHash(shards) == [s \in shards |-> infos[s].miningHash]

(***************************************************************************)
(* _rewardMiner(): the payable shards of the range pay their rent from     *)
(* their last block up to minedTs, and start anew from there.  How the     *)
(* reward is split between coinbase and miner changes nothing here.        *)
(***************************************************************************)
payableShards(shards) == {s \in shards : Payable(s)}

\* storageCost << shardEntryBits: a shift drops the bits beyond the word.
shardCost == (storageCost * shardEntries) % Word

rent(s, minedTs) == _paymentIn(shardCost, infos[s].lastMineTime, minedTs)

\* The product in _paymentInInterval(), which is checked.
rentFits(s, minedTs) ==
  shardCost * (pow(dcfFactor, infos[s].lastMineTime - startTime) - pow(dcfFactor, minedTs - startTime))
    < Word

totalReward(shards, minedTs) ==
  SumFunction([s \in payableShards(shards) |-> rent(s, minedTs)])

_rewardMiner(shards, minedTs, hash) ==
  /\ \A s \in payableShards(shards) : rentFits(s, minedTs)
  /\ totalReward(shards, minedTs) \in 0..balance
  /\ \A s \in payableShards(shards) : infos[s].blockMined < MaxBlocks
  /\ infos' = [s \in Shard |->
                 IF s \in payableShards(shards)
                 THEN updated(infos[s], minedTs, shardDiff(s, minedTs), hash)
                 ELSE infos[s]]
  /\ balance' = balance - totalReward(shards, minedTs)
  /\ UNCHANGED <<kvMap, idxMap, lastKvIdx, dataMap, timestamp>>

(***************************************************************************)
(* A block is mined.  Dividing by a total difficulty of 0 reverts.         *)
(***************************************************************************)
SMine ==
  \E startShardId \in Shard, shardLenBits \in ShardLenBits, minedTs \in Time, hash \in MinedHash :
    LET shards == shardRange(startShardId, shardLenBits)
    IN  /\ startShardId + 2 ^ shardLenBits - 1 \in Shard
        /\ minedTs <= timestamp
        /\ diffDefined(shards, minedTs)
        /\ totalDiff(shards, minedTs) > 0
        /\ _rewardMiner(shards, minedTs, hash)

SNext == SPut \/ SRemove \/ STick \/ sendValue(1) \/ SMine

SSpec == SInit /\ [][SNext]_shardVars
-----------------------------------------------------------------------------
MiningInfo == [miningHash   : MinedHash \cup {GenesisHash, NoHash},
               lastMineTime : Nat,
               difficulty   : Nat,
               blockMined   : Nat]

STypeOK == TypeOK /\ infos \in [Shard -> MiningInfo]

(***************************************************************************)
(* Every payable shard has been opened: its rent starts at a time that has *)
(* come, not at 0, and its proof of work from a hash that was not known    *)
(* before, whatever puts and removes crossed the shard's boundary.         *)
(***************************************************************************)
PayableShardsOpened ==
  \A s \in Shard : Payable(s) =>
    infos[s].lastMineTime \in startTime..timestamp /\ infos[s].miningHash # NoHash

(***************************************************************************)
(* No second of a shard is paid for twice: the time up to which it has     *)
(* been paid never goes back, not even when the shard is emptied by        *)
(* removes and opened again.                                               *)
(***************************************************************************)
RentNeverRestarts ==
  [][\A s \in Shard : infos'[s].lastMineTime >= infos[s].lastMineTime]_shardVars

(***************************************************************************)
(* Any payable shard can be mined now, and not below the minimum           *)
(* difficulty, however long ago its last block was and whatever opened,    *)
(* emptied and opened it since: with a target from cutoff to twice cutoff, *)
(* no interval lets expectedDiff() revert, at the split between its two    *)
(* cases included.                                                         *)
(***************************************************************************)
TargetFitsCutoff ==
  diffAdjDivisor # 0 /\ cutoff # 0 /\ cutoff <= targetIntervalSec /\ targetIntervalSec <= 2 * cutoff

PayableShardsMinable ==
  TargetFitsCutoff =>
    \A s \in payableShards(Shard) :
      diffDefined({s}, timestamp) /\ shardDiff(s, timestamp) >= minimumDiff

(***************************************************************************)
(* Three hypotheses: what a shard costs fits a word; its slots, bought one *)
(* by one, cost no less than its rent for ever (prices are rounded down    *)
(* one by one, the rent once); and the deployer pays for shards 0 and 1.   *)
(***************************************************************************)
rentFrom(ts) == _paymentInf(shardCost, ts - startTime)

ShardCostFits == storageCost * shardEntries < Word

NoDust == \A ts \in Time : rentFrom(ts) <= shardEntries * priceAt[ts]

DeployerPays == Prefund >= 2 * rentFrom(startTime)

(***************************************************************************)
(* "The previous put must cover payment from [lastMineTime, inf) >= that   *)
(* of [block.timestamp, inf)": what the contract holds covers the rent of  *)
(* every payable shard for ever, and the refund of the slots of the shard  *)
(* being filled, so that neither a mine nor a remove reverts for want of   *)
(* wei.                                                                    *)
(***************************************************************************)
Funded ==
  balance >= SumFunction([s \in payableShards(Shard) |-> rentFrom(infos[s].lastMineTime)])
               + (lastKvIdx % shardEntries) * upfrontPayment
=============================================================================
