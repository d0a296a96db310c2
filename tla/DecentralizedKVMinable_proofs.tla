-------------------- MODULE DecentralizedKVMinable_proofs -------------------
(***************************************************************************)
(* DecentralizedKVMinable implements ShardedKV, whatever a proof of random *)
(* access accepts and however hard miners work, and so keeps what is       *)
(* proved of ShardedKV.                                                    *)
(***************************************************************************)
EXTENDS DecentralizedKVMinable, ShardedKV_proofs

(***************************************************************************)
(* What a solution says it is for.                                         *)
(***************************************************************************)
SolutionsTyped ==
  \A sol \in solutions :
    /\ sol.start \in Shard /\ sol.bits \in ShardLenBits
    /\ sol.start + 2 ^ sol.bits - 1 \in Shard
    /\ sol.minedTs \in Time
    /\ sol.id \in MinedHash

LEMMA SolveTyped ==
  ASSUME SolutionsTyped, Solve
  PROVE  SolutionsTyped' /\ UNCHANGED shardVars
<1> DEFINE found(bits, start, minedTs, power, slots, n) ==
             [id      |-> CHOOSE hash \in freshHash : TRUE,
              start   |-> start,
              bits    |-> bits,
              minedTs |-> minedTs,
              seen    |-> initHash(shardRange(start, bits)),
              slots   |-> slots,
              answers |-> [k \in 1..n |-> slotHash(slots[k])],
              power   |-> power]
<1>1. PICK bits \in ShardLenBits, start \in Shard, minedTs \in Time, power \in Power,
           n \in randomChecks..MaxSamples :
        /\ freshHash # {}
        /\ start + 2 ^ bits - 1 \in Shard
        /\ \E slots \in [1..n -> minedSlots(start, bits)] :
             solutions' = solutions \cup {found(bits, start, minedTs, power, slots, n)}
  BY DEF Solve
<1>2. (CHOOSE hash \in freshHash : TRUE) \in MinedHash
  BY <1>1 DEF freshHash
<1>3. PICK slots : solutions' = solutions \cup {found(bits, start, minedTs, power, slots, n)}
  BY <1>1
<1> DEFINE new == found(bits, start, minedTs, power, slots, n)
<1>4. /\ new.start = start /\ new.bits = bits /\ new.minedTs = minedTs
      /\ new.id \in MinedHash
  BY <1>2
<1>5. solutions' = solutions \cup {new}
  BY <1>3
<1> HIDE DEF new
<1>6. SolutionsTyped'
  BY <1>1, <1>4, <1>5 DEF SolutionsTyped
<1>7. UNCHANGED shardVars
  BY DEF Solve
<1> QED BY <1>6, <1>7

(***************************************************************************)
(* It comes with a hash of its own.                                        *)
(***************************************************************************)
LEMMA SolveFresh ==
  ASSUME Solve
  PROVE  \E new : solutions' = solutions \cup {new} /\ new.id \in freshHash /\ UNCHANGED paid
<1> DEFINE found(bits, start, minedTs, power, slots, n) ==
             [id      |-> CHOOSE hash \in freshHash : TRUE,
              start   |-> start,
              bits    |-> bits,
              minedTs |-> minedTs,
              seen    |-> initHash(shardRange(start, bits)),
              slots   |-> slots,
              answers |-> [k \in 1..n |-> slotHash(slots[k])],
              power   |-> power]
<1>1. PICK bits \in ShardLenBits, start \in Shard, minedTs \in Time, power \in Power,
           n \in randomChecks..MaxSamples :
        /\ freshHash # {}
        /\ \E slots \in [1..n -> minedSlots(start, bits)] :
             solutions' = solutions \cup {found(bits, start, minedTs, power, slots, n)}
  BY DEF Solve
<1>2. PICK slots : solutions' = solutions \cup {found(bits, start, minedTs, power, slots, n)}
  BY <1>1
<1>3. (CHOOSE hash \in freshHash : TRUE) \in freshHash
  BY <1>1
<1>4. found(bits, start, minedTs, power, slots, n).id \in freshHash
  BY <1>3
<1> HIDE DEF found
<1> QED  BY <1>2, <1>4 DEF Solve

(***************************************************************************)
(* A call of mine() that does not revert is a block of ShardedKV.          *)
(***************************************************************************)
LEMMA MineIsBlock == ASSUME SolutionsTyped, Mine PROVE SMine
<1>1. PICK sol \in solutions : mine(sol)
  BY DEF Mine
<1>2. /\ sol.start \in Shard /\ sol.bits \in ShardLenBits
      /\ sol.start + 2 ^ sol.bits - 1 \in Shard
      /\ sol.minedTs \in Time /\ sol.id \in MinedHash
  BY DEF SolutionsTyped
<1>3. totalDiff(shardsOf(sol), sol.minedTs) > 0
  <2>1. totalDiff(shardsOf(sol), sol.minedTs) \in 1..sol.power
    BY <1>1 DEF mine
  <2> QED BY <2>1
<1> QED BY <1>1, <1>2, <1>3 DEF mine, SMine, shardsOf

LEMMA StepImplements ==
  ASSUME SolutionsTyped, [MNext]_vars
  PROVE  SolutionsTyped' /\ [SNext]_shardVars
<1>1. CASE Contract /\ UNCHANGED <<solutions, paid>>
  BY <1>1 DEF Contract, SNext, SolutionsTyped
<1>2. CASE Solve
  BY <1>2, SolveTyped
<1>3. CASE Mine
  BY <1>3, MineIsBlock DEF SNext, SolutionsTyped, Mine, mine
<1>4. CASE UNCHANGED vars
  BY <1>4 DEF vars, SolutionsTyped
<1> QED BY <1>1, <1>2, <1>3, <1>4 DEF MNext

(***************************************************************************)
(* Whatever solutions are found, and whenever they are submitted, the      *)
(* contract with proofs of random access behaves as the sharded store.     *)
(***************************************************************************)
THEOREM MinableImplements == MSpec => ImplementsShardedKV
<1>1. MInit => SInit /\ SolutionsTyped
  BY DEF MInit, SolutionsTyped
<1>2. SolutionsTyped /\ [MNext]_vars => SolutionsTyped' /\ [SNext]_shardVars
  BY StepImplements
<1> QED BY <1>1, <1>2, PTL DEF MSpec, ImplementsShardedKV, SSpec

(***************************************************************************)
(* Of this contract, too: payable shards are open, difficulty has a floor, *)
(* and rent is never paid twice.                                           *)
(***************************************************************************)
THEOREM MinableSafe ==
  MSpec => [](STypeOK /\ PayableShardsOpened /\ DifficultyAtLeastMinimum) /\ RentNeverRestarts
<1> QED BY MinableImplements, ShardsOpened, RentPaidOnce, PTL DEF ImplementsShardedKV
-----------------------------------------------------------------------------
(***************************************************************************)
(* The invariant behind replays.  Solutions have ids of their own, and the *)
(* shards of a paid one that are payable have been paid at least up to its *)
(* minedTs: those it was paid for because rent never restarts, those that  *)
(* became payable since because they were opened then.                     *)
(***************************************************************************)
IdsAreUnique == \A a, b \in solutions : a.id = b.id => a = b

PaidUpTo ==
  \A sol \in solutions : sol.id \in paid =>
    /\ sol.minedTs <= timestamp
    /\ \A s \in shardsOf(sol) : Payable(s) => infos[s].lastMineTime >= sol.minedTs

ReplayInv ==
  /\ SolutionsTyped
  /\ ShardInv
  /\ paid \subseteq {sol.id : sol \in solutions}
  /\ IdsAreUnique
  /\ PaidUpTo

(***************************************************************************)
(* A step of the chain leaves paid what has been paid.                     *)
(***************************************************************************)
LEMMA ChainKeepsPaid ==
  ASSUME ReplayInv, [SNext]_shardVars, NEW sol \in solutions, sol.id \in paid
  PROVE  /\ sol.minedTs <= timestamp'
         /\ \A s \in shardsOf(sol) : Payable(s)' => infos'[s].lastMineTime >= sol.minedTs
<1>1. sol.minedTs \in Nat /\ sol.minedTs <= timestamp
  BY ConstructorAssumption DEF ReplayInv, SolutionsTyped, PaidUpTo, Time
<1>2. \A s \in shardsOf(sol) : s \in Shard /\ (Payable(s) => infos[s].lastMineTime >= sol.minedTs)
  BY DEF ReplayInv, PaidUpTo, shardsOf, shardRange
<1>3. timestamp' >= timestamp /\ timestamp \in Nat /\ timestamp' \in Nat
  <2>1. ShardInv /\ ShardInv'
    BY ShardNext DEF ReplayInv
  <2>2. timestamp \in Nat /\ timestamp' \in Nat
    BY <2>1, ConstructorAssumption DEF ShardInv, SlotInv, TypeOK, Time
  <2>3. timestamp' = timestamp \/ Tick
    BY DEF SNext, SPut, Put, put, SRemove, Remove, removeTo, STick, sendValue, SMine,
           _rewardMiner, shardVars, kvVars
  <2> QED  BY <2>2, <2>3 DEF Tick
<1>4. ASSUME NEW s \in shardsOf(sol)
      PROVE  Payable(s)' => infos'[s].lastMineTime >= sol.minedTs
  BY <1>1, <1>2, PaidStaysPaid DEF ReplayInv
<1> QED  BY <1>1, <1>3, <1>4

LEMMA ReplayNext == ReplayInv /\ [MNext]_vars => ReplayInv'
<1> SUFFICES ASSUME ReplayInv, [MNext]_vars PROVE ReplayInv'
  OBVIOUS
<1>1. SolutionsTyped' /\ [SNext]_shardVars /\ ShardInv'
  BY StepImplements, ShardNext DEF ReplayInv
<1>2. \A sol \in solutions : sol.id \in paid =>
        /\ sol.minedTs <= timestamp'
        /\ \A s \in shardsOf(sol) : Payable(s)' => infos'[s].lastMineTime >= sol.minedTs
  BY <1>1, ChainKeepsPaid
<1>3. CASE UNCHANGED <<solutions, paid>>
  BY <1>1, <1>2, <1>3 DEF ReplayInv, IdsAreUnique, PaidUpTo, shardsOf
<1>4. CASE Solve
  <2>1. PICK new : /\ solutions' = solutions \cup {new}
                   /\ new.id \in freshHash
                   /\ UNCHANGED paid
    BY <1>4, SolveFresh
  <2>2. new.id \notin {sol.id : sol \in solutions} /\ new.id \notin paid
    BY <2>1 DEF freshHash, ReplayInv
  <2>3. IdsAreUnique'
    BY <2>1, <2>2 DEF ReplayInv, IdsAreUnique
  <2>4. (paid \subseteq {sol.id : sol \in solutions})'
    BY <2>1 DEF ReplayInv
  <2>5. PaidUpTo'
    BY <2>1, <2>2, <1>2 DEF PaidUpTo, shardsOf
  <2> QED  BY <2>3, <2>4, <2>5, <1>1 DEF ReplayInv
<1>5. CASE Mine
  <2>1. PICK sol \in solutions : mine(sol)
    BY <1>5 DEF Mine
  <2>2. /\ solutions' = solutions /\ paid' \subseteq paid \cup {sol.id}
        /\ UNCHANGED <<timestamp, lastKvIdx>>
    BY <2>1 DEF mine, _rewardMiner
  <2>3. sol.minedTs <= timestamp /\ sol.minedTs \in Nat
    BY <2>1, ConstructorAssumption DEF mine, ReplayInv, SolutionsTyped, Time
  <2>4. ASSUME NEW s \in shardsOf(sol), Payable(s)'
        PROVE  infos'[s].lastMineTime = sol.minedTs
    <3>1. s \in Shard /\ s \in payableShards(shardsOf(sol))
      BY <2>2, <2>4 DEF payableShards, Payable, lastMinableShardIdx, shardsOf, shardRange
    <3> QED  BY <3>1, <2>1 DEF mine, _rewardMiner, updated
  <2>5. ASSUME NEW other \in solutions, other.id \in paid'
        PROVE  /\ other.minedTs <= timestamp'
               /\ \A s \in shardsOf(other) : Payable(s)' => infos'[s].lastMineTime >= other.minedTs
    <3>1. CASE other.id \in paid
      BY <3>1, <1>2
    <3>2. CASE other.id = sol.id
      <4>1. other = sol
        BY <3>2 DEF ReplayInv, IdsAreUnique
      <4> QED  BY <4>1, <2>2, <2>3, <2>4
    <3> QED  BY <3>1, <3>2, <2>2, <2>5
  <2>6. PaidUpTo'
    BY <2>2, <2>5 DEF PaidUpTo, shardsOf
  <2> QED  BY <2>2, <2>6, <1>1 DEF ReplayInv, IdsAreUnique
<1> QED  BY <1>3, <1>4, <1>5 DEF MNext, vars

(***************************************************************************)
(* A solution is calldata anyone can send again: whatever was put, removed *)
(* and mined in between, a solution that earned wei earns none again.      *)
(***************************************************************************)
THEOREM ReplayedSolutionsEarnNothing == MSpec => ReplayEarnsNothing
<1>1. MInit => ReplayInv
  BY ShardInit DEF MInit, ReplayInv, SolutionsTyped, IdsAreUnique, PaidUpTo
<1>2. ASSUME ReplayInv, NEW sol \in solutions, sol.id \in paid, mine(sol)
      PROVE  balance' = balance
  <2>1. /\ shardsOf(sol) \in SUBSET Shard /\ sol.minedTs \in Time
        /\ sol.minedTs \in Nat
    BY <1>2, ConstructorAssumption DEF ReplayInv, SolutionsTyped, shardsOf, shardRange, Time
  <2>2. ASSUME NEW s \in payableShards(shardsOf(sol))
        PROVE  infos[s].lastMineTime = sol.minedTs
    <3>1. s \in Shard /\ s \in shardsOf(sol) /\ Payable(s)
      BY <2>1 DEF payableShards
    <3>2. infos[s].lastMineTime \in Nat
      BY <3>1, <1>2 DEF ReplayInv, ShardInv, MiningInfo
    <3>3. infos[s].lastMineTime >= sol.minedTs
      BY <3>1, <1>2 DEF ReplayInv, PaidUpTo
    <3>4. sol.minedTs - infos[s].lastMineTime >= 0
      BY <3>1, <1>2 DEF mine, diffDefined, expectedDiffDefined
    <3> QED  BY <3>2, <3>3, <3>4, <2>1
  <2>3. totalReward(shardsOf(sol), sol.minedTs) = 0
    BY <2>1, <2>2, <1>2, NothingToReward DEF ReplayInv
  <2>4. balance' = balance - totalReward(shardsOf(sol), sol.minedTs)
    BY <1>2 DEF mine, _rewardMiner
  <2>5. balance \in Nat
    BY <1>2, ConstructorAssumption DEF ReplayInv, ShardInv, SlotInv, TypeOK
  <2> QED  BY <2>3, <2>4, <2>5
<1>3. ReplayInv /\ [MNext]_vars
        => [\A sol \in solutions : sol.id \in paid /\ mine(sol) => balance' = balance]_vars
  BY <1>2
<1> QED  BY <1>1, <1>3, ReplayNext, PTL DEF MSpec, ReplayEarnsNothing
=============================================================================
