----------------------- MODULE DecentralizedKVMinable -----------------------
(***************************************************************************)
(* contracts/DecentralizedKVMinable.sol: mining with a proof of random     *)
(* access.  (Shards, rent and difficulty are in ShardedKV.)                *)
(*                                                                         *)
(* A miner works off chain: a solution is found against the state of the   *)
(* chain at that time and submitted later, once or more often, by anyone,  *)
(* after whatever transactions got in between.  Hashes are symbolic:       *)
(* every solution has a hash of its own (its id), and a changed input of   *)
(* the proof of work makes the proof worthless.                            *)
(***************************************************************************)
EXTENDS ShardedKV

CONSTANTS randomChecks,        \* constructor argument, as in the code
          Power,               \* how hard a difficulty a proof of work can meet
          MaxSamples           \* bound: the most samples in a solution

ASSUME MinableAssumption ==
  /\ randomChecks \in Nat \ {0} /\ MaxSamples \in Nat
  /\ Power \subseteq Nat

VARIABLES solutions,    \* the solutions found so far
          paid          \* history: ids of the solutions that earned wei

vars == <<shardVars, solutions, paid>>

EmptyValue == <<0, 0, 0>>   \* emptyValueHash; no other symbolic hash is a triple

MInit == SInit /\ solutions = {} /\ paid = {}

shardsOf(sol) == shardRange(sol.start, sol.bits)
-----------------------------------------------------------------------------
(***************************************************************************)
(* The slots _calculateRandomAccess() draws from when it is given          *)
(* shardLenBits.  _mine() gives it shardLen, which is 2^shardLenBits.      *)
(***************************************************************************)
sampledSlots(startShardId, shardLenBits) ==
  LET startKvIdx == startShardId * shardEntries
  IN  startKvIdx..(startKvIdx + 2 ^ (shardLenBits + shardEntryBits) - 1)

minedSlots(startShardId, shardLenBits) == sampledSlots(startShardId, 2 ^ shardLenBits)

(***************************************************************************)
(* What data must hash to, to be accepted as the data of a slot.  It is    *)
(* the plain hash of the data that is compared, so that only values of one *)
(* chunk can be answered.                                                  *)
(***************************************************************************)
slotHash(i) == IF i >= lastKvIdx THEN EmptyValue ELSE kvMap[idxMap[i]].hash

(***************************************************************************)
(* External: a miner that stores the shards finds a nonce for minedTs      *)
(* (which may lie ahead) whose random slots it answers from the data the   *)
(* slots hold now, and whose final hash meets a difficulty up to power.    *)
(***************************************************************************)
freshHash == MinedHash \ {sol.id : sol \in solutions}

Solve ==
  \E bits \in ShardLenBits, start \in Shard, minedTs \in Time, power \in Power,
     n \in randomChecks..MaxSamples :
    /\ freshHash # {}
    /\ start + 2 ^ bits - 1 \in Shard
    /\ \E slots \in [1..n -> minedSlots(start, bits)] :
         solutions' = solutions \cup
           {[id      |-> CHOOSE hash \in freshHash : TRUE,
             start   |-> start,
             bits    |-> bits,
             minedTs |-> minedTs,
             seen    |-> initHash(shardRange(start, bits)),
             slots   |-> slots,
             answers |-> [k \in 1..n |-> slotHash(slots[k])],
             power   |-> power]}
    /\ UNCHANGED <<shardVars, paid>>
-----------------------------------------------------------------------------
(***************************************************************************)
(* _checkProofOfRandomAccess(): enough of the answers still match what the *)
(* metadata says of the slots.  "We allow some mismatches if the data      *)
(* happens to be removed/modified": a solution may have more samples than  *)
(* need to match.                                                          *)
(***************************************************************************)
proofOfRandomAccess(sol) ==
  Cardinality({k \in DOMAIN sol.slots : sol.answers[k] = slotHash(sol.slots[k])})
    >= randomChecks

(***************************************************************************)
(* Mutant of mine(): a block may be dated ahead of the chain.              *)
(***************************************************************************)
mineAhead(sol) ==
  /\ diffDefined(shardsOf(sol), sol.minedTs)
  /\ initHash(shardsOf(sol)) = sol.seen
  /\ proofOfRandomAccess(sol)
  /\ totalDiff(shardsOf(sol), sol.minedTs) \in 1..sol.power
  /\ _rewardMiner(shardsOf(sol), sol.minedTs, sol.id)
  /\ paid' = IF totalReward(shardsOf(sol), sol.minedTs) > 0 THEN paid \cup {sol.id} ELSE paid
  /\ UNCHANGED solutions

(***************************************************************************)
(* _mine(): every check is against the state at the time of the call.      *)
(***************************************************************************)
mine(sol) ==
  /\ sol.minedTs <= timestamp
  /\ diffDefined(shardsOf(sol), sol.minedTs)
  /\ initHash(shardsOf(sol)) = sol.seen
  /\ proofOfRandomAccess(sol)
  /\ totalDiff(shardsOf(sol), sol.minedTs) \in 1..sol.power
  /\ _rewardMiner(shardsOf(sol), sol.minedTs, sol.id)
  /\ paid' = IF totalReward(shardsOf(sol), sol.minedTs) > 0 THEN paid \cup {sol.id} ELSE paid
  /\ UNCHANGED solutions

Mine == \E sol \in solutions : mine(sol)

Contract == SPut \/ SRemove \/ STick \/ sendValue(1)

MNext == (Contract /\ UNCHANGED <<solutions, paid>>) \/ Solve \/ Mine

MSpec == MInit /\ [][MNext]_vars
-----------------------------------------------------------------------------
(***************************************************************************)
(* Whatever miners submit, a contract that demands a proof behaves as      *)
(* ShardedKV does, of which its safety is checked and proved.              *)
(***************************************************************************)
ImplementsShardedKV == SSpec

(***************************************************************************)
(* A solution is calldata anyone can send again: whatever happened in      *)
(* between, a solution that earned wei earns none again.                   *)
(***************************************************************************)
ReplayEarnsNothing ==
  [][\A sol \in solutions : sol.id \in paid /\ mine(sol) => balance' = balance]_vars

(***************************************************************************)
(* "We allow cross mine multiple shards": a solution that was paid sampled *)
(* the slots of the shards it was for, and no others.                      *)
(***************************************************************************)
SamplesShardsMined ==
  \A sol \in solutions : sol.id \in paid =>
    \A k \in DOMAIN sol.slots :
      sol.slots[k] \div shardEntries \in shardsOf(sol)
=============================================================================
