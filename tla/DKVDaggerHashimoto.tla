------------------------- MODULE DKVDaggerHashimoto -------------------------
(***************************************************************************)
(* contracts/DKVDaggerHashimoto.sol: mining with Merkle proofs of chunks.  *)
(* (Shards, rent and difficulty are in ShardedKV.)                         *)
(*                                                                         *)
(* A slot has room for 2^chunkLenBits chunks.  The hash of the proof of    *)
(* work draws randomChecks chunks of the shards mined, each from the hash  *)
(* of the one before; the miner answers each with its data and a Merkle    *)
(* proof, which the system contract checks against the commitment of the   *)
(* slot at the time of the call.  Which chunks are drawn is left open.     *)
(***************************************************************************)
EXTENDS ShardedKV

CONSTANTS randomChecks,    \* constructor arguments, as in the code
          chunkLenBits,
          Power            \* how hard a difficulty a proof of work can meet

ASSUME DaggerAssumption ==
  /\ randomChecks \in Nat \ {0}
  /\ maxKvSize = chunkSize * 2 ^ chunkLenBits
  /\ chunkLenBits \in Nat
  /\ Power \subseteq Nat

VARIABLES solutions,    \* the solutions found so far
          used          \* history: ids of the solutions that mined a block

vars == <<shardVars, solutions, used>>

DInit == SInit /\ solutions = {} /\ used = {}

shardsOf(sol) == shardRange(sol.start, sol.bits)
-----------------------------------------------------------------------------
(***************************************************************************)
(* Chunks are numbered through all slots.                                  *)
(***************************************************************************)
kvIdxOf(chunk)    == chunk \div 2 ^ chunkLenBits
chunkIdxOf(chunk) == chunk % 2 ^ chunkLenBits

sampledChunks(startShardId, shardLenBits) ==
  LET first == startShardId * 2 ^ (shardEntryBits + chunkLenBits)
  IN  first..(first + 2 ^ (shardEntryBits + shardLenBits + chunkLenBits) - 1)

(***************************************************************************)
(* kvMap[idxMap[kvIdx]].hash; both mappings are zero where nothing is set. *)
(***************************************************************************)
commitmentAt(kvIdx) ==
  IF kvIdx \in KvIdx /\ idxMap[kvIdx] # NoSkey THEN kvMap[idxMap[kvIdx]].hash ELSE ZeroHash

(***************************************************************************)
(* A chunk of a value, and the answer made from it and its tree.           *)
(***************************************************************************)
chunkOf(data, i) ==
  LET off == i * chunkSize
  IN  SubSeq(data, off + 1, IF off + chunkSize <= Len(data) THEN off + chunkSize ELSE Len(data))

answerFrom(data, bits, i) ==
  [data |-> chunkOf(data, i), proofs |-> getProof(data, chunkSize, bits, i)]

(***************************************************************************)
(* The answers miners send: chunks of any value, with the proof in its     *)
(* smallest tree or in any other that fits a slot.                         *)
(***************************************************************************)
Answers ==
  UNION {{answerFrom(data, bits, i) : i \in {j \in 0..2 ^ bits - 1 : j * chunkSize < Len(data)}} :
           data \in Data, bits \in 0..chunkLenBits}

(***************************************************************************)
(* Mutant of accepted(): an index beyond the tree is not refused, and the  *)
(* climb wraps.                                                            *)
(***************************************************************************)
acceptedAnyIndex(chunk, answer) ==
  /\ Len(answer.data) = chunkSize
  /\ calculateRootWithProof(hashChunk(answer.data), chunkIdxOf(chunk), answer.proofs)
       = commitmentAt(kvIdxOf(chunk))

(***************************************************************************)
(* A sample is accepted: the checks of _hashimotoMerkleProof() and, by the *)
(* system contract, of checkDaggerDataWithProof().                         *)
(***************************************************************************)
proves(i, answer, root) ==
  /\ Len(answer.data) = chunkSize
  /\ chunkInScope(i, answer.proofs)
  /\ calculateRootWithProof(hashChunk(answer.data), i, answer.proofs) = root

accepted(chunk, answer) ==
  proves(chunkIdxOf(chunk), answer, commitmentAt(kvIdxOf(chunk)))
-----------------------------------------------------------------------------
(***************************************************************************)
(* External: a miner finds a nonce for minedTs (which may lie ahead).      *)
(***************************************************************************)
freshHash == MinedHash \ {sol.id : sol \in solutions}

Solve ==
  \E bits \in ShardLenBits, start \in Shard, minedTs \in Time, power \in Power :
    /\ freshHash # {}
    /\ start + 2 ^ bits - 1 \in Shard
    /\ \E samples \in [1..randomChecks -> sampledChunks(start, bits)],
          answers \in [1..randomChecks -> Answers] :
         solutions' = solutions \cup
           {[id      |-> CHOOSE hash \in freshHash : TRUE,
             start   |-> start,
             bits    |-> bits,
             minedTs |-> minedTs,
             seen    |-> initHash(shardRange(start, bits)),
             samples |-> samples,
             answers |-> answers,
             power   |-> power]}
    /\ UNCHANGED <<shardVars, used>>

(***************************************************************************)
(* Mutant of mine(): a block may be dated ahead of the chain.              *)
(***************************************************************************)
mineAhead(sol) ==
  /\ diffDefined(shardsOf(sol), sol.minedTs)
  /\ initHash(shardsOf(sol)) = sol.seen
  /\ \A k \in 1..randomChecks : accepted(sol.samples[k], sol.answers[k])
  /\ totalDiff(shardsOf(sol), sol.minedTs) \in 1..sol.power
  /\ _rewardMiner(shardsOf(sol), sol.minedTs, sol.id)
  /\ used' = used \cup {sol.id}
  /\ UNCHANGED solutions

(***************************************************************************)
(* _mine(): every check is against the state at the time of the call.      *)
(***************************************************************************)
mine(sol) ==
  /\ sol.minedTs <= timestamp
  /\ diffDefined(shardsOf(sol), sol.minedTs)
  /\ initHash(shardsOf(sol)) = sol.seen
  /\ \A k \in 1..randomChecks : accepted(sol.samples[k], sol.answers[k])
  /\ totalDiff(shardsOf(sol), sol.minedTs) \in 1..sol.power
  /\ _rewardMiner(shardsOf(sol), sol.minedTs, sol.id)
  /\ used' = used \cup {sol.id}
  /\ UNCHANGED solutions

Mine == \E sol \in solutions : mine(sol)

Contract == SPut \/ SRemove \/ STick \/ sendValue(1)

DNext == (Contract /\ UNCHANGED <<solutions, used>>) \/ Solve \/ Mine

DSpec == DInit /\ [][DNext]_vars
-----------------------------------------------------------------------------
(***************************************************************************)
(* The chunks of a value that an answer can be given for: answers are of   *)
(* chunkSize bytes.                                                        *)
(***************************************************************************)
fullChunks(kvSize) == {j \in 0..2 ^ chunkLenBits - 1 : (j + 1) * chunkSize <= kvSize}
-----------------------------------------------------------------------------
(***************************************************************************)
(* Whatever miners submit, the contract behaves as ShardedKV does.         *)
(***************************************************************************)
ImplementsShardedKV == SSpec

(***************************************************************************)
(* Every sample a block is mined with is the chunk that the storage        *)
(* manager holds at that place at that time: no proof that was good for a  *)
(* value since overwritten, moved or removed, or for another place in the  *)
(* tree, is accepted.                                                      *)
(***************************************************************************)
MinersHoldTheData ==
  [][\A sol \in solutions : mine(sol) =>
       \A k \in 1..randomChecks :
         LET chunk == sol.samples[k]
         IN  /\ kvIdxOf(chunk) < lastKvIdx
             /\ sol.answers[k].data = chunkOf(dataMap[kvIdxOf(chunk)], chunkIdxOf(chunk))]_vars

(***************************************************************************)
(* Who stores what the storage manager stores can answer for every full    *)
(* chunk that the metadata says a slot has, in the smallest tree of the    *)
(* value, wherever removes have moved the slot.                            *)
(***************************************************************************)
StoredChunksProvable ==
  \A i \in KvIdx : i < lastKvIdx =>
    \A j \in fullChunks(size(idxMap[i])) :
      \E bits \in 0..chunkLenBits :
        /\ 2 ^ bits = minTreeSize(dataMap[i], chunkSize)
        /\ accepted(i * 2 ^ chunkLenBits + j, answerFrom(dataMap[i], bits, j))
=============================================================================
