----------------------------- MODULE MerkleLib -----------------------------
(***************************************************************************)
(* contracts/MerkleLib.sol: the Merkle commitment to a value.              *)
(*                                                                         *)
(* keccak256 is symbolic and collision-free: the hash of a chunk and the   *)
(* hash of a pair are tuples that carry their input, and the zero word,    *)
(* which no input hashes to, is the empty tuple.  The two never meet: a    *)
(* chunk of 64 bytes that is itself two hashes, which would hash as that   *)
(* pair does, is outside of the model.  A value is a sequence of bytes; an *)
(* array of hashes is a function from 0..n-1, as in the code.              *)
(***************************************************************************)
EXTENDS BinaryRelated, Sequences

ZeroHash == << >>
hashChunk(chunk) == <<chunk>>
hashPair(l, r)   == <<l, r>>

(***************************************************************************)
(* Mutant of the leaves: a short last chunk is left out.                   *)
(***************************************************************************)
leavesOfFullChunks(data, chunkSize, nChunks) ==
  [i \in 0..nChunks - 1 |->
     LET off == i * chunkSize
     IN  IF off + chunkSize > Len(data) THEN ZeroHash
         ELSE hashChunk(SubSeq(data, off + 1, off + chunkSize))]

(***************************************************************************)
(* The leaves: the hash of each chunk (the last one may be short), and     *)
(* zero for the leaves past the end of the data.                           *)
(***************************************************************************)
leaves(data, chunkSize, nChunks) ==
  [i \in 0..nChunks - 1 |->
     LET off == i * chunkSize
     IN  IF off >= Len(data)
         THEN ZeroHash
         ELSE hashChunk(SubSeq(data, off + 1,
                IF Len(data) - off >= chunkSize THEN off + chunkSize
                                                ELSE Len(data)))]

(***************************************************************************)
(* One pass of the loop over a level of n nodes.  It runs in place: node i *)
(* of the level above overwrites node i of this one, for i = 0, 1, ...     *)
(***************************************************************************)
hashLevel(nodes, n) ==
  LET loop[i \in 0..n \div 2] ==       \* the array when i nodes are written
        IF i = 0 THEN nodes
        ELSE LET ns == loop[i - 1]
             IN  [ns EXCEPT ![i - 1] = hashPair(ns[2 * i - 2], ns[2 * i - 1])]
  IN  loop[n \div 2]

(***************************************************************************)
(* The array after d passes, each over half as many nodes as the one       *)
(* before; and how many passes it takes the loop while (n != 1) to end.    *)
(***************************************************************************)
passes(leafNodes, nChunks) ==
  LET after[d \in Nat] ==
        IF d = 0 THEN leafNodes ELSE hashLevel(after[d - 1], nChunks \div 2 ^ (d - 1))
  IN  after

passCount[n \in Nat \ {0}] == IF n = 1 THEN 0 ELSE 1 + passCount[n \div 2]

(***************************************************************************)
(* All passes, which leave the root in node 0.                             *)
(***************************************************************************)
rootOf(leafNodes, nChunks) == passes(leafNodes, nChunks)[passCount[nChunks]][0]

merkleRoot(data, chunkSize, nChunkBits) ==
  rootOf(leaves(data, chunkSize, 2 ^ nChunkBits), 2 ^ nChunkBits)

(***************************************************************************)
(* Mutant of the tree's size: the chunks are not rounded up.               *)
(***************************************************************************)
minTreeSizeDown(data, chunkSize) ==
  LET n == Len(data) \div chunkSize
  IN  IF n <= 1 THEN 1 ELSE findNextPowerOf2(n)

(***************************************************************************)
(* The commitment kept in PhyAddr.hash: a tree with just enough leaves.    *)
(* Empty data has no tree; its commitment is the zero word.                *)
(***************************************************************************)
minTreeSize(data, chunkSize) ==
  LET n == (Len(data) + chunkSize - 1) \div chunkSize
  IN  IF n <= 1 THEN 1 ELSE findNextPowerOf2(n)

merkleRootWithMinTree(data, chunkSize) ==
  IF Len(data) = 0
  THEN ZeroHash
  ELSE LET nChunks == minTreeSize(data, chunkSize)
       IN  rootOf(leaves(data, chunkSize, nChunks), nChunks)

(***************************************************************************)
(* The siblings met on the way from leaf chunkIdx to the root, read from   *)
(* each level before the pass that overwrites it.  Requires                *)
(* chunkIdx < 2^nChunkBits ("index out of scope").                         *)
(***************************************************************************)
getProof(data, chunkSize, nChunkBits, chunkIdx) ==
  LET nChunks == 2 ^ nChunkBits
      level   == passes(leaves(data, chunkSize, nChunks), nChunks)
  IN  [d \in 1..nChunkBits |->
         LET idx == chunkIdx \div 2 ^ (d - 1)
         IN  level[d - 1][((idx \div 2) * 2 + 1) - (idx % 2)]]

(***************************************************************************)
(* Mutants of the climb: the proof always goes on the right; the index is  *)
(* not halved from level to level.                                         *)
(***************************************************************************)
calculateRootLeftOnly(dataHash, chunkIdx, proofs) ==
  LET climb[d \in 0..Len(proofs)] ==
        IF d = 0 THEN dataHash ELSE hashPair(climb[d - 1], proofs[d])
  IN  climb[Len(proofs)]

calculateRootSameBit(dataHash, chunkIdx, proofs) ==
  LET climb[d \in 0..Len(proofs)] ==
        IF d = 0
        THEN dataHash
        ELSE IF chunkIdx % 2 = 0 THEN hashPair(climb[d - 1], proofs[d])
                                 ELSE hashPair(proofs[d], climb[d - 1])
  IN  climb[Len(proofs)]

(***************************************************************************)
(* Climb from a leaf with a proof.  Both callers require                   *)
(* chunkIdx < 2^Len(proofs) ("chunkId overflows").                         *)
(***************************************************************************)
chunkInScope(chunkIdx, proofs) == chunkIdx < 2 ^ Len(proofs)

calculateRootWithProof(dataHash, chunkIdx, proofs) ==
  LET climb[d \in 0..Len(proofs)] ==
        IF d = 0
        THEN dataHash
        ELSE IF (chunkIdx \div 2 ^ (d - 1)) % 2 = 0
             THEN hashPair(climb[d - 1], proofs[d])
             ELSE hashPair(proofs[d], climb[d - 1])
  IN  climb[Len(proofs)]

verify(dataHash, chunkIdx, root, proofs) ==
  calculateRootWithProof(dataHash, chunkIdx, proofs) = root
=============================================================================
