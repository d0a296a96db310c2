----------------------------- MODULE Commitments ----------------------------
(***************************************************************************)
(* contracts/MerkleLib.sol, as its callers use it: values are committed to *)
(* by the root of a tree of their chunks, and chunks are proved against    *)
(* roots.  Here two values grow byte by byte, without a bound, so that     *)
(* every pair of values is met; whatever is claimed of roots and proofs is *)
(* claimed of all of them.                                                 *)
(***************************************************************************)
EXTENDS MerkleLib

CONSTANTS Byte,
          ChunkSizes,   \* the lengths that chunks may have
          MaxTreeBits   \* nChunkBits of the trees, at most

ASSUME TreesAssumption == ChunkSizes \subseteq Nat \ {0} /\ MaxTreeBits \in Nat

VARIABLES chunkSize, data, other
commitmentVars == <<chunkSize, data, other>>

CommitmentInit ==
  /\ chunkSize \in ChunkSizes
  /\ data = << >> /\ other = << >>

NextByte ==
  /\ \E b \in Byte :
       \/ data' = Append(data, b) /\ UNCHANGED other
       \/ other' = Append(other, b) /\ UNCHANGED data
  /\ UNCHANGED chunkSize

CommitmentSpec == CommitmentInit /\ [][NextByte]_commitmentVars
-----------------------------------------------------------------------------
leaf(nBits, i)  == leaves(data, chunkSize, 2 ^ nBits)[i]
root(nBits)     == merkleRoot(data, chunkSize, nBits)
proof(nBits, i) == getProof(data, chunkSize, nBits, i)

(***************************************************************************)
(* getProof() and verify() agree: the proof of chunk i accepts chunk i,    *)
(* the zero leaves past the end included, and no leaf with other content.  *)
(***************************************************************************)
ProofAcceptsItsChunk ==
  \A nBits \in 0..MaxTreeBits :
    LET commitment == root(nBits)
    IN  \A i \in 0..2 ^ nBits - 1 :
          LET siblings == proof(nBits, i)
          IN  \A j \in 0..2 ^ nBits - 1 :
                verify(leaf(nBits, j), i, commitment, siblings)
                  <=> leaf(nBits, j) = leaf(nBits, i)

(***************************************************************************)
(* A proof is good for one position: a chunk verified at another index of  *)
(* the tree has the content of that index, too.                            *)
(***************************************************************************)
ProofBindsPosition ==
  \A nBits \in 0..MaxTreeBits :
    LET commitment == root(nBits)
    IN  \A j \in 0..2 ^ nBits - 1 :
          LET siblings == proof(nBits, j)
          IN  \A i \in 0..2 ^ nBits - 1 :
                chunkInScope(i, siblings) /\ verify(leaf(nBits, j), i, commitment, siblings)
                  => leaf(nBits, j) = leaf(nBits, i)

(***************************************************************************)
(* The commitment in the contract's metadata is the root of the tree with  *)
(* the fewest levels that has a leaf for every chunk, so that chunks can   *)
(* be proved against it; with nothing to commit to it is zero.             *)
(***************************************************************************)
MinTreeIsSmallest ==
  \A nBits \in 0..MaxTreeBits :
    LET commitment == merkleRootWithMinTree(data, chunkSize)
    IN  IF Len(data) = 0
        THEN commitment = ZeroHash
        ELSE 2 ^ nBits * chunkSize >= Len(data)
               /\ (nBits = 0 \/ 2 ^ (nBits - 1) * chunkSize < Len(data))
             => commitment = root(nBits)

(***************************************************************************)
(* Values with the same commitment are the same value, lengths included:   *)
(* neither the short last chunk nor the in-place passes over the array     *)
(* lose anything of the data.                                              *)
(***************************************************************************)
CommitmentBinds ==
  merkleRootWithMinTree(data, chunkSize) = merkleRootWithMinTree(other, chunkSize)
    => data = other
=============================================================================
