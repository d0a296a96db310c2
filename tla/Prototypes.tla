----------------------------- MODULE Prototypes -----------------------------
(***************************************************************************)
(* The hash of the contract and the one of the prototype over the same     *)
(* answers, which are put together from two values that grow as they do in *)
(* Commitments.                                                            *)
(***************************************************************************)
EXTENDS Hashimoto, Commitments

\* Entries have 2 ^ maxKvSizeBits bytes, and not less than a word.
isKvSize(bytes) == \E bits \in 0..bytes : bytes = WordBytes * 2 ^ bits

(***************************************************************************)
(* The hashimoto hash of the contract, in place and unrolled four times,   *)
(* samples the entries and makes the mix that the prototype does; where    *)
(* one of them fails, for entries of a single word, so does the other.     *)
(***************************************************************************)
HashimotoMatchesPrototype ==
  LET kvSize  == 2 * Len(data)
      answers == <<data \o other, other \o data, data \o data>>
      h0      == SubSeq(other \o data, 1, WordBytes)
  IN  Len(data) = Len(other) /\ isKvSize(kvSize) =>
        \A shardId, shardLenBits \in 0..1 :
          _hashimoto(shardId, shardLenBits, h0, answers, kvSize)
            = hashimoto_py(shardId, kvSize, shardEntryBits, shardLenBits, h0, answers)
=============================================================================
