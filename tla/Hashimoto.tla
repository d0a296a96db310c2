------------------------------ MODULE Hashimoto -----------------------------
(***************************************************************************)
(* The modified hashimoto hash, twice: _hashimoto() and the loops over     *)
(* memory it calls, of contracts/DKVDaggerHashimoto.sol, and hashimoto()   *)
(* of scripts/hashimoto.py.  Both sample entries that depend on a word at  *)
(* an offset of the mix, in bytes, that the sample before has chosen, and  *)
(* xor what is sampled into the mix.                                       *)
(*                                                                         *)
(* Data is a sequence of bytes; a word has WordBytes of them (32 in the    *)
(* code), most significant first.  What is returned is the mix before the  *)
(* final hash, and the entries that were sampled.  Loops are recursive     *)
(* functions of the turns they have taken, so that modules with proofs can *)
(* use them.                                                               *)
(***************************************************************************)
EXTENDS Xor, Sequences, SequencesExt

CONSTANTS ByteBits,       \* 8
          WordBytes,      \* 32
          FnvPrime,       \* of 256 bits in the code
          shardEntryBits,
          Reverted        \* what a call gives that reverts, or raises

ASSUME WordAssumption == WordBytes \in Nat \ {0}

\* The number that a word of bytes stands for.
number(bytes) == FoldLeft(LAMBDA value, byte : value * 2 ^ ByteBits + byte, 0, bytes)

_fnv256(a, b) == xor((a * FnvPrime) % 2 ^ (ByteBits * WordBytes), b)

replicate(word, bytes) == [k \in 1..bytes |-> word[((k - 1) % WordBytes) + 1]]

\* mload() of the word that begins off bytes into data.
mload(data, off) == number(SubSeq(data, off + 1, off + WordBytes))
-----------------------------------------------------------------------------
(***************************************************************************)
(* The contract: the mix is changed word by word, in place.                *)
(***************************************************************************)
xorWord(mix, data, w) ==
  [k \in 1..Len(mix) |-> IF (k - 1) \div WordBytes = w THEN xor(mix[k], data[k]) ELSE mix[k]]

xorLoop(mix, data) ==
  LET loop[w \in 0..Len(mix)] == IF w = 0 THEN mix ELSE xorWord(loop[w - 1], data, w - 1)
  IN  loop

_xorData(mix, data) == xorLoop(mix, data)[Len(mix) \div WordBytes]

\* Mutant of xorFour(): the third word of four is forgotten.
xorThree(mix, data, w) ==
  xorWord(xorWord(xorWord(mix, data, w), data, w + 1), data, w + 3)

xorFour(mix, data, w) ==
  xorWord(xorWord(xorWord(xorWord(mix, data, w), data, w + 1), data, w + 2), data, w + 3)

xorLoop4(mix, data) ==
  LET loop[n \in 0..Len(mix)] == IF n = 0 THEN mix ELSE xorFour(loop[n - 1], data, 4 * (n - 1))
  IN  loop

_xorData4(mix, data) == xorLoop4(mix, data)[Len(mix) \div (4 * WordBytes)]

(***************************************************************************)
(* An offset modulo maxKvSize - 32 panics if that is zero.  (Whether the   *)
(* answers are the data that is stored, a precompile decides.)             *)
(***************************************************************************)
access(startShardId, shardLenBits, hash0, maxKvSize, answer, st, i) ==
  LET rowBits == shardEntryBits + shardLenBits
      mixData == _fnv256(xor(i, number(hash0)), mload(st.mix, st.mixOff))
  IN  [mix    |-> IF maxKvSize % (4 * WordBytes) = 0
                  THEN _xorData4(st.mix, answer) ELSE _xorData(st.mix, answer),
       mixOff |-> (mixData \div 2 ^ rowBits) % (maxKvSize - WordBytes),
       kvIdxs |-> Append(st.kvIdxs, (mixData % 2 ^ rowBits) + startShardId * 2 ^ shardEntryBits)]

accessLoop(startShardId, shardLenBits, hash0, maskedData, maxKvSize) ==
  LET start   == [mix |-> replicate(hash0, maxKvSize), mixOff |-> 0, kvIdxs |-> << >>]
      turn(st, i) ==
        access(startShardId, shardLenBits, hash0, maxKvSize, maskedData[i + 1], st, i)
      loop[n \in 0..Len(maskedData)] == IF n = 0 THEN start ELSE turn(loop[n - 1], n - 1)
  IN  loop

_hashimoto(startShardId, shardLenBits, hash0, maskedData, maxKvSize) ==
  IF maxKvSize = WordBytes \/ \E i \in DOMAIN maskedData : Len(maskedData[i]) # maxKvSize
  THEN Reverted
  ELSE accessLoop(startShardId, shardLenBits, hash0, maskedData, maxKvSize)[Len(maskedData)]
-----------------------------------------------------------------------------
(***************************************************************************)
(* The prototype: the mix is a value, from which a word is cut out.        *)
(***************************************************************************)
access_py(shard_id, data_size, shard_size_bits, nshard_bits, h0, data, st, i) ==
  LET entries  == 2 ^ (shard_size_bits + nshard_bits)
      mix_data == SubSeq(st.mix, st.mixOff + 1, st.mixOff + WordBytes)
      fnv      == _fnv256(xor(i, number(h0)), number(mix_data))
  IN  [mix    |-> [k \in 1..data_size |-> xor(st.mix[k], data[k])],
       mixOff |-> (fnv \div entries) % (data_size - WordBytes),
       kvIdxs |-> Append(st.kvIdxs, (fnv % entries) + shard_id * 2 ^ shard_size_bits)]

accessLoop_py(shard_id, data_size, shard_size_bits, nshard_bits, h0, data_list) ==
  LET start == [mix    |-> FlattenSeq([n \in 1..data_size \div WordBytes |-> h0]),
                mixOff |-> 0, kvIdxs |-> << >>]
      turn(st, i) ==
        access_py(shard_id, data_size, shard_size_bits, nshard_bits, h0, data_list[i + 1], st, i)
      loop[n \in 0..Len(data_list)] == IF n = 0 THEN start ELSE turn(loop[n - 1], n - 1)
  IN  loop

hashimoto_py(shard_id, data_size, shard_size_bits, nshard_bits, h0, data_list) ==
  IF data_size = WordBytes \/ \E i \in DOMAIN data_list : Len(data_list[i]) # data_size
  THEN Reverted
  ELSE accessLoop_py(shard_id, data_size, shard_size_bits, nshard_bits, h0, data_list)
         [Len(data_list)]
=============================================================================
