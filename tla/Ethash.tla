------------------------------- MODULE Ethash -------------------------------
(***************************************************************************)
(* scripts/dagger/golang/ethash.go: the items of the dataset and the hash  *)
(* made from them, as functions.  (The loops that fill the cache and the   *)
(* dataset run beside goroutines and are in GenerateCache and              *)
(* GenerateDataset, the real sizes in EthashSizes.)                        *)
(*                                                                         *)
(* A word is a uint32 (of UintBits bits), a hash a sequence of hashWords   *)
(* words; bytes, their order and the hash functions themselves are         *)
(* abstracted.  Sizes are in bytes, four to a word.  Loops are recursive   *)
(* functions of the turns they have taken, so that modules with proofs can *)
(* use them.                                                               *)
(***************************************************************************)
EXTENDS Sequences, Xor

CONSTANTS UintBits,            \* 32
          OffsetBits,          \* 32: the bits of an offset, in bytes or words, into a cache
          FnvPrime,            \* 0x01000193
          hashWords,           \* 16; a mix is two hashes wide
          datasetParents,      \* 256
          cacheRounds,         \* 3
          loopAccesses,        \* 64
          keccak512(_),        \* words -> a hash
          Panic                \* what a slice out of range gives

uint32(n) == n % 2 ^ UintBits
Uint32    == 0..2 ^ UintBits - 1

Words(n) == [1..n -> Uint32]
Hash     == Words(hashWords)

hashBytes == 4 * hashWords
mixWords  == 2 * hashWords
mixBytes  == 2 * hashBytes

(***************************************************************************)
(* The counters of the loops that are xored into words are words.          *)
(***************************************************************************)
ASSUME EthashAssumption ==
  /\ UintBits \in Nat /\ OffsetBits \in Nat \ {0} /\ FnvPrime \in Nat
  /\ hashWords \in Nat \ {0}
  /\ datasetParents \in Nat /\ datasetParents <= 2 ^ UintBits
  /\ loopAccesses \in Nat /\ loopAccesses <= 2 ^ UintBits
  /\ Panic \notin Hash \cup Words(mixWords)

ASSUME KeccakAssumption == \A words \in Hash : keccak512(words) \in Hash
-----------------------------------------------------------------------------
\* The sequence itself, which SubSeq makes TLC compute once and for all.
Computed(words) == SubSeq(words, 1, Len(words))

fnv(a, b)          == xor(uint32(a * FnvPrime), b)
fnvHash(mix, data) == Computed([i \in 1..Len(mix) |-> fnv(mix[i], data[i])])
XORBytes(a, b)     == Computed([i \in 1..Len(a) |-> xor(a[i], b[i])])

\* Row r of a cache, which is a sequence of hashes, is cache[r + 1].
row(cache, n) == cache[(n % Len(cache)) + 1]

\* The row that xorOff of generateCache() leads to: a product of words, which wraps.
xorRow(n, rows) == (((n % rows) * hashBytes) % 2 ^ OffsetBits) \div hashBytes

(***************************************************************************)
(* generateDatasetItem() and generateMaskItem(), which differ in what they *)
(* start from: each parent is chosen by the mix so far.                    *)
(***************************************************************************)
startOf(cache, index) == [row(cache, index) EXCEPT ![1] = xor(@, index)]

parentOf(cache, index, mix, i) == row(cache, fnv(xor(index, i), mix[(i % hashWords) + 1]))

mixLoop(cache, index, start) ==
  LET turn(mix, i) == fnvHash(mix, parentOf(cache, index, mix, i))
      loop[n \in 0..datasetParents] == IF n = 0 THEN start ELSE turn(loop[n - 1], n - 1)
  IN  loop

mixParents(cache, index, start) == mixLoop(cache, index, start)[datasetParents]

generateDatasetItem(cache, index) ==
  keccak512(mixParents(cache, index, keccak512(startOf(cache, index))))

generateMaskItem(cache, kvIdx, initHash) ==
  keccak512(mixParents(cache, kvIdx, keccak512(XORBytes(startOf(cache, kvIdx), initHash))))
-----------------------------------------------------------------------------
(***************************************************************************)
(* hashimotoEx(): each access chooses a row of the dataset by the mix so   *)
(* far; lookup finds the two items of the row.  A lookup that panics       *)
(* ends it.  The digest is hashed once more with the seed, which adds      *)
(* nothing here.                                                           *)
(***************************************************************************)
replicated(seed) == [i \in 1..mixWords |-> seed[((i - 1) % hashWords) + 1]]

compressed(mix) ==
  [i \in 1..(mixWords \div 4) |->
     fnv(fnv(fnv(mix[4 * i - 3], mix[4 * i - 2]), mix[4 * i - 1]), mix[4 * i])]

\* The row of an access, by the mix so far.
parentRow(seed, rows, mix, i) == fnv(xor(i, seed[1]), mix[(i % mixWords) + 1]) % rows

accessLoop(seed, rows, lookup) ==
  LET turn(mix, i) ==
        IF mix = Panic THEN Panic
        ELSE LET p     == parentRow(seed, rows, mix, i)
                 left  == lookup[2 * p]
                 right == lookup[2 * p + 1]
             IN  IF Panic \in {left, right} THEN Panic ELSE fnvHash(mix, left \o right)
      loop[n \in 0..loopAccesses] == IF n = 0 THEN replicated(seed) ELSE turn(loop[n - 1], n - 1)
  IN  loop

hashimotoEx(seed, size, lookup) ==
  LET mix == accessLoop(seed, size \div mixBytes, lookup)[loopAccesses]
  IN  IF mix = Panic THEN Panic ELSE compressed(mix)

indicesOf(size) == 0..((size \div hashBytes) - 1)

hashimotoLight(size, cache, seed) ==
  hashimotoEx(seed, size, [index \in indicesOf(size) |-> generateDatasetItem(cache, index)])

\* Mutant of hashimotoFull(): rows, not items, are looked up.
hashimotoFullRows(dataset, seed) ==
  LET size   == Len(dataset) * 4
      lookup == [index \in indicesOf(size) |->
                   LET offset == uint32((index \div 2) * mixWords)
                   IN  SubSeq(dataset, offset + 1, offset + hashWords)]
  IN  hashimotoEx(seed, size, lookup)

(***************************************************************************)
(* The dataset is an array of words, in which an offset is a word, too:    *)
(* index * hashWords wraps, and so does the end of the slice.              *)
(***************************************************************************)
hashimotoFull(dataset, seed) ==
  LET size   == Len(dataset) * 4
      lookup == [index \in indicesOf(size) |->
                   LET offset == uint32(index * hashWords)
                       end    == uint32(offset + hashWords)
                   IN  IF offset > end THEN Panic ELSE SubSeq(dataset, offset + 1, end)]
  IN  hashimotoEx(seed, size, lookup)

(***************************************************************************)
(* selfCheck() of main.go: an item, the mask that starts from that item,   *)
(* and a hash that looks up the rows of the cache instead of items.        *)
(***************************************************************************)
selfCheck(cache, index, initHash) ==
  LET item        == generateDatasetItem(cache, index)
      lookupCache == [i \in 0..Len(cache) - 1 |-> cache[i + 1]]
  IN  [item          |-> item,
       mask          |-> generateMaskItem(cache, index, item),
       hashimotoMask |-> hashimotoEx(initHash, 4 * hashWords * Len(cache), lookupCache)]
=============================================================================
