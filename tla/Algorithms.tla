----------------------------- MODULE Algorithms -----------------------------
(***************************************************************************)
(* The algorithms around mining, in Go and in C.  A behaviour generates a  *)
(* cache; what is computed from caches is compared when it is complete.    *)
(***************************************************************************)
EXTENDS DaggerC, GenerateCache

CONSTANT DatasetRows     \* the numbers of rows of the datasets

\* The index of an item is a word.
ASSUME DatasetRowsAssumption ==
  DatasetRows \subseteq Nat \ {0} /\ \A n \in DatasetRows : 2 * n <= 2 ^ UintBits

\* What is mined for, or the initial hash of the self check.
header == keccak512(seed)

\* The comparisons below depend on the cache alone: they are made in one of
\* the states in which it is complete.
Complete == generated /\ ~done /\ reported = 0

sizes == {n * mixBytes : n \in DatasetRows}

flat(size) == FlattenSeq([i \in 1..size \div hashBytes |-> generateDatasetItem(cache, i - 1)])

\* The words of the dataset can be counted in a word.
Offsets(size) == size \div 4 < 2 ^ UintBits

\* The bytes of the cache can be counted in an int of C, as the loop that fills it does.
IntOffsets == rows * hashBytes <= 2 ^ (OffsetBits - 1)
-----------------------------------------------------------------------------
(***************************************************************************)
(* Whoever verifies with the cache alone gets what the miner got from the  *)
(* full dataset, as long as no offset into it overflows a word (in 32 bits *)
(* that is up to epoch 1920, of the 2048 the tables have).                 *)
(***************************************************************************)
FullMatchesLight ==
  Complete => \A size \in sizes : Offsets(size) =>
    hashimotoFull(flat(size), header) = hashimotoLight(size, cache, header)

(***************************************************************************)
(* The vectorized hash, whose mix in memory is mostly stale, is the plain  *)
(* one.                                                                    *)
(***************************************************************************)
AvxMatchesScalar ==
  Complete => \A size \in sizes :
    LET dataset == flat(size)
    IN  hashimoto_avx(header, size, dataset) = hashimoto(header, size, dataset)

(***************************************************************************)
(* The programs in C, which work in place, compute the caches, the items,  *)
(* the masks and the hashes that the one in Go does, and print what its    *)
(* self check prints (for caches of up to 2 GB, beyond which an int of C   *)
(* overflows).                                                             *)
(***************************************************************************)
CMatchesGo ==
  Complete /\ IntOffsets =>
    /\ generate_cache(rows, seed) = cache
    /\ \A size \in sizes :
         LET dataset == flat(size)
         IN  /\ \A i \in indicesOf(size) :
                  /\ calculate_dataset_item(cache, i) = generateDatasetItem(cache, i)
                  /\ calculate_mask_data(cache, i, header) = generateMaskItem(cache, i, header)
             /\ Offsets(size) =>
                  hashimoto(header, size, dataset) = hashimotoFull(dataset, header)
    /\ rows > 1 => \A index \in {rows - 1, 2 ^ UintBits - 1} :
                     simple_verify(cache, index, header) = selfCheck(cache, index, header)
=============================================================================
