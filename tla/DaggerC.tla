------------------------------- MODULE DaggerC ------------------------------
(***************************************************************************)
(* scripts/dagger/dagger_32.c (and dagger.c and dagger.py, which repeat    *)
(* parts of it): the C programs that compute items, masks and hashes in    *)
(* place.  C's dataset is an array of words that is indexed with 64 bits.  *)
(***************************************************************************)
EXTENDS Ethash, SequencesExt

CONSTANT Lanes       \* words of a vector register (8 in the code)

ASSUME LanesAssumption == Lanes \in Nat \ {0}

(***************************************************************************)
(* generate_cache(): a row's choice is read before the row is overwritten, *)
(* and its offset, the product of a uint32_t and an int, wraps as in Go.   *)
(***************************************************************************)
chainLoop(rows, seed) ==
  LET fill(cache, r) == Append(cache, keccak512(IF r = 0 THEN seed ELSE cache[r]))
      loop[r \in 0..rows] == IF r = 0 THEN << >> ELSE fill(loop[r - 1], r - 1)
  IN  loop

roundLoop(rows, seed) ==
  LET rehash(cache, n) ==
        LET i  == n % rows
            p0 == cache[xorRow(cache[i + 1][1], rows) + 1]
            p1 == cache[((i - 1 + rows) % rows) + 1]
        IN  [cache EXCEPT ![i + 1] = keccak512(XORBytes(p0, p1))]
      loop[n \in 0..cacheRounds * rows] ==
        IF n = 0 THEN chainLoop(rows, seed)[rows] ELSE rehash(loop[n - 1], n - 1)
  IN  loop

generate_cache(rows, seed) == roundLoop(rows, seed)[cacheRounds * rows]

(***************************************************************************)
(* The loops over the parents j and the words k, in which mix[k] changes   *)
(* while the parent's index stays.  The state is the mix and that index.   *)
(***************************************************************************)
\* Mutant of parentLoop(): the index is computed for each word.
parentLoopRereads(cache, i, start) ==
  LET turn(st, n) ==
        LET j == n \div hashWords
            k == (n % hashWords) + 1
        IN  [st EXCEPT !.mix[k] = fnv(@, parentOf(cache, i, st.mix, j)[k])]
      loop[n \in 0..datasetParents * hashWords] ==
        IF n = 0 THEN [mix |-> start, cache_idx |-> 0] ELSE turn(loop[n - 1], n - 1)
  IN  loop

parentLoop(cache, i, start) ==
  LET turn(st, n) ==
        LET j         == n \div hashWords
            k         == (n % hashWords) + 1
            cache_idx == IF k = 1 THEN fnv(xor(i, j), st.mix[(j % hashWords) + 1])
                                  ELSE st.cache_idx
        IN  [mix       |-> [st.mix EXCEPT ![k] = fnv(@, row(cache, cache_idx)[k])],
             cache_idx |-> cache_idx]
      loop[n \in 0..datasetParents * hashWords] ==
        IF n = 0 THEN [mix |-> start, cache_idx |-> 0] ELSE turn(loop[n - 1], n - 1)
  IN  loop

mixInPlace(cache, i, start) == parentLoop(cache, i, start)[datasetParents * hashWords].mix

calculate_dataset_item(cache, i) ==
  keccak512(mixInPlace(cache, i, keccak512(startOf(cache, i))))

(***************************************************************************)
(* calculate_mask_data(): dataset holds the initial hash and is hashed in  *)
(* place.                                                                  *)
(***************************************************************************)
calculate_mask_data(cache, i, dataset) ==
  LET masked == [k \in 1..hashWords |->
                   IF k = 1 THEN xor(xor(dataset[1], row(cache, i)[1]), i)
                            ELSE xor(dataset[k], row(cache, i)[k])]
  IN  keccak512(mixInPlace(cache, i, keccak512(masked)))
-----------------------------------------------------------------------------
page(dataset, parent) == SubSeq(dataset, parent * mixWords + 1, (parent + 1) * mixWords)

plainLoop(hash, rows, dataset) ==
  LET turn(mix, i) == fnvHash(mix, page(dataset, parentRow(hash, rows, mix, i)))
      loop[n \in 0..loopAccesses] == IF n = 0 THEN replicated(hash) ELSE turn(loop[n - 1], n - 1)
  IN  loop

hashimoto(hash, size, dataset) ==
  compressed(plainLoop(hash, size \div mixBytes, dataset)[loopAccesses])

(***************************************************************************)
(* hashimoto_avx(): the mix lives in four registers.  Before an access the *)
(* one register whose word chooses the row is stored to memory; the other  *)
(* words in memory are stale.                                              *)
(***************************************************************************)
\* Mutant of stored(): the register after the one that is needed.
storedNext(mem, regs, i) ==
  [k \in 1..mixWords |->
     IF (k - 1) \div Lanes = ((i + 1) % mixWords) \div Lanes THEN regs[k] ELSE mem[k]]

stored(mem, regs, i) ==
  [k \in 1..mixWords |->
     IF (k - 1) \div Lanes = (i % mixWords) \div Lanes THEN regs[k] ELSE mem[k]]

vectorLoop(hash, rows, dataset) ==
  LET turn(st, i) ==
        LET mem == stored(st.mem, st.regs, i)
        IN  [mem  |-> mem,
             regs |-> fnvHash(st.regs, page(dataset, parentRow(hash, rows, mem, i)))]
      loop[n \in 0..loopAccesses] ==
        IF n = 0 THEN [mem |-> replicated(hash), regs |-> replicated(hash)]
        ELSE turn(loop[n - 1], n - 1)
  IN  loop

hashimoto_avx(hash, size, dataset) ==
  compressed(vectorLoop(hash, size \div mixBytes, dataset)[loopAccesses].regs)

(***************************************************************************)
(* simple_verify() and simple_hashimoto_verify(): what the program prints  *)
(* beside the results expected of the one in Go.                           *)
(***************************************************************************)
simple_verify(cache, index, init_hash) ==
  LET data == calculate_dataset_item(cache, index)
  IN  [item          |-> data,
       mask          |-> calculate_mask_data(cache, index, data),
       hashimotoMask |-> hashimoto(init_hash, 4 * hashWords * Len(cache), FlattenSeq(cache))]
=============================================================================
