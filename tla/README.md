# A TLA+ model of the EthStorage decentralized storage contracts

The repository holds a key-value store as an Ethereum contract whose raw data
lives off the chain, and two mining contracts that pay, second by second, those
who prove that they keep that data. This directory models the contracts in
TLA+, together with the programs that generate the mining dataset; it checks
small instances with TLC, and proves the central properties for all of them
with TLAPS.

## 1. The system

| Part | State | Operations | Where |
|---|---|---|---|
| Fixed-point power | none | `pow`, `findNextPowerOf2` | `contracts/BinaryRelated.sol` |
| Merkle commitment | none | `merkleRoot`, `merkleRootWithMinTree`, `getProof`, `verify`, `calculateRootWithProof` | `contracts/MerkleLib.sol` |
| Storage manager | `dataMap`: slot to raw data | `putRaw`, `getRaw`, `removeRaw` | `contracts/TestStorageManager.sol` |
| Key-value contract | `kvMap`: key to slot, size, commitment; `idxMap`: slot to key; `lastKvIdx`; its balance | `put`, `remove`, `removeTo`; views `size`, `exist`, `get`, `verify`, `upfrontPayment` | `contracts/DecentralizedKV.sol` |
| Difficulty | `MiningInfo` of a shard | `expectedDiff`, `update` | `contracts/MiningLib.sol` |
| Minable contract | `infos`: shard to `MiningInfo` | the hook of `put`, `sendValue`, `mine` | `contracts/DecentralizedKVMinable.sol` |
| Dagger-Hashimoto contract | the same | the same, with Merkle proofs of chunks | `contracts/DKVDaggerHashimoto.sol` |
| Dataset generator | the buffer, a progress counter, a WaitGroup, a sponge for each goroutine | `generateDataset` on all CPUs, with hashers made by `makeHasher` | `scripts/dagger/golang/ethash.go` |
| Cache generator | the cache, a progress counter, a channel | `generateCache` and the goroutine that reports its progress | `ethash.go` |
| Sizes | two tables of 2048 epochs | `datasetSize`, `cacheSize`, `calcDatasetSize`, `calcCacheSize` | `ethash.go` |
| Items, hashes | none | `generateDatasetItem`, `generateMaskItem`, `hashimotoLight`, `hashimotoFull`, `selfCheck`; the same in C, in place and vectorized | `ethash.go`, `main.go`, `scripts/dagger/dagger_32.c`, `dagger.c` |
| Prototypes | none | the hashes of the contract in Python; a converter of discount factors | `scripts/*.py` |

A user's transaction calls the key-value contract. `put` runs the mining
contract's hook `_preparePut`, writes the metadata, and calls the storage
manager with a slot number; `removeTo` moves the last slot into the one that is
freed, in both places. `get` gives the storage manager the commitment of the
metadata, and the storage manager refuses when its data does not hash to it.
Miners read the data of a shard off the chain, look for a nonce, and send it to
`mine`, which samples slots, checks the answers against `kvMap`, and pays the
rent the shard has earned since its last block out of the wei that the puts
left in the contract. What the miners hash is masked with a dataset that the
programs under `scripts` generate from a cache.

What makes each part correct: the power never rises and never overflows; a
proof accepts one chunk at one place; metadata, reverse lookup and raw data
agree, and a key's owner alone changes what it holds; refunds and rents can be
paid, no second of rent twice; a proof that was good for another state, another
shard or another time earns nothing; the segments of the goroutines partition
the dataset; what is computed concurrently is what one goroutine would compute,
and it ends; and every implementation of a hash computes the same hash.

What is hard. A transaction is atomic, so that there is no interleaving inside
of one; everything interesting happens over long sequences of them:

* three maps and the raw data must agree through swaps of slots, overwrites,
  and removes of the last slot (`DecentralizedKV.sol:160`), and empty data is
  stored with the commitment that means "no such key" (`:105`);
* money: puts pay the price of today for ever, refunds and rents are paid at
  later prices, and everything is rounded down (`BinaryRelated.sol:10`,
  `DecentralizedKVMinable.sol:238`);
* shards are opened by puts that cross a boundary, and removes go back over it
  (`DecentralizedKVMinable.sol:69`);
* a mining solution is found against one state and submitted against another,
  by anyone, any number of times;
* a commitment is proved chunk by chunk, against whatever slot the chunk's
  index leads to at the time of the call (`DKVDaggerHashimoto.sol:263`);
* the contract hashes in memory, in place: offsets that are no multiples of a
  word, loops unrolled four times, a length word that is overwritten and put
  back, and a number of bytes that does not depend on the answer's length
  (`DKVDaggerHashimoto.sol:192`, `:195`, `:269`);
* goroutines fill one buffer without a lock, in segments whose bounds each
  computes for itself (`ethash.go:359`), with hashers that are not thread safe
  (`:106`);
* a goroutine loops in a `select` until it sees a channel closed (`:184`);
* 4096 sizes are typed in beside the code that calculates them (`:466`);
* fixed-width arithmetic that reverts, truncates (`uint24`, `:104`) or is given
  the wrong argument (`shardLen` for `shardLenBits`,
  `DecentralizedKVMinable.sol:268`).

## 2. Modules

| Module | What it models |
|---|---|
| `BinaryRelated` | the arithmetic, bit by bit |
| `MerkleLib` | the trees over symbolic hashes, with chunks and values |
| `Commitments` | two values that grow byte by byte, their commitments and the proofs of their chunks |
| `TestStorageManager` | the raw data (`dataMap`) |
| `DecentralizedKV` | the contract: `put`, `removeTo`, `Tick` (a later block), the views; its properties |
| `KVStore` | the abstract specification: a map from owned keys to values |
| `MCDecentralizedKV`, `MCReadableKV` | instances; the second checks the hypotheses of the theorems about readable stores |
| `MiningLib` | difficulty, where it is defined, and the update of a record |
| `ShardedKV` | what the two mining contracts have in common: shards, the hook of `put`, rent, blocks; the specification both implement |
| `DecentralizedKVMinable` | solutions found off chain, `mine` with a proof of random access |
| `DKVDaggerHashimoto` | the same with Merkle proofs of chunks |
| `MCShardedKV`, `MCMinable`, `MCDagger` | instances of the three, with the hypotheses of the theorems about rents and about what miners hold |
| `MCShardsDust` | an instance of `ShardedKV` with a price that is rounded down |
| `Discount` | the price of storage second by second, without an end |
| `RandomAccess` | how `_calculateRandomAccess` draws slots from the bits of a hash |
| `HashChain` | answers that come one after the other, the chain of hashes over them in memory (`_hashimotoMerkleProof`, `_hashimotoKeccak256`), and off chain |
| `Hashimoto` | `_hashimoto` with its loops over memory, and `hashimoto.py` |
| `Prototypes` | both over the same answers, made of the values of `Commitments` |
| `Xor` | the operator `^`, bit by bit |
| `GenerateDataset` | the goroutines of `generateDataset()`, item by item |
| `HashedDataset`, `MCGenerateDataset` | the same, hasher call by hasher call; it implements `GenerateDataset` |
| `Ethash` | items, masks and hashes of the Go program, on words |
| `GenerateCache` | `generateCache()` row by row, and its goroutine |
| `EthashSizes` | sizes by block number, with the tables |
| `DaggerC` | cache, items, masks and hashes in C: in place, and with vector registers |
| `Algorithms` | generates caches, and compares what is computed from them in Go and in C |
| `MCAlgorithms` | an instance of it, with a toy hash function |
| `MCLibraries` | walks exponents second by second, grows pairs of values byte by byte, goes through the epochs, draws slots, puts answers into memory |
| `*_proofs` | the theorems, one module per module they are about; `MerkleLib_proofs` about `BinaryRelated`, too, `Libraries_proofs` about `Discount`, `RandomAccess`, `Commitments`, `HashChain`, `Hashimoto`, `Prototypes` and `EthashSizes`, `Algorithms_proofs` about `Ethash`, `GenerateCache` and `DaggerC`, too, `HashedDataset_proofs` about `GenerateDataset` |

`DecentralizedKV` is built from the first three, `ShardedKV` extends it with
shards, and each mining contract extends `ShardedKV` with what it demands of
miners. `RandomAccess` is the loop that the slots of a solution of
`DecentralizedKVMinable` come from; there the slots are left open. `HashChain`
and `Hashimoto` are the hashes that `DKVDaggerHashimoto` takes as symbols.
`GenerateCache` and `DaggerC` extend `Ethash`, and `Algorithms` extends both;
`HashedDataset` extends `GenerateDataset`.

How they correspond to the code:

* **A transaction is an action.** It runs to its end or reverts. Its guards are
  all the conditions under which none of its calls reverts, its primed
  variables all that it writes, in the contract and in the storage manager. A
  view is an operator; one that reverts returns `Revert`.
* **Time** is `block.timestamp` and advances only in `Tick`. Within a
  transaction it stands still.
* **Hashes are symbolic**: the hash of a chunk or a pair is a tuple of its
  inputs, the zero word is the empty tuple. Two inputs never collide, a chunk is
  never taken for a pair (as one of 64 bytes could be, if it were two hashes of
  another tree), and the truncation of commitments to 24 bytes is not
  modelled. Only `Ethash` and `DaggerC` compute with words; the hash function
  itself is a constant there.
* **Numbers.** `FracBits` and `WordBits` stand for Q128.128 in words of 256
  bits; `pow` truncates after every multiplication as the code does.
  `MaxKvIdx` stands for the largest `uint40`, `KvSizeBits` for the `uint24` of
  `kvSize`. An unsigned amount that would be negative reverts
  (`totalReward(...) \in 0..balance`), and so does a product that does not fit
  a word (`rentFits`); a shift drops what does not fit (`shardCost`).
* **Payments.** What a `put` is worth is compared with the price only, so that
  the values sent are taken around it (`Offers`). `Supply` bounds all wei.
* **Mining.** A solution records what it depends on: the shards and their
  mining hashes, the samples and what was answered, and the difficulty it can
  meet. `Solve` is the miner and can happen at any time; `mine` repeats every
  check of the code against the state at that later time. In
  `DecentralizedKVMinable` the miner answers from the slots as they were when
  it looked; in `DKVDaggerHashimoto` it answers with chunks of any values and
  their proofs in trees of any size, whether they fit or not. How the reward is
  split between coinbase and miner changes no state of the contract and is left
  out.
* **Goroutines.** A step of `GenerateDataset` ends where another goroutine can
  see it: an item copied, the counter increased, the WaitGroup counted down.
  `HashedDataset` splits the making of an item into the calls of the hasher
  (reset, write, read, twice for an item), since a hasher could be shared; what
  `generateDatasetItem` does in between changes its own mix only. In
  `GenerateCache` a step is a row hashed and counted; the timer of the
  monitoring goroutine may fire at any time, also when the channel is closed.
* **Memory of the contract.** In `HashChain` it is a sequence of words of 32
  bytes, with the answers next to each other as the decoder puts them; in
  `Hashimoto` bytes, most significant first, and `mload` at any offset.
* **Tables.** An entry of `EthashSizes` is noted by how many steps of two units
  it is below the size its epoch starts from, so that `datasetInit +
  datasetGrowth * e - 1 - 2 * steps`, times 128 bytes, is the number in the
  code (`cacheInit` and 64 bytes for the cache). The numbers themselves do not
  fit TLC's integers. Whether a number is prime is decided by trial division
  up to `MaxDivisor`.
* **Words.** `Ethash` takes a word as a number and a hash as a sequence of
  words; an offset into the dataset is a word and wraps, and so is the offset
  of the row that a row of the cache chooses (`xorRow`). The latter wraps from
  4 GB on, far beyond the caches of the tables, and has a width of its own
  (`OffsetBits`), so that the instance can reach it. A slice out of range
  is `Panic`. Byte order (and its swap on big-endian machines) is not modelled.
  A loop is a recursive function of the turns it has taken; in C, where mixes
  are overwritten in place, a turn is a single word.
* **Mutants.** Some operators named in a comment as mutants are the code with a
  plausible mistake in it. Nothing uses them; a property is worth its run when
  it fails with one of them in place of the operator it is a mutant of.

## 3. What is checked

| Run | Module, instance | Question and answer |
|---|---|---|
| `libraries` | `MCLibraries`: every factor of 5 fraction bits, exponents to 40; values to 5 bytes, chunks of 1 and 2, trees to 8 leaves; up to 3 answers of 2 words and 2 words behind them; 2050 epochs; hashes of 16 bits, entries of 0 to 15 | Can storage become dearer, or its price impossible to compute, as time passes? No: `pow` never overflows for a factor below 1, never rises, and is below the exact power by less than one unit for every second. Do in-place hashing and proofs agree? A proof accepts its chunk only, at its index only; the commitment is the root of the smallest tree, and identifies the value. Does the contract hash in memory what miners hash? The chain is the miners' when a value is one chunk; `_hashimoto` samples and mixes as `hashimoto.py` does. Are the tables right? All 4096 entries are the highest primes below their thresholds, and so is what is calculated past them. Do draws run out of bits? No, and they use none twice. |
| `kv_any_data` | `MCDecentralizedKV`, 3 keys, 5 slots, empty data allowed | What holds whatever is put: dense slots, no key in another key's slot, refunds covered. |
| `kv_readable` | `MCReadableKV`, 2 owners with 2 keys each, 3 usable slots, falling price | Without empty data: exact reverse lookup and count, every key readable, only the last slot ever moves, and the contract implements `KVStore`. |
| `shards` | `MCShardedKV`, shards of 2 slots, blocks of 1 or 2 shards, a price that halves every second | Payable shards have been opened and can be mined at any time, not below the minimum difficulty; no second of rent is paid twice, and all rents for ever and the refunds of the shard being filled are covered. |
| `mine_race` | `MCMinable`, shards of 1 slot, 2 solutions that race | The contract implements `ShardedKV`; a replayed solution earns nothing. |
| `dagger` | `MCDagger`, values of one and two chunks that share a chunk | What is stored can be proved, what is proved is stored, at that place and time, and the contract implements `ShardedKV`. |
| `dataset` | `MCGenerateDataset`, up to 4 CPUs, 0 to 6 items, half an item left over | In every interleaving of goroutines and hasher calls no two goroutines write one item, progress is right, the dataset returned is complete, it is returned (unless there are some but fewer items than percents), and items appear as if made at once. |
| `algorithms` | `MCAlgorithms`, words of 5 bits, 4 seeds, caches of 2, 7 and 17 rows, datasets of 3 and 7 | The cache is generated and its goroutine ends; percentages rise and stay below 100. Light and full hashing agree, C agrees with Go, plain with vectorized. |

Runs that end in a violation, each a disagreement of the code with what the
repository says of it:

| Run | What is said | What the code does |
|---|---|---|
| `kv_data_loss` | `TestStorageManager.sol:20`, getRaw's hash matches | two puts of empty data under the same keys, then removes: a key that exists is moved to the wrong slot and can no longer be read |
| `mine_samples` | `DecentralizedKVMinable.sol:279`, "cross mine multiple shards" | samples are drawn from 2^(2^b) shards when 2^b are mined |
| `shards_dust` | `DecentralizedKVMinable.sol:74`, the puts cover the rent | slot prices are rounded down one by one, the rent of a shard once |
| `hash_chain` | `dkv-dagger-hashimoto-test.js:414`, the miner hashes the hash so far and the chunk; `DKVDaggerHashimoto.sol:342`, the contract goes the same routine | `maxKvSize + 0x20` bytes of memory are hashed, also when a chunk is shorter than a value: what follows the chunk, such as the next answer, is hashed with it |

Met on the way, and only written down here:

* `DecentralizedKV.sol:16` calls `lastKvIdx` the "number of entries in the
  store"; a put of empty data takes a slot and creates no entry, so that
  `CountsEntries` needs its hypothesis `NonEmptyWrites`.
* `chunkSize` may be any size, but the storage manager hashes chunks of its own
  `CHUNK_SIZE` (`TestStorageManager.sol:9`): with another size, values of more
  than one chunk cannot be read (`Committable`).
* `DKVDaggerHashimoto.sol:67` and `:80` call shards 0 and 1, and one that has
  just been opened, "ready to mine (although it has no data)". Every sample
  must come with a proof against `kvMap[idxMap[kvIdx]].hash`, which is zero for
  a slot in no use, and no data hashes to zero: such a shard can be paid for
  but not mined, and `emptyValueHash` (line 65) is never used.
* A dataset of fewer than 100 items panics in `status%percent`
  (`ethash.go:374`); offsets into it fit 32 bits up to epoch 1920 and wrap from
  epoch 1921 on, of the 2048 epochs the tables have (`ethash.go:456`).
* `progress*100` (`ethash.go:189`) fits 32 bits for caches of up to ten million
  rows; the last one in the tables has 4.5 million. The first row is not
  counted, so that the percentage never reaches 100.
* `storageCost << shardEntryBits` (`DecentralizedKVMinable.sol:238`) is not
  checked: if it does not fit a word, a shard silently pays less rent than the
  slots in it did (`ShardCostFits`). The product with the discount is checked.
* The loop that fills the cache in C counts rows in an `int`
  (`dagger_32.c:30`), whose product with the size of a row overflows for caches
  of more than 2 GB; Go's does not (`IntOffsets`).
* `isprime` in `dagger.py` stops before the root: besides squares of primes,
  15 and 35 count as primes. `find_root` in `dcf_convert.py` never tries the
  last candidate of its bisection, so that the factor it prints need not be the
  closest one; it works in floating point and is not modelled.

**Bounds, and why they suffice.** Three keys and three slots are what a swap
needs: the removed key, the moved one, and a bystander; two owners show that
keys of different owners do not mix. Five slots with three keys leave room for
slots no key leads to. Two or three seconds let the price fall between a put
and a refund, and a shard be opened later than the one before it. One solution
can be replayed and go stale; two can race. Values have one or two chunks, and
one value is too long for `maxKvSize`. Five bytes in chunks of one are five
chunks in eight leaves, with zero leaves at every level of the tree, and in
chunks of two a short last chunk. Exact powers are computed for six seconds, up
to which they fit TLC's integers. `MaxBlocks` bounds the blocks of a
shard, since a shard that is opened again within a second accepts a solution
again (which then earns nothing); `MaxSamples` the samples beyond those that
must match. Four CPUs and up to six items give one item to each CPU, several,
none, and a last batch that is cut off; two percents stand for a hundred, so
that one item is too few. The toy hash of `MCAlgorithms` makes
each word depend on two others, so that rows, parents and offsets spread over
the cache; all four vector registers, of two words, are used twice in 16
accesses. With words of 5 bits the offsets of a dataset of 3 rows fit a word and
those of 7 rows do not. Counters have 12 bits, enough for the percentages of
caches of up to ten rows, not of 17; the offsets of 17 rows do not fit their 8
bits either, and those of 7 rows fit the seven of an `int` of C. A hash of 16 bits and entries of 0 to 15 bits meet every remainder. Two answers are
enough for one to follow the other in memory; words of two bytes and values of
one, two and four words reach offsets inside a word, both loops over memory,
and the value of one word that panics.

`kv_readable`, `shards`, `mine_race` and `dagger` use symmetry. Keys (and, in
`kv_readable`, owners with them) are only compared with each other, with `NoSkey`, and moved around; no constant names
one of them, and only safety is checked, so that permuting them is sound.

**Deadlock and fairness.** Runs that pass say `CHECK_DEADLOCK FALSE`: time and
supply are bounded, a contract nobody calls stands still, and a program that
has returned is done. Users and miners owe the contract nothing, so that no
fairness is assumed of transactions and no property is about what must happen.
Two runs assume fairness, weak, of goroutines: the Go scheduler is preemptive
and runs every goroutine that can run. In `dataset` it is of each goroutine and
of the caller, who alone waits for others, in `pend.Wait()`; then `Returns`
holds. In `algorithms` it is of `generateCache()` and of `End`: once the channel
is closed that case of the `select` stays ready, and `select` picks among ready
cases at random, so that the timer does not win for ever; then `MonitorEnds`
holds. Nothing is assumed of the timer.

## 4. What is proved

For all values of the constants that meet the named assumptions:
`ConstructorAssumption` (the constructor's checks and widths), `TreesAssumption`
(chunks have a size), `ChainAssumption` (so have answers), `DataAssumption`
(values are byte sequences, markers are no values), `PowAssumption` (a word holds
the product of 1.0 and 1.0), `PriceAssumption` (a factor below 1.0, and a cost
that times 1.0 fits a word), `ShardAssumption` (numbers, and markers that are no
hashes), `MinableAssumption`, `DaggerAssumption`, `DatasetAssumption`,
`GarbledAssumption`, `HashAssumption`, `LanesAssumption` and `WordAssumption`
(numbers, and markers that are none), `EthashAssumption` (numbers; loop counters
that are xored into words are words), `KeccakAssumption` (a hash of a hash is one),
`CacheAssumption` (numbers of rows, and offsets of words in a cache, are words;
seeds are hashes) and
`DatasetRowsAssumption` (indices of items are words). Some theorems have hypotheses besides, named
with them; the instances of the runs meet these (`HoldAssumption` in `MCDagger`,
`FundedAssumption` in `MCShardedKV`; in `MCShardsDust` `NoDust` alone fails).

`MerkleLib_proofs`, first part: `PowFits`, `PowFalls` and `PowAntitone`: for any width,
any base below 1.0 and any exponents, `pow` does not overflow and does not rise
with the exponent. The loop is a recursive function of its three variables, and
the library's theorems on recursive definitions take operators, so that two
lemmas come first: `Recursion` (and `TailRecursion` for a loop that counts down),
that a recursive definition has a function it is true of, and `LeastElement`, by
which induction is a least counterexample.
The loop is monotone in the value so far (`PowLoopMonotone`). `PowLoopFalls`
then compares the exponents k + 1, from 1.0, and k, from any value not below the
base: if k is even, the last bit alone differs, and the loops go on from the
base and from that value; if k is odd, k + 1 carries, and what is left of both
is again one apart, with the base squared and the value times the base, which is
not below it. For the overflow, the base stays below 1.0 and the value does not
exceed it (`FitsLoop`).

`DecentralizedKV_proofs` takes from there that the price falls (`PriceFalls`) and
can be computed at any time (`PriceFits`, which is why `put` and `removeTo` have
no guard for an overflow):

* `KVSafety`: `TypeOK`, `KeysOwnSlots`, `SlotsDense` and `Solvent` are
  invariants, with empty data allowed. The first three are inductive together
  (`SlotInv`): `removeTo` keeps `KeysOwnSlots` because the slot it fills and the
  slot it clears are the only ones it writes and, by `KeysOwnSlots` itself, no
  other key can be in either. Given them every step keeps `Solvent`: a remove
  gives back what one slot is worth, and the price does not rise.
* `KVReadable`: with non-empty data and commitments the storage manager agrees
  with (`NonEmptyWrites`, `Committable`), `ReverseLookup`, `CountsEntries` and
  `Retrievable`. The inductive invariant adds that `idxMap` leads to an
  existing key from every slot in use, and that the commitment in `kvMap` is
  that of the data in the slot; the slots in use and the existing keys are then
  in bijection, which gives the count. That data which is not empty never has the
  commitment that means "no such key" is a lemma of the trees (`CommitmentNotZero`).
* `KVRefinement`: the contract implements `KVStore`: a `put` maps to `Write`, a
  `removeTo` to `Delete`, a `Tick` to a stutter.
* `KVSlotsStable`: only the key of the last slot ever moves, and only in a
  remove.

`ShardedKV_proofs`:

* `ShardsOpened`: payable shards have been opened and difficulty has a floor.
  The hook of `put` opens a shard one slot before it can become payable; the
  lemma `QuotientOfNext` says that the shard it opens is the next one, and that
  the shard whose hash it copies is payable, hence open. The inductive
  invariant needs `SlotInv` for the range of `lastKvIdx`, and that the rent of
  every shard, payable or not, starts in the past, since removes and puts may
  make it payable again.
* `RentPaidOnce`: `lastMineTime` never goes back: a block is not older than the
  last one (or the subtraction reverts), and opening sets it to now.
* `MinableAtAnyTime`: no interval between blocks makes `expectedDiff` revert if
  and only if `cutoff <= targetIntervalSec <= 2 * cutoff`, which the
  constructors do not check.
* `PayableShardsStayMinable`: with these parameters no payable shard is ever one
  whose difficulty reverts now, or is below the minimum
  (`PayableShardsMinable`), since opening and mining start every interval in the
  past.
* `RentsFunded`: `Funded`, under three hypotheses. `ShardCostFits`: the shift of
  the cost drops nothing. `DeployerPays`: shards 0 and 1
  are open from the start, and nobody has paid for them but the deployer.
  `NoDust`: what the slots of a shard cost, each rounded down, is not below
  what its rent costs, rounded once (`shards_dust` shows that it is needed).
  The sums of the community modules are recursive; by `Recursion` they are true
  of their definition (`SumIs`, `SumUnique`), so that any element can be taken
  out first (`SumRemove`), and what is taken from some terms is taken from the
  sum (`SumTaken`, `SumFalls`). Then each step keeps the balance: the put that
  completes a shard opens the next one, and the slots of the former pay the
  rent of the latter; other puts pay for their own refund; a remove gives back
  a slot of the shard being filled, or makes a shard unpayable whose rent is no
  less than all its refunds (`SlotsBelowRent`); a block takes from its shards
  what they then no longer owe, rounding in favour of the contract
  (`RentSplits`); time lets refunds fall.
* `NobodyGoesUnpaid`: under the same hypotheses rewards and refunds are never
  more than the balance, so that no block and no remove reverts for lack of wei.
  The contract has no check for it.

`DecentralizedKVMinable_proofs`, `DKVDaggerHashimoto_proofs`: `MinableImplements`
and `DaggerImplements`, the two contracts implement `ShardedKV`, from the
invariant that a solution names shards, times and hashes that exist; so that
(`MinableSafe`, `DaggerSafe`) what is proved of `ShardedKV` holds of them.

* `ReplayedSolutionsEarnNothing`: `ReplayEarnsNothing`. The invariant says of a
  paid solution that the rent of each of its shards that is payable starts no
  earlier than the time it was mined at: it did when it was paid, and a shard
  that becomes payable later is opened later. A replay then either reverts, its
  time being before that of the last block, or earns rent for no time.
* `MinersHold`: `MinersHoldTheData`, if nobody puts empty data
  (`NonEmptyWrites`, `Committable`). That no proof of a full chunk against a
  commitment is accepted but of the chunk at that place, and none against the
  zero word, is the lemma `ProofsBind`, from the theorems about trees below. What
  is left to show is that `idxMap`, `kvMap` and the storage manager agree
  whatever was moved, which is the invariant of `KVReadable`, here for a contract
  that pays rewards, too.
* `MinersCanAnswer`: `StoredChunksProvable`, under the same hypotheses: full
  chunks have their proofs in the smallest tree of a value (`ProofsExist`).

`MerkleLib_proofs`, second part, for values, chunks and trees of every size:

* `ProofsAccept`: `verify` accepts the proofs of `getProof`;
* `ProofsBindLeaves`, `ProofsBindChunks`: with a proof as long as the tree is
  deep it accepts at an index only the hash of the leaf there, whatever was sent
  as siblings; and a proof of any other length it accepts for no chunk at all,
  so that it does no harm that the contract never checks the length;
* `CommitmentsBind`: two values with the same commitment are the same.

The argument goes level by level. The provers know of powers only that 2^0 is 1;
that 2^(n+1) is twice 2^n comes from the number of subsets of 1..n (`TwoPower`).
The loop of a pass overwrites the array it reads from; `HashLevel` says that
after it node j is the hash of the nodes 2j and 2j+1 that were there before it,
because a node is overwritten only when it has been read. So the nodes that the
passes leave at level d are those of a tree, whose leaves are the chunks
(`LevelsAreTree`, `TreeExists`); two trees with the same root have the same
nodes at every level (`TreesAgree`), and their depths are the same because a
chunk is no pair (`NotDeeper`). A climb from a leaf meets at every level the node
that the tree has there, from the root downwards (`ClimbDescends`) if it ends at
the root, from the leaf upwards (`ClimbAscends`) with the siblings of
`getProof`. The functions of the model are recursive over arrays of hashes; that
they have the values their definitions say needs a set of all hashes that
contains the pairs of its members, which is built in generations
(`HashesExist`). `NextPower` says of `findNextPowerOf2`, which clears the lowest
bit of n - 1 until one bit is left, that it is the least power of two not below
n.

`HashedDataset_proofs`: `NoRaces`, `ProgressRight` and `ReturnsComplete` of
`GenerateDataset`, for any size and any number of CPUs, more CPUs than items
included. The lemma `Segments` says that the segments are in order, disjoint and cover the buffer
(the batches are rounded up, so that enough of them are at least all items);
the invariant says what each goroutine has written of its segment, and that the
WaitGroup counts those that are not done.

Further there: `HashersDoNotMix`, the goroutines with their hashers
implement `GenerateDataset`, for any number of them. The invariant says of each
goroutine that its sponge holds at most its own mix, that its mix is the item
it is at, hashed as often as it has counted, and that a sponge that has been
read from is reset before it is written to; no other goroutine can disturb it,
since each writes to its own sponge only (`hasherOf`). The calls of a hasher are
stutters of `GenerateDataset`, and the copy of the finished item is its `Copy`.
`HashedSafe` carries the three theorems above over.

`Libraries_proofs`:

* `DiscountComputable` and `DiscountFalls`: what `PowFits` and `PowFalls` say of
  `Discount`, as invariant and action property.
* `DiscountRoundsDown`: `RoundsDown`, from `PowApproximates`: pow(fp, n) is at most
  the exact power and at most n - 1 units below it. A product of approximations
  of the powers M and N is rounded by one unit more than the two were, M + N - 1
  in all (`ApproximationsMultiply`), and each turn of the loop keeps that both
  its variables are such approximations (`LoopApproximates`). The bound counts
  seconds, not the bits of n that the loop takes turns for: a base that is
  squared brings its error along twice, and with wider fractions the error does
  exceed two units a bit (12 fraction bits, factor 4006, 15 seconds: more than nine).
* `ProofsAcceptTheirChunks`, `ProofsBindPositions`, `MinTreesAreSmallest`,
  `CommitmentsIdentify`: the properties of `Commitments`, from
  `MerkleLib_proofs`.
* `ChainsMatch`: `ChainMatchesMiner`, if a chunk is as large as a value
  (`hash_chain` shows that it is needed). In memory the words of the answers do
  not overlap (`MemoryAt`); so what is hashed in a turn is the hash so far and
  the answer, and when the length has been put back memory is as it was
  (`AnswerHashed`).
* `DrawsAreFresh` (and `BitsSuffice`), for hashes and slots of any width.
* `HashimotosAgree`: for entries of any number of words, any number of answers
  and any content, the contract computes what the prototype does. A turn of
  `_xorData` changes one word and no other (`XoredWord`); so after any number of
  turns the words up to there are xored and the rest is not, and four words a
  turn come to the same where the length is a multiple of four words (`XoredAll`,
  `XorData4Def`). Then the accesses agree one by one (`AccessesAgree`): offset,
  entry and mix. `HashimotoIsPrototype` is `HashimotoMatchesPrototype`.
* `CalculatedSizesAreHighestPrimes`: `calcDatasetSize` and `calcCacheSize` give
  the highest prime below the threshold of every epoch (`MaxDivisor` is any
  number, and has to reach the root of the threshold). A composite number has a divisor that is not above
  its root (`TrialDivision`); the loop starts from an odd number of units and
  misses even ones only (`DownIsHighest`).

`Algorithms_proofs`, for words of any width, hashes of any number of words, any
hash function, and caches and datasets of any size:

* `ItemsAgree`, `MasksAgree`: items and masks, computed word by word in the
  array that the parents are chosen from, are those of Go. Within the turns of
  one parent the words before k are mixed and the others are not, while the
  parent's index is that from before the first of them (`WordInPlace`,
  `ParentInPlace`).
* `VectorIsPlain`: after every access the registers are the mix of the plain
  hash; what is in memory may be stale, but for the word that is read.
* `PlainIsLight`, `FullIsLight`: hashes over the whole dataset, with pages in C
  and with slices at offsets that may wrap in Go, look up what the light one
  computes from the cache. As long as the words of the dataset can be counted in
  a word, neither an offset nor the end of a slice wraps; what is cut out is then
  the item or the page that was written there (`ItemAt`, `PageAt`).
* `ChecksAgree`: both self checks print the same.
* `CacheIsAsInC`: the inductive invariant `CacheInv` says that the cache of
  `generateCache()` is, after every step, what the loops of the program in C
  have made after as many turns: the comparisons at its end say nothing of the
  steps before, so that none of them is inductive.
* `FullHashIsLight`, `AvxIsScalar`, `CIsGo`: the invariants `FullMatchesLight`,
  `AvxMatchesScalar` and `CMatchesGo` of every behaviour (the last for caches of
  up to 2 GB).
* `PercentagesRise`: `ReportsRise`, from `ReportInv`: as long as a hundred times
  the final count fits, the counter is the number of rows done but the first, and
  nothing above the present percentage has been reported. Rows done only grow,
  which needs `CacheInv`.

That a loop is the function its definition says has to be proved of each of
them (`MixLoopDef`, `ParentLoopDef`, `AccessesDef`, ...), from `Recursion`. So has what the bits
of words come to: `XorOfBits` says that `xor` keeps the width of a word, commutes
and associates, by induction over the bits; masks in C are xored in
another order than in Go.

`KVTyped`, `SlotsStayDense`, `RefundsCovered`, `ReverseLookupExact` and
`EntriesCounted` state single properties of the conjunctions above.

Only model-checked:

* `SizesAreHighestPrimes` as far as the tables go, which are checked entry by
  entry (what is calculated is proved);
* the liveness properties `Returns` and `MonitorEnds`, which are out of the
  prover's reach;
* the refutations, which need one behaviour only.

## 5. What is not modelled

* The hash functions themselves, byte orders (and their swap on big-endian
  machines), the chain of seeds (`seedHash`), what is logged; allocation and
  benchmarks in C.
* The unmasking precompiles of the system contract: whether an answer is the
  masked form of the data is taken as known.
* Calls back into the contract during `transfer` (2300 gas allow no writes).
* The contracts the tests use to set the clock or to reach internal functions.
* `dagger.py`, which repeats the cache and the items in a third language, and
  `dcf_convert.py`, which computes in floating point.

## 6. Plan

1. (done) arithmetic, Merkle trees, storage manager, key-value contract, its
   abstraction and its proofs.
2. (done) shards and their rent as a specification that both mining contracts
   implement; chunks that can and cannot be proved.
3. (done) the dataset generator with its proofs; cache, items and hashes in Go
   and C; the drawing of slots.
4. (done) the hash chains of the mining contract against their prototypes; the
   tables of sizes; the goroutine of `generateCache`; the hashers of
   `generateDataset` and their refinement.
5. (done) `pow` never overflows and never rises, for every width.
6. (done) paid solutions stay paid, miners hold the data, and the rents are
   funded, for every number of shards, blocks and chunks.
7. (done) trees of every depth: commitments and proofs bind, from a hash without
   collisions; so that what miners hold and can answer no longer rests on
   hypotheses about proofs. `pow` is close to the exact power. The chain of
   hashes is the miners', for any number of answers.
8. (done) every hash in all of its implementations, for words, caches, datasets
   and entries of any size; the percentages of `generateCache`; the sizes that
   are calculated, for every epoch.
