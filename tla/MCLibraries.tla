---------------------------- MODULE MCLibraries ----------------------------
(***************************************************************************)
(* Bounded checks of the pure functions.  A behaviour is about one topic:  *)
(* it picks a base and walks the exponent upwards second by second, as     *)
(* time does when it prices storage; or grows two values byte by byte, so  *)
(* that every pair of short values is met; or goes through the epochs; or  *)
(* draws slots from a hash; or puts answers into memory.                   *)
(***************************************************************************)
EXTENDS Discount, RandomAccess, HashChain, Prototypes

\* Divisors enough for the sizes of all epochs up to 2069.
Sizes == INSTANCE EthashSizes WITH MaxDivisor <- 12000

CONSTANTS MaxExp,       \* bound: the last exponent walked to
          MaxLen,       \* bound: the length of a value
          MaxAnswers,   \* bound: the answers that are chained
          MaxTail,      \* bound: the words behind them in memory
          LastEpoch,    \* bound: the epochs walked to
          MaxHashes     \* bound: the hashes that draws use up

VARIABLES topic,
          epoch
mcVars == <<topic, epoch>>
vars   == <<mcVars, discountVars, commitmentVars, raVars, chainVars>>

Init ==
  /\ topic \in {"power", "values", "epochs", "draws", "answers"}
  /\ DiscountInit /\ (topic # "power" => fp = 0)
  /\ CommitmentInit /\ (topic # "values" => chunkSize = 1)
  /\ epoch = 0
  /\ RAInit /\ (topic # "draws" => totalEntryBits = 0)
  /\ ChainInit

NextSecond ==
  /\ topic = "power" /\ n < MaxExp
  /\ Second
  /\ UNCHANGED <<mcVars, commitmentVars, raVars, chainVars>>

NextPair ==
  /\ topic = "values"
  /\ NextByte /\ Len(data') <= MaxLen /\ Len(other') <= MaxLen
  /\ UNCHANGED <<mcVars, discountVars, raVars, chainVars>>

NextEpoch ==
  /\ topic = "epochs" /\ epoch < LastEpoch
  /\ epoch' = epoch + 1
  /\ UNCHANGED <<topic, discountVars, commitmentVars, raVars, chainVars>>

NextDraw ==
  /\ topic = "draws" /\ rhash < MaxHashes
  /\ Draw
  /\ UNCHANGED <<mcVars, discountVars, commitmentVars, chainVars>>

NextAnswer ==
  /\ topic = "answers"
  /\ \/ Len(maskedData) < MaxAnswers /\ Answer
     \/ Len(tail) < MaxTail /\ Allocate
  /\ UNCHANGED <<mcVars, discountVars, commitmentVars, raVars>>

Next == NextSecond \/ NextPair \/ NextEpoch \/ NextDraw \/ NextAnswer

Spec == Init /\ [][Next]_vars
-----------------------------------------------------------------------------
(***************************************************************************)
(* The sizes are the highest primes below a threshold that grows linearly: *)
(* from the first block of every epoch to the last, in the tables and past *)
(* their end.                                                              *)
(***************************************************************************)
SizesAreHighestPrimes ==
  topic = "epochs" =>
    LET first   == epoch * Sizes!epochLength
        last    == first + Sizes!epochLength - 1
        dataset == Sizes!datasetSize(first)
        cache   == Sizes!cacheSize(first)
    IN  /\ Sizes!HighestPrime(dataset, Sizes!datasetInit + Sizes!datasetGrowth * epoch)
        /\ Sizes!HighestPrime(cache, Sizes!cacheInit + Sizes!cacheGrowth * epoch)
        /\ Sizes!datasetSize(last) = dataset /\ Sizes!calcDatasetSize(epoch) = dataset
        /\ Sizes!cacheSize(last) = cache /\ Sizes!calcCacheSize(epoch) = cache
=============================================================================
