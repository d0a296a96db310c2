---------------------------- MODULE GenerateCache ---------------------------
(***************************************************************************)
(* scripts/dagger/golang/ethash.go, generateCache(): the cache is filled   *)
(* row by row, each the hash of the one before, and then rehashed in place *)
(* in rounds.  Beside it runs a goroutine that reports progress every few  *)
(* seconds, and that ends when it sees the channel done closed, which      *)
(* generateCache() closes when it returns.                                 *)
(*                                                                         *)
(* A step of generateCache() is a row that is hashed and counted: nothing  *)
(* but the counter is shared with the goroutine.  The order of bytes is    *)
(* left out.                                                               *)
(***************************************************************************)
EXTENDS Ethash

CONSTANTS RowCounts,     \* the numbers of rows that are tried
          Seeds,         \* the seeds that are tried
          CounterBits    \* bits of the counter and of percentages (32)

\* The rows are counted, and the words of a cache numbered, in words.
ASSUME CacheAssumption ==
  /\ RowCounts \subseteq Uint32 \ {0}
  /\ \A n \in RowCounts : n * hashWords <= 2 ^ OffsetBits
  /\ Seeds \subseteq Hash
  /\ cacheRounds \in Nat \ {0}
  /\ CounterBits \in Nat

VARIABLES rows,          \* len(cache) / hashBytes
          seed,
          cache,         \* the rows filled so far
          rehashed,      \* the rows rehashed so far, in all rounds
          progress,      \* the shared counter
          done,          \* the channel has been closed: generateCache() returned
          monitor,       \* where the goroutine is: "select" or "ended"
          reported       \* the last percentage it has logged

gcVars == <<rows, seed, cache, rehashed, progress, done, monitor, reported>>

Counter == 2 ^ CounterBits
-----------------------------------------------------------------------------
GCInit ==
  /\ rows \in RowCounts /\ seed \in Seeds
  /\ cache = << >>
  /\ rehashed = 0
  /\ progress = 0
  /\ done = FALSE
  /\ monitor = "select"
  /\ reported = 0

(***************************************************************************)
(* The next row of the chain.  The first one is not counted.               *)
(***************************************************************************)
Fill ==
  /\ Len(cache) < rows
  /\ cache' = Append(cache, keccak512(IF cache = << >> THEN seed ELSE cache[Len(cache)]))
  /\ progress' = IF cache = << >> THEN progress ELSE (progress + 1) % Counter
  /\ UNCHANGED <<rows, seed, rehashed, done, monitor, reported>>

(***************************************************************************)
(* The next row of the rounds: the hash of the row before it, around the   *)
(* end, and of one that it chooses itself.                                 *)
(***************************************************************************)
rehash(j) ==
  keccak512(XORBytes(row(cache, j - 1 + rows), row(cache, xorRow(row(cache, j)[1], rows))))

Rehash ==
  LET j == rehashed % rows
  IN  /\ Len(cache) = rows
      /\ rehashed < cacheRounds * rows
      /\ cache' = [cache EXCEPT ![j + 1] = rehash(j)]
      /\ rehashed' = rehashed + 1
      /\ progress' = (progress + 1) % Counter
      /\ UNCHANGED <<rows, seed, done, monitor, reported>>

generated == Len(cache) = rows /\ rehashed = cacheRounds * rows

\* Mutant of Return: the channel is not closed.
ReturnOpen ==
  /\ generated /\ ~done
  /\ UNCHANGED gcVars

\* The deferred close(done).
Return ==
  /\ generated /\ ~done
  /\ done' = TRUE
  /\ UNCHANGED <<rows, seed, cache, rehashed, progress, monitor, reported>>
-----------------------------------------------------------------------------
\* Mutant of percentage(): the rows of the chain are forgotten.
percentageOfRounds(count) == (((count * 100) % Counter) \div rows) \div cacheRounds

percentage(count) == (((count * 100) % Counter) \div rows) \div (cacheRounds + 1)

(***************************************************************************)
(* The goroutine's select: a timer has fired, which it may at any time,    *)
(* also when done has been closed already ...                              *)
(***************************************************************************)
Report ==
  /\ monitor = "select"
  /\ reported' = percentage(progress)
  /\ UNCHANGED <<rows, seed, cache, rehashed, progress, done, monitor>>

\* ... or done has been closed.
End ==
  /\ monitor = "select"
  /\ done
  /\ monitor' = "ended"
  /\ UNCHANGED <<rows, seed, cache, rehashed, progress, done, reported>>

GCNext == Fill \/ Rehash \/ Return \/ Report \/ End

(***************************************************************************)
(* The scheduler runs generateCache() and the goroutine; select picks      *)
(* among the cases that are ready at random, so that a closed channel is   *)
(* not passed over for ever.                                               *)
(***************************************************************************)
GCFairness == WF_gcVars(Fill \/ Rehash \/ Return) /\ WF_gcVars(End)

GCSpec == GCInit /\ [][GCNext]_gcVars

GCFairSpec == GCSpec /\ GCFairness
-----------------------------------------------------------------------------
(***************************************************************************)
(* Both loops end and so does the goroutine: it neither outlives the call  *)
(* for ever nor keeps it from returning.                                   *)
(***************************************************************************)
MonitorEnds == <>(done /\ monitor = "ended")

(***************************************************************************)
(* The percentages that are logged rise and stay below 100, although the   *)
(* first row is not counted and the count is multiplied by 100 in a word,  *)
(* as long as that word can hold a hundred times the final count (with 32  *)
(* bits up to caches of ten million rows; epoch 2047 has less than half).  *)
(***************************************************************************)
CounterFits == 100 * (cacheRounds + 1) * rows < Counter

ReportsRise ==
  [][CounterFits => reported' >= reported /\ reported' < 100]_gcVars
=============================================================================
