-------------------------- MODULE GenerateDataset --------------------------
(***************************************************************************)
(* scripts/dagger/golang/ethash.go, generateDataset(): goroutines, one per *)
(* CPU, fill one buffer.  Each computes the segment of items it is to      *)
(* generate from its id, and after every item it adds to a progress        *)
(* counter that all share.  The caller waits for a WaitGroup that counts   *)
(* the goroutines that are not done.                                       *)
(*                                                                         *)
(* An atomic step of a goroutine ends where others can see it: an item has *)
(* been copied, the counter has been increased, the WaitGroup decreased.   *)
(* Items are symbolic: what generateDatasetItem() makes of an index is the *)
(* index.  A division by zero panics and takes the whole program down.     *)
(***************************************************************************)
EXTENDS Integers, FiniteSets

CONSTANTS hashBytes,      \* bytes of an item (64 in the code)
          Percents,       \* how often progress is reported (100 in the code)
          Sizes,          \* the sizes of the buffer that are tried, in bytes
          MaxThreads,     \* the most CPUs that are tried
          NoItem          \* an item not yet generated

ASSUME DatasetAssumption ==
  /\ hashBytes \in Nat \ {0} /\ Percents \in Nat \ {0}
  /\ Sizes \subseteq Nat
  /\ MaxThreads \in Nat \ {0}
  /\ NoItem \notin Nat

VARIABLES size,           \* len(dataset)
          threads,        \* runtime.NumCPU()
          started,        \* the goroutines 0..started-1 are running or done
          index,          \* goroutine -> the item it is at
          pc,             \* goroutine -> where it is in its loop
          dataset,        \* item -> what the buffer holds there
          progress,       \* the shared counter
          pend,           \* the counter of the WaitGroup
          returned,       \* generateDataset() has returned
          panicked        \* the program has crashed

vars == <<size, threads, started, index, pc, dataset, progress, pend, returned, panicked>>

Thread == 0..(MaxThreads - 1)
items  == size \div hashBytes
Item   == 0..(items - 1)
-----------------------------------------------------------------------------
(***************************************************************************)
(* The segment of a goroutine.                                             *)
(***************************************************************************)
\* Mutant of batch: batches rounded down.
batchDown == size \div (hashBytes * threads)

batch == (size + hashBytes * threads - 1) \div (hashBytes * threads)

first(id) == id * batch

\* Mutant of limit(): the last batch is not cut off at the end.
limitUncut(id) == first(id) + batch

\* Mutant of limit(): a segment includes its limit.
limitIncluded(id) == IF first(id) + batch + 1 > items THEN items ELSE first(id) + batch + 1

limit(id) == IF first(id) + batch > items THEN items ELSE first(id) + batch

percent == items \div Percents
-----------------------------------------------------------------------------
Init ==
  /\ size \in Sizes /\ threads \in 1..MaxThreads
  /\ started = 0
  /\ index = [id \in Thread |-> 0]
  /\ pc = [id \in Thread |-> "idle"]
  /\ dataset = [i \in Item |-> NoItem]
  /\ progress = 0
  /\ pend = threads
  /\ returned = FALSE
  /\ panicked = FALSE

(***************************************************************************)
(* The caller: go func(i), once for each CPU.                              *)
(***************************************************************************)
Go ==
  /\ ~panicked
  /\ started < threads
  /\ started' = started + 1
  /\ pc' = [pc EXCEPT ![started] = "loop"]
  /\ index' = [index EXCEPT ![started] = first(started)]
  /\ UNCHANGED <<size, threads, dataset, progress, pend, returned, panicked>>

(***************************************************************************)
(* A goroutine computes its next item and copies it into the buffer.       *)
(***************************************************************************)
Copy(id) ==
  /\ ~panicked
  /\ pc[id] = "loop" /\ index[id] < limit(id)
  /\ dataset' = [dataset EXCEPT ![index[id]] = index[id]]
  /\ pc' = [pc EXCEPT ![id] = "copied"]
  /\ UNCHANGED <<size, threads, started, index, progress, pend, returned, panicked>>

(***************************************************************************)
(* It counts the item.  With fewer than 100 items percent is 0, and        *)
(* status % percent panics.                                                *)
(***************************************************************************)
Count(id) ==
  /\ ~panicked
  /\ pc[id] = "copied"
  /\ progress' = progress + 1
  /\ panicked' = (percent = 0)
  /\ pc' = [pc EXCEPT ![id] = "loop"]
  /\ index' = [index EXCEPT ![id] = @ + 1]
  /\ UNCHANGED <<size, threads, started, dataset, pend, returned>>

\* Mutant of Done(): the WaitGroup is not told.
DoneUntold(id) ==
  /\ ~panicked
  /\ pc[id] = "loop" /\ index[id] >= limit(id)
  /\ pc' = [pc EXCEPT ![id] = "done"]
  /\ UNCHANGED <<size, threads, started, index, dataset, progress, pend, returned, panicked>>

(***************************************************************************)
(* It is through with its segment: pend.Done().                            *)
(***************************************************************************)
Done(id) ==
  /\ ~panicked
  /\ pc[id] = "loop" /\ index[id] >= limit(id)
  /\ pc' = [pc EXCEPT ![id] = "done"]
  /\ pend' = pend - 1
  /\ UNCHANGED <<size, threads, started, index, dataset, progress, returned, panicked>>

(***************************************************************************)
(* The caller: pend.Wait() and return.                                     *)
(***************************************************************************)
Return ==
  /\ ~panicked /\ ~returned
  /\ started = threads
  /\ pend = 0
  /\ returned' = TRUE
  /\ UNCHANGED <<size, threads, started, index, pc, dataset, progress, pend, panicked>>

Goroutine(id) == Copy(id) \/ Count(id) \/ Done(id)

Next == Go \/ Return \/ \E id \in Thread : Goroutine(id)

Spec == Init /\ [][Next]_vars
-----------------------------------------------------------------------------
TypeOK ==
  /\ size \in Sizes /\ threads \in 1..MaxThreads
  /\ started \in 0..threads
  /\ index \in [Thread -> Nat]
  /\ pc \in [Thread -> {"idle", "loop", "copied", "done"}]
  /\ dataset \in [Item -> Nat \cup {NoItem}]
  /\ progress \in Nat
  /\ pend \in 0..threads
  /\ returned \in BOOLEAN /\ panicked \in BOOLEAN

(***************************************************************************)
(* No two goroutines are ever at the same item, whatever the number of     *)
(* CPUs and the size: the copies into the buffer, which no lock protects,  *)
(* do not race.                                                            *)
(***************************************************************************)
AtItem(id) == pc[id] \in {"loop", "copied"} /\ index[id] < limit(id)

NoWriteRace ==
  \A id, other \in Thread :
    AtItem(id) /\ AtItem(other) /\ id # other => index[id] # index[other]

(***************************************************************************)
(* The counter, increased after the copy, is the number of items in the    *)
(* buffer but for the copies not counted yet: no item is generated twice,  *)
(* no increase is lost, and the percentage that is logged is right.        *)
(***************************************************************************)
ProgressCountsItems ==
  Cardinality({i \in Item : dataset[i] # NoItem})
    = progress + Cardinality({id \in Thread : pc[id] = "copied"})

(***************************************************************************)
(* When generateDataset() returns the whole buffer has been filled, even   *)
(* if there are more CPUs than items, and no goroutine still writes to it. *)
(***************************************************************************)
CompleteOnReturn ==
  returned =>
    /\ \A i \in Item : dataset[i] = i
    /\ \A id \in Thread : pc[id] \notin {"loop", "copied"}

(***************************************************************************)
(* generateDataset() returns, also without any item, unless there are some *)
(* but fewer than the percents that progress is reported in.               *)
(***************************************************************************)
Returns == items \notin 1..(Percents - 1) => <>returned
=============================================================================
