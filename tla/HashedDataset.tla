---------------------------- MODULE HashedDataset ---------------------------
(***************************************************************************)
(* scripts/dagger/golang/ethash.go: generateDataset() again, now with the  *)
(* hash functions its goroutines compute items with.  A hasher made by     *)
(* makeHasher() wraps one sponge, which it resets, writes to and reads     *)
(* from in three calls: it "is not thread safe", and each goroutine makes  *)
(* its own.  generateDatasetItem() hashes the mix of an item twice, in     *)
(* place; what it does with the cache in between touches the mix alone and *)
(* is left out.                                                            *)
(*                                                                         *)
(* A mix is symbolic: the item it belongs to and how often it was hashed.  *)
(* In GenerateDataset an item appears in the buffer at once and right.     *)
(***************************************************************************)
EXTENDS GenerateDataset, Sequences

CONSTANT Garbled        \* what a sponge gives for anything but one mix

ASSUME GarbledAssumption == Garbled \notin [item : Nat, hashed : 0..2]

VARIABLES absorbed,     \* sponge -> the mixes written to it since its reset
          squeezed,     \* sponge -> it has been read from since its reset
          mix,          \* goroutine -> its mix
          calls,        \* goroutine -> the hashes of its item so far
          at            \* goroutine -> its next call of the sponge

hashVars == <<absorbed, squeezed, mix, calls, at>>
hdVars   == <<vars, hashVars>>

HashesPerItem == 2

Mix(i, n) == [item |-> i, hashed |-> n]

\* Mutant of hasherOf(): one hasher is made for all.
hasherShared(id) == 0

hasherOf(id) == id
-----------------------------------------------------------------------------
HDInit ==
  /\ Init
  /\ absorbed = [h \in Thread |-> << >>]
  /\ squeezed = [h \in Thread |-> FALSE]
  /\ mix = [id \in Thread |-> Garbled]
  /\ calls = [id \in Thread |-> 0]
  /\ at = [id \in Thread |-> "Reset"]

Generating(id) ==
  /\ ~panicked
  /\ pc[id] = "loop" /\ index[id] < limit(id)

(***************************************************************************)
(* The calls of a hasher.  The mix is set up before the first hash.        *)
(***************************************************************************)
Reset(id) ==
  /\ Generating(id) /\ at[id] = "Reset" /\ calls[id] < HashesPerItem
  /\ mix' = IF calls[id] = 0 THEN [mix EXCEPT ![id] = Mix(index[id], 0)] ELSE mix
  /\ absorbed' = [absorbed EXCEPT ![hasherOf(id)] = << >>]
  /\ squeezed' = [squeezed EXCEPT ![hasherOf(id)] = FALSE]
  /\ at' = [at EXCEPT ![id] = "Write"]
  /\ UNCHANGED <<vars, calls>>

(***************************************************************************)
(* A sponge that has been read from panics when it is written to.          *)
(***************************************************************************)
Write(id) ==
  /\ Generating(id) /\ at[id] = "Write"
  /\ IF squeezed[hasherOf(id)]
     THEN panicked' = TRUE /\ UNCHANGED absorbed
     ELSE /\ absorbed' = [absorbed EXCEPT ![hasherOf(id)] = Append(@, mix[id])]
          /\ UNCHANGED panicked
  /\ at' = [at EXCEPT ![id] = "Read"]
  /\ UNCHANGED <<size, threads, started, index, pc, dataset, progress, pend, returned,
                 squeezed, mix, calls>>

digest(h) ==
  IF ~squeezed[h] /\ Len(absorbed[h]) = 1 /\ absorbed[h][1] # Garbled
  THEN [absorbed[h][1] EXCEPT !.hashed = @ + 1]
  ELSE Garbled

Read(id) ==
  /\ Generating(id) /\ at[id] = "Read"
  /\ mix' = [mix EXCEPT ![id] = digest(hasherOf(id))]
  /\ calls' = [calls EXCEPT ![id] = @ + 1]
  /\ squeezed' = [squeezed EXCEPT ![hasherOf(id)] = TRUE]
  /\ at' = [at EXCEPT ![id] = "Reset"]
  /\ UNCHANGED <<vars, absorbed>>

(***************************************************************************)
(* The item is complete and is copied into the buffer.                     *)
(***************************************************************************)
itemOf(m) == IF m # Garbled /\ m.hashed = HashesPerItem THEN m.item ELSE Garbled

CopyItem(id) ==
  /\ Generating(id) /\ at[id] = "Reset" /\ calls[id] = HashesPerItem
  /\ dataset' = [dataset EXCEPT ![index[id]] = itemOf(mix[id])]
  /\ pc' = [pc EXCEPT ![id] = "copied"]
  /\ calls' = [calls EXCEPT ![id] = 0]
  /\ UNCHANGED <<size, threads, started, index, progress, pend, returned, panicked,
                 absorbed, squeezed, mix, at>>

HashStep(id) == Reset(id) \/ Write(id) \/ Read(id)

HDGoroutine(id) ==
  \/ HashStep(id)
  \/ CopyItem(id)
  \/ (Count(id) \/ Done(id)) /\ UNCHANGED hashVars

HDGo     == Go /\ UNCHANGED hashVars
HDReturn == Return /\ UNCHANGED hashVars

HDNext == HDGo \/ HDReturn \/ \E id \in Thread : HDGoroutine(id)

HDSpec == HDInit /\ [][HDNext]_hdVars

(***************************************************************************)
(* The Go scheduler is fair to every goroutine that can run, the caller's  *)
(* included.                                                               *)
(***************************************************************************)
HDFairSpec ==
  /\ HDSpec
  /\ WF_hdVars(HDGo) /\ WF_hdVars(HDReturn)
  /\ \A id \in Thread : WF_hdVars(HDGoroutine(id))
-----------------------------------------------------------------------------
(***************************************************************************)
(* For all that can be seen of them items appear in the buffer whole and   *)
(* right, each in its place, as in GenerateDataset: no hash is mixed up    *)
(* with that of another goroutine, and no sponge panics.                   *)
(***************************************************************************)
ImplementsGenerateDataset == Spec
=============================================================================
