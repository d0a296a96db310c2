------------------------------ MODULE KVStore ------------------------------
(***************************************************************************)
(* What DecentralizedKV promises its users: a map from keys (each owned by *)
(* the account that wrote it) to non-empty values, in which an operation   *)
(* of one owner on one key leaves every other key as it is.  Slots, swaps  *)
(* and hashes are none of a user's business.                               *)
(***************************************************************************)
CONSTANTS SKey,      \* the keys, each with its owner
          Values,    \* what can be stored
          None       \* what an absent key maps to; not one of Values

VARIABLE store

TypeOK == store \in [SKey -> Values \cup {None}]

Init == store = [k \in SKey |-> None]

(***************************************************************************)
(* put(): create the key or overwrite its value.                           *)
(***************************************************************************)
Write(k, v) == store' = [store EXCEPT ![k] = v]

(***************************************************************************)
(* remove(): only a key that exists can be removed.                        *)
(***************************************************************************)
Delete(k) ==
  /\ store[k] # None
  /\ store' = [store EXCEPT ![k] = None]

Next == \E k \in SKey : Delete(k) \/ \E v \in Values : Write(k, v)

Spec == Init /\ [][Next]_store
=============================================================================
