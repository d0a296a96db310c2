---------------------------- MODULE MCReadableKV ----------------------------
(***************************************************************************)
(* Instances of DecentralizedKV whose values can all be read back.         *)
(***************************************************************************)
EXTENDS MCDecentralizedKV, TLC

(***************************************************************************)
(* The hypotheses of the theorems about these instances.                   *)
(***************************************************************************)
ASSUME ReadableAssumption == NonEmptyWrites /\ Committable

(***************************************************************************)
(* Users and keys are only ever compared with others of their kind.        *)
(***************************************************************************)
Symmetry == Permutations(User) \cup Permutations(Key)
=============================================================================
