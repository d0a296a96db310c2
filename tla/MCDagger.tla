------------------------------ MODULE MCDagger ------------------------------
(***************************************************************************)
(* Instances of DKVDaggerHashimoto for TLC.                                *)
(***************************************************************************)
EXTENDS DKVDaggerHashimoto, TLC

\* A value of one chunk, and one of two that has the same chunk elsewhere.
TwoData  == {<<1>>, <<2, 1>>}

ASSUME HoldAssumption == NonEmptyWrites /\ Committable

\* Keys are only ever compared with each other and with NoSkey.
KeySymmetry == Permutations(Key)
=============================================================================
