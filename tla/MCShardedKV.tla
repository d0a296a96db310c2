---------------------------- MODULE MCShardedKV ----------------------------
(***************************************************************************)
(* Instance of ShardedKV for TLC in which the price halves without rest.   *)
(***************************************************************************)
EXTENDS ShardedKV, TLC

ASSUME FundedAssumption == ShardCostFits /\ NoDust /\ DeployerPays

LongValue == {<<1, 2>>}    \* too long for a size of one bit

\* Keys are only ever compared with each other and with NoSkey.
KeySymmetry == Permutations(Key)
=============================================================================
