---------------------------- MODULE MCShardsDust ----------------------------
(***************************************************************************)
(* Instance of ShardedKV for TLC with a price that is rounded down: the    *)
(* deployer pays for shards 0 and 1, but NoDust does not hold.             *)
(***************************************************************************)
EXTENDS ShardedKV

OneValue == {<<1>>}
=============================================================================
