---------------------------- MODULE MCShardedMap ----------------------------
(***************************************************************************)
(* Bounded instance of ShardedMap: two shard numbers fit an Index, the     *)
(* keys hash to three shards, three of them share one of capacity two.                *)
(***************************************************************************)
EXTENDS ShardedMap, TLC

CONSTANTS t1, t2, k1, k2, k3, k4, k5, v1, v2

MCHash == (k1 :> 0) @@ (k2 :> 1) @@ (k3 :> 1) @@ (k4 :> 1) @@ (k5 :> 2)
=============================================================================
