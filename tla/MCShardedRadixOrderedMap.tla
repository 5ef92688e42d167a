---------------------- MODULE MCShardedRadixOrderedMap ----------------------
(* ShardedRadixOrderedMap on a small instance, for TLC: two shards and a   *)
(* shard prefix of two bytes, with a key shorter than the prefix, one      *)
(* longer, two that share a shard and two that differ in their second byte *)
(* only.                                                                   *)
EXTENDS ShardedRadixOrderedMap, TLC

MCKeys == {<<1>>, <<1, 1>>, <<1, 2>>, <<1, 2, 1>>}
MCBounds == {<<1>>, <<1, 1>>, <<1, 2, 1>>, <<2>>}
MCWholeMap == {<<>>, <<2>>}
MCHashOf == (<<>> :> 1) @@ (<<1>> :> 1) @@ (<<1, 1>> :> 2) @@ (<<1, 2>> :> 1) @@ (<<2>> :> 2)
=============================================================================
