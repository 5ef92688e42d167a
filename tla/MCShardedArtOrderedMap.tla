----------------------- MODULE MCShardedArtOrderedMap -----------------------
(* ShardedArtOrderedMap on a small instance, for TLC: keys a and b share a *)
(* shard, c has one of its own.                                            *)
EXTENDS ShardedArtOrderedMap, TLC

CONSTANTS a, b, c

MCKeys == {a, b, c}
MCShardOf == (a :> 1) @@ (b :> 1) @@ (c :> 2)

(* The loop of apply_batch's closure, op after op; Folded must agree with  *)
(* it on every root and batch of the instance.                             *)
Loop(root, ops_t, s) ==
    FoldLeft(LAMBDA r, op : IF ShardOf[op.key] = s /\ Lands(r[op.key], op)
                            THEN [r EXCEPT ![op.key] = EntryOf(op)] ELSE r,
             root, ops_t)

SomeRoots == {[EmptyRoot EXCEPT ![a] = [seq |-> n, id |-> 9], ![b] = [seq |-> m, id |-> 8]] :
                 n \in {-1, 1, 2}, m \in {-1, 2}}

ASSUME FoldedIsTheLoop ==
    \A root \in SomeRoots, n \in 0..3 :
        \A keys \in [1..n -> Keys], seqs \in [1..n -> 0..2] :
            LET batch == [i \in 1..n |-> Op(keys[i], i, seqs[i], FALSE)]
            IN  \A s \in Shards : Folded(root, batch, s) = Loop(root, batch, s)
=============================================================================
