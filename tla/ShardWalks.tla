----------------------------- MODULE ShardWalks -----------------------------
(***************************************************************************)
(* The range of src/radix/concurrent.rs of portable-maps-and-sets on the   *)
(* tree of one shard: collected at once, and sorted at the end.            *)
(***************************************************************************)
EXTENDS ByteTrie

VARIABLES root    \* Arc<Node<V>>

(* The subtrees collect does not go into.                                  *)
Skipped(path, lo, hi) ==
    Less(path, Cut(lo, Len(path))) \/ Less(Cut(hi, Len(path)), path)

RECURSIVE Collect(_, _, _, _)
Collect(node, path, lo, hi) ==
    FoldLeft(LAMBDA out, c :
                 IF Skipped(Append(path, c.byte), lo, hi) THEN out
                 ELSE out \o Collect(c.node, Append(path, c.byte), lo, hi),
             IF node.value # None /\ InRange(path, lo, hi)
             THEN <<<<path, node.value>>>> ELSE <<>>,
             node.children)

(* One shard's part of range: collected, then sorted by key.               *)
RangeOf(lo, hi) ==
    SortSeq(Collect(root, <<>>, lo, hi), LAMBDA p, q : Less(p[1], q[1]))
=============================================================================
