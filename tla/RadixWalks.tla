----------------------------- MODULE RadixWalks -----------------------------
(***************************************************************************)
(* The walks over whole trees of src/radix/cow.rs of portable-maps-and-    *)
(* sets: the counters of a RadixOrderedMap, its visitor and its lazy       *)
(* iterator.                                                               *)
(***************************************************************************)
EXTENDS RadixOrderedMap

(* count: a fresh walk over the tree.                                      *)
RECURSIVE Count(_)
Count(node) ==
    FoldLeft(LAMBDA n, e : n + Count(e.node),
             IF node.value = None THEN 0 ELSE 1, node.children)

(* node_count                                                              *)
RECURSIVE NodesBelow(_)
NodesBelow(node) == FoldLeft(LAMBDA n, e : n + NodesBelow(e.node), 1, node.children)
NodeCount == NodesBelow(root)

-----------------------------------------------------------------------------
(* for_each_range: a node's own value, then its children in byte order.    *)
RECURSIVE Visit(_, _, _, _)
Visit(node, path, lo, hi) ==
    FoldLeft(LAMBDA out, e :
                 IF Entered(Append(path, e.byte), lo, hi)
                 THEN out \o Visit(e.node, Append(path, e.byte), lo, hi)
                 ELSE out,
             IF node.value # None /\ InRange(path, lo, hi)
             THEN <<<<path, node.value>>>> ELSE <<>>,
             node.children)

ForEachRange(lo, hi) == Visit(root, <<>>, lo, hi)

(* The lazy iterator: frames of nodes, each with how many of its children  *)
(* were tried and whether its own value was, and the path to the top one.  *)
Frame(node) == [node |-> node, next |-> 0, valueDone |-> FALSE]
(* Mutant: the byte of an exhausted node stays on the path.                *)
Popped_KeepsByte(it) == [it EXCEPT !.stack = Front(@)]

(* An exhausted node leaves the stack, and the byte that led to it.        *)
Popped(it) ==
    [stack |-> Front(it.stack),
     path |-> IF Len(it.stack) > 1 THEN Front(it.path) ELSE it.path]

(* What the iterator yields from here to its end: the loop of next, again  *)
(* and again.                                                              *)
RECURSIVE Drained(_, _, _)
Drained(it, lo, hi) ==
    LET depth == Len(it.stack)
        top == it.stack[depth]
        edge == top.node.children[top.next + 1]
        below == Append(it.path, edge.byte)
        tried == [it EXCEPT !.stack[depth].next = @ + 1]
    IN  IF depth = 0 THEN <<>>
        ELSE IF ~top.valueDone
        THEN (IF top.node.value # None /\ InRange(it.path, lo, hi)
              THEN <<<<it.path, top.node.value>>>> ELSE <<>>)
             \o Drained([it EXCEPT !.stack[depth].valueDone = TRUE], lo, hi)
        ELSE IF top.next = Len(top.node.children) THEN Drained(Popped(it), lo, hi)
        ELSE IF Entered(below, lo, hi)
        THEN Drained([stack |-> Append(tried.stack, Frame(edge.node)), path |-> below], lo, hi)
        ELSE Drained(tried, lo, hi)

RangeRef(lo, hi) == Drained([stack |-> <<Frame(root)>>, path |-> <<>>], lo, hi)
=============================================================================
