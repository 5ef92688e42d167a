------------------------------ MODULE ArtWalks ------------------------------
(***************************************************************************)
(* The walks over whole trees of src/radix/art.rs of portable-maps-and-    *)
(* sets: the visitor of an ArtOrderedMap, its lazy iterator, and the       *)
(* counters of nodes, of depths and of kinds.                              *)
(***************************************************************************)
EXTENDS ArtOrderedMap

Item(node, lo, hi) ==
    IF InRange(node.key, lo, hi) THEN <<<<node.key, node.value>>>> ELSE <<>>

(* for_each_range                                                          *)
RECURSIVE Visit(_, _, _, _)
Visit(node, path, lo, hi) ==
    IF node.type = "leaf" THEN Item(node, lo, hi)
    ELSE LET base == path \o node.prefix
         IN  FoldLeft(LAMBDA out, b :
                          IF Entered(Append(base, b), lo, hi)
                          THEN out \o Visit(ChildOf(node.children, b), Append(base, b), lo, hi)
                          ELSE out,
                      <<>>, Ascending(BytesOf(node.children)))

ForEachRange(lo, hi) == IF root = Absent THEN <<>> ELSE Visit(root, <<>>, lo, hi)

(* The lazy iterator: frames of inner nodes, each with the byte to go on   *)
(* from and the length the path had before it; and the path to the top.    *)
Frame(node, fork) == [node |-> node, cursor |-> 0, base |-> fork]

(* enter: an inner node gets a frame, a leaf gives its byte back.          *)
Enter(it, node, fork) ==
    IF node.type = "leaf" THEN [it EXCEPT !.path = Cut(@, fork)]
    ELSE [stack |-> Append(it.stack, Frame(node, fork)), path |-> it.path \o node.prefix]

Yielded(node, lo, hi) == IF node.type = "leaf" THEN Item(node, lo, hi) ELSE <<>>

(* Mutant: an exhausted node takes only its own byte off the path.         *)
Left_OneByte(it) == [stack |-> Front(it.stack), path |-> Front(it.path)]

(* An exhausted node takes its prefix and its byte off the path.           *)
Left(it) == [stack |-> Front(it.stack), path |-> Cut(it.path, Last(it.stack).base)]

(* What the iterator yields from here to its end: the loop of next, again  *)
(* and again.                                                              *)
RECURSIVE Drained(_, _, _)
Drained(it, lo, hi) ==
    LET depth == Len(it.stack)
        top == it.stack[depth]
        ahead == {b \in BytesOf(top.node.children) : b >= top.cursor}
        b == CHOOSE x \in ahead : \A y \in ahead : x <= y
        child == ChildOf(top.node.children, b)
        below == Append(it.path, b)
        tried == [it EXCEPT !.stack[depth].cursor = b + 1]
    IN  IF depth = 0 THEN <<>>
        ELSE IF ahead = {} THEN Drained(Left(it), lo, hi)
        ELSE IF ~Entered(below, lo, hi) THEN Drained(tried, lo, hi)
        ELSE Yielded(child, lo, hi)
             \o Drained(Enter([tried EXCEPT !.path = below], child, Len(it.path)), lo, hi)

(* The root is entered by the first next.                                  *)
RangeRef(lo, hi) ==
    IF root = Absent THEN <<>>
    ELSE Yielded(root, lo, hi)
         \o Drained(Enter([stack |-> <<>>, path |-> <<>>], root, 0), lo, hi)

-----------------------------------------------------------------------------
(* Every node with its depth, the root's being 1.                          *)
RECURSIVE NodesFrom(_, _)
NodesFrom(node, depth) ==
    FoldLeft(LAMBDA out, b : out \o NodesFrom(ChildOf(node.children, b), depth + 1),
             <<[node |-> node, depth |-> depth]>>,
             IF node.type = "leaf" THEN <<>> ELSE Ascending(BytesOf(node.children)))

Nodes == IF root = Absent THEN <<>> ELSE NodesFrom(root, 1)

NodeCount == Len(Nodes)

(* depth_stats, its average left as a sum and a count.                     *)
DepthStats ==
    FoldLeft(LAMBDA s, n : [max |-> IF n.depth > s.max THEN n.depth ELSE s.max,
                            sum |-> s.sum + n.depth, leaves |-> s.leaves + 1],
             [max |-> 0, sum |-> 0, leaves |-> 0],
             SelectSeq(Nodes, LAMBDA n : n.node.type = "leaf"))

Kinds == {"N4", "N16", "N48", "N256"}
Histogram ==
    [k \in Kinds |-> Len(SelectSeq(Nodes, LAMBDA n : n.node.type = "inner" /\ n.node.children.kind = k))]
=============================================================================
