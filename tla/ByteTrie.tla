------------------------------ MODULE ByteTrie ------------------------------
(***************************************************************************)
(* The byte trie that src/radix/cow.rs and src/radix/concurrent.rs of      *)
(* portable-maps-and-sets each define: one node per byte of a key, the     *)
(* children of a node sorted by byte.  Nodes are immutable and an insert   *)
(* builds new ones along its path, so a node is a value here.              *)
(*                                                                         *)
(* The recursion of the code follows a key byte by byte: it is a recursive *)
(* function of the position in the key, downwards for a lookup and from    *)
(* the end of the key upwards for what an insert builds.                   *)
(***************************************************************************)
EXTENDS ByteStrings, FiniteSets

CONSTANTS None    \* Option::None

-----------------------------------------------------------------------------
Node(children, value) == [children |-> children, value |-> value]
Edge(byte, node) == [byte |-> byte, node |-> node]
Empty == Node(<<>>, None)

(* binary_search_by_key: the position of b's edge, or of where it belongs. *)
PosOf(children, b) ==
    1 + Cardinality({i \in DOMAIN children : children[i].byte < b})

Has(children, b) ==
    LET p == PosOf(children, b)
    IN  p <= Len(children) /\ children[p].byte = b

(* The node below an edge; one that holds nothing if there is no edge.     *)
Below(node, b) ==
    IF Has(node.children, b) THEN node.children[PosOf(node.children, b)].node ELSE Empty

(* get_rec: the nodes that the bytes of key lead to, one after the other.  *)
Down(node, key) ==
    LET at[i \in 0..Len(key)] == IF i = 0 THEN node ELSE Below(at[i - 1], key[i])
    IN  at

(* Mutant: a new edge is put last, wherever binary search says it belongs. *)
WithChild_Last(node, b, child) ==
    LET p == PosOf(node.children, b)
    IN  Node(IF Has(node.children, b)
             THEN [node.children EXCEPT ![p] = Edge(b, child)]
             ELSE Append(node.children, Edge(b, child)),
             node.value)

(* The copy of a node with another node under b: in the place of the one   *)
(* that was there, or with a new edge where binary search says it belongs. *)
WithChild(node, b, child) ==
    LET p == PosOf(node.children, b)
    IN  Node(IF Has(node.children, b)
             THEN [node.children EXCEPT ![p] = Edge(b, child)]
             ELSE InsertAt(node.children, p, Edge(b, child)),
             node.value)

(* insert_rec: the way down copied from its end upwards, n bytes of the    *)
(* key above it, with the new value at the end.  Below a missing edge this *)
(* is build_chain.                                                         *)
Copies(node, key, v) ==
    LET at == Down(node, key)
        new[n \in 0..Len(key)] ==
            IF n = 0 THEN Node(at[Len(key)].children, v)
            ELSE WithChild(at[Len(key) - n], key[Len(key) - n + 1], new[n - 1])
    IN  new

Inserted(node, key, v) == Copies(node, key, v)[Len(key)]
=============================================================================
