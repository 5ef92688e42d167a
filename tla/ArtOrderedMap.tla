--------------------------- MODULE ArtOrderedMap ---------------------------
(***************************************************************************)
(* ArtOrderedMap of portable-maps-and-sets (src/radix/art.rs): an adaptive *)
(* radix tree.  A leaf holds a whole key; an inner node holds the bytes    *)
(* its keys share (prefix) and a container of children that grows through  *)
(* four kinds: two of sorted parallel arrays, one of 256 one-byte slot     *)
(* numbers into an array of children in order of arrival, and one of 256   *)
(* options.  The numbers 4, 16, 48 and 256 are constants here.             *)
(*                                                                         *)
(* Nodes are immutable and an insert builds new ones along its path: a     *)
(* node is a value.  The recursion of the code goes down from node to node *)
(* by the bytes of a key, at least one at each, and no further than the    *)
(* key has bytes: it is a recursive function of the number of steps.       *)
(*                                                                         *)
(* key[d] past the end panics: Panicked is that answer of a lookup, Panics *)
(* that outcome of an insert.  A slice index d of the code is element      *)
(* d + 1.                                                                  *)
(***************************************************************************)
EXTENDS ByteStrings, FiniteSets

CONSTANTS None, Panicked,
          NumBytes,            \* 256: the bytes are 0..NumBytes - 1
          Cap4, Cap16, Cap48   \* how many children a node of each kind holds

VARIABLES root,   \* Option<Arc<Node<V>>>, Absent for None
          len     \* usize: the cached length

Bytes == 0..(NumBytes - 1)

-----------------------------------------------------------------------------
Leaf(key, v) == [type |-> "leaf", key |-> key, value |-> v]
Inner(prefix, children) == [type |-> "inner", prefix |-> prefix, children |-> children]

Absent == [type |-> "absent"]    \* Option::None for a node
Panics == [type |-> "panic"]     \* the outcome of an insert that panics
IsNode(n) == n.type \in {"leaf", "inner"}

Sorted(kind, keys, kids) == [kind |-> kind, keys |-> keys, kids |-> kids]
Indexed(index, kids) == [kind |-> "N48", index |-> index, kids |-> kids]
Direct(kids) == [kind |-> "N256", kids |-> kids]

InArrays(ch) == ch.kind \in {"N4", "N16"}

(* binary_search, partition_point: the place of byte b in sorted keys.     *)
PosOf(keys, b) == 1 + Cardinality({i \in DOMAIN keys : keys[i] < b})

NewPair(b0, c0, b1, c1) ==
    IF b0 < b1 THEN Sorted("N4", <<b0, b1>>, <<c0, c1>>)
    ELSE Sorted("N4", <<b1, b0>>, <<c1, c0>>)

(* Children::get                                                           *)
ChildOf(ch, b) ==
    CASE InArrays(ch) -> IF b \in ToSet(ch.keys) THEN ch.kids[PosOf(ch.keys, b)] ELSE Absent
      [] ch.kind = "N48" -> IF ch.index[b] = 0 THEN Absent ELSE ch.kids[ch.index[b]]
      [] ch.kind = "N256" -> ch.kids[b]

(* The bytes that have a child; for_each and next_from go through them in  *)
(* ascending order.                                                        *)
BytesOf(ch) == {b \in Bytes : ChildOf(ch, b) # Absent}
Ascending(S) == SelectSeq([i \in 1..NumBytes |-> i - 1], LAMBDA b : b \in S)

Grow16To48(ch) ==
    Indexed([b \in Bytes |-> IF b \in ToSet(ch.keys) THEN PosOf(ch.keys, b) ELSE 0], ch.kids)

Grow48To256(ch) ==
    Direct([b \in Bytes |-> IF ch.index[b] = 0 THEN Absent ELSE ch.kids[ch.index[b]]])

Grown(ch) ==
    CASE ch.kind = "N4" -> Sorted("N16", ch.keys, ch.kids)
      [] ch.kind = "N16" -> Grow16To48(ch)
      [] ch.kind = "N48" -> Grow48To256(ch)

CapOf(kind) ==
    CASE kind = "N4" -> Cap4 [] kind = "N16" -> Cap16
      [] kind = "N48" -> Cap48 [] kind = "N256" -> NumBytes

(* Mutant: a container grows when it holds one child more than it can.     *)
Full_OneLate(ch) == ch.kind # "N256" /\ Len(ch.kids) > CapOf(ch.kind)

(* Mutant: a container grows while it still has room for one child.        *)
Full_OneEarly(ch) == ch.kind # "N256" /\ Len(ch.kids) + 1 >= CapOf(ch.kind)

Full(ch) == ch.kind # "N256" /\ Len(ch.kids) >= CapOf(ch.kind)

(* A child under a byte that has none, where there is room for one.        *)
Placed(ch, b, child) ==
    CASE InArrays(ch) -> Sorted(ch.kind, InsertAt(ch.keys, PosOf(ch.keys, b), b),
                                         InsertAt(ch.kids, PosOf(ch.keys, b), child))
      [] ch.kind = "N48" -> Indexed([ch.index EXCEPT ![b] = Len(ch.kids) + 1],
                                    Append(ch.kids, child))
      [] ch.kind = "N256" -> Direct([ch.kids EXCEPT ![b] = child])

(* A full container grows first, and again should it be full as the next   *)
(* of the four kinds.                                                      *)
GrownIfFull(ch) == IF Full(ch) THEN Grown(ch) ELSE ch

Added(ch, b, child) == Placed(GrownIfFull(GrownIfFull(GrownIfFull(ch))), b, child)

(* A child in the place of the one under that byte.                        *)
Replaced(ch, b, child) ==
    CASE InArrays(ch) -> [ch EXCEPT !.kids[PosOf(ch.keys, b)] = child]
      [] ch.kind = "N48" -> [ch EXCEPT !.kids[ch.index[b]] = child]
      [] ch.kind = "N256" -> [ch EXCEPT !.kids[b] = child]

-----------------------------------------------------------------------------
From(s, d) == SubSeq(s, d + 1, Len(s))

(* common_prefix_len                                                       *)
Common(s, t) ==
    LET same(n) == n <= Len(s) /\ n <= Len(t) /\ Cut(s, n) = Cut(t, n)
    IN  CHOOSE n \in 0..Len(s) : same(n) /\ ~same(n + 1)

(* What a split leaves of the prefix of the lower node.                    *)
SplitRest(prefix, common) == From(prefix, common + 1)

(* The policies of insert_rec_with: the plain insert's, and that of        *)
(* insert_mono, where a value stands for its op_seq.                       *)
Lands(always, old, new) == always \/ new > old

-----------------------------------------------------------------------------
(* A node on the way down, with how many bytes of the key lead to it.      *)
Place(node, depth) == [node |-> node, depth |-> depth]

(* Where the byte that tells the children of an inner node apart is.       *)
Fork(at) == at.depth + Len(at.node.prefix)

Matches(at, key) == IsPrefix(at.node.prefix, From(key, at.depth))

NextChild(at, key) == ChildOf(at.node.children, key[Fork(at) + 1])

GoesOn(at, key) ==
    /\ at.node.type = "inner" /\ Matches(at, key)
    /\ Fork(at) < Len(key) /\ NextChild(at, key) # Absent

Step(at, key) ==
    IF GoesOn(at, key) THEN Place(NextChild(at, key), Fork(at) + 1) ELSE at

(* The way of a lookup or of an insert down from a node, to where it stops.*)
Down(node, depth, key) ==
    LET at[i \in 0..Len(key)] ==
            IF i = 0 THEN Place(node, depth) ELSE Step(at[i - 1], key)
    IN  at

(* Mutant: the prefix is sliced out of a key that may be too short for it. *)
Answer_NoLengthTest(at, key) ==
    IF at.node.type = "leaf"
    THEN IF at.node.key = key THEN at.node.value ELSE None
    ELSE IF Fork(at) >= Len(key) THEN Panicked ELSE None

(* get_rec, where the way down stops.                                      *)
Answer(at, key) ==
    IF at.node.type = "leaf"
    THEN IF at.node.key = key THEN at.node.value ELSE None
    ELSE IF Matches(at, key) /\ Fork(at) = Len(key) THEN Panicked ELSE None

GetRec(node, key, depth) == Answer(Down(node, depth, key)[Len(key)], key)

(* insert_rec_with, where the way down stops: a leaf is replaced or kept   *)
(* (Absent), the bytes of a leaf or the prefix of a node are split where   *)
(* the key leaves them, or a child is added.                               *)
Changed(at, key, v, always) ==
    LET node == at.node
        isLeaf == node.type = "leaf"
        spelled == IF isLeaf THEN From(node.key, at.depth) ELSE node.prefix
        common == Common(spelled, From(key, at.depth))
        d == at.depth + common
        lower == IF isLeaf THEN node
                 ELSE Inner(SplitRest(node.prefix, common), node.children)
    IN  IF isLeaf /\ node.key = key
        THEN IF Lands(always, node.value, v) THEN Leaf(key, v) ELSE Absent
        ELSE IF d = Len(key) \/ (isLeaf /\ d = Len(node.key)) THEN Panics
        ELSE IF common < Len(spelled)
        THEN Inner(Cut(spelled, common),
                   NewPair(spelled[common + 1], lower, key[d + 1], Leaf(key, v)))
        ELSE Inner(node.prefix, Added(node.children, key[d + 1], Leaf(key, v)))

(* The way down copied from its end upwards, n steps above it; a panic and *)
(* a value that is kept copy nothing.                                      *)
Copies(node, depth, key, v, always) ==
    LET at == Down(node, depth, key)
        new[n \in 0..Len(key)] ==
            LET here == at[Len(key) - n]
                below == new[n - 1]
            IN  IF n = 0 THEN Changed(here, key, v, always)
                ELSE IF GoesOn(here, key) /\ IsNode(below)
                THEN Inner(here.node.prefix,
                           Replaced(here.node.children, key[Fork(here) + 1], below))
                ELSE below
    IN  new

InsertRec(node, key, depth, v, always) == Copies(node, depth, key, v, always)[Len(key)]

-----------------------------------------------------------------------------
Get(key) == IF root = Absent THEN None ELSE GetRec(root, key, 0)

Init == root = Absent /\ len = 0

(* What insert returns: it looks the key up, then builds the new root.     *)
Old(key) == Get(key)
NewRoot(key, v) == IF root = Absent THEN Leaf(key, v) ELSE InsertRec(root, key, 0, v, TRUE)

(* insert_mono of src/radix/concurrent_art.rs, on this tree.               *)
InsertMono(key, v) == IF root = Absent THEN Leaf(key, v) ELSE InsertRec(root, key, 0, v, FALSE)

InsertPanics(key, v) == Old(key) = Panicked \/ NewRoot(key, v) = Panics

(* Mutant: the root is taken out of the map while the new one is built.    *)
Insert_TakesRoot(key, v) ==
    \/ /\ ~InsertPanics(key, v)
       /\ root' = NewRoot(key, v)
       /\ len' = IF Old(key) = None THEN len + 1 ELSE len
    \/ /\ InsertPanics(key, v)
       /\ root' = IF Old(key) = Panicked THEN root ELSE Absent
       /\ UNCHANGED len

(* A panic unwinds before anything is assigned.                            *)
Insert(key, v) ==
    \/ /\ ~InsertPanics(key, v)
       /\ root' = NewRoot(key, v)
       /\ len' = IF Old(key) = None THEN len + 1 ELSE len
    \/ /\ InsertPanics(key, v)
       /\ UNCHANGED <<root, len>>

Clear == root' = Absent /\ len' = 0

-----------------------------------------------------------------------------
(* A container: at least two children, no more than its kind holds; bytes  *)
(* sorted and paired with children, or every slot under a byte of its own. *)
WellFilled(ch) ==
    /\ \E b, c \in BytesOf(ch) : b # c
    /\ ch.kind # "N256" => Len(ch.kids) <= CapOf(ch.kind)
    /\ InArrays(ch) =>
          /\ Len(ch.keys) = Len(ch.kids)
          /\ \A i, j \in DOMAIN ch.keys : i < j => ch.keys[i] < ch.keys[j]
    /\ ch.kind = "N48" =>
          /\ \A b \in Bytes : ch.index[b] \in 0..Len(ch.kids)
          /\ \A b, c \in Bytes : ch.index[b] = ch.index[c] => b = c \/ ch.index[b] = 0

(* A place on the way of key: a leaf spells the bytes that lead to it.     *)
WellPlaced(at, key) ==
    \/ at.node.type = "leaf" /\ IsPrefix(Cut(key, at.depth), at.node.key)
    \/ at.node.type = "inner" /\ WellFilled(at.node.children)
=============================================================================
