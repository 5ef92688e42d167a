-------------------------- MODULE RadixMaps_proofs --------------------------
(***************************************************************************)
(* That the trees of RadixMaps are maps, through every insert and clear:   *)
(* the byte trie, and the adaptive radix tree.                             *)
(*                                                                         *)
(* The trie comes first.  What a lookup finds is what the recursive        *)
(* function of its way says (DownIsDefined), an insert changes that for    *)
(* one key only (InsertedFacts), and so TrieInv, that every string of      *)
(* numbers leads to what the plain map has, is inductive.                  *)
(*                                                                         *)
(* An ART is read the same way, but a way of it takes several bytes at a   *)
(* step and may panic.  A container is in order (Kept) when it is as the   *)
(* code keeps its kind; then it is a finite function of the bytes, which   *)
(* growth does not change and an added or replaced child changes at one.   *)
(* A node is sound when every place on every way below it is: a leaf       *)
(* spells the bytes that lead to it, an inner node forks and its container *)
(* is in order, and some key is held below.  What an insert comes to in a  *)
(* sound node (Outcome, and Mono for the one that keeps values as new)     *)
(* holds where its way stops and, if it holds of a child, of the node      *)
(* above it: InsertFacts is the induction over the bytes of the key that   *)
(* are left.  ArtInv says this of the tree under the root.                 *)
(***************************************************************************)
EXTENDS RadixMaps, SequenceLemmas

Trie == INSTANCE ByteTrie

(* The way down is what its definition says.                               *)
LEMMA DownIsDefined ==
    ASSUME NEW node, NEW key \in Seq(Nat)
    PROVE  Trie!Down(node, key) =
              [i \in 0..Len(key) |->
                  IF i = 0 THEN node
                  ELSE Trie!Below(Trie!Down(node, key)[i - 1], key[i])]
<1> DEFINE L == Len(key)
           IsWay(f, m) == f = [i \in 0..m |-> IF i = 0 THEN node ELSE Trie!Below(f[i - 1], key[i])]
           Bad == {m \in 0..L : ~\E f : IsWay(f, m)}
<1>1. L \in Nat
  BY LenProperties
<1>2. \E f : IsWay(f, L)
  <2> SUFFICES ASSUME Bad # {} PROVE FALSE
    BY <1>1
  <2>1. PICK m \in Bad : \A k \in Bad : m <= k
    <3>1. Bad \in SUBSET Nat
      BY <1>1
    <3> HIDE DEF Bad
    <3> QED
      BY <3>1, LeastNumber
  <2>2. m \in 0..L /\ ~\E f : IsWay(f, m)
    BY <2>1
  <2>3. CASE m = 0
    <3> DEFINE g == [i \in 0..0 |-> node]
    <3>1. IsWay(g, 0)
      OBVIOUS
    <3> QED
      BY <2>2, <2>3, <3>1
  <2>4. CASE m # 0
    <3>1. m - 1 \in 0..L /\ ~(m <= m - 1)
      BY <1>1, <2>2, <2>4
    <3>2. PICK f : IsWay(f, m - 1)
      BY <2>1, <3>1
    <3> DEFINE g == [i \in 0..m |-> IF i = m THEN Trie!Below(f[m - 1], key[m]) ELSE f[i]]
    <3>3. \A i \in 0..m : g[i] = IF i = 0 THEN node ELSE Trie!Below(g[i - 1], key[i])
      <4> SUFFICES ASSUME NEW i \in 0..m
                   PROVE  g[i] = IF i = 0 THEN node ELSE Trie!Below(g[i - 1], key[i])
        OBVIOUS
      <4>1. CASE i = m
        BY <1>1, <2>2, <2>4, <4>1
      <4>2. CASE i # m
        <5>1. i \in 0..(m - 1) /\ (i # 0 => i - 1 \in 0..m /\ i - 1 # m)
          BY <1>1, <2>2, <4>2
        <5>2. f[i] = IF i = 0 THEN node ELSE Trie!Below(f[i - 1], key[i])
          BY <3>2, <5>1
        <5> QED
          BY <4>2, <5>1, <5>2
      <4> QED
        BY <4>1, <4>2
    <3>4. IsWay(g, m)
      BY <3>3
    <3> QED
      BY <2>2, <3>4
  <2> QED
    BY <2>3, <2>4
<1>3. Trie!Down(node, key) = CHOOSE f : IsWay(f, L)
  BY DEF Trie!Down
<1> QED
  BY <1>2, <1>3

(* A list of children as the tries keep it.                                *)
EdgesSorted(ch) ==
    /\ ch \in Seq(ToSet(ch))
    /\ \A i \in 1..Len(ch) : ch[i].byte \in Nat
    /\ \A i, j \in 1..Len(ch) : i < j => ch[i].byte < ch[j].byte

(* No children are in order.                                               *)
LEMMA NoEdges == EdgesSorted(<<>>)
  BY DEF EdgesSorted

(* Binary search tells the lower bytes from the others.                    *)
LEMMA PosOfSplits ==
    ASSUME NEW ch, EdgesSorted(ch), NEW b \in Nat
    PROVE  /\ Trie!PosOf(ch, b) \in 1..(Len(ch) + 1)
           /\ \A i \in 1..Len(ch) : i < Trie!PosOf(ch, b) <=> ch[i].byte < b
<1> DEFINE S == {i \in 1..Len(ch) : ch[i].byte < b}
           c == Cardinality(S)
<1>1. Len(ch) \in Nat /\ DOMAIN ch = 1..Len(ch)
  BY LenProperties DEF EdgesSorted
<1>2. \A i \in S : \A j \in 1..Len(ch) : j < i => j \in S
  <2> SUFFICES ASSUME NEW i \in S, NEW j \in 1..Len(ch), j < i PROVE ch[j].byte < b
    OBVIOUS
  <2>1. ch[j].byte < ch[i].byte /\ ch[i].byte < b /\ ch[j].byte \in Nat /\ ch[i].byte \in Nat
    BY DEF EdgesSorted
  <2> QED
    BY <2>1
<1>3. c \in 0..Len(ch) /\ S = 1..c
  <2>1. S \in SUBSET (1..Len(ch))
    OBVIOUS
  <2> HIDE DEF S
  <2> QED
    BY <1>1, <1>2, <2>1, DownwardClosed
<1>4. Trie!PosOf(ch, b) = 1 + c
  <2>1. {i \in DOMAIN ch : ch[i].byte < b} = S
    BY <1>1
  <2> HIDE DEF S
  <2> QED
    BY <2>1 DEF Trie!PosOf, Trie!Cardinality, Cardinality
<1> HIDE DEF c
<1>5. ASSUME NEW i \in 1..Len(ch) PROVE i < 1 + c <=> ch[i].byte < b
  <2>1. i \in S <=> ch[i].byte < b
    OBVIOUS
  <2>2. i \in 1..c <=> i < 1 + c
    BY <1>1, <1>3
  <2> QED
    BY <1>3, <2>1, <2>2
<1> QED
  BY <1>1, <1>3, <1>4, <1>5

(* A search finds the edge there is, and none where there is none.         *)
LEMMA BelowFinds ==
    ASSUME NEW node, EdgesSorted(node.children), NEW b \in Nat
    PROVE  /\ Trie!Has(node.children, b)
                <=> \E i \in 1..Len(node.children) : node.children[i].byte = b
           /\ Trie!Has(node.children, b) => Trie!PosOf(node.children, b) \in 1..Len(node.children)
           /\ \A i \in 1..Len(node.children) :
                 node.children[i].byte = b =>
                    /\ Trie!PosOf(node.children, b) = i
                    /\ Trie!Below(node, b) = node.children[i].node
           /\ (\A i \in 1..Len(node.children) : node.children[i].byte # b)
                 => Trie!Below(node, b) = Trie!Empty
<1> DEFINE ch == node.children
           p == Trie!PosOf(ch, b)
<1>1. Len(ch) \in Nat
  BY LenProperties DEF EdgesSorted
<1>2. p \in 1..(Len(ch) + 1) /\ \A i \in 1..Len(ch) : i < p <=> ch[i].byte < b
  BY PosOfSplits
<1>3. Trie!Has(ch, b) <=> p <= Len(ch) /\ ch[p].byte = b
  BY DEF Trie!Has
<1>4. Trie!Below(node, b) = IF Trie!Has(ch, b) THEN ch[p].node ELSE Trie!Empty
  BY DEF Trie!Below
<1>5. \A i \in 1..Len(ch) : ch[i].byte \in Nat
  BY DEF EdgesSorted
<1>6. \A i, j \in 1..Len(ch) : i < j => ch[i].byte < ch[j].byte
  BY DEF EdgesSorted
<1> HIDE DEF p, ch
<1>7. ASSUME NEW i \in 1..Len(ch), ch[i].byte = b PROVE p = i
  <2>1. ~(i < p)
    BY <1>2, <1>5, <1>7
  <2>2. CASE p < i
    <3>1. p \in 1..Len(ch)
      BY <1>1, <1>2, <2>2
    <3>2. ch[p].byte < b /\ ~(ch[p].byte < b)
      BY <1>1, <1>2, <1>6, <1>7, <2>2, <3>1
    <3> QED
      BY <3>2
  <2> QED
    BY <1>1, <1>2, <2>1, <2>2
<1>8. Trie!Has(ch, b) => p \in 1..Len(ch)
  BY <1>1, <1>2, <1>3
<1>9. Trie!Has(ch, b) <=> \E i \in 1..Len(ch) : ch[i].byte = b
  <2>1. ASSUME NEW i \in 1..Len(ch), ch[i].byte = b PROVE Trie!Has(ch, b)
    BY <1>1, <1>3, <1>7, <2>1
  <2> QED
    BY <1>3, <1>8, <2>1
<1> QED
  BY <1>3, <1>4, <1>7, <1>8, <1>9 DEF p, ch

(* An edge in a list.                                                      *)
HasEdge(ch, b, node) == \E i \in 1..Len(ch) : ch[i].byte = b /\ ch[i].node = node

(* The copy of a node: what is below b is the new child, what is below     *)
(* every other byte is what was there.                                     *)
LEMMA WithChildFacts ==
    ASSUME NEW node, EdgesSorted(node.children), NEW b \in Nat, NEW child
    PROVE  /\ EdgesSorted(Trie!WithChild(node, b, child).children)
           /\ Trie!WithChild(node, b, child).value = node.value
           /\ \A c \in Nat :
                 Trie!Below(Trie!WithChild(node, b, child), c) =
                    IF c = b THEN child ELSE Trie!Below(node, c)
<1> DEFINE ch == node.children
           p == Trie!PosOf(ch, b)
           e == Trie!Edge(b, child)
           new == Trie!WithChild(node, b, child)
           S == ToSet(ch) \union {e}
<1>1. Len(ch) \in Nat /\ DOMAIN ch = 1..Len(ch) /\ ch \in Seq(S)
  <2>1. ch \in Seq(ToSet(ch))
    BY DEF EdgesSorted
  <2>2. Len(ch) \in Nat /\ DOMAIN ch = 1..Len(ch) /\ \A i \in 1..Len(ch) : ch[i] \in S
    BY <2>1, LenProperties, ElementOfSeq
  <2>3. ch = [i \in 1..Len(ch) |-> ch[i]]
    BY <2>1, LenProperties
  <2> HIDE DEF S
  <2> QED
    BY <2>2, <2>3
<1>2. e \in S /\ e.byte = b /\ e.node = child
  BY DEF Trie!Edge
<1>3. p \in 1..(Len(ch) + 1) /\ \A i \in 1..Len(ch) : i < p <=> ch[i].byte < b
  BY PosOfSplits
<1>4. /\ \A i \in 1..Len(ch) : ch[i].byte \in Nat
      /\ \A i, j \in 1..Len(ch) : i < j => ch[i].byte < ch[j].byte
  BY DEF EdgesSorted
<1>5. new.value = node.value
  BY DEF Trie!WithChild, Trie!Node
<1>6. /\ Trie!Has(ch, b) <=> \E i \in 1..Len(ch) : ch[i].byte = b
      /\ Trie!Has(ch, b) => p \in 1..Len(ch)
      /\ \A i \in 1..Len(ch) : ch[i].byte = b => p = i
  BY BelowFinds
<1>7. new.children = IF Trie!Has(ch, b) THEN [ch EXCEPT ![p] = e] ELSE InsertAt(ch, p, e)
  BY DEF Trie!WithChild, Trie!Node, Trie!InsertAt, InsertAt
<1>8. ASSUME NEW r, r = new.children, EdgesSorted(r),
             \A c \in Nat : \A x : c # b => (HasEdge(r, c, x) <=> HasEdge(ch, c, x)),
             \E i \in 1..Len(r) : r[i] = e
      PROVE  \A c \in Nat : Trie!Below(new, c) = IF c = b THEN child ELSE Trie!Below(node, c)
  <2> SUFFICES ASSUME NEW c \in Nat
               PROVE  Trie!Below(new, c) = IF c = b THEN child ELSE Trie!Below(node, c)
    OBVIOUS
  <2>1. CASE c = b
    <3>1. PICK i \in 1..Len(r) : r[i] = e
      BY <1>8
    <3>2. r[i].byte = c /\ r[i].node = child
      BY <1>2, <2>1, <3>1
    <3> HIDE DEF new
    <3> QED
      BY <1>8, <2>1, <3>2, BelowFinds
  <2>2. CASE c # b
    <3>1. /\ \A i \in 1..Len(ch) : ch[i].byte = c => Trie!Below(node, c) = ch[i].node
          /\ (\A i \in 1..Len(ch) : ch[i].byte # c) => Trie!Below(node, c) = Trie!Empty
      BY BelowFinds
    <3>2. /\ \A i \in 1..Len(r) : r[i].byte = c => Trie!Below(new, c) = r[i].node
          /\ (\A i \in 1..Len(r) : r[i].byte # c) => Trie!Below(new, c) = Trie!Empty
      <4> HIDE DEF new
      <4> QED
        BY <1>8, BelowFinds
    <3>3. CASE \E i \in 1..Len(ch) : ch[i].byte = c
      <4>1. PICK i \in 1..Len(ch) : ch[i].byte = c
        BY <3>3
      <4>2. PICK j \in 1..Len(r) : r[j].byte = c /\ r[j].node = ch[i].node
        <5>1. HasEdge(ch, c, ch[i].node)
          BY <4>1 DEF HasEdge
        <5>2. HasEdge(r, c, ch[i].node)
          BY <1>8, <2>2, <5>1
        <5> QED
          BY <5>2 DEF HasEdge
      <4> QED
        BY <2>2, <3>1, <3>2, <4>1, <4>2
    <3>4. CASE ~\E i \in 1..Len(ch) : ch[i].byte = c
      <4>1. \A j \in 1..Len(r) : r[j].byte # c
        <5> SUFFICES ASSUME NEW j \in 1..Len(r), r[j].byte = c PROVE FALSE
          OBVIOUS
        <5>1. HasEdge(r, c, r[j].node)
          BY DEF HasEdge
        <5>2. HasEdge(ch, c, r[j].node)
          BY <1>8, <2>2, <5>1
        <5> QED
          BY <3>4, <5>2 DEF HasEdge
      <4> QED
        BY <2>2, <3>1, <3>2, <3>4, <4>1
    <3> QED
      BY <3>3, <3>4
  <2> QED
    BY <2>1, <2>2
<1> HIDE DEF ch, p, e, new, S
<1>9. CASE Trie!Has(ch, b)
  <2> DEFINE r == [ch EXCEPT ![p] = e]
  <2>1. p \in 1..Len(ch) /\ ch[p].byte = b
    BY <1>6, <1>9
  <2>2. r \in Seq(S) /\ Len(r) = Len(ch) /\ DOMAIN r = 1..Len(ch)
    BY <1>1, <1>2, <2>1
  <2>3. \A i \in 1..Len(ch) : r[i] = IF i = p THEN e ELSE ch[i]
    BY <1>1
  <2>4. r = new.children
    BY <1>7, <1>9
  <2> HIDE DEF r
  <2>5. \A i \in 1..Len(ch) : r[i].byte = ch[i].byte
    BY <1>2, <2>1, <2>3
  <2>6. EdgesSorted(r)
    <3>1. r \in Seq(ToSet(r))
      <4>1. \A i \in 1..Len(r) : r[i] \in ToSet(r)
        BY <2>2 DEF ToSet
      <4>2. r = [i \in 1..Len(r) |-> r[i]]
        BY <2>2
      <4> QED
        BY <1>1, <2>2, <4>1, <4>2
    <3> QED
      BY <1>4, <2>2, <2>5, <3>1 DEF EdgesSorted
  <2>7. \A c \in Nat : \A x : c # b => (HasEdge(r, c, x) <=> HasEdge(ch, c, x))
    BY <1>2, <2>1, <2>2, <2>3 DEF HasEdge
  <2>8. \E i \in 1..Len(r) : r[i] = e
    BY <2>1, <2>2, <2>3
  <2> QED
    <3>1. \A c \in Nat : Trie!Below(new, c) = IF c = b THEN child ELSE Trie!Below(node, c)
      BY <1>8, <2>4, <2>6, <2>7, <2>8
    <3> QED
      BY <1>5, <2>4, <2>6, <3>1 DEF new
<1>10. CASE ~Trie!Has(ch, b)
  <2> DEFINE r == InsertAt(ch, p, e)
  <2>1. /\ r \in Seq(S) /\ Len(r) = Len(ch) + 1
        /\ \A j \in 1..(Len(ch) + 1) :
              r[j] = IF j < p THEN ch[j] ELSE IF j = p THEN e ELSE ch[j - 1]
    BY <1>1, <1>2, <1>3, InsertAtFacts
  <2>2. r = new.children
    BY <1>7, <1>10
  <2> HIDE DEF r
  <2>3. \A i \in 1..Len(ch) : ch[i].byte # b
    BY <1>6, <1>10
  <2>4. DOMAIN r = 1..Len(r) /\ Len(r) \in Nat
    BY <2>1, LenProperties
  <2>5. ASSUME NEW i \in 1..Len(r)
        PROVE  \/ i < p /\ i \in 1..Len(ch) /\ r[i] = ch[i] /\ ch[i].byte < b
               \/ i = p /\ r[i] = e
               \/ p < i /\ i - 1 \in 1..Len(ch) /\ r[i] = ch[i - 1] /\ b < ch[i - 1].byte
    <3>1. CASE i < p
      <4>1. i \in 1..Len(ch)
        BY <1>1, <1>3, <2>1, <3>1
      <4> QED
        BY <1>3, <2>1, <3>1, <4>1
    <3>2. CASE i = p
      BY <1>1, <1>3, <2>1, <3>2
    <3>3. CASE p < i
      <4>1. i - 1 \in 1..Len(ch) /\ ~(i - 1 < p)
        BY <1>1, <1>3, <2>1, <3>3
      <4>2. ~(ch[i - 1].byte < b) /\ ch[i - 1].byte # b /\ ch[i - 1].byte \in Nat
        BY <1>3, <1>4, <2>3, <4>1
      <4> QED
        BY <1>3, <2>1, <3>3, <4>1, <4>2
    <3> QED
      BY <1>3, <2>1, <3>1, <3>2, <3>3
  <2>6. EdgesSorted(r)
    <3>1. r \in Seq(ToSet(r))
      <4>1. \A i \in 1..Len(r) : r[i] \in ToSet(r)
        BY <2>4 DEF ToSet
      <4>2. r = [i \in 1..Len(r) |-> r[i]]
        BY <2>1, <2>4
      <4> QED
        BY <2>4, <4>1, <4>2
    <3>2. \A i \in 1..Len(r) : r[i].byte \in Nat
      BY <1>2, <1>4, <2>5
    <3>3. ASSUME NEW i \in 1..Len(r), NEW j \in 1..Len(r), i < j
          PROVE  r[i].byte < r[j].byte
      <4>1. i \in Nat /\ j \in Nat /\ p \in Nat
        BY <1>1, <1>3, <2>4
      <4>2. CASE i < p /\ i \in 1..Len(ch) /\ r[i] = ch[i] /\ ch[i].byte < b
        <5>1. CASE j < p /\ j \in 1..Len(ch) /\ r[j] = ch[j]
          BY <1>4, <3>3, <4>2, <5>1
        <5>2. CASE j = p /\ r[j] = e
          BY <1>2, <4>2, <5>2
        <5>3. CASE p < j /\ j - 1 \in 1..Len(ch) /\ r[j] = ch[j - 1] /\ b < ch[j - 1].byte
          <6>1. ch[i].byte \in Nat /\ ch[j - 1].byte \in Nat
            BY <1>4, <4>2, <5>3
          <6> QED
            BY <4>2, <5>3, <6>1
        <5> QED
          BY <2>5, <5>1, <5>2, <5>3
      <4>3. CASE i = p /\ r[i] = e
        <5>1. p < j
          BY <3>3, <4>3
        <5>2. r[j] = ch[j - 1] /\ b < ch[j - 1].byte
          BY <2>5, <4>1, <5>1
        <5> QED
          BY <1>2, <4>3, <5>2
      <4>4. CASE p < i /\ i - 1 \in 1..Len(ch) /\ r[i] = ch[i - 1]
        <5>1. p < j
          BY <3>3, <4>1, <4>4
        <5>2. j - 1 \in 1..Len(ch) /\ r[j] = ch[j - 1]
          BY <2>5, <4>1, <5>1
        <5>3. i - 1 < j - 1
          BY <3>3, <4>1
        <5> QED
          BY <1>4, <4>4, <5>2, <5>3
      <4> QED
        BY <2>5, <4>2, <4>3, <4>4
    <3> QED
      BY <3>1, <3>2, <3>3 DEF EdgesSorted
  <2>7. ASSUME NEW c \in Nat, NEW x, c # b
        PROVE  HasEdge(r, c, x) <=> HasEdge(ch, c, x)
    <3>1. ASSUME NEW i \in 1..Len(r), r[i].byte = c, r[i].node = x
          PROVE  \E m \in 1..Len(ch) : ch[m].byte = c /\ ch[m].node = x
      BY <1>2, <2>5, <2>7, <3>1
    <3>2. ASSUME NEW i \in 1..Len(ch), ch[i].byte = c, ch[i].node = x
          PROVE  \E m \in 1..Len(r) : r[m].byte = c /\ r[m].node = x
      <4>1. CASE i < p
        <5>1. i \in 1..Len(r) /\ r[i] = ch[i]
          BY <1>1, <2>1, <4>1
        <5> QED
          BY <3>2, <5>1
      <4>2. CASE ~(i < p)
        <5>1. i + 1 \in 1..Len(r) /\ i + 1 \in 1..(Len(ch) + 1) /\ ~(i + 1 < p) /\ i + 1 # p /\ (i + 1) - 1 = i
          BY <1>1, <1>3, <2>1, <4>2
        <5>2. r[i + 1] = ch[i]
          BY <2>1, <5>1
        <5> QED
          BY <3>2, <5>1, <5>2
      <4> QED
        BY <4>1, <4>2
    <3> QED
      BY <3>1, <3>2 DEF HasEdge
  <2>8. \E i \in 1..Len(r) : r[i] = e
    <3>1. p \in 1..Len(r) /\ r[p] = e
      BY <1>1, <1>3, <2>1
    <3> QED
      BY <3>1
  <2> QED
    <3>1. \A c \in Nat : Trie!Below(new, c) = IF c = b THEN child ELSE Trie!Below(node, c)
      BY <1>8, <2>2, <2>6, <2>7, <2>8
    <3> QED
      BY <1>5, <2>2, <2>6, <3>1 DEF new
<1> QED
  BY <1>9, <1>10

(* What an insert builds is what its definition says.                      *)
LEMMA CopiesIsDefined ==
    ASSUME NEW node, NEW key \in Seq(Nat), NEW v
    PROVE  Trie!Copies(node, key, v) =
              [n \in 0..Len(key) |->
                  IF n = 0 THEN Trie!Node(Trie!Down(node, key)[Len(key)].children, v)
                  ELSE Trie!WithChild(Trie!Down(node, key)[Len(key) - n],
                                      key[Len(key) - n + 1],
                                      Trie!Copies(node, key, v)[n - 1])]
<1> DEFINE L == Len(key)
           at == Trie!Down(node, key)
           End == Trie!Node(at[L].children, v)
           Up(n, below) == Trie!WithChild(at[L - n], key[L - n + 1], below)
           IsNew(f, m) == f = [n \in 0..m |-> IF n = 0 THEN End ELSE Up(n, f[n - 1])]
           Bad == {m \in 0..L : ~\E f : IsNew(f, m)}
<1>1. L \in Nat
  BY LenProperties
<1>2. Trie!Copies(node, key, v) = CHOOSE f : IsNew(f, L)
  BY DEF Trie!Copies
<1> HIDE DEF L, End, Up
<1>3. \E f : IsNew(f, L)
  <2>0. L \in 0..L
    BY <1>1
  <2> HIDE DEF IsNew
  <2> SUFFICES ASSUME Bad # {} PROVE FALSE
    BY <2>0
  <2> USE DEF IsNew
  <2>1. PICK m \in Bad : \A k \in Bad : m <= k
    <3>1. Bad \in SUBSET Nat
      BY <1>1
    <3> HIDE DEF Bad
    <3> QED
      BY <3>1, LeastNumber
  <2>2. m \in 0..L /\ ~\E f : IsNew(f, m)
    BY <2>1
  <2>3. CASE m = 0
    <3> DEFINE g == [i \in 0..0 |-> End]
    <3>1. IsNew(g, 0)
      OBVIOUS
    <3> QED
      BY <2>2, <2>3, <3>1
  <2>4. CASE m # 0
    <3>1. m - 1 \in 0..L /\ ~(m <= m - 1)
      BY <1>1, <2>2, <2>4
    <3>2. PICK f : IsNew(f, m - 1)
      BY <2>1, <3>1
    <3> DEFINE g == [i \in 0..m |-> IF i = m THEN Up(m, f[m - 1]) ELSE f[i]]
    <3>3. \A i \in 0..m : g[i] = IF i = 0 THEN End ELSE Up(i, g[i - 1])
      <4> SUFFICES ASSUME NEW i \in 0..m
                   PROVE  g[i] = IF i = 0 THEN End ELSE Up(i, g[i - 1])
        OBVIOUS
      <4>1. CASE i = m
        BY <1>1, <2>2, <2>4, <4>1
      <4>2. CASE i # m
        <5>1. i \in 0..(m - 1) /\ (i # 0 => i - 1 \in 0..m /\ i - 1 # m)
          BY <1>1, <2>2, <4>2
        <5>2. f[i] = IF i = 0 THEN End ELSE Up(i, f[i - 1])
          BY <3>2, <5>1
        <5> QED
          BY <4>2, <5>1, <5>2
      <4> QED
        BY <4>1, <4>2
    <3>4. IsNew(g, m)
      BY <3>3
    <3> QED
      BY <2>2, <3>4
  <2> QED
    BY <2>3, <2>4
<1> QED
  BY <1>2, <1>3 DEF L, End, Up

(* A trie whose lists of children are all in order, wherever it is walked. *)
TrieSound(root) ==
    \A q \in Seq(Nat) : \A i \in 0..Len(q) : EdgesSorted(Trie!Down(root, q)[i].children)

(* The empty node leads to nothing but itself, and holds no value.         *)
LEMMA EmptyIsSound ==
    /\ TrieSound(Trie!Empty)
    /\ \A q \in Seq(Nat) : Trie!Down(Trie!Empty, q)[Len(q)].value = None
<1>1. ASSUME NEW b \in Nat PROVE Trie!Below(Trie!Empty, b) = Trie!Empty
  <2>1. EdgesSorted(Trie!Empty.children) /\ Len(Trie!Empty.children) = 0
    BY NoEdges DEF Trie!Empty, Trie!Node
  <2> QED
    BY <2>1, BelowFinds
<1>2. ASSUME NEW q \in Seq(Nat), NEW i \in 0..Len(q) PROVE Trie!Down(Trie!Empty, q)[i] = Trie!Empty
  <2> DEFINE at == Trie!Down(Trie!Empty, q)
             Bad == {j \in 0..Len(q) : at[j] # Trie!Empty}
  <2>1. Len(q) \in Nat /\ \A j \in 1..Len(q) : q[j] \in Nat
    BY LenProperties, ElementOfSeq
  <2>2. \A j \in 0..Len(q) : at[j] = IF j = 0 THEN Trie!Empty ELSE Trie!Below(at[j - 1], q[j])
    <3>1. at = [j \in 0..Len(q) |-> IF j = 0 THEN Trie!Empty ELSE Trie!Below(at[j - 1], q[j])]
      BY DownIsDefined
    <3> HIDE DEF at
    <3> QED
      BY <3>1
  <2> HIDE DEF at
  <2>3. Bad = {}
    <3> SUFFICES ASSUME Bad # {} PROVE FALSE
      OBVIOUS
    <3>1. PICK m \in Bad : \A k \in Bad : m <= k
      <4>1. Bad \in SUBSET Nat
        BY <2>1
      <4> HIDE DEF Bad
      <4> QED
        BY <4>1, LeastNumber
    <3>2. m \in 0..Len(q) /\ at[m] # Trie!Empty /\ m # 0
      BY <2>1, <2>2, <3>1
    <3>3. m - 1 \in 0..Len(q) /\ m \in 1..Len(q) /\ ~(m <= m - 1)
      BY <2>1, <3>2
    <3>4. at[m - 1] = Trie!Empty
      BY <3>1, <3>3
    <3>5. at[m] = Trie!Below(at[m - 1], q[m])
      BY <2>2, <3>2, <3>3
    <3>6. q[m] \in Nat
      BY <2>1, <3>3
    <3> QED
      BY <1>1, <3>2, <3>4, <3>5, <3>6
  <2> QED
    BY <2>3 DEF at
<1>3. Trie!Empty.children = <<>> /\ Trie!Empty.value = None
  BY DEF Trie!Empty, Trie!Node
<1>4. \A q \in Seq(Nat) : Len(q) \in 0..Len(q)
  BY LenProperties
<1> QED
  BY <1>2, <1>3, <1>4, NoEdges DEF TrieSound

(* An insert changes what its key leads to, and nothing else that any      *)
(* other key leads to.                                                     *)
LEMMA InsertedFacts ==
    ASSUME NEW root, TrieSound(root), NEW key \in Seq(Nat), NEW v
    PROVE  /\ TrieSound(Trie!Inserted(root, key, v))
           /\ \A q \in Seq(Nat) :
                 Trie!Down(Trie!Inserted(root, key, v), q)[Len(q)].value =
                    IF q = key THEN v ELSE Trie!Down(root, q)[Len(q)].value
<1> DEFINE L == Len(key)
           way == Trie!Down(root, key)
           new == Trie!Copies(root, key, v)
           Copy(i) == new[L - i]
           N == Trie!Inserted(root, key, v)
<1>1. L \in Nat /\ (\A j \in 1..L : key[j] \in Nat)
  BY LenProperties, ElementOfSeq
<1>2. /\ \A j \in 0..L : way[j] = IF j = 0 THEN root ELSE Trie!Below(way[j - 1], key[j])
      /\ \A j \in 0..L : EdgesSorted(way[j].children)
  <2>1. way = [j \in 0..L |-> IF j = 0 THEN root ELSE Trie!Below(way[j - 1], key[j])]
    BY DownIsDefined
  <2>2. \A j \in 0..L : EdgesSorted(way[j].children)
    BY DEF TrieSound
  <2> HIDE DEF way
  <2> QED
    BY <2>1, <2>2
<1>3. \A n \in 0..L : new[n] = IF n = 0 THEN Trie!Node(way[L].children, v)
                              ELSE Trie!WithChild(way[L - n], key[L - n + 1], new[n - 1])
  <2>1. new = [n \in 0..L |-> IF n = 0 THEN Trie!Node(way[L].children, v)
                              ELSE Trie!WithChild(way[L - n], key[L - n + 1], new[n - 1])]
    BY CopiesIsDefined
  <2> HIDE DEF new, way
  <2> QED
    BY <2>1
<1>4. N = Copy(0)
  BY <1>1 DEF Trie!Inserted
<1> HIDE DEF L, way, new, N
<1>5. /\ EdgesSorted(Copy(L).children) /\ Copy(L).value = v
      /\ \A b \in Nat : Trie!Below(Copy(L), b) = Trie!Below(way[L], b)
  <2>1. Copy(L) = Trie!Node(way[L].children, v)
    BY <1>1, <1>3
  <2>2. Copy(L).children = way[L].children /\ Copy(L).value = v
    BY <2>1 DEF Trie!Node
  <2>3. EdgesSorted(way[L].children)
    BY <1>1, <1>2
  <2> QED
    BY <2>2, <2>3 DEF Trie!Below
<1>6. ASSUME NEW i \in 0..(L - 1)
      PROVE  /\ EdgesSorted(Copy(i).children) /\ Copy(i).value = way[i].value
             /\ \A b \in Nat : Trie!Below(Copy(i), b) =
                   IF b = key[i + 1] THEN Copy(i + 1) ELSE Trie!Below(way[i], b)
  <2>1. /\ L - i \in 0..L /\ L - i # 0 /\ L - (L - i) = i /\ (L - i) - 1 = L - (i + 1)
        /\ i + 1 \in 1..L /\ i \in 0..L
    BY <1>1
  <2>2. Copy(i) = Trie!WithChild(way[i], key[i + 1], Copy(i + 1))
    <3>1. Copy(i) = Trie!WithChild(way[L - (L - i)], key[L - (L - i) + 1], new[(L - i) - 1])
      BY <1>3, <2>1
    <3> QED
      BY <2>1, <3>1
  <2>3. EdgesSorted(way[i].children) /\ key[i + 1] \in Nat
    BY <1>1, <1>2, <2>1
  <2> HIDE DEF Copy
  <2> QED
    BY <2>2, <2>3, WithChildFacts
<1> HIDE DEF Copy
<1>7. ASSUME NEW q \in Seq(Nat)
      PROVE  /\ \A i \in 0..Len(q) : EdgesSorted(Trie!Down(N, q)[i].children)
             /\ Trie!Down(N, q)[Len(q)].value =
                    IF q = key THEN v ELSE Trie!Down(root, q)[Len(q)].value
  <2> DEFINE old == Trie!Down(root, q)
             now == Trie!Down(N, q)
             Same(i) == i <= L /\ \A j \in 1..i : q[j] = key[j]
             Good(i) == IF Same(i) THEN now[i] = Copy(i) /\ old[i] = way[i] ELSE now[i] = old[i]
             Bad == {i \in 0..Len(q) : ~Good(i)}
  <2>1. Len(q) \in Nat /\ (\A j \in 1..Len(q) : q[j] \in Nat)
    BY LenProperties, ElementOfSeq
  <2>2. \A j \in 0..Len(q) : old[j] = IF j = 0 THEN root ELSE Trie!Below(old[j - 1], q[j])
    <3>1. old = [j \in 0..Len(q) |-> IF j = 0 THEN root ELSE Trie!Below(old[j - 1], q[j])]
      BY DownIsDefined
    <3> HIDE DEF old
    <3> QED
      BY <3>1
  <2>3. \A j \in 0..Len(q) : now[j] = IF j = 0 THEN N ELSE Trie!Below(now[j - 1], q[j])
    <3>1. now = [j \in 0..Len(q) |-> IF j = 0 THEN N ELSE Trie!Below(now[j - 1], q[j])]
      BY DownIsDefined
    <3> HIDE DEF now
    <3> QED
      BY <3>1
  <2>4. \A i \in 0..Len(q) : EdgesSorted(old[i].children)
    BY DEF TrieSound
  <2> HIDE DEF old, now
  <2>5. \A i \in 0..Len(q) : Good(i)
    <3> SUFFICES ASSUME Bad # {} PROVE FALSE
      OBVIOUS
    <3>1. PICK m \in Bad : \A k \in Bad : m <= k
      <4>1. Bad \in SUBSET Nat
        BY <2>1
      <4> HIDE DEF Bad
      <4> QED
        BY <4>1, LeastNumber
    <3>2. m \in 0..Len(q) /\ ~Good(m)
      BY <3>1
    <3>3. CASE m = 0
      <4>1. now[0] = N /\ old[0] = root /\ way[0] = root
        BY <1>1, <1>2, <2>1, <2>2, <2>3
      <4>2. Same(0)
        BY <1>1
      <4> QED
        BY <1>4, <3>2, <3>3, <4>1, <4>2
    <3>4. CASE m # 0
      <4>1. /\ m - 1 \in 0..Len(q) /\ m \in 1..Len(q) /\ ~(m <= m - 1) /\ (m - 1) + 1 = m
            /\ m \in Nat
        BY <2>1, <3>2, <3>4
      <4>2. Good(m - 1)
        BY <3>1, <4>1
      <4>3. now[m] = Trie!Below(now[m - 1], q[m]) /\ old[m] = Trie!Below(old[m - 1], q[m])
        BY <2>2, <2>3, <3>2, <3>4
      <4>4. q[m] \in Nat
        BY <2>1, <4>1
      <4>5. CASE ~Same(m - 1)
        <5>1. ~Same(m)
          <6>1. ASSUME m <= L, \A j \in 1..m : q[j] = key[j] PROVE Same(m - 1)
            <7>1. m - 1 <= L /\ \A j \in 1..(m - 1) : j \in 1..m
              BY <1>1, <4>1, <6>1
            <7> QED
              BY <6>1, <7>1
          <6> QED
            BY <4>5, <6>1
        <5> QED
          BY <3>2, <4>2, <4>3, <4>5, <5>1
      <4>6. CASE Same(m - 1) /\ m - 1 = L
        <5>1. ~Same(m)
          BY <1>1, <4>1, <4>6
        <5>2. now[m - 1] = Copy(L) /\ old[m - 1] = way[L]
          BY <4>2, <4>6
        <5> QED
          BY <1>5, <3>2, <4>3, <4>4, <5>1, <5>2
      <4>7. CASE Same(m - 1) /\ m - 1 # L
        <5>1. m - 1 \in 0..(L - 1) /\ m \in 0..L /\ m \in 1..L
          BY <1>1, <4>1, <4>7
        <5>2. now[m - 1] = Copy(m - 1) /\ old[m - 1] = way[m - 1]
          BY <4>2, <4>7
        <5>3. now[m] = IF q[m] = key[m] THEN Copy(m) ELSE Trie!Below(way[m - 1], q[m])
          <6>1. \A b \in Nat : Trie!Below(Copy(m - 1), b) =
                   IF b = key[(m - 1) + 1] THEN Copy((m - 1) + 1) ELSE Trie!Below(way[m - 1], b)
            BY <1>6, <5>1
          <6> QED
            BY <4>1, <4>3, <4>4, <5>2, <6>1
        <5>4. way[m] = Trie!Below(way[m - 1], key[m])
          BY <1>2, <3>4, <5>1
        <5>5. CASE q[m] = key[m]
          <6>1. Same(m)
            <7>1. \A j \in 1..m : j \in 1..(m - 1) \/ j = m
              BY <4>1
            <7> QED
              BY <1>1, <4>7, <5>1, <5>5, <7>1
          <6> QED
            BY <3>2, <4>3, <5>2, <5>3, <5>4, <5>5, <6>1
        <5>6. CASE q[m] # key[m]
          <6>1. ~Same(m)
            <7>1. m \in 1..m
              BY <4>1
            <7> QED
              BY <5>6, <7>1
          <6> QED
            BY <3>2, <4>3, <5>2, <5>3, <5>6, <6>1
        <5> QED
          BY <5>5, <5>6
      <4> QED
        BY <4>5, <4>6, <4>7
    <3> QED
      BY <3>3, <3>4
  <2>6. ASSUME NEW i \in 0..Len(q) PROVE EdgesSorted(now[i].children)
    <3>1. CASE ~Same(i)
      BY <2>4, <2>5, <3>1
    <3>2. CASE Same(i)
      <4>1. now[i] = Copy(i)
        BY <2>5, <3>2
      <4>2. i = L \/ i \in 0..(L - 1)
        BY <1>1, <2>1, <3>2
      <4> QED
        BY <1>5, <1>6, <4>1, <4>2
    <3> QED
      BY <3>1, <3>2
  <2>7. now[Len(q)].value = IF q = key THEN v ELSE old[Len(q)].value
    <3>1. Len(q) \in 0..Len(q)
      BY <2>1
    <3>2. CASE q = key
      <4>1. Same(Len(q)) /\ Len(q) = L
        BY <1>1, <3>2 DEF L
      <4> QED
        BY <1>5, <2>5, <3>1, <3>2, <4>1
    <3>3. CASE q # key /\ Same(Len(q))
      <4>1. Len(q) # L
        BY <3>3, SeqEqual DEF L
      <4>2. Len(q) \in 0..(L - 1)
        BY <1>1, <2>1, <3>3, <4>1
      <4> QED
        BY <1>6, <2>5, <3>1, <3>3, <4>2
    <3>4. CASE q # key /\ ~Same(Len(q))
      BY <2>5, <3>1, <3>4
    <3> QED
      BY <3>2, <3>3, <3>4
  <2> QED
    BY <2>6, <2>7 DEF old, now
<1> QED
  BY <1>7 DEF N, TrieSound

-----------------------------------------------------------------------------
(* The two copies of the trie are the trie.                                *)
LEMMA RadixIsTrie ==
    /\ \A node, key : Radix!Down(node, key) = Trie!Down(node, key)
    /\ \A node, key, v : Radix!Inserted(node, key, v) = Trie!Inserted(node, key, v)
    /\ Radix!Empty = Trie!Empty
<1>1. ASSUME NEW node, NEW key PROVE Radix!Down(node, key) = Trie!Down(node, key)
  BY Zenon DEF Radix!Down, Trie!Down, Radix!Below, Trie!Below, Radix!Has, Trie!Has,
       Radix!PosOf, Trie!PosOf, Radix!Empty, Trie!Empty, Radix!Node, Trie!Node,
       Radix!Cardinality, Trie!Cardinality
<1>2. ASSUME NEW node, NEW key, NEW v
      PROVE  Radix!Inserted(node, key, v) = Trie!Inserted(node, key, v)
  BY Zenon DEF Radix!Inserted, Trie!Inserted, Radix!Copies, Trie!Copies,
       Radix!WithChild, Trie!WithChild, Radix!Has, Trie!Has, Radix!PosOf, Trie!PosOf,
       Radix!Edge, Trie!Edge, Radix!Node, Trie!Node, Radix!Down, Trie!Down,
       Radix!Below, Trie!Below, Radix!Empty, Trie!Empty,
       Radix!Cardinality, Trie!Cardinality, Radix!InsertAt, Trie!InsertAt
<1>3. Radix!Empty = Trie!Empty
  BY Zenon DEF Radix!Empty, Trie!Empty, Radix!Node, Trie!Node
<1> QED
  BY <1>1, <1>2, <1>3

(* What every trie reached holds: lists of children in order, and the      *)
(* value of each key where the bytes of the key lead.                      *)
TrieHolds(root, map) ==
    /\ TrieSound(root)
    /\ \A q \in Seq(Nat) :
          Trie!Down(root, q)[Len(q)].value = IF q \in Keys THEN map[q] ELSE None

PlainOK ==
    /\ plain \in [Keys -> Values \union {None}]
    /\ IsFiniteSet(Plain!Stored) /\ plainSize = Cardinality(Plain!Stored)

(* The inductive invariant of the trie.                                    *)
TrieInv ==
    /\ TrieHolds(radixRoot, plain) /\ PlainOK
    /\ radixLen = plainSize

(* Keys and bounds are strings of numbers.                                 *)
LEMMA KeysAreStrings ==
    /\ \A k \in Keys \union Bounds : k \in Seq(Nat)
    /\ \A w \in Writes : w[1] \in Keys /\ w[2] \in Values /\ w[2] # None
<1>1. 0..(NumBytes - 1) \subseteq Nat
  BY CapAssumption
<1>2. Seq(0..(NumBytes - 1)) \subseteq Seq(Nat)
  <2> SUFFICES ASSUME NEW k \in Seq(0..(NumBytes - 1)) PROVE k \in Seq(Nat)
    OBVIOUS
  <2>1. Len(k) \in Nat /\ k = [i \in 1..Len(k) |-> k[i]] /\ \A i \in 1..Len(k) : k[i] \in Nat
    BY <1>1, LenProperties, ElementOfSeq
  <2> QED
    BY <2>1
<1>3. \A w \in Writes : w[1] \in Keys /\ w[2] \in Values
  BY WritesAssumption
<1> QED
  BY <1>2, <1>3, KeysAssumption, ValueAssumption

(* An empty trie holds an empty map.                                       *)
LEMMA NothingStored ==
    ASSUME NEW map, map = [k \in Keys |-> None]
    PROVE  TrieHolds(Trie!Empty, map)
  BY EmptyIsSound DEF TrieHolds

(* An insert into a trie is an insert into the map it holds.               *)
LEMMA StoreHolds ==
    ASSUME NEW root, NEW map, map \in [Keys -> Values \union {None}], TrieHolds(root, map),
           NEW k \in Keys, NEW v
    PROVE  TrieHolds(Trie!Inserted(root, k, v), [map EXCEPT ![k] = v])
<1>1. k \in Seq(Nat) /\ TrieSound(root)
  BY KeysAreStrings DEF TrieHolds
<1>2. /\ TrieSound(Trie!Inserted(root, k, v))
      /\ \A q \in Seq(Nat) :
            Trie!Down(Trie!Inserted(root, k, v), q)[Len(q)].value =
               IF q = k THEN v ELSE Trie!Down(root, q)[Len(q)].value
  BY <1>1, InsertedFacts
<1> QED
  BY <1>2 DEF TrieHolds

(* A plain map that takes any key, with the count of its keys.             *)
LEMMA PlainStep ==
    ASSUME PlainOK, NEW k \in Keys, NEW v \in Values, Plain!Insert(k, v)
    PROVE  /\ PlainOK' /\ plain' = [plain EXCEPT ![k] = v]
           /\ plainSize' = IF plain[k] = None THEN plainSize + 1 ELSE plainSize
<1>1. plain' = [plain EXCEPT ![k] = v] /\ plainSize' = Plain!Cardinality(Plain!Stored \union {k})
  BY DEF Plain!Insert, Plain!Clashes
<1>2. plainSize' = Cardinality(Plain!Stored \union {k})
  BY <1>1 DEF Plain!Cardinality, Cardinality
<1>3. v # None
  BY ValueAssumption
<1>4. plain \in [Keys -> Values \union {None}]
  BY DEF PlainOK
<1>5. Plain!Stored' = Plain!Stored \union {k}
  BY <1>1, <1>3, <1>4 DEF Plain!Stored
<1>6. k \in Plain!Stored <=> plain[k] # None
  BY DEF Plain!Stored
<1>7. IsFiniteSet(Plain!Stored) /\ plainSize = Cardinality(Plain!Stored)
  BY DEF PlainOK
<1> DEFINE S == Plain!Stored
<1>8. /\ IsFiniteSet(S \union {k})
      /\ Cardinality(S \union {k}) = IF k \in S THEN Cardinality(S) ELSE Cardinality(S) + 1
  BY <1>7, FS_AddElement
<1>9. plain' \in [Keys -> Values \union {None}]
  BY <1>1, <1>4
<1> QED
  BY <1>1, <1>2, <1>5, <1>6, <1>7, <1>8, <1>9 DEF PlainOK

(* TrieInv holds in the beginning,                                         *)
LEMMA TrieInvInit == Init => TrieInv
<1> SUFFICES ASSUME Init PROVE TrieInv
  OBVIOUS
<1>1. radixRoot = Trie!Empty /\ radixLen = 0
  BY RadixIsTrie DEF Init, Radix!Init
<1>2. plain = [k \in Keys |-> None] /\ plainSize = 0
  BY DEF Init, Plain!Init
<1>3. Plain!Stored = {}
  BY <1>2 DEF Plain!Stored
<1>4. PlainOK
  BY <1>2, <1>3, FS_EmptySet DEF PlainOK
<1> QED
  BY <1>1, <1>2, <1>4, NothingStored DEF TrieInv

(* every step keeps it, as each call does to the trie what it does to the  *)
(* plain map,                                                              *)
LEMMA TrieInvStep == TrieInv /\ [Next]_vars => TrieInv'
<1> SUFFICES ASSUME TrieInv, [Next]_vars PROVE TrieInv'
  OBVIOUS
<1>1. ASSUME NEW w \in Writes, Insert(w[1], w[2]) PROVE TrieInv'
  <2> DEFINE k == w[1]
             v == w[2]
  <2>1. k \in Keys /\ v \in Values /\ k \in Seq(Nat)
    BY KeysAreStrings
  <2>2. /\ radixRoot' = Trie!Inserted(radixRoot, k, v)
        /\ radixLen' = IF Trie!Down(radixRoot, k)[Len(k)].value = None THEN radixLen + 1 ELSE radixLen
    BY <1>1, RadixIsTrie DEF Insert, Radix!Insert, Radix!Old
  <2>3. Plain!Insert(k, v)
    BY <1>1 DEF Insert
  <2> HIDE DEF k, v
  <2>4. /\ PlainOK' /\ plain' = [plain EXCEPT ![k] = v]
        /\ plainSize' = IF plain[k] = None THEN plainSize + 1 ELSE plainSize
    BY <2>1, <2>3, PlainStep DEF TrieInv
  <2>5. TrieHolds(radixRoot, plain)'
    BY <2>1, <2>2, <2>4, StoreHolds DEF TrieInv, PlainOK
  <2>6. Trie!Down(radixRoot, k)[Len(k)].value = plain[k]
    BY <2>1 DEF TrieInv, TrieHolds
  <2> QED
    BY <2>2, <2>4, <2>5, <2>6 DEF TrieInv
<1>2. ASSUME Clear PROVE TrieInv'
  <2>1. radixRoot' = Trie!Empty /\ radixLen' = 0
    BY <1>2, RadixIsTrie DEF Clear, Radix!Clear
  <2>2. plain' = [k \in Keys |-> None] /\ plainSize' = 0
    BY <1>2 DEF Clear, Plain!Clear
  <2>3. Plain!Stored' = {}
    BY <2>2 DEF Plain!Stored
  <2>4. PlainOK'
    BY <2>2, <2>3, FS_EmptySet DEF PlainOK
  <2>5. TrieHolds(radixRoot, plain)'
    BY <2>1, <2>2, NothingStored
  <2> QED
    BY <2>1, <2>2, <2>4, <2>5 DEF TrieInv
<1>3. ASSUME UNCHANGED vars PROVE TrieInv'
  BY <1>3 DEF vars, TrieInv, TrieHolds, PlainOK, Plain!Stored
<1> QED
  BY <1>1, <1>2, <1>3 DEF Next

(* and so it holds always.                                                 *)
LEMMA AlwaysTrieInv == Spec => []TrieInv
  BY TrieInvInit, TrieInvStep, PTL DEF Spec

(* Whatever is inserted in whatever order, and whatever is cleared, the    *)
(* byte trie is a map by get and by its cached length, keys that are       *)
(* prefixes of others included.                                            *)
THEOREM TrieIsAMap == Spec => []RadixIsAMap
<1>1. TrieInv => RadixIsAMap
  <2> SUFFICES ASSUME TrieInv PROVE RadixIsAMap
    OBVIOUS
  <2>1. \A q \in Seq(Nat) : Trie!Down(radixRoot, q)[Len(q)].value = IF q \in Keys THEN plain[q] ELSE None
    BY DEF TrieInv, TrieHolds
  <2>2. \A q : Radix!Get(q) = Trie!Down(radixRoot, q)[Len(q)].value
    BY RadixIsTrie DEF Radix!Get
  <2>3. radixLen = plainSize
    BY DEF TrieInv
  <2> QED
    BY <2>1, <2>2, <2>3, KeysAreStrings DEF RadixIsAMap
<1> QED
  BY <1>1, AlwaysTrieInv, PTL

-----------------------------------------------------------------------------
(* The containers of the ART.  Each of the four kinds is a finite          *)
(* function from bytes to children: growing does not change it, placing    *)
(* and replacing change it under one byte.                                 *)

(* Bytes are numbers, and the capacities go up.                            *)
LEMMA BytesAndCaps ==
    /\ Art!Bytes = 0..(NumBytes - 1) /\ Art!Bytes \subseteq Nat
    /\ \A b \in Art!Bytes : b \in Nat
    /\ Seq(Art!Bytes) \subseteq Seq(Nat)
<1>1. Art!Bytes = 0..(NumBytes - 1) /\ Art!Bytes \subseteq Nat
  BY CapAssumption DEF Art!Bytes
<1>2. ASSUME NEW k \in Seq(Art!Bytes) PROVE k \in Seq(Nat)
  <2>1. Len(k) \in Nat /\ k = [i \in 1..Len(k) |-> k[i]] /\ \A i \in 1..Len(k) : k[i] \in Nat
    BY <1>1, LenProperties, ElementOfSeq
  <2> QED
    BY <2>1
<1> QED
  BY <1>1, <1>2

(* Sorted bytes.                                                           *)
Ascends(keys) == \A i, j \in 1..Len(keys) : i < j => keys[i] < keys[j]

(* Binary search tells the lower bytes from the others.                    *)
LEMMA SearchSplits ==
    ASSUME NEW keys \in Seq(Art!Bytes), Ascends(keys), NEW b \in Art!Bytes
    PROVE  /\ Art!PosOf(keys, b) \in 1..(Len(keys) + 1)
           /\ \A i \in 1..Len(keys) : i < Art!PosOf(keys, b) <=> keys[i] < b
<1> DEFINE S == {i \in 1..Len(keys) : keys[i] < b}
           c == Cardinality(S)
<1>1. /\ Len(keys) \in Nat /\ DOMAIN keys = 1..Len(keys)
      /\ b \in Nat /\ \A i \in 1..Len(keys) : keys[i] \in Nat
  BY LenProperties, ElementOfSeq, BytesAndCaps
<1>2. \A i \in S : \A j \in 1..Len(keys) : j < i => j \in S
  <2> SUFFICES ASSUME NEW i \in S, NEW j \in 1..Len(keys), j < i PROVE keys[j] < b
    OBVIOUS
  <2>1. keys[j] < keys[i] /\ keys[i] < b /\ keys[j] \in Nat /\ keys[i] \in Nat
    BY <1>1 DEF Ascends
  <2> QED
    BY <1>1, <2>1
<1>3. c \in 0..Len(keys) /\ S = 1..c
  <2>1. S \in SUBSET (1..Len(keys))
    OBVIOUS
  <2> HIDE DEF S
  <2> QED
    BY <1>1, <1>2, <2>1, DownwardClosed
<1>4. Art!PosOf(keys, b) = 1 + c
  <2>1. {i \in DOMAIN keys : keys[i] < b} = S
    BY <1>1
  <2> HIDE DEF S
  <2> QED
    BY <2>1 DEF Art!PosOf, Art!Cardinality, Cardinality
<1> HIDE DEF c
<1>5. ASSUME NEW i \in 1..Len(keys) PROVE i < 1 + c <=> keys[i] < b
  <2>1. i \in S <=> keys[i] < b
    OBVIOUS
  <2>2. i \in 1..c <=> i < 1 + c
    BY <1>1, <1>3
  <2> QED
    BY <1>3, <2>1, <2>2
<1> QED
  BY <1>1, <1>3, <1>4, <1>5

(* A search finds the byte where it is.                                    *)
LEMMA SearchFinds ==
    ASSUME NEW keys \in Seq(Art!Bytes), Ascends(keys), NEW b \in Art!Bytes,
           NEW i \in 1..Len(keys), keys[i] = b
    PROVE  Art!PosOf(keys, b) = i
<1> DEFINE p == Art!PosOf(keys, b)
<1>1. /\ Len(keys) \in Nat /\ b \in Nat /\ \A j \in 1..Len(keys) : keys[j] \in Nat
  BY LenProperties, ElementOfSeq, BytesAndCaps
<1>2. p \in 1..(Len(keys) + 1) /\ \A j \in 1..Len(keys) : j < p <=> keys[j] < b
  BY SearchSplits
<1>3. \A m, j \in 1..Len(keys) : m < j => keys[m] < keys[j]
  BY DEF Ascends
<1> HIDE DEF p
<1>4. ~(i < p)
  BY <1>1, <1>2
<1>5. CASE p < i
  <2>1. p \in 1..Len(keys)
    BY <1>1, <1>2, <1>5
  <2>2. keys[p] < b /\ ~(keys[p] < b)
    BY <1>1, <1>2, <1>3, <1>5, <2>1
  <2> QED
    BY <2>2
<1> QED
  BY <1>1, <1>2, <1>4, <1>5 DEF p

-----------------------------------------------------------------------------
(* The four kinds of container, filled as the code keeps them.             *)
KidsOf(ch) == ch.kids \in Seq(ToSet(ch.kids)) /\ \A i \in 1..Len(ch.kids) : ch.kids[i] # Art!Absent

(* What a container of each kind is when it is in order: sorted bytes      *)
(* paired with children, every slot under one byte at most, or options.    *)
ArraysOf(ch) ==
    /\ ch = Art!Sorted(ch.kind, ch.keys, ch.kids)
    /\ ch.keys \in Seq(Art!Bytes) /\ Ascends(ch.keys)
    /\ KidsOf(ch) /\ Len(ch.keys) = Len(ch.kids)

SlotsOf(ch) ==
    /\ ch = Art!Indexed(ch.index, ch.kids)
    /\ ch.index \in [Art!Bytes -> 0..Len(ch.kids)] /\ KidsOf(ch)
    /\ \A b, c \in Art!Bytes : ch.index[b] = ch.index[c] => b = c \/ ch.index[b] = 0

OptionsOf(ch) ==
    /\ ch = Art!Direct(ch.kids)
    /\ ch.kids = [b \in Art!Bytes |-> ch.kids[b]]

(* A container in order, with no more children than its kind holds.        *)
Kept(ch) ==
    \/ ch.kind = "N4" /\ ArraysOf(ch) /\ Len(ch.kids) <= Cap4
    \/ ch.kind = "N16" /\ ArraysOf(ch) /\ Len(ch.kids) <= Cap16
    \/ ch.kind = "N48" /\ SlotsOf(ch) /\ Len(ch.kids) <= Cap48
    \/ ch.kind = "N256" /\ OptionsOf(ch)

(* The child under a byte, kind by kind.                                   *)
LEMMA ChildInArrays ==
    ASSUME NEW ch, Art!InArrays(ch), ArraysOf(ch), NEW b \in Art!Bytes
    PROVE  /\ \A i \in 1..Len(ch.keys) : ch.keys[i] = b => Art!ChildOf(ch, b) = ch.kids[i]
           /\ (\A i \in 1..Len(ch.keys) : ch.keys[i] # b) => Art!ChildOf(ch, b) = Art!Absent
<1>1. Art!ChildOf(ch, b) = IF b \in Art!ToSet(ch.keys) THEN ch.kids[Art!PosOf(ch.keys, b)] ELSE Art!Absent
  BY DEF Art!ChildOf, Art!InArrays
<1>2. b \in Art!ToSet(ch.keys) <=> \E i \in 1..Len(ch.keys) : ch.keys[i] = b
  BY LenProperties DEF Art!ToSet, ToSet, ArraysOf
<1>3. \A i \in 1..Len(ch.keys) : ch.keys[i] = b => Art!PosOf(ch.keys, b) = i
  BY SearchFinds DEF ArraysOf
<1> QED
  BY <1>1, <1>2, <1>3

(* The child under a byte, in the two kinds that are not searched.         *)
LEMMA ChildInSlots ==
    ASSUME NEW ch, ch.kind = "N48", NEW b
    PROVE  Art!ChildOf(ch, b) = IF ch.index[b] = 0 THEN Art!Absent ELSE ch.kids[ch.index[b]]
  BY DEF Art!ChildOf, Art!InArrays

(* The same in an array of options.                                        *)
LEMMA ChildInOptions ==
    ASSUME NEW ch, ch.kind = "N256", NEW b
    PROVE  Art!ChildOf(ch, b) = ch.kids[b]
  BY DEF Art!ChildOf, Art!InArrays

(* The smallest container there is.                                        *)
LEMMA PairKept ==
    ASSUME NEW b \in Art!Bytes, NEW c \in Art!Bytes, b < c,
           NEW x, NEW y, x # Art!Absent, y # Art!Absent
    PROVE  LET ch == Art!Sorted("N4", <<b, c>>, <<x, y>>)
           IN  /\ Kept(ch)
               /\ \A a \in Art!Bytes :
                     Art!ChildOf(ch, a) = IF a = b THEN x ELSE IF a = c THEN y ELSE Art!Absent
<1> DEFINE ch == Art!Sorted("N4", <<b, c>>, <<x, y>>)
<1>1. ch.kind = "N4" /\ ch.keys = <<b, c>> /\ ch.kids = <<x, y>> /\ ch = Art!Sorted(ch.kind, ch.keys, ch.kids)
  BY DEF Art!Sorted
<1> HIDE DEF ch
<1>2. ch.keys \in Seq(Art!Bytes) /\ Len(ch.keys) = 2 /\ Len(ch.kids) = 2
  BY <1>1
<1>3. Ascends(ch.keys)
  <2>1. \A i, j \in 1..2 : i < j => i = 1 /\ j = 2
    OBVIOUS
  <2> QED
    BY <1>1, <1>2, <2>1 DEF Ascends
<1>4. KidsOf(ch)
  <2>1. ToSet(<<x, y>>) = {x, y}
    BY DEF ToSet
  <2>2. <<x, y>> \in Seq({x, y}) /\ \A i \in 1..2 : <<x, y>>[i] \in {x, y}
    OBVIOUS
  <2> QED
    BY <1>1, <1>2, <2>1, <2>2 DEF KidsOf
<1>5. ArraysOf(ch)
  BY <1>1, <1>2, <1>3, <1>4 DEF ArraysOf
<1>6. Kept(ch)
  BY <1>1, <1>2, <1>5, CapAssumption DEF Kept
<1>7. ASSUME NEW a \in Art!Bytes
      PROVE  Art!ChildOf(ch, a) = IF a = b THEN x ELSE IF a = c THEN y ELSE Art!Absent
  <2>1. Art!InArrays(ch)
    BY <1>1 DEF Art!InArrays
  <2>2. /\ \A i \in 1..2 : ch.keys[i] = a => Art!ChildOf(ch, a) = ch.kids[i]
        /\ (\A i \in 1..2 : ch.keys[i] # a) => Art!ChildOf(ch, a) = Art!Absent
    BY <1>2, <1>5, <2>1, ChildInArrays
  <2>3. \A i \in 1..2 : i = 1 \/ i = 2
    OBVIOUS
  <2>4. ch.keys[1] = b /\ ch.keys[2] = c /\ ch.kids[1] = x /\ ch.kids[2] = y /\ 1 \in 1..2 /\ 2 \in 1..2
    BY <1>1
  <2> QED
    BY <2>2, <2>3, <2>4
<1> QED
  BY <1>6, <1>7 DEF ch

(* Whichever of two bytes is the lower one, the pair is in order.          *)
LEMMA NewPairFacts ==
    ASSUME NEW b \in Art!Bytes, NEW c \in Art!Bytes, b # c,
           NEW x, NEW y, x # Art!Absent, y # Art!Absent
    PROVE  LET ch == Art!NewPair(b, x, c, y)
           IN  /\ Kept(ch)
               /\ \A a \in Art!Bytes :
                     Art!ChildOf(ch, a) = IF a = b THEN x ELSE IF a = c THEN y ELSE Art!Absent
<1>1. b \in Nat /\ c \in Nat
  BY BytesAndCaps
<1>2. CASE b < c
  BY <1>2, PairKept DEF Art!NewPair
<1>3. CASE ~(b < c)
  <2>1. c < b
    BY <1>1, <1>3
  <2> QED
    BY <1>3, <2>1, PairKept DEF Art!NewPair
<1> QED
  BY <1>2, <1>3

-----------------------------------------------------------------------------
(* Growth keeps the children under their bytes, and makes room.            *)
Grows(ch, new) ==
    /\ Kept(new) /\ ~Art!Full(new)
    /\ \A b \in Art!Bytes : Art!ChildOf(new, b) = Art!ChildOf(ch, b)

(* Sorted arrays move to larger ones.                                      *)
LEMMA Grow4 ==
    ASSUME NEW ch, Kept(ch), ch.kind = "N4"
    PROVE  Grows(ch, Art!Grown(ch))
<1> DEFINE new == Art!Sorted("N16", ch.keys, ch.kids)
<1>1. Art!Grown(ch) = new
  BY DEF Art!Grown
<1>2. new.kind = "N16" /\ new.keys = ch.keys /\ new.kids = ch.kids /\ new = Art!Sorted(new.kind, new.keys, new.kids)
  BY DEF Art!Sorted
<1> HIDE DEF new
<1>3. ArraysOf(ch) /\ Len(ch.kids) <= Cap4
  BY DEF Kept
<1>4. ArraysOf(new) /\ Art!InArrays(ch) /\ Art!InArrays(new)
  BY <1>2, <1>3 DEF ArraysOf, KidsOf, Art!InArrays
<1>5. Len(ch.kids) \in Nat
  BY <1>3, LenProperties DEF ArraysOf, KidsOf
<1>6. Len(new.kids) < Cap16
  BY <1>2, <1>3, <1>5, CapAssumption
<1>7. Len(new.kids) <= Cap16 /\ ~(Len(new.kids) >= Cap16)
  BY <1>2, <1>5, <1>6, CapAssumption
<1>8. Kept(new)
  BY <1>2, <1>4, <1>7 DEF Kept
<1>9. ~Art!Full(new)
  BY <1>2, <1>7 DEF Art!Full, Art!CapOf
<1>10. \A b \in Art!Bytes : Art!ChildOf(new, b) = Art!ChildOf(ch, b)
  BY <1>2, <1>3, <1>4, ChildInArrays
<1> QED
  BY <1>1, <1>8, <1>9, <1>10 DEF Grows

(* Sorted arrays become slots under their bytes.                           *)
LEMMA Grow16 ==
    ASSUME NEW ch, Kept(ch), ch.kind = "N16"
    PROVE  Grows(ch, Art!Grown(ch))
<1> DEFINE In(b) == b \in Art!ToSet(ch.keys)
           index == [b \in Art!Bytes |-> IF In(b) THEN Art!PosOf(ch.keys, b) ELSE 0]
           new == Art!Indexed(index, ch.kids)
<1>1. Art!Grown(ch) = new
  BY DEF Art!Grown, Art!Grow16To48
<1>2. new.kind = "N48" /\ new.index = index /\ new.kids = ch.kids /\ new = Art!Indexed(new.index, new.kids)
  BY DEF Art!Indexed
<1> HIDE DEF new
<1>3. ArraysOf(ch) /\ Len(ch.kids) <= Cap16 /\ Art!InArrays(ch)
  BY DEF Kept, Art!InArrays
<1>4. Len(ch.kids) \in Nat /\ Len(ch.keys) = Len(ch.kids) /\ KidsOf(ch) /\ ch.keys \in Seq(Art!Bytes)
  BY <1>3, LenProperties DEF ArraysOf, KidsOf
<1>5. \A b \in Art!Bytes : In(b) <=> \E i \in 1..Len(ch.keys) : ch.keys[i] = b
  BY <1>4, LenProperties DEF Art!ToSet, ToSet
<1>6. \A b \in Art!Bytes : \A i \in 1..Len(ch.keys) : ch.keys[i] = b => index[b] = i /\ In(b)
  BY <1>3, <1>5, SearchFinds DEF ArraysOf
<1>7. \A b \in Art!Bytes : ~In(b) => index[b] = 0
  OBVIOUS
<1> HIDE DEF In
<1>8. index \in [Art!Bytes -> 0..Len(ch.kids)]
  <2>1. ASSUME NEW b \in Art!Bytes PROVE index[b] \in 0..Len(ch.kids)
    <3>1. CASE In(b)
      <4>1. PICK i \in 1..Len(ch.keys) : ch.keys[i] = b
        BY <1>5, <3>1
      <4>2. index[b] = i /\ i \in 0..Len(ch.kids)
        <5>1. i \in 0..Len(ch.kids)
          BY <1>4
        <5> HIDE DEF index
        <5> QED
          BY <1>6, <4>1, <5>1
      <4> HIDE DEF index
      <4> QED
        BY <4>2
    <3>2. CASE ~In(b)
      <4>1. 0 \in 0..Len(ch.kids)
        BY <1>4
      <4> HIDE DEF index
      <4> QED
        BY <1>7, <3>2, <4>1
    <3> QED
      BY <3>1, <3>2
  <2>2. index = [b \in Art!Bytes |-> index[b]]
    OBVIOUS
  <2> HIDE DEF index
  <2> QED
    BY <2>1, <2>2
<1> HIDE DEF index
<1>9. \A b, c \in Art!Bytes : index[b] = index[c] => b = c \/ index[b] = 0
  <2> SUFFICES ASSUME NEW b \in Art!Bytes, NEW c \in Art!Bytes, index[b] = index[c], index[b] # 0
               PROVE  b = c
    OBVIOUS
  <2>1. In(b) /\ In(c)
    BY <1>7
  <2>2. PICK i \in 1..Len(ch.keys) : ch.keys[i] = b
    BY <1>5, <2>1
  <2>3. PICK j \in 1..Len(ch.keys) : ch.keys[j] = c
    BY <1>5, <2>1
  <2> QED
    BY <1>6, <2>2, <2>3
<1>10. SlotsOf(new)
  BY <1>2, <1>4, <1>8, <1>9 DEF SlotsOf, KidsOf
<1>11. Len(new.kids) <= Cap48 /\ ~(Len(new.kids) >= Cap48)
  BY <1>2, <1>3, <1>4, CapAssumption
<1>12. Kept(new) /\ ~Art!Full(new)
  BY <1>2, <1>10, <1>11 DEF Kept, Art!Full, Art!CapOf
<1>13. ASSUME NEW b \in Art!Bytes PROVE Art!ChildOf(new, b) = Art!ChildOf(ch, b)
  <2>1. Art!ChildOf(new, b) = IF index[b] = 0 THEN Art!Absent ELSE ch.kids[index[b]]
    BY <1>2, ChildInSlots
  <2>2. /\ \A i \in 1..Len(ch.keys) : ch.keys[i] = b => Art!ChildOf(ch, b) = ch.kids[i]
        /\ (\A i \in 1..Len(ch.keys) : ch.keys[i] # b) => Art!ChildOf(ch, b) = Art!Absent
    BY <1>3, ChildInArrays
  <2>3. CASE In(b)
    <3>1. PICK i \in 1..Len(ch.keys) : ch.keys[i] = b
      BY <1>5, <2>3
    <3>2. index[b] = i /\ i # 0
      BY <1>4, <1>6, <3>1
    <3> QED
      BY <2>1, <2>2, <3>1, <3>2
  <2>4. CASE ~In(b)
    BY <1>5, <1>7, <2>1, <2>2, <2>4
  <2> QED
    BY <2>3, <2>4
<1> QED
  BY <1>1, <1>12, <1>13 DEF Grows

(* Slots become options under their bytes.                                 *)
LEMMA Grow48 ==
    ASSUME NEW ch, Kept(ch), ch.kind = "N48"
    PROVE  Grows(ch, Art!Grown(ch))
<1> DEFINE kids == [b \in Art!Bytes |-> IF ch.index[b] = 0 THEN Art!Absent ELSE ch.kids[ch.index[b]]]
           new == Art!Direct(kids)
<1>1. Art!Grown(ch) = new
  BY DEF Art!Grown, Art!Grow48To256
<1>2. new.kind = "N256" /\ new.kids = kids /\ new = Art!Direct(new.kids)
  BY DEF Art!Direct
<1>3. kids = [b \in Art!Bytes |-> kids[b]]
  OBVIOUS
<1>4. \A b \in Art!Bytes : kids[b] = Art!ChildOf(ch, b)
  BY ChildInSlots
<1> HIDE DEF new, kids
<1>5. Kept(new) /\ ~Art!Full(new)
  BY <1>2, <1>3 DEF Kept, OptionsOf, Art!Full
<1>6. \A b \in Art!Bytes : Art!ChildOf(new, b) = Art!ChildOf(ch, b)
  BY <1>2, <1>4, ChildInOptions
<1> QED
  BY <1>1, <1>5, <1>6 DEF Grows

(* However often a container is asked to make room.                        *)
LEMMA GrownIfFullFacts ==
    ASSUME NEW ch, Kept(ch)
    PROVE  Grows(ch, Art!GrownIfFull(ch))
<1>1. CASE Art!Full(ch)
  <2>1. ch.kind \in {"N4", "N16", "N48"}
    BY <1>1 DEF Kept, Art!Full
  <2> QED
    BY <1>1, <2>1, Grow4, Grow16, Grow48 DEF Art!GrownIfFull
<1>2. CASE ~Art!Full(ch)
  BY <1>2 DEF Art!GrownIfFull, Grows
<1> QED
  BY <1>1, <1>2

(* Whatever its kind, a container that grew where it was full has room.    *)
LEMMA RoomFacts ==
    ASSUME NEW ch, Kept(ch)
    PROVE  Grows(ch, Art!GrownIfFull(Art!GrownIfFull(Art!GrownIfFull(ch))))
<1>1. Grows(ch, Art!GrownIfFull(ch))
  BY GrownIfFullFacts
<1>2. Art!GrownIfFull(Art!GrownIfFull(ch)) = Art!GrownIfFull(ch)
  BY <1>1 DEF Grows, Art!GrownIfFull
<1> QED
  BY <1>1, <1>2

(* Sequences of children over a larger set of nodes.                       *)
LEMMA AmongItsOwn ==
    ASSUME NEW S, NEW s \in Seq(S)
    PROVE  /\ s \in Seq(ToSet(s)) /\ ToSet(s) \subseteq S
           /\ \A x : s \in Seq(ToSet(s) \union {x})
<1>1. /\ Len(s) \in Nat /\ DOMAIN s = 1..Len(s) /\ s = [i \in 1..Len(s) |-> s[i]]
      /\ \A i \in 1..Len(s) : s[i] \in S
  BY LenProperties, ElementOfSeq
<1>2. \A i \in 1..Len(s) : s[i] \in ToSet(s)
  BY <1>1 DEF ToSet
<1>3. ToSet(s) \subseteq S
  BY <1>1 DEF ToSet
<1>4. s \in Seq(ToSet(s))
  BY <1>1, <1>2
<1>5. ASSUME NEW x PROVE s \in Seq(ToSet(s) \union {x})
  <2>1. \A i \in 1..Len(s) : s[i] \in ToSet(s) \union {x}
    BY <1>2
  <2> QED
    BY <1>1, <2>1
<1> QED
  BY <1>3, <1>4, <1>5

(* A child is put where there is none, in a container that has room.       *)
Gains(ch, b, child, new) ==
    /\ Kept(new)
    /\ \A c \in Art!Bytes : Art!ChildOf(new, c) = IF c = b THEN child ELSE Art!ChildOf(ch, c)

(* Both arrays open at the place that binary search finds.                 *)
LEMMA PlacedInArrays ==
    ASSUME NEW ch, Art!InArrays(ch), ArraysOf(ch), NEW b \in Art!Bytes,
           Art!ChildOf(ch, b) = Art!Absent, NEW child, child # Art!Absent
    PROVE  LET new == Art!Placed(ch, b, child)
           IN  /\ new.kind = ch.kind /\ ArraysOf(new) /\ Len(new.kids) = Len(ch.kids) + 1
               /\ \A c \in Art!Bytes :
                     Art!ChildOf(new, c) = IF c = b THEN child ELSE Art!ChildOf(ch, c)
<1> DEFINE p == Art!PosOf(ch.keys, b)
           ks == InsertAt(ch.keys, p, b)
           ns == InsertAt(ch.kids, p, child)
           new == Art!Sorted(ch.kind, ks, ns)
           N == ToSet(ch.kids) \union {child}
           L == Len(ch.keys)
<1>1. Art!Placed(ch, b, child) = new
  <2>1. Art!Placed(ch, b, child) =
           Art!Sorted(ch.kind, Art!InsertAt(ch.keys, p, b), Art!InsertAt(ch.kids, p, child))
    BY DEF Art!Placed, Art!InArrays
  <2>2. \A s, i, e : Art!InsertAt(s, i, e) = InsertAt(s, i, e)
    BY DEF Art!InsertAt, InsertAt
  <2> QED
    BY <2>1, <2>2
<1>2. new.kind = ch.kind /\ new.keys = ks /\ new.kids = ns /\ new = Art!Sorted(new.kind, new.keys, new.kids)
  BY DEF Art!Sorted
<1> HIDE DEF new
<1>3. /\ ch.keys \in Seq(Art!Bytes) /\ Ascends(ch.keys)
      /\ KidsOf(ch) /\ L = Len(ch.kids) /\ L \in Nat
      /\ b \in Nat /\ \A i \in 1..L : ch.keys[i] \in Nat
  BY LenProperties, ElementOfSeq, BytesAndCaps DEF ArraysOf
<1>4. p \in 1..(L + 1) /\ \A i \in 1..L : i < p <=> ch.keys[i] < b
  BY <1>3, SearchSplits
<1>5. ch.kids \in Seq(N) /\ child \in N
  BY <1>3, AmongItsOwn DEF KidsOf
<1>6. \A i \in 1..L : ch.keys[i] # b
  <2> SUFFICES ASSUME NEW i \in 1..L, ch.keys[i] = b PROVE FALSE
    OBVIOUS
  <2>1. Art!ChildOf(ch, b) = ch.kids[i]
    BY ChildInArrays
  <2> QED
    BY <1>3, <2>1 DEF KidsOf
<1> HIDE DEF p, N
<1>7. /\ ks \in Seq(Art!Bytes) /\ Len(ks) = L + 1
      /\ \A j \in 1..(L + 1) : ks[j] = IF j < p THEN ch.keys[j] ELSE IF j = p THEN b ELSE ch.keys[j - 1]
  <2>1. ks \in Seq(Art!Bytes) /\ OpenedAt(ch.keys, p, b, ks)
    BY <1>3, <1>4, InsertAtOpens
  <2> QED
    BY <2>1 DEF OpenedAt
<1>8. /\ ns \in Seq(N) /\ Len(ns) = L + 1
      /\ \A j \in 1..(L + 1) : ns[j] = IF j < p THEN ch.kids[j] ELSE IF j = p THEN child ELSE ch.kids[j - 1]
  <2>1. ns \in Seq(N) /\ OpenedAt(ch.kids, p, child, ns)
    BY <1>3, <1>4, <1>5, InsertAtOpens
  <2> QED
    BY <1>3, <2>1 DEF OpenedAt
<1> HIDE DEF ks, ns, L
<1>9. ASSUME NEW i \in 1..(L + 1)
      PROVE  \/ i < p /\ i \in 1..L /\ ks[i] = ch.keys[i] /\ ns[i] = ch.kids[i] /\ ch.keys[i] < b
             \/ i = p /\ ks[i] = b /\ ns[i] = child
             \/ /\ p < i /\ i - 1 \in 1..L
                /\ ks[i] = ch.keys[i - 1] /\ ns[i] = ch.kids[i - 1] /\ b < ch.keys[i - 1]
  <2>1. CASE i < p
    <3>1. i \in 1..L
      BY <1>3, <1>4, <2>1
    <3> QED
      BY <1>4, <1>7, <1>8, <2>1, <3>1
  <2>2. CASE i = p
    BY <1>3, <1>4, <1>7, <1>8, <2>2
  <2>3. CASE p < i
    <3>1. i - 1 \in 1..L /\ ~(i - 1 < p) /\ ~(i < p) /\ i # p
      BY <1>3, <1>4, <2>3
    <3>2. ~(ch.keys[i - 1] < b) /\ ch.keys[i - 1] # b /\ ch.keys[i - 1] \in Nat
      BY <1>3, <1>4, <1>6, <3>1
    <3>3. b < ch.keys[i - 1]
      BY <1>3, <3>2
    <3> QED
      BY <1>7, <1>8, <2>3, <3>1, <3>3
  <2> QED
    BY <1>3, <1>4, <2>1, <2>2, <2>3
<1>10. Ascends(ks)
  <2> SUFFICES ASSUME NEW i \in 1..(L + 1), NEW j \in 1..(L + 1), i < j PROVE ks[i] < ks[j]
    BY <1>7 DEF Ascends
  <2>0. i \in Nat /\ j \in Nat /\ p \in Nat /\ b \in Nat
    BY <1>3, <1>4
  <2>1. \A m, n \in 1..L : m < n => ch.keys[m] < ch.keys[n]
    BY <1>3 DEF Ascends, L
  <2>2. CASE i < p /\ i \in 1..L /\ ks[i] = ch.keys[i] /\ ch.keys[i] < b
    <3>1. CASE j < p /\ j \in 1..L /\ ks[j] = ch.keys[j]
      BY <2>1, <2>2, <3>1
    <3>2. CASE j = p /\ ks[j] = b
      BY <2>2, <3>2
    <3>3. CASE p < j /\ j - 1 \in 1..L /\ ks[j] = ch.keys[j - 1] /\ b < ch.keys[j - 1]
      <4>1. ch.keys[i] \in Nat /\ ch.keys[j - 1] \in Nat
        BY <1>3, <2>2, <3>3
      <4> QED
        BY <2>0, <2>2, <3>3, <4>1
    <3> QED
      BY <1>9, <3>1, <3>2, <3>3
  <2>3. CASE i = p /\ ks[i] = b
    <3>1. ~(j < p) /\ j # p
      BY <2>0, <2>3
    <3> QED
      BY <1>9, <2>3, <3>1
  <2>4. CASE p < i /\ i - 1 \in 1..L /\ ks[i] = ch.keys[i - 1]
    <3>1. ~(j < p) /\ j # p /\ i - 1 < j - 1
      BY <2>0, <2>4
    <3>2. j - 1 \in 1..L /\ ks[j] = ch.keys[j - 1]
      BY <1>9, <3>1
    <3> QED
      BY <2>1, <2>4, <3>1, <3>2
  <2> QED
    BY <1>9, <2>2, <2>3, <2>4
<1>11. KidsOf(new)
  <2>1. ns \in Seq(ToSet(ns))
    BY <1>8, AmongItsOwn
  <2>2. \A i \in 1..L : ch.kids[i] # Art!Absent
    BY <1>3 DEF KidsOf
  <2>3. \A i \in 1..(L + 1) : ns[i] # Art!Absent
    BY <1>9, <2>2
  <2> QED
    BY <1>2, <1>8, <2>1, <2>3 DEF KidsOf
<1>12. ArraysOf(new) /\ Art!InArrays(new)
  BY <1>2, <1>7, <1>8, <1>10, <1>11 DEF ArraysOf, Art!InArrays
<1>13. ASSUME NEW c \in Art!Bytes
       PROVE  Art!ChildOf(new, c) = IF c = b THEN child ELSE Art!ChildOf(ch, c)
  <2>1. /\ \A i \in 1..(L + 1) : ks[i] = c => Art!ChildOf(new, c) = ns[i]
        /\ (\A i \in 1..(L + 1) : ks[i] # c) => Art!ChildOf(new, c) = Art!Absent
    BY <1>2, <1>7, <1>12, ChildInArrays
  <2>2. /\ \A i \in 1..L : ch.keys[i] = c => Art!ChildOf(ch, c) = ch.kids[i]
        /\ (\A i \in 1..L : ch.keys[i] # c) => Art!ChildOf(ch, c) = Art!Absent
    BY ChildInArrays DEF L
  <2>3. p \in 1..(L + 1) /\ ks[p] = b /\ ns[p] = child
    BY <1>4, <1>7, <1>8, <1>3
  <2>4. CASE c = b
    BY <2>1, <2>3, <2>4
  <2>5. CASE c # b
    <3>1. CASE \E i \in 1..L : ch.keys[i] = c
      <4>1. PICK i \in 1..L : ch.keys[i] = c
        BY <3>1
      <4>2. \E j \in 1..(L + 1) : ks[j] = c /\ ns[j] = ch.kids[i]
        <5>1. CASE i < p
          <6>1. i \in 1..(L + 1)
            BY <1>3
          <6> QED
            BY <1>7, <1>8, <4>1, <5>1, <6>1
        <5>2. CASE ~(i < p)
          <6>1. i + 1 \in 1..(L + 1) /\ ~(i + 1 < p) /\ i + 1 # p /\ (i + 1) - 1 = i
            BY <1>3, <1>4, <5>2
          <6>2. ks[i + 1] = ch.keys[i] /\ ns[i + 1] = ch.kids[i]
            BY <1>7, <1>8, <6>1
          <6> QED
            BY <4>1, <6>1, <6>2
        <5> QED
          BY <5>1, <5>2
      <4> QED
        BY <2>1, <2>2, <2>5, <4>1, <4>2
    <3>2. CASE ~\E i \in 1..L : ch.keys[i] = c
      <4>1. \A j \in 1..(L + 1) : ks[j] # c
        BY <1>9, <2>5, <3>2
      <4> QED
        BY <2>1, <2>2, <2>5, <3>2, <4>1
    <3> QED
      BY <3>1, <3>2
  <2> QED
    BY <2>4, <2>5
<1>14. Len(new.kids) = Len(ch.kids) + 1
  BY <1>2, <1>3, <1>8
<1> QED
  BY <1>1, <1>2, <1>12, <1>13, <1>14

(* The new child gets the next slot.                                       *)
LEMMA PlacedInSlots ==
    ASSUME NEW ch, ch.kind = "N48", SlotsOf(ch), NEW b \in Art!Bytes,
           Art!ChildOf(ch, b) = Art!Absent, NEW child, child # Art!Absent
    PROVE  LET new == Art!Placed(ch, b, child)
           IN  /\ new.kind = "N48" /\ SlotsOf(new) /\ Len(new.kids) = Len(ch.kids) + 1
               /\ \A c \in Art!Bytes :
                     Art!ChildOf(new, c) = IF c = b THEN child ELSE Art!ChildOf(ch, c)
<1> DEFINE n == Len(ch.kids)
           index == [ch.index EXCEPT ![b] = n + 1]
           ns == Append(ch.kids, child)
           new == Art!Indexed(index, ns)
           N == ToSet(ch.kids) \union {child}
<1>1. Art!Placed(ch, b, child) = new
  BY DEF Art!Placed, Art!InArrays
<1>2. new.kind = "N48" /\ new.index = index /\ new.kids = ns /\ new = Art!Indexed(new.index, new.kids)
  BY DEF Art!Indexed
<1> HIDE DEF new
<1>3. /\ ch.index \in [Art!Bytes -> 0..n] /\ KidsOf(ch)
      /\ \A c, d \in Art!Bytes : ch.index[c] = ch.index[d] => c = d \/ ch.index[c] = 0
  BY DEF SlotsOf
<1>4. n \in Nat /\ ch.kids \in Seq(N) /\ child \in N
  BY <1>3, LenProperties, AmongItsOwn DEF KidsOf
<1> HIDE DEF N
<1>5. /\ ns \in Seq(N) /\ Len(ns) = n + 1
      /\ \A i \in 1..n : ns[i] = ch.kids[i]
      /\ ns[n + 1] = child
  BY <1>4, AppendFacts
<1>6. \A c \in Art!Bytes : index[c] = IF c = b THEN n + 1 ELSE ch.index[c]
  BY <1>3
<1>7. index \in [Art!Bytes -> 0..(n + 1)]
  BY <1>3, <1>4
<1> HIDE DEF ns, index, n
<1>8. \A c \in Art!Bytes : ch.index[c] \in 0..n /\ ch.index[c] # n + 1
  BY <1>3, <1>4
<1>9. \A c, d \in Art!Bytes : index[c] = index[d] => c = d \/ index[c] = 0
  <2> SUFFICES ASSUME NEW c \in Art!Bytes, NEW d \in Art!Bytes, index[c] = index[d], c # d
               PROVE  index[c] = 0
    OBVIOUS
  <2> QED
    BY <1>3, <1>6, <1>8
<1>10. KidsOf(new)
  <2>1. ns \in Seq(ToSet(ns))
    BY <1>5, AmongItsOwn
  <2>2. \A i \in 1..n : ch.kids[i] # Art!Absent
    BY <1>3 DEF KidsOf, n
  <2>3. \A i \in 1..(n + 1) : i \in 1..n \/ i = n + 1
    BY <1>4
  <2>4. \A i \in 1..(n + 1) : ns[i] # Art!Absent
    BY <1>5, <2>2, <2>3
  <2> QED
    BY <1>2, <1>5, <2>1, <2>4 DEF KidsOf
<1>11. SlotsOf(new)
  BY <1>2, <1>5, <1>7, <1>9, <1>10 DEF SlotsOf
<1>12. ASSUME NEW c \in Art!Bytes
       PROVE  Art!ChildOf(new, c) = IF c = b THEN child ELSE Art!ChildOf(ch, c)
  <2>1. /\ Art!ChildOf(new, c) = IF index[c] = 0 THEN Art!Absent ELSE ns[index[c]]
        /\ Art!ChildOf(ch, c) = IF ch.index[c] = 0 THEN Art!Absent ELSE ch.kids[ch.index[c]]
    BY <1>2, ChildInSlots
  <2>2. n + 1 # 0
    BY <1>4
  <2>3. ch.index[c] # 0 => ch.index[c] \in 1..n
    BY <1>3, <1>4
  <2> QED
    BY <1>5, <1>6, <2>1, <2>2, <2>3
<1>13. Len(new.kids) = Len(ch.kids) + 1
  BY <1>2, <1>5 DEF n
<1> QED
  BY <1>1, <1>2, <1>11, <1>12, <1>13

(* A child placed where there is room is a child gained.                   *)
LEMMA PlacedFacts ==
    ASSUME NEW ch, Kept(ch), ~Art!Full(ch), NEW b \in Art!Bytes,
           Art!ChildOf(ch, b) = Art!Absent, NEW child, child # Art!Absent
    PROVE  Gains(ch, b, child, Art!Placed(ch, b, child))
<1> DEFINE new == Art!Placed(ch, b, child)
<1>1. ASSUME NEW cap \in Nat, Len(ch.kids) \in Nat, Len(ch.kids) <= cap, ~(Len(ch.kids) >= cap)
      PROVE  Len(ch.kids) + 1 <= cap
  BY <1>1
<1>2. CASE ch.kind = "N4"
  <2>1. ArraysOf(ch) /\ Art!InArrays(ch) /\ Len(ch.kids) <= Cap4 /\ ~(Len(ch.kids) >= Cap4)
    BY <1>2 DEF Kept, Art!InArrays, Art!Full, Art!CapOf
  <2>2. Len(ch.kids) \in Nat /\ Cap4 \in Nat
    BY <2>1, LenProperties, CapAssumption DEF ArraysOf, KidsOf
  <2>3. /\ new.kind = "N4" /\ ArraysOf(new) /\ Len(new.kids) = Len(ch.kids) + 1
        /\ \A c \in Art!Bytes : Art!ChildOf(new, c) = IF c = b THEN child ELSE Art!ChildOf(ch, c)
    BY <1>2, <2>1, PlacedInArrays
  <2> HIDE DEF new
  <2>4. Len(new.kids) <= Cap4
    BY <1>1, <2>1, <2>2, <2>3
  <2> QED
    BY <2>3, <2>4 DEF Gains, Kept, new
<1>3. CASE ch.kind = "N16"
  <2>1. ArraysOf(ch) /\ Art!InArrays(ch) /\ Len(ch.kids) <= Cap16 /\ ~(Len(ch.kids) >= Cap16)
    BY <1>3 DEF Kept, Art!InArrays, Art!Full, Art!CapOf
  <2>2. Len(ch.kids) \in Nat /\ Cap16 \in Nat
    BY <2>1, LenProperties, CapAssumption DEF ArraysOf, KidsOf
  <2>3. /\ new.kind = "N16" /\ ArraysOf(new) /\ Len(new.kids) = Len(ch.kids) + 1
        /\ \A c \in Art!Bytes : Art!ChildOf(new, c) = IF c = b THEN child ELSE Art!ChildOf(ch, c)
    BY <1>3, <2>1, PlacedInArrays
  <2> HIDE DEF new
  <2>4. Len(new.kids) <= Cap16
    BY <1>1, <2>1, <2>2, <2>3
  <2> QED
    BY <2>3, <2>4 DEF Gains, Kept, new
<1>4. CASE ch.kind = "N48"
  <2>1. SlotsOf(ch) /\ Len(ch.kids) <= Cap48 /\ ~(Len(ch.kids) >= Cap48)
    BY <1>4 DEF Kept, Art!Full, Art!CapOf
  <2>2. Len(ch.kids) \in Nat /\ Cap48 \in Nat
    BY <2>1, LenProperties, CapAssumption DEF SlotsOf, KidsOf
  <2>3. /\ new.kind = "N48" /\ SlotsOf(new) /\ Len(new.kids) = Len(ch.kids) + 1
        /\ \A c \in Art!Bytes : Art!ChildOf(new, c) = IF c = b THEN child ELSE Art!ChildOf(ch, c)
    BY <1>4, <2>1, PlacedInSlots
  <2> HIDE DEF new
  <2>4. Len(new.kids) <= Cap48
    BY <1>1, <2>1, <2>2, <2>3
  <2> QED
    BY <2>3, <2>4 DEF Gains, Kept, new
<1>5. CASE ch.kind = "N256"
  <2> DEFINE kids == [ch.kids EXCEPT ![b] = child]
  <2>1. OptionsOf(ch)
    BY <1>5 DEF Kept
  <2>2. new = Art!Direct(kids)
    BY <1>5 DEF Art!Placed, Art!InArrays
  <2>3. new.kind = "N256" /\ new.kids = kids /\ new = Art!Direct(new.kids)
    BY <2>2 DEF Art!Direct
  <2>4. /\ kids = [c \in Art!Bytes |-> kids[c]]
        /\ \A c \in Art!Bytes : kids[c] = IF c = b THEN child ELSE ch.kids[c]
    BY <2>1 DEF OptionsOf
  <2> HIDE DEF new, kids
  <2>5. Kept(new)
    BY <2>3, <2>4 DEF Kept, OptionsOf
  <2>6. \A c \in Art!Bytes : Art!ChildOf(new, c) = IF c = b THEN child ELSE Art!ChildOf(ch, c)
    BY <1>5, <2>3, <2>4, ChildInOptions
  <2> QED
    BY <2>5, <2>6 DEF Gains, new
<1> QED
  BY <1>2, <1>3, <1>4, <1>5 DEF Kept

(* An insert that adds a child, through whatever growth.                   *)
LEMMA AddedFacts ==
    ASSUME NEW ch, Kept(ch), NEW b \in Art!Bytes,
           Art!ChildOf(ch, b) = Art!Absent, NEW child, child # Art!Absent
    PROVE  Gains(ch, b, child, Art!Added(ch, b, child))
<1> DEFINE room == Art!GrownIfFull(Art!GrownIfFull(Art!GrownIfFull(ch)))
<1>1. Grows(ch, room)
  BY RoomFacts
<1>2. Art!Added(ch, b, child) = Art!Placed(room, b, child)
  BY DEF Art!Added
<1> HIDE DEF room
<1>3. Gains(room, b, child, Art!Placed(room, b, child))
  BY <1>1, PlacedFacts DEF Grows
<1> QED
  BY <1>1, <1>2, <1>3 DEF Grows, Gains

(* A node in the place of another.                                         *)
Swapped(ch, p, child, new) ==
    /\ KidsOf(new) /\ Len(new.kids) = Len(ch.kids)
    /\ \A i \in 1..Len(ch.kids) : new.kids[i] = IF i = p THEN child ELSE ch.kids[i]

(* One child of an array changed.                                          *)
LEMMA KidChanged ==
    ASSUME NEW ch, KidsOf(ch), NEW p \in 1..Len(ch.kids), NEW child, child # Art!Absent,
           NEW new, new.kids = [ch.kids EXCEPT ![p] = child]
    PROVE  Swapped(ch, p, child, new)
<1> DEFINE C == ch.kids
           N == ToSet(C) \union {child}
           ns == [C EXCEPT ![p] = child]
<1>1. C \in Seq(N) /\ child \in N /\ Len(C) \in Nat /\ DOMAIN C = 1..Len(C)
  BY AmongItsOwn, LenProperties DEF KidsOf
<1>2. \A i \in 1..Len(C) : C[i] # Art!Absent
  BY DEF KidsOf
<1>3. p \in 1..Len(C)
  OBVIOUS
<1> HIDE DEF N, C
<1>4. ns \in Seq(N) /\ Len(ns) = Len(C)
  BY <1>1, <1>3
<1>5. \A i \in 1..Len(C) : ns[i] = IF i = p THEN child ELSE C[i]
  BY <1>1
<1>6. new.kids = ns
  BY DEF C
<1> HIDE DEF ns
<1>7. ns \in Seq(ToSet(ns))
  BY <1>4, AmongItsOwn
<1> QED
  BY <1>2, <1>4, <1>5, <1>6, <1>7 DEF Swapped, KidsOf, C

(* A child replaced, in each of the four kinds.                            *)
LEMMA ReplacedFacts ==
    ASSUME NEW ch, Kept(ch), NEW b \in Art!Bytes,
           Art!ChildOf(ch, b) # Art!Absent, NEW child, child # Art!Absent
    PROVE  Gains(ch, b, child, Art!Replaced(ch, b, child))
<1> DEFINE new == Art!Replaced(ch, b, child)
<1>1. CASE Art!InArrays(ch)
  <2> DEFINE p == Art!PosOf(ch.keys, b)
             ns == [ch.kids EXCEPT ![p] = child]
  <2>1. ArraysOf(ch)
    BY <1>1 DEF Kept, Art!InArrays
  <2>2. new = [ch EXCEPT !.kids[p] = child]
    BY <1>1 DEF Art!Replaced, Art!InArrays
  <2>3. ch = [kind |-> ch.kind, keys |-> ch.keys, kids |-> ch.kids]
    BY <2>1 DEF ArraysOf, Art!Sorted
  <2>4. new = [kind |-> ch.kind, keys |-> ch.keys, kids |-> ns]
    BY <2>2, <2>3
  <2>5. new.kind = ch.kind /\ new.keys = ch.keys /\ new.kids = ns /\ new = Art!Sorted(new.kind, new.keys, new.kids)
    BY <2>4 DEF Art!Sorted
  <2>6. PICK i \in 1..Len(ch.keys) : ch.keys[i] = b
    BY <1>1, <2>1, ChildInArrays
  <2>7. p = i
    BY <2>1, <2>6, SearchFinds DEF ArraysOf
  <2>8. p \in 1..Len(ch.kids) /\ KidsOf(ch) /\ Len(ch.keys) = Len(ch.kids) /\ ch.keys[p] = b
    BY <2>1, <2>6, <2>7 DEF ArraysOf
  <2> HIDE DEF new, p
  <2>9. /\ KidsOf(new) /\ Len(new.kids) = Len(ch.kids)
        /\ \A j \in 1..Len(ch.kids) : new.kids[j] = IF j = p THEN child ELSE ch.kids[j]
    <3>1. KidsOf(ch) /\ p \in 1..Len(ch.kids) /\ new.kids = [ch.kids EXCEPT ![p] = child]
      BY <2>5, <2>6, <2>8
    <3> HIDE DEF p, ns
    <3>2. Swapped(ch, p, child, new)
      BY ONLY <3>1, child # Art!Absent, KidChanged
    <3> QED
      BY <3>2 DEF Swapped
  <2>10. ArraysOf(new) /\ Art!InArrays(new)
    BY <1>1, <2>1, <2>5, <2>9 DEF ArraysOf, Art!InArrays
  <2>11. Kept(new)
    BY <1>1, <2>5, <2>9, <2>10 DEF Kept, Art!InArrays
  <2>12. ASSUME NEW c \in Art!Bytes
         PROVE  Art!ChildOf(new, c) = IF c = b THEN child ELSE Art!ChildOf(ch, c)
    <3>1. /\ \A j \in 1..Len(ch.kids) : ch.keys[j] = c => Art!ChildOf(new, c) = new.kids[j]
          /\ (\A j \in 1..Len(ch.kids) : ch.keys[j] # c) => Art!ChildOf(new, c) = Art!Absent
      BY <2>5, <2>8, <2>10, ChildInArrays
    <3>2. /\ \A j \in 1..Len(ch.kids) : ch.keys[j] = c => Art!ChildOf(ch, c) = ch.kids[j]
          /\ (\A j \in 1..Len(ch.kids) : ch.keys[j] # c) => Art!ChildOf(ch, c) = Art!Absent
      BY <1>1, <2>1, <2>8, ChildInArrays
    <3> QED
      BY <2>8, <2>9, <3>1, <3>2
  <2> QED
    BY <2>11, <2>12 DEF Gains, new
<1>2. CASE ch.kind = "N48"
  <2> DEFINE p == ch.index[b]
             ns == [ch.kids EXCEPT ![p] = child]
  <2>1. SlotsOf(ch)
    BY <1>2 DEF Kept
  <2>2. new = [ch EXCEPT !.kids[p] = child]
    BY <1>2 DEF Art!Replaced, Art!InArrays
  <2>3. ch = [kind |-> "N48", index |-> ch.index, kids |-> ch.kids]
    BY <2>1 DEF SlotsOf, Art!Indexed
  <2>4. new = [kind |-> "N48", index |-> ch.index, kids |-> ns]
    BY <2>2, <2>3
  <2>5. new.kind = "N48" /\ new.index = ch.index /\ new.kids = ns /\ new = Art!Indexed(new.index, new.kids)
    BY <2>4 DEF Art!Indexed
  <2>6. /\ ch.index \in [Art!Bytes -> 0..Len(ch.kids)] /\ KidsOf(ch) /\ Len(ch.kids) \in Nat
        /\ \A c, d \in Art!Bytes : ch.index[c] = ch.index[d] => c = d \/ ch.index[c] = 0
    BY <2>1, LenProperties DEF SlotsOf, KidsOf
  <2>7. p # 0
    BY <1>2, ChildInSlots
  <2>8. p \in 1..Len(ch.kids)
    BY <2>6, <2>7
  <2> HIDE DEF new
  <2>9. /\ KidsOf(new) /\ Len(new.kids) = Len(ch.kids)
        /\ \A j \in 1..Len(ch.kids) : new.kids[j] = IF j = p THEN child ELSE ch.kids[j]
    <3>1. KidsOf(ch) /\ p \in 1..Len(ch.kids) /\ new.kids = [ch.kids EXCEPT ![p] = child]
      BY <2>5, <2>6, <2>8
    <3> HIDE DEF p, ns
    <3>2. Swapped(ch, p, child, new)
      BY ONLY <3>1, child # Art!Absent, KidChanged
    <3> QED
      BY <3>2 DEF Swapped
  <2>10. SlotsOf(new)
    BY <2>1, <2>5, <2>9 DEF SlotsOf
  <2>11. Kept(new)
    BY <1>2, <2>5, <2>9, <2>10 DEF Kept
  <2>12. ASSUME NEW c \in Art!Bytes
         PROVE  Art!ChildOf(new, c) = IF c = b THEN child ELSE Art!ChildOf(ch, c)
    <3>1. /\ Art!ChildOf(new, c) = IF ch.index[c] = 0 THEN Art!Absent ELSE new.kids[ch.index[c]]
          /\ Art!ChildOf(ch, c) = IF ch.index[c] = 0 THEN Art!Absent ELSE ch.kids[ch.index[c]]
      <4>1. Art!ChildOf(new, c) = IF new.index[c] = 0 THEN Art!Absent ELSE new.kids[new.index[c]]
        BY <2>5, ChildInSlots
      <4>2. Art!ChildOf(ch, c) = IF ch.index[c] = 0 THEN Art!Absent ELSE ch.kids[ch.index[c]]
        BY <1>2, ChildInSlots
      <4> QED
        BY <2>5, <4>1, <4>2
    <3>2. ch.index[c] # 0 => ch.index[c] \in 1..Len(ch.kids)
      BY <2>6
    <3>3. c # b /\ ch.index[c] # 0 => ch.index[c] # p
      BY <2>6
    <3> QED
      BY <2>7, <2>9, <3>1, <3>2, <3>3
  <2> QED
    BY <2>11, <2>12 DEF Gains, new
<1>3. CASE ch.kind = "N256"
  <2> DEFINE kids == [ch.kids EXCEPT ![b] = child]
  <2>1. OptionsOf(ch)
    BY <1>3 DEF Kept
  <2>2. ch = [kind |-> "N256", kids |-> ch.kids]
    BY <2>1 DEF OptionsOf, Art!Direct
  <2>3. new = [ch EXCEPT !.kids[b] = child]
    BY <1>3 DEF Art!Replaced, Art!InArrays
  <2>4. new = [kind |-> "N256", kids |-> kids]
    BY <2>2, <2>3
  <2>5. new.kind = "N256" /\ new.kids = kids /\ new = Art!Direct(new.kids)
    BY <2>4 DEF Art!Direct
  <2>6. /\ kids = [c \in Art!Bytes |-> kids[c]]
        /\ \A c \in Art!Bytes : kids[c] = IF c = b THEN child ELSE ch.kids[c]
    BY <2>1 DEF OptionsOf
  <2> HIDE DEF new, kids
  <2>7. Kept(new)
    BY <2>5, <2>6 DEF Kept, OptionsOf
  <2>8. \A c \in Art!Bytes : Art!ChildOf(new, c) = IF c = b THEN child ELSE Art!ChildOf(ch, c)
    BY <1>3, <2>5, <2>6, ChildInOptions
  <2> QED
    BY <2>7, <2>8 DEF Gains, new
<1> QED
  BY <1>1, <1>2, <1>3 DEF Kept, Art!InArrays

(* What the code's checks of a container come to.                          *)
LEMMA KeptIsFilled ==
    ASSUME NEW ch, Kept(ch), NEW b \in Art!Bytes, NEW c \in Art!Bytes, b # c,
           Art!ChildOf(ch, b) # Art!Absent, Art!ChildOf(ch, c) # Art!Absent
    PROVE  Art!WellFilled(ch)
<1>1. b \in Art!BytesOf(ch) /\ c \in Art!BytesOf(ch)
  BY DEF Art!BytesOf
<1>2. ch.kind # "N256" => Len(ch.kids) <= Art!CapOf(ch.kind)
  BY DEF Kept, Art!CapOf
<1>3. Art!InArrays(ch) =>
         /\ Len(ch.keys) = Len(ch.kids)
         /\ \A i, j \in DOMAIN ch.keys : i < j => ch.keys[i] < ch.keys[j]
  BY LenProperties DEF Kept, Art!InArrays, ArraysOf, Ascends
<1>4. ch.kind = "N48" =>
         /\ \A a \in Art!Bytes : ch.index[a] \in 0..Len(ch.kids)
         /\ \A a, d \in Art!Bytes : ch.index[a] = ch.index[d] => a = d \/ ch.index[a] = 0
  BY DEF Kept, SlotsOf
<1> QED
  BY <1>1, <1>2, <1>3, <1>4 DEF Art!WellFilled

-----------------------------------------------------------------------------
(* Strings, and the way of a string down the tree: where it goes on, and   *)
(* what of the string decides it.                                          *)

(* Byte strings.                                                           *)
Strings == Seq(Art!Bytes)

(* A string that has the first d bytes of k.                               *)
Via(q, d, k) == q \in Strings /\ d <= Len(q) /\ \A i \in 1..d : q[i] = k[i]

(* The bytes of a string after the first d start with those of s.          *)
Spells(q, d, s) == d + Len(s) <= Len(q) /\ \A j \in 1..Len(s) : q[d + j] = s[j]

(* Their lengths and bytes.                                                *)
LEMMA StringFacts ==
    ASSUME NEW q \in Strings
    PROVE  /\ Len(q) \in Nat /\ DOMAIN q = 1..Len(q) /\ q \in Seq(Nat)
           /\ \A i \in 1..Len(q) : q[i] \in Art!Bytes
  BY LenProperties, ElementOfSeq, BytesAndCaps DEF Strings

(* What comes after the first d bytes.                                     *)
LEMMA FromFacts ==
    ASSUME NEW q \in Strings, NEW d \in 0..Len(q)
    PROVE  /\ Art!From(q, d) \in Strings
           /\ Len(Art!From(q, d)) = Len(q) - d
           /\ \A j \in 1..(Len(q) - d) : Art!From(q, d)[j] = q[d + j]
<1>1. Len(q) \in Nat /\ d \in Nat
  BY StringFacts
<1>2. d + 1 \in 1..(Len(q) + 1) /\ q \in Seq(Art!Bytes)
  BY <1>1 DEF Strings
<1>3. /\ SubSeq(q, d + 1, Len(q)) \in Seq(Art!Bytes)
      /\ Len(SubSeq(q, d + 1, Len(q))) = Len(q) + 1 - (d + 1)
      /\ \A j \in 1..(Len(q) + 1 - (d + 1)) : SubSeq(q, d + 1, Len(q))[j] = q[(d + 1) + j - 1]
  <2> DEFINE e == d + 1
  <2>1. e \in 1..(Len(q) + 1)
    BY <1>2
  <2> HIDE DEF e
  <2>2. /\ SubSeq(q, e, Len(q)) \in Seq(Art!Bytes)
        /\ Len(SubSeq(q, e, Len(q))) = Len(q) + 1 - e
        /\ \A j \in 1..(Len(q) + 1 - e) : SubSeq(q, e, Len(q))[j] = q[e + j - 1]
    BY <1>2, <2>1, SuffixFacts
  <2> QED
    BY <2>2 DEF e
<1>4. Len(q) + 1 - (d + 1) = Len(q) - d /\ \A j \in Nat : (d + 1) + j - 1 = d + j
  BY <1>1
<1> QED
  BY <1>1, <1>3, <1>4 DEF Art!From, Strings

(* IsPrefix on what comes after the first d bytes, byte by byte.           *)
LEMMA PrefixSpells ==
    ASSUME NEW q \in Strings, NEW d \in 0..Len(q), NEW s \in Strings
    PROVE  IsPrefix(s, Art!From(q, d)) <=> Spells(q, d, s)
<1> DEFINE t == Art!From(q, d)
<1>1. t \in Strings /\ Len(t) = Len(q) - d /\ \A j \in 1..(Len(q) - d) : t[j] = q[d + j]
  BY FromFacts
<1> HIDE DEF t
<1>2. Len(q) \in Nat /\ d \in Nat /\ Len(s) \in Nat
  BY StringFacts
<1>3. IsPrefix(s, t) <=> Len(s) <= Len(t) /\ \A j \in 1..Len(s) : s[j] = t[j]
  BY <1>1, PrefixByEntries DEF Strings
<1>4. Len(s) <= Len(t) <=> d + Len(s) <= Len(q)
  BY <1>1, <1>2
<1>5. ASSUME Len(s) <= Len(t) PROVE \A j \in 1..Len(s) : t[j] = q[d + j]
  BY <1>1, <1>2, <1>5
<1> QED
  BY <1>3, <1>4, <1>5 DEF Spells, t

-----------------------------------------------------------------------------
(* The child a way goes on to, and how many bytes lead to it.              *)
Goes(n, d, q) == Art!GoesOn(Art!Place(n, d), q)
Child(n, d, q) == Art!NextChild(Art!Place(n, d), q)
Depth(n, d) == Art!Fork(Art!Place(n, d)) + 1

(* Where a way goes on, and what of the string decides it.                 *)
LEMMA GoesFacts ==
    ASSUME NEW n, NEW q \in Strings, NEW d \in 0..Len(q), n.type = "inner" => n.prefix \in Strings
    PROVE  /\ Goes(n, d, q) <=>
                 /\ n.type = "inner" /\ Spells(q, d, n.prefix)
                 /\ d + Len(n.prefix) < Len(q)
                 /\ Art!ChildOf(n.children, q[d + Len(n.prefix) + 1]) # Art!Absent
           /\ n.type = "inner" => (Art!Matches(Art!Place(n, d), q) <=> Spells(q, d, n.prefix))
           /\ Child(n, d, q) = Art!ChildOf(n.children, q[d + Len(n.prefix) + 1])
           /\ Art!Fork(Art!Place(n, d)) = d + Len(n.prefix)
           /\ Depth(n, d) = d + Len(n.prefix) + 1
           /\ Goes(n, d, q) => /\ d + Len(n.prefix) \in Nat /\ Depth(n, d) \in (d + 1)..Len(q)
                               /\ q[d + Len(n.prefix) + 1] \in Art!Bytes
<1> DEFINE at == Art!Place(n, d)
           f == d + Len(n.prefix)
<1>1. at.node = n /\ at.depth = d
  BY DEF Art!Place
<1> HIDE DEF at
<1>2. Art!Fork(at) = f
  BY <1>1 DEF Art!Fork
<1>3. Art!NextChild(at, q) = Art!ChildOf(n.children, q[f + 1])
  BY <1>1, <1>2 DEF Art!NextChild
<1>4. ASSUME n.type = "inner" PROVE Art!Matches(at, q) <=> Spells(q, d, n.prefix)
  <2>1. Art!Matches(at, q) <=> IsPrefix(n.prefix, Art!From(q, d))
    BY <1>1 DEF Art!Matches, Art!IsPrefix, IsPrefix
  <2> QED
    BY <1>4, <2>1, PrefixSpells
<1>5. Art!GoesOn(at, q) <=>
         /\ n.type = "inner" /\ Spells(q, d, n.prefix) /\ f < Len(q)
         /\ Art!ChildOf(n.children, q[f + 1]) # Art!Absent
  BY <1>1, <1>2, <1>3, <1>4 DEF Art!GoesOn
<1>6. ASSUME Art!GoesOn(at, q)
      PROVE  f \in Nat /\ f + 1 \in (d + 1)..Len(q) /\ q[f + 1] \in Art!Bytes
  <2>1. Len(n.prefix) \in Nat /\ Len(q) \in Nat /\ d \in Nat
    BY <1>5, <1>6, StringFacts
  <2>2. f \in Nat /\ f + 1 \in (d + 1)..Len(q) /\ f + 1 \in 1..Len(q)
    BY <1>5, <1>6, <2>1
  <2> QED
    BY <2>2, StringFacts
<1>7. Goes(n, d, q) <=> Art!GoesOn(at, q)
  BY DEF Goes, at
<1>8. Child(n, d, q) = Art!NextChild(at, q) /\ Depth(n, d) = Art!Fork(at) + 1
  BY DEF Child, Depth, at
<1>9. /\ Art!Matches(Art!Place(n, d), q) <=> Art!Matches(at, q)
      /\ Art!Fork(Art!Place(n, d)) = Art!Fork(at)
  BY DEF at
<1> HIDE DEF f
<1>10. /\ Goes(n, d, q) <=>
             /\ n.type = "inner" /\ Spells(q, d, n.prefix) /\ f < Len(q)
             /\ Art!ChildOf(n.children, q[f + 1]) # Art!Absent
       /\ n.type = "inner" => (Art!Matches(Art!Place(n, d), q) <=> Spells(q, d, n.prefix))
       /\ Child(n, d, q) = Art!ChildOf(n.children, q[f + 1])
       /\ Art!Fork(Art!Place(n, d)) = f
       /\ Depth(n, d) = f + 1
       /\ Goes(n, d, q) => f \in Nat /\ Depth(n, d) \in (d + 1)..Len(q) /\ q[f + 1] \in Art!Bytes
  BY <1>2, <1>3, <1>4, <1>5, <1>6, <1>7, <1>8, <1>9
<1> QED
  BY <1>10 DEF f

(* The way down is what its definition says.                               *)
LEMMA WayIsDefined ==
    ASSUME NEW n, NEW d, NEW q \in Strings
    PROVE  /\ Art!Down(n, d, q)[0] = Art!Place(n, d)
           /\ \A i \in 0..(Len(q) - 1) :
                 Art!Down(n, d, q)[i + 1] = Art!Step(Art!Down(n, d, q)[i], q)
<1> DEFINE L == Len(q)
           IsWay(f, m) == f = [i \in 0..m |-> IF i = 0 THEN Art!Place(n, d) ELSE Art!Step(f[i - 1], q)]
           S == {m \in 0..L : \E f : IsWay(f, m)}
<1>1. L \in Nat
  BY StringFacts
<1>2. 0 \in S
  <2> DEFINE g == [i \in 0..0 |-> Art!Place(n, d)]
  <2>1. IsWay(g, 0)
    OBVIOUS
  <2>2. 0 \in 0..L
    BY <1>1
  <2> QED
    BY <2>1, <2>2
<1>3. ASSUME NEW m \in 0..(L - 1), m \in S PROVE m + 1 \in S
  <2>1. PICK f : IsWay(f, m)
    BY <1>3
  <2> DEFINE g == [i \in 0..(m + 1) |-> IF i = m + 1 THEN Art!Step(f[m], q) ELSE f[i]]
  <2>2. \A i \in 0..(m + 1) : g[i] = IF i = 0 THEN Art!Place(n, d) ELSE Art!Step(g[i - 1], q)
    <3> SUFFICES ASSUME NEW i \in 0..(m + 1)
                 PROVE  g[i] = IF i = 0 THEN Art!Place(n, d) ELSE Art!Step(g[i - 1], q)
      OBVIOUS
    <3>1. CASE i = m + 1
      <4>1. i # 0 /\ i - 1 = m /\ m \in 0..(m + 1) /\ m # m + 1
        BY <1>1, <3>1
      <4> QED
        BY <3>1, <4>1
    <3>2. CASE i # m + 1
      <4>1. i \in 0..m /\ (i # 0 => i - 1 \in 0..(m + 1) /\ i - 1 # m + 1)
        BY <1>1, <3>2
      <4>2. f[i] = IF i = 0 THEN Art!Place(n, d) ELSE Art!Step(f[i - 1], q)
        BY <2>1, <4>1
      <4> QED
        BY <3>2, <4>1, <4>2
    <3> QED
      BY <3>1, <3>2
  <2>3. IsWay(g, m + 1)
    BY <2>2
  <2>4. m + 1 \in 0..L
    BY <1>1
  <2> QED
    BY <2>3, <2>4
<1>4. L \in S
  <2> HIDE DEF S
  <2>1. \A m \in 0..L : m \in S
    BY <1>1, <1>2, <1>3, StepByStep
  <2> QED
    BY <1>1, <2>1
<1>5. \E f : IsWay(f, L)
  BY <1>4
<1>6. Art!Down(n, d, q) = CHOOSE f : IsWay(f, L)
  BY DEF Art!Down
<1>7. IsWay(Art!Down(n, d, q), L)
  BY <1>5, <1>6
<1>8. \A i \in 0..(L - 1) : i + 1 \in 0..L /\ i + 1 # 0 /\ (i + 1) - 1 = i
  BY <1>1
<1>9. 0 \in 0..L
  BY <1>1
<1> QED
  BY <1>7, <1>8, <1>9

(* A way that does not go on stays where it is; one that does is that from *)
(* the child on.                                                           *)
LEMMA WayStays ==
    ASSUME NEW n, NEW d, NEW q \in Strings, ~Goes(n, d, q)
    PROVE  \A i \in 0..Len(q) : Art!Down(n, d, q)[i] = Art!Place(n, d)
<1> DEFINE L == Len(q)
           D == Art!Down(n, d, q)
           S == {i \in 0..L : D[i] = Art!Place(n, d)}
<1>1. L \in Nat
  BY StringFacts
<1>2. D[0] = Art!Place(n, d) /\ \A i \in 0..(L - 1) : D[i + 1] = Art!Step(D[i], q)
  BY WayIsDefined
<1> HIDE DEF D
<1>3. 0 \in S
  BY <1>1, <1>2
<1>4. ASSUME NEW i \in 0..(L - 1), i \in S PROVE i + 1 \in S
  BY <1>1, <1>2, <1>4 DEF Art!Step, Goes
<1> HIDE DEF S
<1>5. \A i \in 0..L : i \in S
  BY <1>1, <1>3, <1>4, StepByStep
<1> QED
  BY <1>5 DEF S, D

(* The way on from a node is that of its child, one step later.            *)
LEMMA WayGoesOn ==
    ASSUME NEW n, NEW d, NEW q \in Strings, Goes(n, d, q), Len(q) # 0
    PROVE  \A i \in 0..(Len(q) - 1) :
              Art!Down(n, d, q)[i + 1] = Art!Down(Child(n, d, q), Depth(n, d), q)[i]
<1> DEFINE L == Len(q)
           D == Art!Down(n, d, q)
           E == Art!Down(Child(n, d, q), Depth(n, d), q)
           S == {i \in 0..(L - 1) : D[i + 1] = E[i]}
<1>1. L \in Nat /\ L - 1 \in Nat
  BY StringFacts
<1>2. D[0] = Art!Place(n, d) /\ \A i \in 0..(L - 1) : D[i + 1] = Art!Step(D[i], q)
  BY WayIsDefined
<1>3. /\ E[0] = Art!Place(Child(n, d, q), Depth(n, d))
      /\ \A i \in 0..(L - 1) : E[i + 1] = Art!Step(E[i], q)
  BY WayIsDefined
<1> HIDE DEF D, E
<1>4. 0 \in S
  <2>1. 0 \in 0..(L - 1)
    BY <1>1
  <2>2. D[0 + 1] = Art!Step(D[0], q)
    BY <1>2, <2>1
  <2> QED
    BY <1>2, <1>3, <2>1, <2>2 DEF Art!Step, Goes, Child, Depth
<1>5. ASSUME NEW i \in 0..((L - 1) - 1), i \in S PROVE i + 1 \in S
  <2>1. i \in 0..(L - 1) /\ i + 1 \in 0..(L - 1)
    BY <1>1
  <2>2. D[(i + 1) + 1] = Art!Step(D[i + 1], q) /\ E[i + 1] = Art!Step(E[i], q) /\ D[i + 1] = E[i]
    BY <1>2, <1>3, <1>5, <2>1
  <2> QED
    BY <2>1, <2>2
<1> HIDE DEF S
<1>6. \A i \in 0..(L - 1) : i \in S
  BY <1>1, <1>4, <1>5, StepByStep
<1> QED
  BY <1>6 DEF S, D, E

-----------------------------------------------------------------------------
(* The copies that an insert makes on its way back, and the nodes it       *)
(* meets.                                                                  *)

(* What an insert makes of a node it came through.                         *)
Up(here, below, q) ==
    IF Art!GoesOn(here, q) /\ Art!IsNode(below)
    THEN Art!Inner(here.node.prefix,
                   Art!Replaced(here.node.children, q[Art!Fork(here) + 1], below))
    ELSE below

(* The copies are what their definition says.                              *)
LEMMA CopiesAreDefined ==
    ASSUME NEW n, NEW d, NEW q \in Strings, NEW v, NEW always
    PROVE  LET D == Art!Down(n, d, q)
               C == Art!Copies(n, d, q, v, always)
           IN  /\ C[0] = Art!Changed(D[Len(q)], q, v, always)
               /\ \A m \in 0..(Len(q) - 1) : C[m + 1] = Up(D[Len(q) - (m + 1)], C[m], q)
<1> DEFINE L == Len(q)
           D == Art!Down(n, d, q)
           Change == Art!Changed(D[L], q, v, always)
           IsCopy(f, t) == f = [m \in 0..t |-> IF m = 0 THEN Change ELSE Up(D[L - m], f[m - 1], q)]
           S == {t \in 0..L : \E f : IsCopy(f, t)}
<1>1. L \in Nat
  BY StringFacts
<1>2. Art!Copies(n, d, q, v, always) = CHOOSE f : IsCopy(f, L)
  <2>1. Art!Copies(n, d, q, v, always) =
           CHOOSE f : f = [m \in 0..L |->
                             IF m = 0 THEN Art!Changed(D[L - m], q, v, always)
                             ELSE IF Art!GoesOn(D[L - m], q) /\ Art!IsNode(f[m - 1])
                             THEN Art!Inner(D[L - m].node.prefix,
                                            Art!Replaced(D[L - m].node.children,
                                                         q[Art!Fork(D[L - m]) + 1], f[m - 1]))
                             ELSE f[m - 1]]
    BY DEF Art!Copies
  <2>2. L - 0 = L
    BY <1>1
  <2> HIDE DEF L, D
  <2>3. ASSUME NEW f
        PROVE  [m \in 0..L |->
                   IF m = 0 THEN Art!Changed(D[L - m], q, v, always)
                   ELSE IF Art!GoesOn(D[L - m], q) /\ Art!IsNode(f[m - 1])
                   THEN Art!Inner(D[L - m].node.prefix,
                                  Art!Replaced(D[L - m].node.children,
                                               q[Art!Fork(D[L - m]) + 1], f[m - 1]))
                   ELSE f[m - 1]]
               = [m \in 0..L |-> IF m = 0 THEN Change ELSE Up(D[L - m], f[m - 1], q)]
    BY <2>2 DEF Up
  <2> QED
    BY <2>1, <2>3
<1> HIDE DEF D, Change
<1>3. 0 \in S
  <2> DEFINE g == [m \in 0..0 |-> Change]
  <2>1. IsCopy(g, 0)
    OBVIOUS
  <2>2. 0 \in 0..L
    BY <1>1
  <2> QED
    BY <2>1, <2>2
<1>4. ASSUME NEW t \in 0..(L - 1), t \in S PROVE t + 1 \in S
  <2>1. PICK f : IsCopy(f, t)
    BY <1>4
  <2> DEFINE g == [m \in 0..(t + 1) |-> IF m = t + 1 THEN Up(D[L - (t + 1)], f[t], q) ELSE f[m]]
  <2>2. \A m \in 0..(t + 1) : g[m] = IF m = 0 THEN Change ELSE Up(D[L - m], g[m - 1], q)
    <3> SUFFICES ASSUME NEW m \in 0..(t + 1)
                 PROVE  g[m] = IF m = 0 THEN Change ELSE Up(D[L - m], g[m - 1], q)
      OBVIOUS
    <3>1. CASE m = t + 1
      <4>1. m # 0 /\ m - 1 = t /\ t \in 0..(t + 1) /\ t # t + 1
        BY <1>1, <3>1
      <4> QED
        BY <3>1, <4>1
    <3>2. CASE m # t + 1
      <4>1. m \in 0..t /\ (m # 0 => m - 1 \in 0..(t + 1) /\ m - 1 # t + 1)
        BY <1>1, <3>2
      <4>2. f[m] = IF m = 0 THEN Change ELSE Up(D[L - m], f[m - 1], q)
        BY <2>1, <4>1
      <4> QED
        BY <3>2, <4>1, <4>2
    <3> QED
      BY <3>1, <3>2
  <2>3. IsCopy(g, t + 1)
    BY <2>2
  <2>4. t + 1 \in 0..L
    BY <1>1
  <2> QED
    BY <2>3, <2>4
<1>5. L \in S
  <2> HIDE DEF S
  <2>1. \A t \in 0..L : t \in S
    BY <1>1, <1>3, <1>4, StepByStep
  <2> QED
    BY <1>1, <2>1
<1>6. \E f : IsCopy(f, L)
  BY <1>5
<1>7. IsCopy(Art!Copies(n, d, q, v, always), L)
  BY <1>2, <1>6
<1>8. \A m \in 0..(L - 1) : m + 1 \in 0..L /\ m + 1 # 0 /\ (m + 1) - 1 = m
  BY <1>1
<1>9. 0 \in 0..L
  BY <1>1
<1> DEFINE C == Art!Copies(n, d, q, v, always)
<1>10. C[0] = Change
  <2> HIDE DEF C
  <2>1. C = [m \in 0..L |-> IF m = 0 THEN Change ELSE Up(D[L - m], C[m - 1], q)]
    BY <1>7 DEF C
  <2> QED
    BY <1>9, <2>1
<1>11. ASSUME NEW m \in 0..(L - 1) PROVE C[m + 1] = Up(D[L - (m + 1)], C[m], q)
  <2> HIDE DEF C
  <2>1. C = [j \in 0..L |-> IF j = 0 THEN Change ELSE Up(D[L - j], C[j - 1], q)]
    BY <1>7 DEF C
  <2>2. C[m + 1] = Up(D[L - (m + 1)], C[(m + 1) - 1], q)
    BY <1>8, <2>1
  <2> QED
    BY <1>8, <2>2
<1> QED
  BY <1>10, <1>11 DEF D, Change

-----------------------------------------------------------------------------
(* A key found in the node n, d bytes down its way.                        *)
Held(n, k, d) == Art!GetRec(n, k, d) \notin {None, Panicked}

(* Some key below.                                                         *)
Inhabited(n, d, q) == \E k \in Strings : Via(k, d, q) /\ Held(n, k, d)

(* A leaf on the way of its own key, with a value.                         *)
LeafOK(n, d, q) ==
    n.type = "leaf" /\ Via(n.key, d, q) /\ n.value \notin {None, Panicked}

(* An inner node that forks, with its container in order.                  *)
InnerOK(n) ==
    /\ n.type = "inner" /\ n.prefix \in Strings /\ Kept(n.children)
    /\ \E b, c \in Art!Bytes :
          b # c /\ Art!ChildOf(n.children, b) # Art!Absent /\ Art!ChildOf(n.children, c) # Art!Absent

(* A place on the way of q.                                                *)
PlaceOK(at, q) ==
    /\ at = Art!Place(at.node, at.depth) /\ at.depth \in 0..Len(q)
    /\ LeafOK(at.node, at.depth, q) \/ InnerOK(at.node)
    /\ Inhabited(at.node, at.depth, q)

(* All the nodes below one that is d bytes down the way of k.              *)
Sound(n, d, k) ==
    \A q \in Strings : Via(q, d, k) => \A i \in 0..Len(q) : PlaceOK(Art!Down(n, d, q)[i], q)

(* A place from where a way goes on has bytes left.                        *)
LEMMA GoesOnWithin ==
    ASSUME NEW at, NEW q \in Strings, PlaceOK(at, q), Art!GoesOn(at, q)
    PROVE  /\ at.depth \in Nat /\ Art!Fork(at) \in Nat
           /\ Art!Fork(at) + 1 > at.depth /\ Art!Fork(at) + 1 <= Len(q)
<1> DEFINE n == at.node
           d == at.depth
<1>1. at = Art!Place(n, d) /\ d \in 0..Len(q) /\ (n.type = "inner" => n.prefix \in Strings)
  BY DEF PlaceOK, LeafOK, InnerOK
<1>2. Goes(n, d, q)
  BY <1>1 DEF Goes
<1> HIDE DEF n, d
<1>3. /\ Art!Fork(Art!Place(n, d)) = d + Len(n.prefix) /\ Depth(n, d) = d + Len(n.prefix) + 1
      /\ d + Len(n.prefix) \in Nat /\ Depth(n, d) \in (d + 1)..Len(q)
  BY <1>1, <1>2, GoesFacts
<1>4. Len(q) \in Nat
  BY StringFacts
<1>5. d \in Nat /\ d + Len(n.prefix) + 1 > d /\ d + Len(n.prefix) + 1 <= Len(q)
  BY <1>1, <1>3, <1>4
<1> QED
  BY <1>1, <1>3, <1>5 DEF d

(* A step down takes at least one byte.                                    *)
LEMMA Progress ==
    ASSUME NEW n, NEW d \in Nat, NEW k, Sound(n, d, k), NEW q \in Strings, Via(q, d, k)
    PROVE  \A i \in 0..Len(q) :
              Art!GoesOn(Art!Down(n, d, q)[i], q) => Art!Down(n, d, q)[i].depth >= d + i
<1> DEFINE L == Len(q)
           D == Art!Down(n, d, q)
           S == {i \in 0..L : Art!GoesOn(D[i], q) => D[i].depth >= d + i}
<1>1. L \in Nat
  BY StringFacts
<1>2. D[0] = Art!Place(n, d) /\ \A i \in 0..(L - 1) : D[i + 1] = Art!Step(D[i], q)
  BY WayIsDefined
<1>3. \A i \in 0..L : PlaceOK(D[i], q)
  BY DEF Sound
<1> HIDE DEF D
<1>4. 0 \in S
  <2>1. D[0].depth = d
    BY <1>2 DEF Art!Place
  <2> QED
    BY <1>1, <2>1
<1>5. ASSUME NEW i \in 0..(L - 1), i \in S PROVE i + 1 \in S
  <2>1. i \in 0..L /\ i + 1 \in 0..L /\ D[i + 1] = Art!Step(D[i], q)
    BY <1>1, <1>2
  <2>2. ASSUME Art!GoesOn(D[i + 1], q) PROVE D[i + 1].depth >= d + (i + 1)
    <3>1. CASE Art!GoesOn(D[i], q)
      <4>1. D[i].depth >= d + i
        BY <1>5, <3>1
      <4>2. D[i + 1].depth = Art!Fork(D[i]) + 1
        BY <2>1, <3>1 DEF Art!Step, Art!Place
      <4>3. D[i].depth \in Nat /\ Art!Fork(D[i]) \in Nat /\ Art!Fork(D[i]) + 1 > D[i].depth
        BY <1>3, <2>1, <3>1, GoesOnWithin
      <4> QED
        BY <1>1, <4>1, <4>2, <4>3
    <3>2. CASE ~Art!GoesOn(D[i], q)
      BY <2>1, <2>2, <3>2 DEF Art!Step
    <3> QED
      BY <3>1, <3>2
  <2> QED
    BY <2>1, <2>2
<1> HIDE DEF S
<1>6. \A i \in 0..L : i \in S
  BY <1>1, <1>4, <1>5, StepByStep
<1> QED
  BY <1>6 DEF S, D

(* One byte below the top, a way ends before its last step.                *)
LEMMA WayEnds ==
    ASSUME NEW n, NEW d \in Nat, NEW k, Sound(n, d, k), NEW q \in Strings, Via(q, d, k),
           NEW i \in 0..Len(q), d + i >= Len(q)
    PROVE  ~Art!GoesOn(Art!Down(n, d, q)[i], q)
<1> DEFINE at == Art!Down(n, d, q)[i]
<1>1. PlaceOK(at, q)
  BY DEF Sound
<1>2. Art!GoesOn(at, q) => at.depth >= d + i
  BY Progress
<1> HIDE DEF at
<1>3. Art!GoesOn(at, q) =>
         at.depth \in Nat /\ Art!Fork(at) + 1 > at.depth /\ Art!Fork(at) + 1 <= Len(q) /\ Art!Fork(at) \in Nat
  BY <1>1, GoesOnWithin
<1>5. Len(q) \in Nat
  BY StringFacts
<1>6. ~Art!GoesOn(at, q)
  BY <1>2, <1>3, <1>5
<1> QED
  BY <1>6 DEF at

-----------------------------------------------------------------------------
(* A node is sound if all that lies below it is in order: this is what an  *)
(* insert has to keep, and it is a matter of the node and its children.    *)

(* Strings that begin alike, as an equivalence and for fewer bytes.        *)
LEMMA ViaFacts ==
    /\ \A q \in Strings : \A d \in 0..Len(q) : Via(q, d, q)
    /\ \A d, k, q, r : Via(q, d, k) /\ Via(r, d, q) => Via(r, d, k)
    /\ \A d, k, q : \A r : Via(q, d, k) /\ Via(r, d, k) => Via(r, d, q)
    /\ \A q, r : \A d, e \in Nat : Via(r, e, q) /\ d <= e => Via(r, d, q)
<1>1. ASSUME NEW q \in Strings, NEW d \in 0..Len(q) PROVE Via(q, d, q)
  BY StringFacts DEF Via
<1>2. ASSUME NEW q, NEW r, NEW d \in Nat, NEW e \in Nat, Via(r, e, q), d <= e PROVE Via(r, d, q)
  <2>1. r \in Strings /\ e <= Len(r) /\ Len(r) \in Nat
    BY <1>2, StringFacts DEF Via
  <2>2. d <= Len(r) /\ \A i \in 1..d : i \in 1..e
    BY <1>2, <2>1
  <2> QED
    BY <1>2, <2>1, <2>2 DEF Via
<1>3. \A d, k, q, r : Via(q, d, k) /\ Via(r, d, q) => Via(r, d, k)
  BY DEF Via
<1>4. \A d, k, q : \A r : Via(q, d, k) /\ Via(r, d, k) => Via(r, d, q)
  BY DEF Via
<1> QED
  BY <1>1, <1>2, <1>3, <1>4

(* All that go the way of q as far as the next fork go on as q does.       *)
LEMMA SameTurn ==
    ASSUME NEW n, NEW q \in Strings, NEW d \in 0..Len(q), n.type = "inner" => n.prefix \in Strings,
           Goes(n, d, q), NEW r, Via(r, Depth(n, d), q)
    PROVE  /\ Goes(n, d, r) /\ Child(n, d, r) = Child(n, d, q)
           /\ r \in Strings /\ d \in 0..Len(r) /\ Via(r, d, q) /\ Len(r) # 0
<1> DEFINE f == d + Len(n.prefix)
<1>1. /\ Depth(n, d) = f + 1
      /\ n.type = "inner" /\ Spells(q, d, n.prefix) /\ f < Len(q)
      /\ Art!ChildOf(n.children, q[f + 1]) # Art!Absent
      /\ Child(n, d, q) = Art!ChildOf(n.children, q[f + 1])
      /\ f \in Nat /\ f + 1 \in (d + 1)..Len(q)
  BY GoesFacts
<1>2. n.prefix \in Strings /\ Len(n.prefix) \in Nat /\ Len(q) \in Nat /\ d \in Nat
  BY <1>1, StringFacts
<1>3. r \in Strings /\ f + 1 <= Len(r) /\ \A i \in 1..(f + 1) : r[i] = q[i]
  BY <1>1 DEF Via
<1>4. Len(r) \in Nat
  BY <1>3, StringFacts
<1>5. Spells(r, d, n.prefix)
  <2>1. d + Len(n.prefix) <= Len(r)
    BY <1>1, <1>3, <1>4
  <2>2. \A j \in 1..Len(n.prefix) : d + j \in 1..(f + 1)
    BY <1>2
  <2> QED
    BY <1>1, <1>3, <2>1, <2>2 DEF Spells
<1>6. r[f + 1] = q[f + 1] /\ f < Len(r) /\ d \in 0..Len(r) /\ Len(r) # 0
  BY <1>1, <1>2, <1>3, <1>4
<1>7. Via(r, d, q)
  <2>1. \A i \in 1..d : i \in 1..(f + 1)
    BY <1>2
  <2> QED
    BY <1>3, <1>6, <2>1 DEF Via
<1>8. Goes(n, d, r) /\ Child(n, d, r) = Art!ChildOf(n.children, r[f + 1])
  BY <1>1, <1>2, <1>3, <1>5, <1>6, GoesFacts
<1> QED
  BY <1>1, <1>3, <1>6, <1>7, <1>8

-----------------------------------------------------------------------------
(* Soundness of a node by itself and of its children.                      *)
SoundBelow(n, d, k) ==
    /\ LeafOK(n, d, k) \/ InnerOK(n)
    /\ \A q \in Strings : Via(q, d, k) /\ Goes(n, d, q) => Sound(Child(n, d, q), Depth(n, d), q)

(* A sound node is sound by itself, and so are its children,               *)
LEMMA SoundIsBelow ==
    ASSUME NEW n, NEW k \in Strings, NEW d \in 0..Len(k), Sound(n, d, k)
    PROVE  SoundBelow(n, d, k) /\ Inhabited(n, d, k)
<1>1. PlaceOK(Art!Place(n, d), k)
  <2>1. Via(k, d, k) /\ 0 \in 0..Len(k)
    BY ViaFacts, StringFacts
  <2>2. Art!Down(n, d, k)[0] = Art!Place(n, d)
    BY WayIsDefined
  <2> QED
    BY <2>1, <2>2 DEF Sound
<1>2. (LeafOK(n, d, k) \/ InnerOK(n)) /\ Inhabited(n, d, k)
  <2>1. Art!Place(n, d).node = n /\ Art!Place(n, d).depth = d
    BY DEF Art!Place
  <2> QED
    BY <1>1, <2>1 DEF PlaceOK
<1>3. n.type = "inner" => n.prefix \in Strings
  BY <1>2 DEF LeafOK, InnerOK
<1>4. ASSUME NEW q \in Strings, Via(q, d, k), Goes(n, d, q)
      PROVE  Sound(Child(n, d, q), Depth(n, d), q)
  <2> DEFINE c == Child(n, d, q)
             e == Depth(n, d)
  <2>1. d \in 0..Len(q) /\ d \in Nat
    BY <1>4, StringFacts DEF Via
  <2>2. e \in (d + 1)..Len(q) /\ Len(q) \in Nat
    BY <1>3, <1>4, <2>1, GoesFacts, StringFacts
  <2> SUFFICES ASSUME NEW r \in Strings, Via(r, e, q), NEW i \in 0..Len(r)
               PROVE  PlaceOK(Art!Down(c, e, r)[i], r)
    BY DEF Sound
  <2>3. Goes(n, d, r) /\ Child(n, d, r) = c /\ Via(r, d, q) /\ Len(r) # 0
    BY <1>3, <1>4, <2>1, SameTurn
  <2>4. Via(r, d, k)
    BY <1>4, <2>3, ViaFacts
  <2>5. \A j \in 0..Len(r) : PlaceOK(Art!Down(n, d, r)[j], r)
    BY <2>4 DEF Sound
  <2>6. Len(r) \in Nat
    BY StringFacts
  <2>7. \A j \in 0..(Len(r) - 1) : Art!Down(n, d, r)[j + 1] = Art!Down(c, e, r)[j]
    BY <2>3, WayGoesOn
  <2> HIDE DEF c, e
  <2>8. CASE i \in 0..(Len(r) - 1)
    <3>1. i + 1 \in 0..Len(r)
      BY <2>6, <2>8
    <3> QED
      BY <2>5, <2>7, <2>8, <3>1
  <2>9. CASE i = Len(r)
    <3> DEFINE m == Len(r) - 1
               last == Art!Down(c, e, r)[m]
    <3>1. m \in 0..(Len(r) - 1) /\ m + 1 = Len(r) /\ Len(r) \in 0..Len(r)
      BY <2>3, <2>6
    <3>2. Art!Down(n, d, r)[Len(r)] = last
      BY <2>7, <3>1
    <3>3. ~Art!GoesOn(Art!Down(n, d, r)[Len(r)], r)
      <4>1. d + Len(r) >= Len(r)
        BY <2>1, <2>6
      <4> QED
        BY <2>1, <2>4, <3>1, <4>1, WayEnds
    <3>4. Art!Down(c, e, r)[Len(r)] = Art!Step(last, r)
      BY <3>1, WayIsDefined
    <3> HIDE DEF last, m
    <3>5. Art!Down(c, e, r)[Len(r)] = last
      BY <3>2, <3>3, <3>4 DEF Art!Step
    <3> QED
      BY <2>5, <2>9, <3>1, <3>2, <3>5
  <2> QED
    BY <2>6, <2>8, <2>9
<1> QED
  BY <1>2, <1>4 DEF SoundBelow

(* and the other way round, provided some key is below.                    *)
LEMMA BelowIsSound ==
    ASSUME NEW n, NEW k \in Strings, NEW d \in 0..Len(k), SoundBelow(n, d, k), Inhabited(n, d, k)
    PROVE  Sound(n, d, k)
<1> SUFFICES ASSUME NEW q \in Strings, Via(q, d, k), NEW i \in 0..Len(q)
             PROVE  PlaceOK(Art!Down(n, d, q)[i], q)
  BY DEF Sound
<1>1. n.type = "inner" => n.prefix \in Strings
  BY DEF SoundBelow, LeafOK, InnerOK
<1>2. d \in 0..Len(q) /\ d \in Nat /\ Len(q) \in Nat /\ Len(k) \in Nat
  BY StringFacts DEF Via
<1>3. PlaceOK(Art!Place(n, d), q)
  <2>1. Art!Place(n, d).node = n /\ Art!Place(n, d).depth = d
    BY DEF Art!Place
  <2>2. LeafOK(n, d, q) \/ InnerOK(n)
    BY ViaFacts DEF SoundBelow, LeafOK
  <2>3. Inhabited(n, d, q)
    BY ViaFacts DEF Inhabited
  <2> QED
    BY <1>2, <2>1, <2>2, <2>3 DEF PlaceOK
<1>4. Art!Down(n, d, q)[0] = Art!Place(n, d)
  BY WayIsDefined
<1>5. CASE Goes(n, d, q) /\ i # 0
  <2> DEFINE c == Child(n, d, q)
             e == Depth(n, d)
             j == i - 1
  <2>1. Sound(c, e, q) /\ e \in (d + 1)..Len(q)
    BY <1>1, <1>2, <1>5, GoesFacts DEF SoundBelow
  <2>2. j \in 0..(Len(q) - 1) /\ j + 1 = i /\ Len(q) # 0 /\ j \in 0..Len(q)
    BY <1>2, <1>5
  <2>3. Art!Down(n, d, q)[i] = Art!Down(c, e, q)[j]
    BY <1>5, <2>2, WayGoesOn
  <2>4. Via(q, e, q)
    <3>1. e \in 0..Len(q)
      BY <1>2, <2>1
    <3> QED
      BY <3>1, ViaFacts
  <2> HIDE DEF c, e, j
  <2> QED
    BY <2>1, <2>2, <2>3, <2>4 DEF Sound
<1>6. CASE ~Goes(n, d, q)
  BY <1>3, <1>6, WayStays
<1> QED
  BY <1>3, <1>4, <1>5, <1>6

(* A lookup and an insert where a way goes on are those from the child on. *)
LEMMA StepDown ==
    ASSUME NEW n, NEW d \in Nat, NEW k, SoundBelow(n, d, k), NEW q \in Strings, Via(q, d, k),
           Goes(n, d, q), NEW v, NEW always
    PROVE  /\ Art!GetRec(n, q, d) = Art!GetRec(Child(n, d, q), q, Depth(n, d))
           /\ Art!InsertRec(n, q, d, v, always) =
                 Up(Art!Place(n, d), Art!InsertRec(Child(n, d, q), q, Depth(n, d), v, always), q)
<1> DEFINE c == Child(n, d, q)
           e == Depth(n, d)
           L == Len(q)
           D == Art!Down(n, d, q)
           E == Art!Down(c, e, q)
           N == Art!Copies(n, d, q, v, always)
           M == Art!Copies(c, e, q, v, always)
           S == {m \in 0..(L - 1) : M[m + 1] = N[m]}
<1>1. L \in Nat /\ d \in 0..L /\ (n.type = "inner" => n.prefix \in Strings)
  BY StringFacts DEF Via, SoundBelow, LeafOK, InnerOK
<1>2. e \in (d + 1)..L /\ e \in 0..L /\ e \in Nat /\ L # 0 /\ e >= 1
  <2>1. e \in (d + 1)..L
    BY <1>1, GoesFacts
  <2> HIDE DEF e
  <2> QED
    BY <1>1, <2>1
<1>3. Sound(c, e, q) /\ Via(q, e, q)
  BY <1>2, ViaFacts DEF SoundBelow
<1>4. \A i \in 0..(L - 1) : D[i + 1] = E[i]
  BY <1>2, WayGoesOn
<1>5. ~Art!GoesOn(E[L - 1], q)
  <2> HIDE DEF c, e
  <2>1. L - 1 \in 0..L /\ e + (L - 1) >= L
    BY <1>1, <1>2
  <2> QED
    BY <1>2, <1>3, <2>1, WayEnds
<1>6. D[0] = Art!Place(n, d) /\ \A i \in 0..(L - 1) : E[i + 1] = Art!Step(E[i], q)
  BY WayIsDefined
<1>7. /\ N[0] = Art!Changed(D[L], q, v, always)
      /\ \A m \in 0..(L - 1) : N[m + 1] = Up(D[L - (m + 1)], N[m], q)
  BY CopiesAreDefined
<1>8. /\ M[0] = Art!Changed(E[L], q, v, always)
      /\ \A m \in 0..(L - 1) : M[m + 1] = Up(E[L - (m + 1)], M[m], q)
  BY CopiesAreDefined
<1>9. /\ Art!GetRec(n, q, d) = Art!Answer(D[L], q)
      /\ Art!GetRec(c, q, e) = Art!Answer(E[L], q)
  BY DEF Art!GetRec
<1>10. /\ Art!InsertRec(n, q, d, v, always) = N[L]
       /\ Art!InsertRec(c, q, e, v, always) = M[L]
  BY DEF Art!InsertRec
<1> HIDE DEF c, e, D, E, N, M
<1>11. D[L] = E[L - 1] /\ E[L] = E[L - 1]
  <2>1. L - 1 \in 0..(L - 1) /\ (L - 1) + 1 = L
    BY <1>1, <1>2
  <2>2. D[(L - 1) + 1] = E[L - 1] /\ E[(L - 1) + 1] = Art!Step(E[L - 1], q)
    BY <1>4, <1>6, <2>1
  <2> QED
    BY <1>5, <2>1, <2>2 DEF Art!Step
<1>12. 0 \in S
  <2>1. 0 \in 0..(L - 1) /\ L - (0 + 1) = L - 1
    BY <1>1, <1>2
  <2>2. M[0 + 1] = Up(E[L - 1], M[0], q)
    BY <1>8, <2>1
  <2> QED
    BY <1>5, <1>7, <1>8, <1>11, <2>1, <2>2 DEF Up
<1>13. ASSUME NEW m \in 0..((L - 1) - 1), m \in S PROVE m + 1 \in S
  <2>1. m \in 0..(L - 1) /\ m + 1 \in 0..(L - 1) /\ M[m + 1] = N[m]
    BY <1>1, <1>13
  <2>2. L - ((m + 1) + 1) \in 0..(L - 1) /\ (L - ((m + 1) + 1)) + 1 = L - (m + 1)
    BY <1>1, <2>1
  <2>3. D[L - (m + 1)] = E[L - ((m + 1) + 1)]
    BY <1>4, <2>2
  <2>4. /\ N[m + 1] = Up(D[L - (m + 1)], N[m], q)
        /\ M[(m + 1) + 1] = Up(E[L - ((m + 1) + 1)], M[m + 1], q)
    BY <1>7, <1>8, <2>1
  <2> QED
    BY <2>1, <2>3, <2>4
<1> HIDE DEF S
<1>14. \A m \in 0..(L - 1) : m \in S
  <2>1. L - 1 \in Nat
    BY <1>1, <1>2
  <2> QED
    BY <1>12, <1>13, <2>1, StepByStep
<1>15. N[L] = Up(Art!Place(n, d), M[L], q)
  <2>1. L - 1 \in 0..(L - 1) /\ (L - 1) + 1 = L /\ L - ((L - 1) + 1) = 0
    BY <1>1, <1>2
  <2>2. N[(L - 1) + 1] = Up(D[L - ((L - 1) + 1)], N[L - 1], q)
    BY <1>7, <2>1
  <2>3. M[(L - 1) + 1] = N[L - 1]
    BY <1>14, <2>1 DEF S
  <2> QED
    BY <1>6, <2>1, <2>2, <2>3
<1> QED
  BY <1>9, <1>10, <1>11, <1>15 DEF c, e

(* Where a way stops, a lookup answers and an insert changes the node.     *)
LEMMA StopHere ==
    ASSUME NEW n, NEW d, NEW q \in Strings, ~Goes(n, d, q), NEW v, NEW always
    PROVE  /\ Art!GetRec(n, q, d) = Art!Answer(Art!Place(n, d), q)
           /\ Art!InsertRec(n, q, d, v, always) = Art!Changed(Art!Place(n, d), q, v, always)
<1> DEFINE L == Len(q)
           D == Art!Down(n, d, q)
           N == Art!Copies(n, d, q, v, always)
           X == Art!Changed(Art!Place(n, d), q, v, always)
           S == {m \in 0..L : N[m] = X}
<1>1. L \in Nat /\ L \in 0..L
  BY StringFacts
<1>2. \A i \in 0..L : D[i] = Art!Place(n, d)
  BY WayStays
<1>3. /\ N[0] = Art!Changed(D[L], q, v, always)
      /\ \A m \in 0..(L - 1) : N[m + 1] = Up(D[L - (m + 1)], N[m], q)
  BY CopiesAreDefined
<1>4. Art!GetRec(n, q, d) = Art!Answer(D[L], q) /\ Art!InsertRec(n, q, d, v, always) = N[L]
  BY DEF Art!GetRec, Art!InsertRec
<1> HIDE DEF D, N, X
<1>5. 0 \in S
  BY <1>1, <1>2, <1>3 DEF X
<1>6. ASSUME NEW m \in 0..(L - 1), m \in S PROVE m + 1 \in S
  <2>1. L - (m + 1) \in 0..L /\ m + 1 \in 0..L
    BY <1>1
  <2>2. N[m + 1] = Up(Art!Place(n, d), N[m], q)
    BY <1>2, <1>3, <2>1
  <2> QED
    BY <1>6, <2>1, <2>2 DEF Up, Goes
<1> HIDE DEF S
<1>7. \A m \in 0..L : m \in S
  BY <1>1, <1>5, <1>6, StepByStep
<1> QED
  BY <1>1, <1>2, <1>4, <1>7 DEF S, X

(* What a lookup answers, without the panic.                               *)
Look(n, q, d) == Found(Art!GetRec(n, q, d))

(* A value, and not one of the two answers that are none.                  *)
Real(v) == v \notin {None, Panicked}

(* Where something is held, and how answers are read.                      *)
LEMMA LookFacts ==
    /\ \A n, q, d : Held(n, q, d) <=> Look(n, q, d) # None
    /\ \A v : Real(v) => Found(v) = v /\ v # None
    /\ Found(None) = None /\ Found(Panicked) = None /\ None # Panicked
  BY ValueAssumption DEF Held, Look, Found, Real

(* Where a lookup stops.                                                   *)
LEMMA LeafAnswers ==
    ASSUME NEW n, n.type = "leaf", NEW q \in Strings, NEW d
    PROVE  /\ ~Goes(n, d, q)
           /\ Art!GetRec(n, q, d) = IF n.key = q THEN n.value ELSE None
<1>1. Art!Place(n, d).node = n
  BY DEF Art!Place
<1>2. ~Goes(n, d, q)
  BY <1>1 DEF Goes, Art!GoesOn
<1>3. Art!GetRec(n, q, d) = Art!Answer(Art!Place(n, d), q)
  BY <1>2, StopHere
<1> QED
  BY <1>1, <1>2, <1>3 DEF Art!Answer

(* An inner node where the way stops has nothing under the key.            *)
LEMMA InnerAnswers ==
    ASSUME NEW n, InnerOK(n), NEW q \in Strings, NEW d \in 0..Len(q), ~Goes(n, d, q)
    PROVE  /\ Art!GetRec(n, q, d) =
                 IF Spells(q, d, n.prefix) /\ d + Len(n.prefix) = Len(q) THEN Panicked ELSE None
           /\ Look(n, q, d) = None
<1> DEFINE at == Art!Place(n, d)
<1>1. at.node = n /\ n.type = "inner" /\ n.prefix \in Strings
  BY DEF Art!Place, InnerOK
<1>2. (Art!Matches(at, q) <=> Spells(q, d, n.prefix)) /\ Art!Fork(at) = d + Len(n.prefix)
  BY <1>1, GoesFacts
<1>3. Art!GetRec(n, q, d) = Art!Answer(at, q)
  BY StopHere
<1> HIDE DEF at
<1>4. Art!GetRec(n, q, d) = IF Art!Matches(at, q) /\ Art!Fork(at) = Len(q) THEN Panicked ELSE None
  BY <1>1, <1>3 DEF Art!Answer
<1> QED
  BY <1>2, <1>4, LookFacts DEF Look

(* An inner node has what its children have.                               *)
LEMMA InnerLooks ==
    ASSUME NEW n, InnerOK(n), NEW k, NEW q \in Strings, NEW d \in 0..Len(q),
           SoundBelow(n, d, k), Via(q, d, k)
    PROVE  Look(n, q, d) = IF Goes(n, d, q) THEN Look(Child(n, d, q), q, Depth(n, d)) ELSE None
<1>1. d \in Nat
  BY StringFacts
<1>2. CASE Goes(n, d, q)
  BY <1>1, <1>2, StepDown DEF Look
<1>3. CASE ~Goes(n, d, q)
  BY <1>3, InnerAnswers
<1> QED
  BY <1>2, <1>3

(* Soundness depends on the bytes above a node only.                       *)
LEMMA SoundVia ==
    ASSUME NEW n, NEW d, NEW k, NEW q, Sound(n, d, k), Via(q, d, k)
    PROVE  Sound(n, d, q)
  BY ViaFacts DEF Sound

(* A leaf on its own way is a sound node.                                  *)
LEMMA LeafIsSound ==
    ASSUME NEW n, NEW q \in Strings, NEW d \in 0..Len(q), LeafOK(n, d, q)
    PROVE  Sound(n, d, q)
<1>1. n.type = "leaf" /\ Via(n.key, d, q) /\ n.key \in Strings /\ Real(n.value)
  BY DEF LeafOK, Via, Real
<1>2. \A r \in Strings : ~Goes(n, d, r)
  BY <1>1, LeafAnswers
<1>3. SoundBelow(n, d, q)
  BY <1>2 DEF SoundBelow
<1>4. Held(n, n.key, d)
  BY <1>1, LeafAnswers DEF Held, Real
<1>5. Inhabited(n, d, q)
  BY <1>1, <1>4 DEF Inhabited
<1> QED
  BY <1>3, <1>5, BelowIsSound

-----------------------------------------------------------------------------
(* The node r has what n has, and v under k.                               *)
Stores(r, n, d, k, v) ==
    \A q \in Strings : Via(q, d, k) => Look(r, q, d) = IF q = k THEN v ELSE Look(n, q, d)

(* An inner node with another child, or with one more.                     *)
LEMMA ChildStored ==
    ASSUME NEW n, NEW k \in Strings, NEW d \in 0..Len(k), Sound(n, d, k), InnerOK(n),
           Spells(k, d, n.prefix), d + Len(n.prefix) < Len(k), NEW v, Real(v),
           NEW child, child # Art!Absent, Sound(child, Depth(n, d), k),
           NEW ch, Gains(n.children, k[d + Len(n.prefix) + 1], child, ch),
           \A q \in Strings : Via(q, Depth(n, d), k) =>
              Look(child, q, Depth(n, d)) = IF q = k THEN v ELSE Look(n, q, d)
    PROVE  LET r == Art!Inner(n.prefix, ch)
           IN  Sound(r, d, k) /\ Stores(r, n, d, k, v)
<1> DEFINE r == Art!Inner(n.prefix, ch)
           f == d + Len(n.prefix)
           b == k[f + 1]
<1>1. r.type = "inner" /\ r.prefix = n.prefix /\ r.children = ch
  BY DEF Art!Inner
<1> HIDE DEF r
<1>2. n.type = "inner" /\ n.prefix \in Strings /\ Len(n.prefix) \in Nat /\ Len(k) \in Nat /\ d \in Nat
  BY StringFacts DEF InnerOK
<1>3. f \in Nat /\ f + 1 \in 1..Len(k) /\ b \in Art!Bytes
  <2>1. f \in Nat /\ f + 1 \in 1..Len(k)
    BY <1>2
  <2> QED
    BY <2>1, StringFacts
<1>4. /\ Kept(ch)
      /\ \A c \in Art!Bytes : Art!ChildOf(ch, c) = IF c = b THEN child ELSE Art!ChildOf(n.children, c)
  BY DEF Gains
<1>5. InnerOK(r)
  BY <1>1, <1>2, <1>4 DEF InnerOK
<1>6. SoundBelow(n, d, k)
  BY SoundIsBelow
<1>7. Depth(n, d) = f + 1 /\ Depth(r, d) = f + 1
  BY <1>1, <1>2, GoesFacts
<1> HIDE DEF f
<1>8. ASSUME NEW q \in Strings, d \in 0..Len(q)
       PROVE  /\ Goes(r, d, q) <=> /\ Spells(q, d, n.prefix) /\ f < Len(q)
                                   /\ Art!ChildOf(ch, q[f + 1]) # Art!Absent
              /\ Child(r, d, q) = Art!ChildOf(ch, q[f + 1])
  <2>1. r.prefix \in Strings /\ d + Len(r.prefix) = f
    BY <1>1, <1>2 DEF f
  <2>2. /\ Goes(r, d, q) <=> /\ r.type = "inner" /\ Spells(q, d, r.prefix) /\ f < Len(q)
                             /\ Art!ChildOf(r.children, q[f + 1]) # Art!Absent
        /\ Child(r, d, q) = Art!ChildOf(r.children, q[f + 1])
    BY <1>8, <2>1, GoesFacts
  <2> QED
    BY <1>1, <2>2
<1>9. ASSUME NEW q \in Strings, Via(q, d, k), Via(q, f + 1, k)
      PROVE  /\ Goes(r, d, q) /\ Child(r, d, q) = child
             /\ Sound(Child(r, d, q), Depth(r, d), q)
  <2>1. d \in 0..Len(q) /\ Len(q) \in Nat
    BY <1>2, <1>9, StringFacts DEF Via
  <2>2. f + 1 <= Len(q) /\ q[f + 1] = b /\ f < Len(q)
    BY <1>3, <1>9, <2>1 DEF Via
  <2>3. Spells(q, d, n.prefix)
    <3>1. \A j \in 1..Len(n.prefix) : d + j \in 1..(f + 1)
      BY <1>2 DEF f
    <3>2. d + Len(n.prefix) <= Len(q)
      BY <1>3, <2>1, <2>2 DEF f
    <3> QED
      BY <1>9, <3>1, <3>2 DEF Spells, Via
  <2>4. Goes(r, d, q) /\ Child(r, d, q) = child
    <3>1. /\ Goes(r, d, q) <=> /\ Spells(q, d, n.prefix) /\ f < Len(q)
                               /\ Art!ChildOf(ch, q[f + 1]) # Art!Absent
          /\ Child(r, d, q) = Art!ChildOf(ch, q[f + 1])
      BY <1>8, <2>1
    <3>2. Art!ChildOf(ch, q[f + 1]) = child
      BY <1>3, <1>4, <2>2
    <3> QED
      BY <2>2, <2>3, <3>1, <3>2
  <2> QED
    BY <1>7, <1>9, <2>4, SoundVia
<1>10. ASSUME NEW q \in Strings, Via(q, d, k), ~Via(q, f + 1, k)
      PROVE  /\ Goes(r, d, q) <=> Goes(n, d, q)
             /\ Goes(r, d, q) => Child(r, d, q) = Child(n, d, q)
  <2>1. d \in 0..Len(q) /\ Len(q) \in Nat
    BY <1>2, <1>10, StringFacts DEF Via
  <2>2. ASSUME Spells(q, d, n.prefix), f < Len(q) PROVE q[f + 1] # b /\ q[f + 1] \in Art!Bytes
    <3>1. f + 1 \in 1..Len(q) /\ f + 1 <= Len(q)
      BY <1>3, <2>1, <2>2
    <3>2. ASSUME q[f + 1] = b PROVE FALSE
      <4>1. ASSUME NEW i \in 1..(f + 1) PROVE q[i] = k[i]
        <5>1. CASE i \in 1..d
          BY <1>10, <5>1 DEF Via
        <5>2. CASE i = f + 1
          BY <3>2, <5>2
        <5>3. CASE i \in (d + 1)..f
          <6>1. i - d \in 1..Len(n.prefix) /\ d + (i - d) = i
            BY <1>2, <5>3 DEF f
          <6> QED
            BY <2>2, <6>1 DEF Spells
        <5> QED
          BY <1>2, <1>3, <5>1, <5>2, <5>3
      <4> QED
        BY <1>10, <3>1, <4>1 DEF Via
    <3> QED
      BY <3>1, <3>2, StringFacts
  <2>3. /\ Goes(r, d, q) <=> /\ Spells(q, d, n.prefix) /\ f < Len(q)
                             /\ Art!ChildOf(ch, q[f + 1]) # Art!Absent
        /\ Child(r, d, q) = Art!ChildOf(ch, q[f + 1])
    BY <1>8, <2>1
  <2>4. /\ Goes(n, d, q) <=> /\ Spells(q, d, n.prefix) /\ f < Len(q)
                             /\ Art!ChildOf(n.children, q[f + 1]) # Art!Absent
        /\ Child(n, d, q) = Art!ChildOf(n.children, q[f + 1])
    BY <1>2, <2>1, GoesFacts DEF f
  <2> QED
    BY <1>4, <2>2, <2>3, <2>4
<1>11. SoundBelow(r, d, k)
  <2>1. ASSUME NEW q \in Strings, Via(q, d, k), Goes(r, d, q)
        PROVE  Sound(Child(r, d, q), Depth(r, d), q)
    <3>1. CASE Via(q, f + 1, k)
      BY <1>9, <2>1, <3>1
    <3>2. CASE ~Via(q, f + 1, k)
      BY <1>6, <1>7, <1>10, <2>1, <3>2 DEF SoundBelow
    <3> QED
      BY <3>1, <3>2
  <2> QED
    BY <1>5, <2>1 DEF SoundBelow
<1>12. Stores(r, n, d, k, v)
  <2> SUFFICES ASSUME NEW q \in Strings, Via(q, d, k)
               PROVE  Look(r, q, d) = IF q = k THEN v ELSE Look(n, q, d)
    BY DEF Stores
  <2>1. d \in 0..Len(q)
    BY <1>2, StringFacts DEF Via
  <2>2. Look(r, q, d) = IF Goes(r, d, q) THEN Look(Child(r, d, q), q, Depth(r, d)) ELSE None
    BY <1>5, <1>11, <2>1, InnerLooks
  <2>3. CASE Via(q, f + 1, k)
    BY <1>7, <1>9, <2>2, <2>3
  <2>4. CASE ~Via(q, f + 1, k)
    <3>1. Look(n, q, d) = IF Goes(n, d, q) THEN Look(Child(n, d, q), q, Depth(n, d)) ELSE None
      BY <1>6, <2>1, InnerLooks
    <3>2. q # k
      <4>1. f + 1 \in 0..Len(k)
        BY <1>2, <1>3
      <4> QED
        BY <2>4, <4>1, ViaFacts
    <3> QED
      BY <1>7, <1>10, <2>2, <2>4, <3>1, <3>2
  <2> QED
    BY <2>3, <2>4
<1>13. Inhabited(r, d, k)
  <2>1. Via(k, d, k)
    BY ViaFacts
  <2>2. Look(r, k, d) = v
    BY <1>12, <2>1 DEF Stores
  <2>3. Held(r, k, d)
    BY <2>2, LookFacts
  <2> QED
    BY <2>1, <2>3 DEF Inhabited
<1>14. Sound(r, d, k)
  BY <1>11, <1>13, BelowIsSound
<1> QED
  BY <1>12, <1>14 DEF r

-----------------------------------------------------------------------------
(* What an insert makes of the node where its way stops.                   *)

(* Those that spell what k does begin like k that much further.            *)
LEMMA SpellsIsVia ==
    ASSUME NEW k \in Strings, NEW d \in 0..Len(k), NEW s \in Strings, Spells(k, d, s),
           NEW q, Via(q, d, k)
    PROVE  Spells(q, d, s) <=> Via(q, d + Len(s), k)
<1>1. /\ d \in Nat /\ Len(k) \in Nat /\ Len(s) \in Nat
      /\ q \in Strings /\ Len(q) \in Nat
  BY StringFacts DEF Via
<1>2. ASSUME Spells(q, d, s) PROVE Via(q, d + Len(s), k)
  <2>1. ASSUME NEW i \in 1..(d + Len(s)) PROVE q[i] = k[i]
    <3>1. CASE i \in 1..d
      BY <3>1 DEF Via
    <3>2. CASE i \notin 1..d
      <4>1. i - d \in 1..Len(s) /\ d + (i - d) = i
        BY <1>1, <3>2
      <4> QED
        BY <1>2, <4>1 DEF Spells
    <3> QED
      BY <3>1, <3>2
  <2> QED
    BY <1>1, <1>2, <2>1 DEF Via, Spells
<1>3. ASSUME Via(q, d + Len(s), k) PROVE Spells(q, d, s)
  <2>1. \A j \in 1..Len(s) : d + j \in 1..(d + Len(s))
    BY <1>1
  <2> QED
    BY <1>3, <2>1 DEF Via, Spells
<1> QED
  BY <1>2, <1>3

(* A new inner node over the key and what was there.                       *)
LEMMA PairStored ==
    ASSUME NEW n, NEW k \in Strings, NEW d \in 0..Len(k), NEW v, Real(v),
           NEW s \in Strings, Spells(k, d, s), NEW m, m = d + Len(s), m < Len(k),
           NEW b \in Art!Bytes, b # k[m + 1], NEW low, low # Art!Absent,
           \A q \in Strings : Via(q, m, k) /\ m < Len(q) /\ q[m + 1] = b =>
              Sound(low, m + 1, q) /\ Look(low, q, m + 1) = Look(n, q, d),
           \A q \in Strings : Via(q, d, k) /\ ~(Via(q, m, k) /\ m < Len(q) /\ q[m + 1] = b) =>
              Look(n, q, d) = None
    PROVE  LET r == Art!Inner(s, Art!NewPair(b, low, k[m + 1], Art!Leaf(k, v)))
           IN  Sound(r, d, k) /\ Stores(r, n, d, k, v)
<1> DEFINE leaf == Art!Leaf(k, v)
           ch == Art!NewPair(b, low, k[m + 1], leaf)
           r == Art!Inner(s, ch)
<1>1. r.type = "inner" /\ r.prefix = s /\ r.children = ch
  BY DEF Art!Inner
<1>2. leaf # Art!Absent /\ leaf.type = "leaf" /\ leaf.key = k /\ leaf.value = v
  BY DEF Art!Leaf, Art!Absent
<1>3. /\ d \in Nat /\ m \in Nat /\ Len(k) \in Nat /\ Len(s) \in Nat
      /\ m + 1 \in 1..Len(k) /\ m \in 0..Len(k) /\ m + 1 \in 0..Len(k)
  BY StringFacts
<1>4. k[m + 1] \in Art!Bytes
  BY <1>3, StringFacts
<1> HIDE DEF r, leaf
<1>5. /\ Kept(ch)
      /\ \A c \in Art!Bytes :
            Art!ChildOf(ch, c) = IF c = b THEN low ELSE IF c = k[m + 1] THEN leaf ELSE Art!Absent
  BY <1>2, <1>4, NewPairFacts
<1> HIDE DEF ch
<1>6. InnerOK(r)
  BY <1>1, <1>2, <1>4, <1>5 DEF InnerOK
<1>7. Depth(r, d) = m + 1
  BY <1>1, <1>3, GoesFacts
<1>8. ASSUME NEW q \in Strings, Via(q, d, k)
      PROVE  /\ Goes(r, d, q) <=> /\ Via(q, m, k) /\ m < Len(q)
                                  /\ q[m + 1] = b \/ q[m + 1] = k[m + 1]
             /\ Goes(r, d, q) => Child(r, d, q) = IF q[m + 1] = b THEN low ELSE leaf
  <2>1. d \in 0..Len(q) /\ Len(q) \in Nat
    BY <1>3, <1>8, StringFacts DEF Via
  <2>2. Spells(q, d, s) <=> Via(q, m, k)
    BY <1>8, SpellsIsVia
  <2>3. /\ Goes(r, d, q) <=> /\ Spells(q, d, s) /\ m < Len(q)
                             /\ Art!ChildOf(ch, q[m + 1]) # Art!Absent
        /\ Child(r, d, q) = Art!ChildOf(ch, q[m + 1])
    BY <1>1, <2>1, GoesFacts
  <2>4. ASSUME m < Len(q) PROVE q[m + 1] \in Art!Bytes
    <3>1. m + 1 \in 1..Len(q)
      BY <1>3, <2>1, <2>4
    <3> QED
      BY <3>1, StringFacts
  <2> QED
    BY <1>2, <1>5, <2>2, <2>3, <2>4
<1>9. ASSUME NEW q \in Strings, Via(q, m, k), m < Len(q), q[m + 1] = k[m + 1]
      PROVE  Via(q, m + 1, k) /\ Sound(leaf, m + 1, q)
  <2>1. Len(q) \in Nat /\ m + 1 <= Len(q)
    BY <1>3, <1>9, StringFacts
  <2>2. \A i \in 1..(m + 1) : i \in 1..m \/ i = m + 1
    BY <1>3
  <2>3. Via(q, m + 1, k)
    BY <1>9, <2>1, <2>2 DEF Via
  <2>4. Via(k, m + 1, k)
    BY <1>3, ViaFacts
  <2>5. Via(k, m + 1, q)
    BY <2>3, <2>4, ViaFacts
  <2>6. m + 1 \in 0..Len(q)
    BY <1>3, <2>1
  <2>7. LeafOK(leaf, m + 1, q)
    BY <1>2, <2>5 DEF LeafOK, Real
  <2> QED
    BY <2>3, <2>6, <2>7, LeafIsSound
<1>10. SoundBelow(r, d, k)
  <2>1. ASSUME NEW q \in Strings, Via(q, d, k), Goes(r, d, q)
        PROVE  Sound(Child(r, d, q), Depth(r, d), q)
    BY <1>7, <1>8, <1>9, <2>1
  <2> QED
    BY <1>6, <2>1 DEF SoundBelow
<1>11. Stores(r, n, d, k, v)
  <2> SUFFICES ASSUME NEW q \in Strings, Via(q, d, k)
               PROVE  Look(r, q, d) = IF q = k THEN v ELSE Look(n, q, d)
    BY DEF Stores
  <2>1. d \in 0..Len(q)
    BY <1>3, StringFacts DEF Via
  <2>2. Look(r, q, d) = IF Goes(r, d, q) THEN Look(Child(r, d, q), q, m + 1) ELSE None
    BY <1>6, <1>7, <1>10, <2>1, InnerLooks
  <2>3. q = k => Via(q, m, k) /\ m < Len(q) /\ q[m + 1] = k[m + 1]
    BY <1>3, ViaFacts
  <2>4. CASE Via(q, m, k) /\ m < Len(q) /\ q[m + 1] = b
    <3>1. Goes(r, d, q) /\ Child(r, d, q) = low /\ q # k
      BY <1>8, <2>3, <2>4
    <3> QED
      BY <2>2, <2>4, <3>1
  <2>5. CASE Via(q, m, k) /\ m < Len(q) /\ q[m + 1] = k[m + 1]
    <3>1. Goes(r, d, q) /\ Child(r, d, q) = leaf
      BY <1>8, <2>5
    <3>2. Look(leaf, q, m + 1) = IF q = k THEN v ELSE None
      BY <1>2, LeafAnswers, LookFacts DEF Look
    <3>3. Look(n, q, d) = None
      BY <2>5
    <3> QED
      BY <2>2, <3>1, <3>2, <3>3
  <2>6. CASE ~(Via(q, m, k) /\ m < Len(q) /\ (q[m + 1] = b \/ q[m + 1] = k[m + 1]))
    BY <1>8, <2>2, <2>3, <2>6
  <2> QED
    BY <2>4, <2>5, <2>6
<1>12. Inhabited(r, d, k)
  <2>1. Via(k, d, k)
    BY ViaFacts
  <2>2. Look(r, k, d) = v
    BY <1>11, <2>1 DEF Stores
  <2>3. Held(r, k, d)
    BY <2>2, LookFacts
  <2> QED
    BY <2>1, <2>3 DEF Inhabited
<1>13. Sound(r, d, k)
  BY <1>10, <1>12, BelowIsSound
<1> QED
  BY <1>11, <1>13 DEF r, ch, leaf

(* The first n bytes.                                                      *)
LEMMA CutFacts ==
    ASSUME NEW s \in Strings, NEW n \in 0..Len(s)
    PROVE  /\ Art!Cut(s, n) \in Strings /\ Len(Art!Cut(s, n)) = n
           /\ \A j \in 1..n : Art!Cut(s, n)[j] = s[j]
<1>1. Len(s) \in Nat /\ s \in Seq(Art!Bytes)
  BY StringFacts DEF Strings
<1>2. (IF n < Len(s) THEN n ELSE Len(s)) = n
  BY <1>1
<1>3. Art!Cut(s, n) = SubSeq(s, 1, n)
  BY <1>2 DEF Art!Cut
<1>4. /\ SubSeq(s, 1, n) \in Seq(Art!Bytes) /\ Len(SubSeq(s, 1, n)) = n
      /\ \A j \in 1..n : SubSeq(s, 1, n)[j] = s[j]
  BY <1>1, PrefixFacts
<1> QED
  BY <1>3, <1>4 DEF Strings

(* How long two strings are the same.                                      *)
LEMMA CommonFacts ==
    ASSUME NEW s \in Strings, NEW t \in Strings
    PROVE  LET c == Art!Common(s, t)
           IN  /\ c \in 0..Len(s) /\ c <= Len(t) /\ \A j \in 1..c : s[j] = t[j]
               /\ c = Len(s) \/ c = Len(t) \/ s[c + 1] # t[c + 1]
<1> DEFINE Same(n) == n <= Len(s) /\ n <= Len(t) /\ Art!Cut(s, n) = Art!Cut(t, n)
           S == {n \in Nat : ~Same(n + 1)}
           c == Art!Common(s, t)
<1>1. Len(s) \in Nat /\ Len(t) \in Nat
  BY StringFacts
<1>2. ASSUME NEW n \in Nat, n <= Len(s), n <= Len(t)
      PROVE  Art!Cut(s, n) = Art!Cut(t, n) <=> \A j \in 1..n : s[j] = t[j]
  <2>1. n \in 0..Len(s) /\ n \in 0..Len(t)
    BY <1>1, <1>2
  <2> DEFINE a == Art!Cut(s, n)
             b == Art!Cut(t, n)
  <2>2. /\ a \in Strings /\ Len(a) = n /\ \A j \in 1..n : a[j] = s[j]
        /\ b \in Strings /\ Len(b) = n /\ \A j \in 1..n : b[j] = t[j]
    BY <2>1, CutFacts
  <2> HIDE DEF a, b
  <2>3. ASSUME \A j \in 1..n : s[j] = t[j] PROVE a = b
    <3>1. Len(a) = Len(b) /\ \A j \in 1..Len(a) : a[j] = b[j]
      BY <2>2, <2>3
    <3> QED
      BY <2>2, <3>1, SeqEqual DEF Strings
  <2>4. ASSUME a = b PROVE \A j \in 1..n : s[j] = t[j]
    BY <2>2, <2>4
  <2>5. a = b <=> \A j \in 1..n : s[j] = t[j]
    BY <2>3, <2>4
  <2> QED
    BY <2>5 DEF a, b
<1>3. \A n \in Nat : Same(n) <=> n <= Len(s) /\ n <= Len(t) /\ \A j \in 1..n : s[j] = t[j]
  BY <1>2
<1>4. c = CHOOSE n \in 0..Len(s) : Same(n) /\ ~Same(n + 1)
  BY DEF Art!Common
<1> HIDE DEF Same, c
<1>5. \E n \in 0..Len(s) : Same(n) /\ ~Same(n + 1)
  <2>1. ~Same(Len(s) + 1)
    BY <1>1 DEF Same
  <2>2. S \in SUBSET Nat /\ Len(s) \in S
    BY <1>1, <2>1
  <2>3. PICK n \in S : \A i \in S : n <= i
    <3> HIDE DEF S
    <3> QED
      BY <2>2, LeastNumber
  <2>4. n \in Nat /\ ~Same(n + 1) /\ n <= Len(s)
    BY <2>2, <2>3
  <2>5. Same(n)
    <3>1. CASE n = 0
      BY <1>1, <1>3, <3>1
    <3>2. CASE n # 0
      <4>1. n - 1 \in Nat /\ ~(n <= n - 1) /\ (n - 1) + 1 = n
        BY <2>4, <3>2
      <4> QED
        BY <2>3, <4>1
    <3> QED
      BY <3>1, <3>2
  <2>6. n \in 0..Len(s)
    BY <1>1, <2>4
  <2> QED
    BY <2>4, <2>5, <2>6
<1>6. c \in 0..Len(s) /\ Same(c) /\ ~Same(c + 1)
  BY <1>4, <1>5
<1>7. c \in Nat /\ c + 1 \in Nat
  BY <1>1, <1>6
<1>8. c <= Len(t) /\ \A j \in 1..c : s[j] = t[j]
  BY <1>3, <1>6, <1>7
<1>9. ASSUME c # Len(s), c # Len(t) PROVE s[c + 1] # t[c + 1]
  <2>1. c + 1 <= Len(s) /\ c + 1 <= Len(t)
    BY <1>1, <1>6, <1>7, <1>8, <1>9
  <2>2. PICK j \in 1..(c + 1) : s[j] # t[j]
    BY <1>3, <1>6, <1>7, <2>1
  <2>3. j \notin 1..c
    BY <1>8, <2>2
  <2>4. j = c + 1
    BY <1>7, <2>3
  <2> QED
    BY <2>2, <2>4
<1> QED
  BY <1>6, <1>8, <1>9 DEF c

(* How long a key goes along with what a node spells, d bytes down.        *)
Splits(k, d, s, c) ==
    /\ c \in 0..Len(s) /\ d + c \in d..Len(k)
    /\ \A j \in 1..c : s[j] = k[d + j]
    /\ c = Len(s) \/ d + c = Len(k) \/ s[c + 1] # k[d + c + 1]

(* The common prefix that the code computes is where the key splits.       *)
LEMMA SplitFacts ==
    ASSUME NEW k \in Strings, NEW d \in 0..Len(k), NEW s \in Strings
    PROVE  LET c == Art!Common(s, Art!From(k, d))
           IN  /\ Splits(k, d, s, c)
               /\ Art!Cut(s, c) \in Strings /\ Len(Art!Cut(s, c)) = c
               /\ Spells(k, d, Art!Cut(s, c))
               /\ c = Len(s) => Spells(k, d, s)
<1> DEFINE t == Art!From(k, d)
           c == Art!Common(s, t)
<1>1. Len(s) \in Nat /\ Len(k) \in Nat /\ d \in Nat
  BY StringFacts
<1>2. t \in Strings /\ Len(t) = Len(k) - d /\ \A j \in 1..(Len(k) - d) : t[j] = k[d + j]
  BY FromFacts
<1> HIDE DEF t
<1>3. /\ c \in 0..Len(s) /\ c <= Len(t) /\ \A j \in 1..c : s[j] = t[j]
      /\ c = Len(s) \/ c = Len(t) \/ s[c + 1] # t[c + 1]
  BY <1>2, CommonFacts
<1> HIDE DEF c
<1>4. c \in Nat /\ d + c \in d..Len(k) /\ \A j \in 1..c : j \in 1..(Len(k) - d)
  BY <1>1, <1>2, <1>3
<1>5. \A j \in 1..c : s[j] = k[d + j]
  BY <1>2, <1>3, <1>4
<1>6. ASSUME c # Len(s), d + c # Len(k) PROVE s[c + 1] # k[d + c + 1]
  <2>1. c \in Nat /\ d \in Nat /\ Len(k) \in Nat /\ d + c <= Len(k) /\ d + c # Len(k)
    BY <1>1, <1>4, <1>6
  <2>2. c # Len(k) - d /\ c + 1 \in 1..(Len(k) - d) /\ d + (c + 1) = d + c + 1
    BY ONLY <2>1
  <2>3. t[c + 1] = k[d + c + 1]
    BY <1>2, <2>2
  <2> QED
    BY <1>2, <1>3, <1>6, <2>2, <2>3
<1>7. Splits(k, d, s, c)
  BY <1>3, <1>4, <1>5, <1>6 DEF Splits
<1>8. Art!Cut(s, c) \in Strings /\ Len(Art!Cut(s, c)) = c /\ \A j \in 1..c : Art!Cut(s, c)[j] = s[j]
  BY <1>3, CutFacts
<1>9. Spells(k, d, Art!Cut(s, c))
  BY <1>1, <1>4, <1>5, <1>8 DEF Spells
<1>10. c = Len(s) => Spells(k, d, s)
  BY <1>1, <1>4, <1>5 DEF Spells
<1> QED
  BY <1>7, <1>8, <1>9, <1>10 DEF c, t

-----------------------------------------------------------------------------
(* One string is a proper prefix of the other.                             *)
Tangled(h, k) == ShorterPrefix(h, k) \/ ShorterPrefix(k, h)

(* Strings that differ in a byte are no prefixes of each other.            *)
LEMMA Untangled ==
    ASSUME NEW h, NEW k, Len(h) \in Nat, Len(k) \in Nat,
           NEW m \in Nat, m < Len(h), m < Len(k), h[m + 1] # k[m + 1]
    PROVE  ~Tangled(h, k) /\ h # k
<1>1. m + 1 \in 1..Len(h) /\ m + 1 \in 1..Len(k)
  OBVIOUS
<1> QED
  BY <1>1 DEF Tangled, ShorterPrefix

(* A key below a node that is in the way of the new one.                   *)
Clash(n, d, k) == \E h \in Strings : Via(h, d, k) /\ Held(n, h, d) /\ Tangled(h, k)

(* A key below a node that the new one is a proper prefix of.              *)
Longer(n, d, k) == \E h \in Strings : Via(h, d, k) /\ Held(n, h, d) /\ ShorterPrefix(k, h)

(* What an insert comes to, r for the plain one and x for the one that     *)
(* keeps a value at least as new.                                          *)
Outcome(r, n, d, k, v) ==
    IF Clash(n, d, k) THEN r = Art!Panics
    ELSE Art!IsNode(r) /\ Sound(r, d, k) /\ Stores(r, n, d, k, v)

(* The insert that keeps a resident value does so: no clash, and a         *)
(* resident that is at least as new.                                       *)
Keeps(n, d, k, v) == ~Clash(n, d, k) /\ Look(n, k, d) # None /\ ~(v > Look(n, k, d))

Mono(x, r, n, d, k, v) == x = IF Keeps(n, d, k, v) THEN Art!Absent ELSE r

(* What a leaf has.                                                        *)
LEMMA LeafLooks ==
    ASSUME NEW n, n.type = "leaf", NEW q \in Strings, NEW d, Real(n.value)
    PROVE  /\ Look(n, q, d) = IF n.key = q THEN n.value ELSE None
           /\ Held(n, q, d) <=> n.key = q
  BY LeafAnswers, LookFacts DEF Look

(* A sound node is a node, and neither of the two outcomes that are none.  *)
LEMMA SoundIsNode ==
    ASSUME NEW n, NEW k \in Strings, NEW d \in 0..Len(k), Sound(n, d, k)
    PROVE  Art!IsNode(n) /\ n # Art!Absent /\ n # Art!Panics
<1>1. n.type = "leaf" \/ n.type = "inner"
  BY SoundIsBelow DEF SoundBelow, LeafOK, InnerOK
<1>2. Art!Absent.type = "absent" /\ Art!Panics.type = "panic"
  BY DEF Art!Absent, Art!Panics
<1> QED
  BY <1>1, <1>2 DEF Art!IsNode

(* The key is that of the leaf.                                            *)
LEMMA LeafReplaced ==
    ASSUME NEW n, NEW k \in Strings, NEW d \in 0..Len(k), LeafOK(n, d, k), n.key = k,
           NEW v, Real(v)
    PROVE  /\ ~Clash(n, d, k) /\ Look(n, k, d) = n.value /\ n.value # None
           /\ Sound(Art!Leaf(k, v), d, k) /\ Stores(Art!Leaf(k, v), n, d, k, v)
<1> DEFINE r == Art!Leaf(k, v)
<1>1. n.type = "leaf" /\ Real(n.value) /\ n.value # None
  BY DEF LeafOK, Real
<1>2. r.type = "leaf" /\ r.key = k /\ r.value = v
  BY DEF Art!Leaf
<1> HIDE DEF r
<1>3. /\ \A q \in Strings : Look(n, q, d) = IF k = q THEN n.value ELSE None
      /\ \A q \in Strings : Held(n, q, d) <=> k = q
  BY <1>1, LeafLooks
<1>4. \A q \in Strings : Look(r, q, d) = IF k = q THEN v ELSE None
  BY <1>2, LeafLooks
<1>5. ~Tangled(k, k)
  BY StringFacts DEF Tangled, ShorterPrefix
<1>6. ~Clash(n, d, k)
  BY <1>3, <1>5 DEF Clash
<1>7. Via(k, d, k)
  BY ViaFacts
<1>8. Sound(r, d, k)
  <2>1. LeafOK(r, d, k)
    BY <1>2, <1>7 DEF LeafOK, Real
  <2> QED
    BY <2>1, LeafIsSound
<1>9. Stores(r, n, d, k, v)
  BY <1>3, <1>4 DEF Stores
<1> QED
  BY <1>1, <1>3, <1>6, <1>8, <1>9 DEF r

(* The key leaves that of the leaf at byte m + 1.                          *)
LEMMA LeafSplit ==
    ASSUME NEW n, NEW k \in Strings, NEW d \in 0..Len(k), LeafOK(n, d, k), n.key # k,
           NEW v, Real(v), NEW s \in Strings, Spells(k, d, s), NEW m, m = d + Len(s),
           m < Len(k), m < Len(n.key), \A i \in 1..m : n.key[i] = k[i], n.key[m + 1] # k[m + 1]
    PROVE  LET r == Art!Inner(s, Art!NewPair(n.key[m + 1], n, k[m + 1], Art!Leaf(k, v)))
           IN  Sound(r, d, k) /\ Stores(r, n, d, k, v)
<1> DEFINE b == n.key[m + 1]
<1>1. n.type = "leaf" /\ Real(n.value) /\ n.key \in Strings /\ n # Art!Absent
  BY DEF LeafOK, Real, Via, Art!Absent
<1>2. d \in Nat /\ Len(s) \in Nat /\ Len(k) \in Nat /\ Len(n.key) \in Nat /\ m \in Nat
  BY <1>1, StringFacts
<1>3. m + 1 \in 1..Len(n.key) /\ b \in Art!Bytes
  <2>1. m + 1 \in 1..Len(n.key)
    BY <1>2
  <2> QED
    BY <1>1, <2>1, StringFacts
<1>4. \A q \in Strings : \A e : Look(n, q, e) = IF n.key = q THEN n.value ELSE None
  BY <1>1, LeafLooks
<1> HIDE DEF b
<1>5. ASSUME NEW q \in Strings, Via(q, m, k), m < Len(q), q[m + 1] = b
      PROVE  Sound(n, m + 1, q) /\ Look(n, q, m + 1) = Look(n, q, d)
  <2>1. Len(q) \in Nat /\ m + 1 \in 0..Len(q)
    BY <1>2, <1>5, StringFacts
  <2>2. \A i \in 1..(m + 1) : i \in 1..m \/ i = m + 1
    BY <1>2
  <2>3. \A i \in 1..(m + 1) : n.key[i] = q[i]
    BY <1>5, <2>2 DEF Via, b
  <2>4. Via(n.key, m + 1, q)
    BY <1>1, <1>3, <2>3 DEF Via
  <2>5. LeafOK(n, m + 1, q)
    BY <1>1, <2>4 DEF LeafOK, Real
  <2> QED
    BY <1>4, <2>1, <2>5, LeafIsSound
<1>6. ASSUME NEW q \in Strings, Via(q, d, k), ~(Via(q, m, k) /\ m < Len(q) /\ q[m + 1] = b)
      PROVE  Look(n, q, d) = None
  <2>1. Via(n.key, m, k)
    BY <1>1, <1>2 DEF Via
  <2>2. n.key # q
    BY <1>6, <2>1 DEF b
  <2> QED
    BY <1>4, <2>2
<1>7. b # k[m + 1]
  BY DEF b
<1> DEFINE r == Art!Inner(s, Art!NewPair(b, n, k[m + 1], Art!Leaf(k, v)))
<1>8. Sound(r, d, k) /\ Stores(r, n, d, k, v)
  BY <1>1, <1>3, <1>5, <1>6, <1>7, PairStored
<1> QED
  BY <1>8 DEF b

(* An insert that comes to a leaf: it replaces it, keeps it, splits its    *)
(* bytes or panics.                                                        *)
LEMMA LeafChanged ==
    ASSUME NEW n, NEW k \in Strings, NEW d \in 0..Len(k), LeafOK(n, d, k), NEW v, Real(v)
    PROVE  LET X(always) == Art!Changed(Art!Place(n, d), k, v, always)
           IN  Outcome(X(TRUE), n, d, k, v) /\ Mono(X(FALSE), X(TRUE), n, d, k, v)
<1> DEFINE at == Art!Place(n, d)
           X(always) == Art!Changed(at, k, v, always)
           sp == Art!From(n.key, d)
           c == Art!Common(sp, Art!From(k, d))
           m == d + c
           r == Art!Inner(Art!Cut(sp, c), Art!NewPair(sp[c + 1], n, k[m + 1], Art!Leaf(k, v)))
<1>1. at.node = n /\ at.depth = d /\ n.type = "leaf"
  BY DEF Art!Place, LeafOK
<1>2. n.key \in Strings /\ d \in 0..Len(n.key) /\ Real(n.value) /\ d \in Nat /\ Via(n.key, d, k)
  <2>1. n.key \in Strings /\ d \in Nat /\ d <= Len(n.key) /\ Via(n.key, d, k)
    BY StringFacts DEF LeafOK, Via
  <2>2. d \in 0..Len(n.key)
    BY <2>1, StringFacts
  <2> QED
    BY <2>1, <2>2 DEF LeafOK, Real
<1> HIDE DEF at
<1>3. CASE n.key = k
  <2>1. \A always : X(always) = IF always \/ v > n.value THEN Art!Leaf(k, v) ELSE Art!Absent
    BY <1>1, <1>3 DEF Art!Changed, Art!Lands
  <2>2. /\ ~Clash(n, d, k) /\ Look(n, k, d) = n.value /\ n.value # None
        /\ Sound(Art!Leaf(k, v), d, k) /\ Stores(Art!Leaf(k, v), n, d, k, v)
    BY <1>3, LeafReplaced
  <2>3. X(TRUE) = Art!Leaf(k, v)
    BY <2>1
  <2>4. X(FALSE) = IF v > n.value THEN Art!Leaf(k, v) ELSE Art!Absent
    BY <2>1
  <2>5. Art!IsNode(Art!Leaf(k, v))
    BY <2>2, SoundIsNode
  <2> HIDE DEF X
  <2>6. Outcome(X(TRUE), n, d, k, v) /\ Mono(X(FALSE), X(TRUE), n, d, k, v)
    BY <2>2, <2>3, <2>4, <2>5 DEF Outcome, Mono, Keeps
  <2> QED
    BY <2>6 DEF X, at
<1>4. CASE n.key # k
  <2>1. /\ sp \in Strings /\ Len(sp) = Len(n.key) - d
        /\ \A j \in 1..(Len(n.key) - d) : sp[j] = n.key[d + j]
    BY <1>2, FromFacts
  <2>2. \A always : X(always) =
           IF m = Len(k) \/ m = Len(n.key) THEN Art!Panics
           ELSE IF c < Len(sp) THEN r
           ELSE Art!Inner(n.prefix, Art!Added(n.children, k[m + 1], Art!Leaf(k, v)))
    BY <1>1, <1>4 DEF Art!Changed
  <2> HIDE DEF sp
  <2>3. /\ Splits(k, d, sp, c) /\ Art!Cut(sp, c) \in Strings /\ Len(Art!Cut(sp, c)) = c
        /\ Spells(k, d, Art!Cut(sp, c))
    BY <2>1, SplitFacts
  <2> HIDE DEF c
  <2>4. Len(k) \in Nat /\ Len(n.key) \in Nat /\ Len(sp) \in Nat
    BY <1>2, <2>1, StringFacts
  <2>5. c \in 0..Len(sp) /\ c \in Nat /\ m \in Nat /\ m <= Len(k) /\ m <= Len(n.key)
    BY <1>2, <2>1, <2>3, <2>4 DEF Splits
  <2>6. \A i \in 1..m : n.key[i] = k[i]
    <3> SUFFICES ASSUME NEW i \in 1..m PROVE n.key[i] = k[i]
      OBVIOUS
    <3>1. CASE i \in 1..d
      BY <1>2, <3>1 DEF Via
    <3>2. CASE i \notin 1..d
      <4>1. i - d \in 1..c /\ d + (i - d) = i /\ i - d \in 1..(Len(n.key) - d)
        BY <1>2, <2>1, <2>4, <2>5, <3>2
      <4> QED
        BY <2>1, <2>3, <4>1 DEF Splits
    <3> QED
      BY <3>1, <3>2
  <2>7. /\ \A h \in Strings : Held(n, h, d) <=> n.key = h
        /\ Look(n, k, d) = None
    BY <1>1, <1>2, <1>4, LeafLooks
  <2>8. Clash(n, d, k) <=> Tangled(n.key, k)
    BY <1>2, <2>7 DEF Clash
  <2>9. \A x : Mono(x, x, n, d, k, v)
    BY <2>7 DEF Mono, Keeps
  <2>10. CASE m = Len(k) \/ m = Len(n.key)
    <3>1. X(TRUE) = Art!Panics /\ X(FALSE) = Art!Panics
      BY <2>2, <2>10
    <3>2. Len(k) # Len(n.key)
      <4> SUFFICES ASSUME Len(k) = Len(n.key) PROVE n.key = k
        BY <1>4
      <4>1. Len(n.key) = Len(k) /\ \A i \in 1..Len(n.key) : n.key[i] = k[i]
        BY <2>6, <2>10
      <4> QED
        BY <1>2, <4>1, SeqEqual DEF Strings
    <3>3. Tangled(n.key, k)
      <4>1. CASE m = Len(k)
        <5>1. Len(k) < Len(n.key) /\ \A i \in 1..Len(k) : k[i] = n.key[i]
          BY <2>4, <2>5, <2>6, <3>2, <4>1
        <5> QED
          BY <5>1 DEF Tangled, ShorterPrefix
      <4>2. CASE m = Len(n.key)
        <5>1. Len(n.key) < Len(k) /\ \A i \in 1..Len(n.key) : n.key[i] = k[i]
          BY <2>4, <2>5, <2>6, <3>2, <4>2
        <5> QED
          BY <5>1 DEF Tangled, ShorterPrefix
      <4> QED
        BY <2>10, <4>1, <4>2
    <3> HIDE DEF X
    <3>4. Outcome(X(TRUE), n, d, k, v) /\ Mono(X(FALSE), X(TRUE), n, d, k, v)
      BY <2>8, <2>9, <3>1, <3>3 DEF Outcome
    <3> QED
      BY <3>4 DEF X, at
  <2>11. CASE m # Len(k) /\ m # Len(n.key)
    <3>1. m < Len(k) /\ m < Len(n.key) /\ c < Len(sp) /\ c + 1 \in 1..(Len(n.key) - d) /\ d + (c + 1) = m + 1
      BY <1>2, <2>1, <2>4, <2>5, <2>11
    <3>2. sp[c + 1] = n.key[m + 1] /\ sp[c + 1] # k[m + 1]
      <4>1. sp[c + 1] = n.key[m + 1]
        BY <2>1, <3>1
      <4>2. c # Len(sp) /\ d + c # Len(k)
        BY <2>4, <2>5, <3>1
      <4> QED
        BY <2>3, <4>1, <4>2 DEF Splits
    <3>3. X(TRUE) = r /\ X(FALSE) = r
      BY <2>2, <2>11, <3>1
    <3>4. Sound(r, d, k) /\ Stores(r, n, d, k, v)
      <4> DEFINE s == Art!Cut(sp, c)
                 M == m
      <4>1. /\ s \in Strings /\ Spells(k, d, s) /\ M = d + Len(s) /\ M < Len(k) /\ M < Len(n.key)
            /\ \A i \in 1..M : n.key[i] = k[i]
            /\ n.key[M + 1] # k[M + 1] /\ sp[c + 1] = n.key[M + 1]
        BY <2>3, <2>6, <3>1, <3>2
      <4>2. r = Art!Inner(s, Art!NewPair(sp[c + 1], n, k[M + 1], Art!Leaf(k, v)))
        OBVIOUS
      <4> HIDE DEF s, M, r
      <4> QED
        BY <1>4, <4>1, <4>2, LeafSplit
    <3>5. ~Clash(n, d, k)
      BY <2>4, <2>5, <2>8, <3>1, <3>2, Untangled
    <3>6. Art!IsNode(r)
      BY <3>4, SoundIsNode
    <3> HIDE DEF X, r
    <3>7. Outcome(X(TRUE), n, d, k, v) /\ Mono(X(FALSE), X(TRUE), n, d, k, v)
      BY <2>9, <3>3, <3>4, <3>5, <3>6 DEF Outcome
    <3> QED
      BY <3>7 DEF X, at
  <2> QED
    BY <2>10, <2>11
<1> QED
  BY <1>3, <1>4

(* Those that go the way of k to byte m, and there have b.                 *)
Turns(q, m, b, k) == Via(q, m, k) /\ m < Len(q) /\ q[m + 1] = b

(* They begin alike one byte further.                                      *)
LEMMA TurnsAlike ==
    ASSUME NEW k, NEW m \in Nat, NEW b, NEW q, NEW r, Turns(q, m, b, k)
    PROVE  /\ Turns(r, m, b, k) => Via(r, m + 1, q)
           /\ Via(r, m + 1, q) => Turns(r, m, b, k)
<1>1. q \in Strings /\ Len(q) \in Nat /\ m + 1 <= Len(q) /\ \A i \in 1..m : q[i] = k[i]
  <2>1. q \in Strings /\ m < Len(q) /\ \A i \in 1..m : q[i] = k[i]
    BY DEF Turns, Via
  <2>2. Len(q) \in Nat
    BY <2>1, StringFacts
  <2> QED
    BY <2>1, <2>2
<1>2. \A i \in 1..(m + 1) : i \in 1..m \/ i = m + 1
  OBVIOUS
<1>3. m + 1 \in 1..(m + 1) /\ \A i \in 1..m : i \in 1..(m + 1)
  OBVIOUS
<1>4. ASSUME Turns(r, m, b, k) PROVE Via(r, m + 1, q)
  <2>1. r \in Strings /\ Len(r) \in Nat /\ m + 1 <= Len(r) /\ \A i \in 1..m : r[i] = k[i]
    <3>1. r \in Strings /\ m < Len(r) /\ \A i \in 1..m : r[i] = k[i]
      BY <1>4 DEF Turns, Via
    <3>2. Len(r) \in Nat
      BY <3>1, StringFacts
    <3> QED
      BY <3>1, <3>2
  <2>2. r[m + 1] = b /\ q[m + 1] = b
    BY <1>4 DEF Turns
  <2> QED
    BY <1>1, <1>2, <2>1, <2>2 DEF Via
<1>5. ASSUME Via(r, m + 1, q) PROVE Turns(r, m, b, k)
  <2>1. r \in Strings /\ Len(r) \in Nat /\ m + 1 <= Len(r) /\ \A i \in 1..(m + 1) : r[i] = q[i]
    BY <1>5, StringFacts DEF Via
  <2>2. m <= Len(r) /\ m < Len(r)
    BY <2>1
  <2>3. \A i \in 1..m : r[i] = k[i]
    BY <1>1, <1>3, <2>1
  <2>4. r[m + 1] = b
    BY <1>3, <2>1 DEF Turns
  <2> QED
    BY <2>1, <2>2, <2>3, <2>4 DEF Turns, Via
<1> QED
  BY <1>4, <1>5

(* What is left of a node below a split of its prefix at byte c + 1: the   *)
(* ways through it go on as before.                                        *)
LEMMA RestGoes ==
    ASSUME NEW n, InnerOK(n), NEW k \in Strings, NEW d \in 0..Len(k),
           NEW c, Splits(k, d, n.prefix, c), c < Len(n.prefix), NEW q, Via(q, d, k)
    PROVE  LET low == Art!Inner(Art!SplitRest(n.prefix, c), n.children)
               m == d + c
               b == n.prefix[c + 1]
           IN  /\ InnerOK(low)
               /\ Goes(n, d, q) => Turns(q, m, b, k)
               /\ Turns(q, m, b, k) =>
                     /\ Goes(low, m + 1, q) <=> Goes(n, d, q)
                     /\ Child(low, m + 1, q) = Child(n, d, q)
                     /\ Depth(low, m + 1) = Depth(n, d)
<1> DEFINE p == n.prefix
           low == Art!Inner(Art!SplitRest(p, c), n.children)
           m == d + c
           b == p[c + 1]
<1>1. n.type = "inner" /\ p \in Strings /\ Kept(n.children)
  BY DEF InnerOK
<1>2. low.type = "inner" /\ low.prefix = Art!From(p, c + 1) /\ low.children = n.children
  BY DEF Art!Inner, Art!SplitRest
<1> HIDE DEF low
<1>3. InnerOK(n) => \E a, e \in Art!Bytes :
         a # e /\ Art!ChildOf(n.children, a) # Art!Absent /\ Art!ChildOf(n.children, e) # Art!Absent
  BY DEF InnerOK
<1>4. /\ Len(p) \in Nat /\ Len(k) \in Nat /\ d \in Nat /\ c \in Nat /\ m \in Nat
      /\ c + 1 \in 0..Len(p) /\ c + 1 \in 1..Len(p)
  BY <1>1, StringFacts DEF Splits
<1>5. /\ low.prefix \in Strings /\ Len(low.prefix) = Len(p) - (c + 1)
      /\ \A j \in 1..(Len(p) - (c + 1)) : low.prefix[j] = p[(c + 1) + j]
  <2> DEFINE e == c + 1
  <2>1. e \in 0..Len(p)
    BY <1>4
  <2> HIDE DEF e
  <2>2. /\ Art!From(p, e) \in Strings /\ Len(Art!From(p, e)) = Len(p) - e
        /\ \A j \in 1..(Len(p) - e) : Art!From(p, e)[j] = p[e + j]
    BY <1>1, <2>1, FromFacts
  <2>3. low.prefix = Art!From(p, e)
    BY <1>2 DEF e
  <2>4. /\ low.prefix \in Strings /\ Len(low.prefix) = Len(p) - e
        /\ \A j \in 1..(Len(p) - e) : low.prefix[j] = p[e + j]
    BY <2>2, <2>3
  <2> QED
    BY <2>4 DEF e
<1>6. InnerOK(low)
  BY <1>1, <1>2, <1>3, <1>5 DEF InnerOK
<1>7. \A j \in 1..c : p[j] = k[d + j]
  BY DEF Splits
<1>8. q \in Strings /\ Len(q) \in Nat /\ d <= Len(q) /\ d \in 0..Len(q) /\ \A i \in 1..d : q[i] = k[i]
  BY <1>4, StringFacts DEF Via
<1>9. ASSUME Spells(q, d, p) PROVE Turns(q, m, b, k)
  <2>1. d + Len(p) <= Len(q) /\ \A j \in 1..Len(p) : q[d + j] = p[j]
    BY <1>9 DEF Spells
  <2>2. m < Len(q) /\ m <= Len(q) /\ m + 1 = d + (c + 1)
    BY <1>4, <1>8, <2>1
  <2>3. q[m + 1] = b
    BY <1>4, <2>1, <2>2
  <2>4. ASSUME NEW i \in 1..m PROVE q[i] = k[i]
    <3>1. CASE i \in 1..d
      BY <1>8, <3>1
    <3>2. CASE i \notin 1..d
      <4>1. i - d \in 1..c /\ i - d \in 1..Len(p) /\ d + (i - d) = i
        BY <1>4, <3>2
      <4> QED
        BY <1>7, <2>1, <4>1
    <3> QED
      BY <3>1, <3>2
  <2> QED
    BY <1>8, <2>2, <2>3, <2>4 DEF Turns, Via
<1>10. /\ Goes(n, d, q) <=>
             /\ Spells(q, d, p) /\ d + Len(p) < Len(q)
             /\ Art!ChildOf(n.children, q[d + Len(p) + 1]) # Art!Absent
       /\ Child(n, d, q) = Art!ChildOf(n.children, q[d + Len(p) + 1])
       /\ Depth(n, d) = d + Len(p) + 1
  BY <1>1, <1>8, GoesFacts
<1>11. ASSUME Turns(q, m, b, k)
       PROVE  /\ Goes(low, m + 1, q) <=> Goes(n, d, q)
              /\ Child(low, m + 1, q) = Child(n, d, q)
              /\ Depth(low, m + 1) = Depth(n, d)
  <2>1. m < Len(q) /\ q[m + 1] = b /\ \A i \in 1..m : q[i] = k[i]
    BY <1>11 DEF Turns, Via
  <2>2. m + 1 \in 0..Len(q)
    BY <1>4, <1>8, <2>1
  <2>3. (m + 1) + Len(low.prefix) = d + Len(p)
    <3> DEFINE w == Len(low.prefix)
               z == Len(p)
    <3>1. w = z - (c + 1) /\ z \in Nat /\ c \in Nat /\ d \in Nat
      BY <1>4, <1>5
    <3> HIDE DEF w, z
    <3>2. ((d + c) + 1) + w = d + z
      BY <3>1
    <3> QED
      BY <3>2 DEF w, z
  <2>4. /\ Goes(low, m + 1, q) <=>
              /\ Spells(q, m + 1, low.prefix) /\ d + Len(p) < Len(q)
              /\ Art!ChildOf(n.children, q[d + Len(p) + 1]) # Art!Absent
        /\ Child(low, m + 1, q) = Art!ChildOf(n.children, q[d + Len(p) + 1])
        /\ Depth(low, m + 1) = d + Len(p) + 1
    <3> DEFINE e == m + 1
    <3>1. e \in 0..Len(q) /\ q \in Strings /\ low.prefix \in Strings
      BY <1>5, <1>8, <2>2
    <3> HIDE DEF e
    <3>2. /\ Goes(low, e, q) <=>
                /\ low.type = "inner" /\ Spells(q, e, low.prefix) /\ e + Len(low.prefix) < Len(q)
                /\ Art!ChildOf(low.children, q[e + Len(low.prefix) + 1]) # Art!Absent
          /\ Child(low, e, q) = Art!ChildOf(low.children, q[e + Len(low.prefix) + 1])
          /\ Depth(low, e) = e + Len(low.prefix) + 1
      BY <3>1, GoesFacts
    <3>3. e + Len(low.prefix) = d + Len(p)
      BY <2>3 DEF e
    <3>4. /\ Goes(low, e, q) <=>
                /\ Spells(q, e, low.prefix) /\ d + Len(p) < Len(q)
                /\ Art!ChildOf(n.children, q[d + Len(p) + 1]) # Art!Absent
          /\ Child(low, e, q) = Art!ChildOf(n.children, q[d + Len(p) + 1])
          /\ Depth(low, e) = d + Len(p) + 1
      BY <1>2, <3>2, <3>3
    <3> QED
      BY <3>4 DEF e
  <2>5. ASSUME Spells(q, d, p) PROVE Spells(q, m + 1, low.prefix)
    <3>1. d + Len(p) <= Len(q) /\ \A j \in 1..Len(p) : q[d + j] = p[j]
      BY <2>5 DEF Spells
    <3>2. ASSUME NEW j \in 1..Len(low.prefix) PROVE q[(m + 1) + j] = low.prefix[j]
      <4>1. (c + 1) + j \in 1..Len(p) /\ d + ((c + 1) + j) = (m + 1) + j /\ j \in 1..(Len(p) - (c + 1))
        BY <1>4, <1>5
      <4> QED
        BY <1>5, <3>1, <4>1
    <3> QED
      BY <2>3, <3>1, <3>2 DEF Spells
  <2>6. ASSUME Spells(q, m + 1, low.prefix) PROVE Spells(q, d, p)
    <3>1. (m + 1) + Len(low.prefix) <= Len(q) /\ \A j \in 1..Len(low.prefix) : q[(m + 1) + j] = low.prefix[j]
      BY <2>6 DEF Spells
    <3>2. ASSUME NEW j \in 1..Len(p) PROVE q[d + j] = p[j]
      <4>1. CASE j \in 1..c
        <5>1. d + j \in 1..m
          BY <1>4, <4>1
        <5> QED
          BY <1>7, <2>1, <4>1, <5>1
      <4>2. CASE j = c + 1
        BY <1>4, <2>1, <4>2
      <4>3. CASE j \notin 1..(c + 1)
        <5>1. /\ j - (c + 1) \in 1..Len(low.prefix) /\ j - (c + 1) \in 1..(Len(p) - (c + 1))
              /\ (m + 1) + (j - (c + 1)) = d + j /\ (c + 1) + (j - (c + 1)) = j
          BY <1>4, <1>5, <4>3
        <5> QED
          BY <1>5, <3>1, <5>1
      <4>4. j \in 1..c \/ j = c + 1 \/ j \notin 1..(c + 1)
        BY <1>4
      <4> QED
        BY <4>1, <4>2, <4>3, <4>4
    <3> QED
      BY <2>3, <3>1, <3>2 DEF Spells
  <2> QED
    BY <1>10, <2>4, <2>5, <2>6
<1>12. Goes(n, d, q) => Turns(q, m, b, k)
  BY <1>9, <1>10
<1> HIDE DEF p
<1> QED
  BY <1>6, <1>11, <1>12 DEF low, p

(* What is left of the node is sound and has what it had.                  *)
LEMMA RestIsSound ==
    ASSUME NEW n, InnerOK(n), NEW k \in Strings, NEW d \in 0..Len(k), Sound(n, d, k),
           NEW c, Splits(k, d, n.prefix, c), c < Len(n.prefix),
           NEW q, Turns(q, d + c, n.prefix[c + 1], k)
    PROVE  LET low == Art!Inner(Art!SplitRest(n.prefix, c), n.children)
           IN  Sound(low, d + c + 1, q) /\ Look(low, q, d + c + 1) = Look(n, q, d)
<1> DEFINE low == Art!Inner(Art!SplitRest(n.prefix, c), n.children)
           m == d + c
           b == n.prefix[c + 1]
<1>1. d \in Nat /\ c \in Nat /\ m \in Nat /\ d <= m
  BY StringFacts DEF Splits
<1>2. \A r : Turns(r, m, b, k) => Via(r, d, k) /\ Via(r, m + 1, q)
  BY <1>1, ViaFacts, TurnsAlike DEF Turns
<1>3. \A r : Via(r, m + 1, q) => Turns(r, m, b, k)
  BY <1>1, TurnsAlike
<1>4. InnerOK(low)
  <2>1. Via(q, d, k)
    BY <1>2
  <2> QED
    BY <2>1, RestGoes
<1>5. ASSUME NEW r, Turns(r, m, b, k)
      PROVE  /\ Goes(low, m + 1, r) <=> Goes(n, d, r)
             /\ Child(low, m + 1, r) = Child(n, d, r)
             /\ Depth(low, m + 1) = Depth(n, d)
  BY <1>2, <1>5, RestGoes
<1>6. \A r : Via(r, d, k) /\ Goes(n, d, r) => Turns(r, m, b, k)
  BY RestGoes
<1>7. SoundBelow(n, d, k) /\ Inhabited(n, d, k)
  BY SoundIsBelow
<1>8. \A r : Turns(r, m, b, k) => r \in Strings /\ d \in 0..Len(r) /\ m + 1 \in 0..Len(r)
  <2> SUFFICES ASSUME NEW r, Turns(r, m, b, k)
               PROVE  r \in Strings /\ d \in 0..Len(r) /\ m + 1 \in 0..Len(r)
    OBVIOUS
  <2>1. r \in Strings /\ Len(r) \in Nat /\ m < Len(r)
    BY StringFacts DEF Turns, Via
  <2> QED
    BY <1>1, <2>1
<1> HIDE DEF low, b, m
<1>9. SoundBelow(low, m + 1, q)
  <2>1. ASSUME NEW r \in Strings, Via(r, m + 1, q), Goes(low, m + 1, r)
        PROVE  Sound(Child(low, m + 1, r), Depth(low, m + 1), r)
    <3>1. Turns(r, m, b, k)
      BY <1>3, <2>1
    <3>2. Via(r, d, k) /\ Goes(n, d, r)
      BY <1>2, <1>5, <2>1, <3>1
    <3>3. Sound(Child(n, d, r), Depth(n, d), r)
      BY <1>7, <3>2 DEF SoundBelow
    <3> QED
      BY <1>5, <3>1, <3>3
  <2> QED
    BY <1>4, <2>1 DEF SoundBelow
<1>10. ASSUME NEW r, Turns(r, m, b, k) PROVE Look(low, r, m + 1) = Look(n, r, d)
  <2>1. Look(low, r, m + 1) = IF Goes(low, m + 1, r) THEN Look(Child(low, m + 1, r), r, Depth(low, m + 1)) ELSE None
    BY <1>2, <1>4, <1>8, <1>9, <1>10, InnerLooks
  <2>2. Look(n, r, d) = IF Goes(n, d, r) THEN Look(Child(n, d, r), r, Depth(n, d)) ELSE None
    BY <1>2, <1>7, <1>8, <1>10, InnerLooks
  <2> QED
    BY <1>5, <1>10, <2>1, <2>2
<1>11. Turns(q, m, b, k)
  BY DEF m, b
<1>12. Inhabited(low, m + 1, q)
  <2>1. PICK h \in Strings : Via(h, d, k) /\ Held(n, h, d)
    BY <1>7 DEF Inhabited
  <2>2. Look(n, h, d) # None
    BY <2>1, LookFacts
  <2>3. d \in 0..Len(h)
    BY <1>1, <2>1, StringFacts DEF Via
  <2>4. Goes(n, d, h)
    BY <2>1, <2>2, <2>3, InnerAnswers
  <2>5. Turns(h, m, b, k)
    BY <1>6, <2>1, <2>4
  <2>6. Held(low, h, m + 1) /\ Via(h, m + 1, q)
    BY <1>2, <1>10, <2>2, <2>5, LookFacts
  <2> QED
    BY <2>6 DEF Inhabited
<1>13. Sound(low, m + 1, q)
  BY <1>8, <1>9, <1>11, <1>12, BelowIsSound
<1> QED
  BY <1>10, <1>11, <1>13 DEF low, m

(* The key leaves the prefix of the node at byte c + 1.                    *)
LEMMA InnerSplit ==
    ASSUME NEW n, InnerOK(n), NEW k \in Strings, NEW d \in 0..Len(k), Sound(n, d, k),
           NEW v, Real(v), NEW c, Splits(k, d, n.prefix, c), c < Len(n.prefix), d + c < Len(k),
           NEW s \in Strings, Len(s) = c, Spells(k, d, s)
    PROVE  LET low == Art!Inner(Art!SplitRest(n.prefix, c), n.children)
               r == Art!Inner(s, Art!NewPair(n.prefix[c + 1], low, k[d + c + 1], Art!Leaf(k, v)))
           IN  /\ Sound(r, d, k) /\ Stores(r, n, d, k, v)
               /\ ~Clash(n, d, k)
<1> DEFINE low == Art!Inner(Art!SplitRest(n.prefix, c), n.children)
           m == d + c
           b == n.prefix[c + 1]
           r == Art!Inner(s, Art!NewPair(b, low, k[m + 1], Art!Leaf(k, v)))
<1>1. d \in Nat /\ c \in Nat /\ m \in Nat /\ Len(k) \in Nat /\ d <= m
  BY StringFacts DEF Splits
<1>2. n.prefix \in Strings /\ c + 1 \in 1..Len(n.prefix) /\ b \in Art!Bytes
  <2>1. n.prefix \in Strings /\ Len(n.prefix) \in Nat
    BY StringFacts DEF InnerOK
  <2>2. c + 1 \in 1..Len(n.prefix)
    BY <1>1, <2>1
  <2> QED
    BY <2>1, <2>2, StringFacts
<1>3. b # k[m + 1]
  BY <1>1, <1>2 DEF Splits
<1>4. low # Art!Absent
  BY DEF Art!Inner, Art!Absent
<1>5. \A q : Turns(q, m, b, k) => Sound(low, m + 1, q) /\ Look(low, q, m + 1) = Look(n, q, d)
  BY RestIsSound
<1>6. \A q : Via(q, d, k) /\ Goes(n, d, q) => Turns(q, m, b, k)
  BY RestGoes
<1> HIDE DEF low, b
<1>7. ASSUME NEW q \in Strings, Via(q, d, k), ~Turns(q, m, b, k) PROVE Look(n, q, d) = None
  <2>1. d \in 0..Len(q)
    BY <1>1, <1>7, StringFacts DEF Via
  <2> QED
    BY <1>6, <1>7, <2>1, InnerAnswers
<1> DEFINE M == m
<1>8. M \in Nat /\ M = d + Len(s) /\ M < Len(k) /\ b # k[M + 1]
  BY <1>1, <1>3
<1>9. r = Art!Inner(s, Art!NewPair(b, low, k[M + 1], Art!Leaf(k, v)))
  OBVIOUS
<1>10. /\ \A q : Turns(q, M, b, k) => Sound(low, M + 1, q) /\ Look(low, q, M + 1) = Look(n, q, d)
       /\ \A q : Via(q, d, k) /\ Goes(n, d, q) => Turns(q, M, b, k)
       /\ \A q \in Strings : Via(q, d, k) /\ ~Turns(q, M, b, k) => Look(n, q, d) = None
  BY <1>5, <1>6, <1>7
<1> HIDE DEF m, M, r
<1>11. Sound(r, d, k) /\ Stores(r, n, d, k, v)
  <2>1. /\ \A q \in Strings : Via(q, M, k) /\ M < Len(q) /\ q[M + 1] = b =>
              Sound(low, M + 1, q) /\ Look(low, q, M + 1) = Look(n, q, d)
        /\ \A q \in Strings : Via(q, d, k) /\ ~(Via(q, M, k) /\ M < Len(q) /\ q[M + 1] = b) =>
              Look(n, q, d) = None
    BY <1>10 DEF Turns
  <2> DEFINE r2 == Art!Inner(s, Art!NewPair(b, low, k[M + 1], Art!Leaf(k, v)))
  <2>2. Sound(r2, d, k) /\ Stores(r2, n, d, k, v)
    BY <1>2, <1>4, <1>8, <2>1, PairStored
  <2> QED
    BY <1>9, <2>2
<1>12. ASSUME NEW h \in Strings, Via(h, d, k), Held(n, h, d) PROVE ~Tangled(h, k)
  <2>1. d \in 0..Len(h) /\ Len(h) \in Nat
    BY <1>1, <1>12, StringFacts DEF Via
  <2>2. Look(n, h, d) # None
    BY <1>12, LookFacts
  <2>3. M < Len(h) /\ h[M + 1] = b
    BY <1>10, <1>12, <2>2 DEF Turns
  <2> QED
    BY <1>1, <1>8, <2>1, <2>3, Untangled
<1>13. ~Clash(n, d, k)
  BY <1>12 DEF Clash
<1> QED
  BY <1>11, <1>13 DEF r, low, b, m

(* The key ends within the prefix of the node, or with it.                 *)
LEMMA InnerClash ==
    ASSUME NEW n, InnerOK(n), NEW k \in Strings, NEW d \in 0..Len(k), Sound(n, d, k),
           NEW c, Splits(k, d, n.prefix, c), d + c = Len(k)
    PROVE  Longer(n, d, k) /\ Clash(n, d, k)
<1>1. PICK h \in Strings : Via(h, d, k) /\ Held(n, h, d)
  BY SoundIsBelow DEF Inhabited
<1>2. d \in 0..Len(h) /\ Len(h) \in Nat /\ Len(k) \in Nat /\ d \in Nat /\ c \in Nat
  BY <1>1, StringFacts DEF Via, Splits
<1>3. n.type = "inner" /\ n.prefix \in Strings /\ Len(n.prefix) \in Nat
  BY StringFacts DEF InnerOK
<1>4. Look(n, h, d) # None
  BY <1>1, LookFacts
<1>5. Goes(n, d, h)
  BY <1>1, <1>2, <1>4, InnerAnswers
<1>6. Spells(h, d, n.prefix) /\ d + Len(n.prefix) < Len(h)
  BY <1>2, <1>3, <1>5, GoesFacts
<1>7. c <= Len(n.prefix) /\ \A j \in 1..c : j \in 1..Len(n.prefix) /\ n.prefix[j] = k[d + j]
  BY <1>2, <1>3 DEF Splits
<1>8. Len(k) < Len(h)
  BY <1>2, <1>3, <1>6, <1>7
<1>9. ASSUME NEW i \in 1..Len(k) PROVE k[i] = h[i]
  <2>1. CASE i \in 1..d
    BY <1>1, <2>1 DEF Via
  <2>2. CASE i \notin 1..d
    <3>1. i - d \in 1..c /\ d + (i - d) = i
      BY <1>2, <2>2
    <3> QED
      BY <1>6, <1>7, <3>1 DEF Spells
  <2> QED
    BY <2>1, <2>2
<1>10. ShorterPrefix(k, h)
  BY <1>8, <1>9 DEF ShorterPrefix
<1> QED
  BY <1>1, <1>10 DEF Clash, Longer, Tangled

(* The key spells the prefix, and the node has no child under its next     *)
(* byte.                                                                   *)
LEMMA InnerGains ==
    ASSUME NEW n, InnerOK(n), NEW k \in Strings, NEW d \in 0..Len(k), Sound(n, d, k),
           ~Goes(n, d, k), NEW v, Real(v), Spells(k, d, n.prefix), NEW f, f = d + Len(n.prefix), f < Len(k)
    PROVE  LET r == Art!Inner(n.prefix, Art!Added(n.children, k[f + 1], Art!Leaf(k, v)))
           IN  /\ Sound(r, d, k) /\ Stores(r, n, d, k, v)
               /\ ~Clash(n, d, k)
<1> DEFINE leaf == Art!Leaf(k, v)
           ch == Art!Added(n.children, k[f + 1], leaf)
           r == Art!Inner(n.prefix, ch)
<1>1. n.type = "inner" /\ n.prefix \in Strings /\ Kept(n.children)
  BY DEF InnerOK
<1>2. /\ Len(k) \in Nat /\ d \in Nat /\ Len(n.prefix) \in Nat /\ f \in Nat
      /\ f + 1 \in 1..Len(k) /\ f + 1 \in 0..Len(k)
  <2>1. Len(k) \in Nat /\ Len(n.prefix) \in Nat
    BY <1>1, StringFacts
  <2>2. d \in Nat
    BY <2>1
  <2> QED
    BY <2>1, <2>2
<1>3. k[f + 1] \in Art!Bytes
  BY <1>2, StringFacts
<1>4. Art!ChildOf(n.children, k[f + 1]) = Art!Absent
  BY <1>1, GoesFacts
<1>5. leaf # Art!Absent /\ leaf.type = "leaf" /\ leaf.key = k /\ leaf.value = v
  BY DEF Art!Leaf, Art!Absent
<1> HIDE DEF leaf
<1>6. Gains(n.children, k[f + 1], leaf, ch)
  BY <1>1, <1>3, <1>4, <1>5, AddedFacts
<1> HIDE DEF ch
<1>7. Depth(n, d) = f + 1
  BY <1>1, <1>2, GoesFacts
<1>8. Via(k, f + 1, k)
  BY <1>2, ViaFacts
<1>9. Sound(leaf, f + 1, k)
  <2>1. LeafOK(leaf, f + 1, k)
    BY <1>5, <1>8 DEF LeafOK, Real
  <2> QED
    BY <1>2, <2>1, LeafIsSound
<1>10. ASSUME NEW q \in Strings, Via(q, d, k), Goes(n, d, q)
       PROVE  ~Via(q, f + 1, k) /\ f < Len(q) /\ q[f + 1] # k[f + 1]
  <2>1. d \in 0..Len(q) /\ Len(q) \in Nat
    BY <1>2, <1>10, StringFacts DEF Via
  <2>2. Spells(q, d, n.prefix) /\ f < Len(q) /\ Art!ChildOf(n.children, q[f + 1]) # Art!Absent
    BY <1>1, <1>10, <2>1, GoesFacts
  <2>3. q[f + 1] # k[f + 1]
    BY <1>4, <2>2
  <2>4. f + 1 \in 1..(f + 1)
    BY <1>2
  <2> QED
    BY <2>2, <2>3, <2>4 DEF Via
<1>11. ASSUME NEW q \in Strings, Via(q, f + 1, k)
       PROVE  Look(leaf, q, f + 1) = IF q = k THEN v ELSE Look(n, q, d)
  <2>1. Via(q, d, k) /\ d \in 0..Len(q)
    <3>1. d <= f + 1
      BY <1>2
    <3>2. Via(q, d, k)
      BY <1>2, <1>11, <3>1, ViaFacts
    <3> QED
      BY <1>2, <3>2, StringFacts DEF Via
  <2>2. Look(n, q, d) = None
    BY <1>10, <1>11, <2>1, InnerAnswers
  <2>3. Look(leaf, q, f + 1) = IF leaf.key = q THEN leaf.value ELSE None
    BY <1>5, LeafLooks
  <2> QED
    BY <1>5, <2>2, <2>3
<1>12. Sound(r, d, k) /\ Stores(r, n, d, k, v)
  <2>1. /\ Sound(leaf, Depth(n, d), k)
        /\ Gains(n.children, k[d + Len(n.prefix) + 1], leaf, ch)
        /\ \A q \in Strings : Via(q, Depth(n, d), k) =>
              Look(leaf, q, Depth(n, d)) = IF q = k THEN v ELSE Look(n, q, d)
        /\ d + Len(n.prefix) < Len(k)
    BY <1>6, <1>7, <1>9, <1>11
  <2> QED
    BY <1>5, <2>1, ChildStored
<1>13. ASSUME NEW h \in Strings, Via(h, d, k), Held(n, h, d) PROVE ~Tangled(h, k)
  <2>1. d \in 0..Len(h) /\ Len(h) \in Nat
    BY <1>2, <1>13, StringFacts DEF Via
  <2>2. Look(n, h, d) # None
    BY <1>13, LookFacts
  <2>3. Goes(n, d, h)
    BY <2>1, <2>2, InnerAnswers
  <2> QED
    BY <1>2, <1>10, <1>13, <2>1, <2>3, Untangled
<1>14. ~Clash(n, d, k)
  BY <1>13 DEF Clash
<1> QED
  BY <1>12, <1>14 DEF r, ch, leaf

(* An insert that stops at an inner node: it splits the prefix, adds a     *)
(* child or panics.                                                        *)
LEMMA InnerChanged ==
    ASSUME NEW n, InnerOK(n), NEW k \in Strings, NEW d \in 0..Len(k), Sound(n, d, k),
           ~Goes(n, d, k), NEW v, Real(v)
    PROVE  LET X(always) == Art!Changed(Art!Place(n, d), k, v, always)
           IN  Outcome(X(TRUE), n, d, k, v) /\ Mono(X(FALSE), X(TRUE), n, d, k, v)
<1> DEFINE at == Art!Place(n, d)
           X(always) == Art!Changed(at, k, v, always)
           p == n.prefix
           c == Art!Common(p, Art!From(k, d))
           s == Art!Cut(p, c)
           m == d + c
           low == Art!Inner(Art!SplitRest(p, c), n.children)
           split == Art!Inner(s, Art!NewPair(p[c + 1], low, k[m + 1], Art!Leaf(k, v)))
           more == Art!Inner(p, Art!Added(n.children, k[m + 1], Art!Leaf(k, v)))
<1>1. at.node = n /\ at.depth = d
  BY DEF Art!Place
<1> HIDE DEF at
<1>2. n.type = "inner" /\ p \in Strings /\ n.type # "leaf"
  BY DEF InnerOK
<1>3. \A always : X(always) = IF m = Len(k) THEN Art!Panics
                              ELSE IF c < Len(p) THEN split ELSE more
  BY <1>1, <1>2 DEF Art!Changed
<1>4. Splits(k, d, p, c) /\ s \in Strings /\ Len(s) = c /\ Spells(k, d, s) /\ (c = Len(p) => Spells(k, d, p))
  BY <1>2, SplitFacts
<1> HIDE DEF c, s
<1>5. /\ d \in Nat /\ c \in Nat /\ Len(k) \in Nat /\ Len(p) \in Nat
      /\ c <= Len(p) /\ m <= Len(k)
  BY <1>2, <1>4, StringFacts DEF Splits
<1>6. Look(n, k, d) = None
  BY InnerAnswers
<1>7. \A x : Mono(x, x, n, d, k, v)
  BY <1>6 DEF Mono, Keeps
<1>8. X(FALSE) = X(TRUE)
  BY <1>3
<1>9. Outcome(X(TRUE), n, d, k, v)
  <2>1. CASE m = Len(k)
    <3>1. X(TRUE) = Art!Panics
      BY <1>3, <2>1
    <3>2. Clash(n, d, k)
      BY <1>4, <2>1, InnerClash
    <3> HIDE DEF X
    <3> QED
      BY <3>1, <3>2 DEF Outcome
  <2>2. CASE m # Len(k) /\ c < Len(p)
    <3>1. X(TRUE) = split
      BY <1>3, <2>2
    <3>2. d + c < Len(k)
      BY <1>5, <2>2
    <3>3. Sound(split, d, k) /\ Stores(split, n, d, k, v) /\ ~Clash(n, d, k)
      BY <1>4, <2>2, <3>2, InnerSplit
    <3>4. Art!IsNode(split)
      BY <3>3, SoundIsNode
    <3> HIDE DEF X, split
    <3> QED
      BY <3>1, <3>3, <3>4 DEF Outcome
  <2>3. CASE m # Len(k) /\ ~(c < Len(p))
    <3>1. X(TRUE) = more
      BY <1>3, <2>3
    <3>2. c = Len(p) /\ Spells(k, d, p) /\ m = d + Len(p) /\ m < Len(k)
      BY <1>4, <1>5, <2>3
    <3>3. Sound(more, d, k) /\ Stores(more, n, d, k, v) /\ ~Clash(n, d, k)
      BY <3>2, InnerGains
    <3>4. Art!IsNode(more)
      BY <3>3, SoundIsNode
    <3> HIDE DEF X, more
    <3> QED
      BY <3>1, <3>3, <3>4 DEF Outcome
  <2> QED
    BY <2>1, <2>2, <2>3
<1> HIDE DEF X
<1>10. Outcome(X(TRUE), n, d, k, v) /\ Mono(X(FALSE), X(TRUE), n, d, k, v)
  BY <1>7, <1>8, <1>9
<1> QED
  BY <1>10 DEF X, at

-----------------------------------------------------------------------------
(* What an insert makes of the nodes on its way, from the end upwards.     *)

(* Below a node that the way goes on from, all is as below its child.      *)
LEMMA ChildLooks ==
    ASSUME NEW n, NEW k \in Strings, NEW d \in 0..Len(k), Sound(n, d, k), Goes(n, d, k)
    PROVE  LET c == Child(n, d, k)
               e == Depth(n, d)
           IN  /\ \A q \in Strings : Via(q, e, k) => Via(q, d, k) /\ Look(n, q, d) = Look(c, q, e)
               /\ Clash(n, d, k) <=> Clash(c, e, k)
               /\ Longer(c, e, k) => Longer(n, d, k)
<1> DEFINE c == Child(n, d, k)
           e == Depth(n, d)
<1>1. SoundBelow(n, d, k)
  BY SoundIsBelow
<1>2. InnerOK(n)
  BY <1>1, LeafAnswers DEF SoundBelow, LeafOK
<1>3. n.type = "inner" /\ n.prefix \in Strings
  BY <1>2 DEF InnerOK
<1>4. e \in (d + 1)..Len(k) /\ e = d + Len(n.prefix) + 1
  BY <1>3, GoesFacts
<1>5. Len(k) \in Nat /\ d \in Nat
  BY StringFacts
<1>6. ASSUME NEW q \in Strings, Via(q, e, k)
      PROVE  /\ Goes(n, d, q) /\ Child(n, d, q) = c /\ d \in 0..Len(q) /\ Via(q, d, k)
             /\ Look(n, q, d) = Look(c, q, e)
  <2>1. Goes(n, d, q) /\ Child(n, d, q) = c /\ d \in 0..Len(q) /\ Via(q, d, k)
    BY <1>3, <1>6, SameTurn
  <2>2. Look(n, q, d) = IF Goes(n, d, q) THEN Look(Child(n, d, q), q, Depth(n, d)) ELSE None
    BY <1>1, <1>2, <2>1, InnerLooks
  <2> QED
    BY <2>1, <2>2
<1>7. ASSUME NEW h \in Strings, Via(h, d, k), Held(n, h, d), Tangled(h, k)
      PROVE  Via(h, e, k) /\ Held(c, h, e)
  <2>1. d \in 0..Len(h) /\ Len(h) \in Nat
    BY <1>5, <1>7, StringFacts DEF Via
  <2>2. Goes(n, d, h)
    <3>1. Look(n, h, d) # None
      BY <1>7, LookFacts
    <3> QED
      BY <1>2, <2>1, <3>1, InnerAnswers
  <2>3. e \in (d + 1)..Len(h)
    BY <1>3, <2>1, <2>2, GoesFacts
  <2> HIDE DEF c, e
  <2>4. e <= Len(h) /\ e <= Len(k) /\ e \in Nat
    BY <1>4, <1>5, <2>1, <2>3
  <2>5. \A i \in 1..e : i \in 1..Len(h) /\ i \in 1..Len(k)
    BY <1>5, <2>1, <2>4
  <2>6. \A i \in 1..e : h[i] = k[i]
    BY <1>7, <2>5 DEF Tangled, ShorterPrefix
  <2>7. Via(h, e, k)
    BY <2>4, <2>6 DEF Via
  <2> QED
    BY <1>6, <1>7, <2>7, LookFacts
<1>8. ASSUME NEW h \in Strings, Via(h, e, k), Held(c, h, e)
      PROVE  Via(h, d, k) /\ Held(n, h, d)
  BY <1>6, <1>8, LookFacts
<1> HIDE DEF c, e
<1>9. Clash(n, d, k) <=> Clash(c, e, k)
  BY <1>7, <1>8 DEF Clash
<1>10. Longer(c, e, k) => Longer(n, d, k)
  BY <1>8 DEF Longer
<1> QED
  BY <1>6, <1>9, <1>10 DEF c, e

(* An insert that went through a node: it passes on a panic or a no-op,    *)
(* and else has the new child in the place of the old one.                 *)
LEMMA ChildInserted ==
    ASSUME NEW n, NEW k \in Strings, NEW d \in 0..Len(k), Sound(n, d, k), Goes(n, d, k),
           NEW v, Real(v), NEW below, NEW kept,
           Outcome(below, Child(n, d, k), Depth(n, d), k, v),
           Mono(kept, below, Child(n, d, k), Depth(n, d), k, v)
    PROVE  LET r == Up(Art!Place(n, d), below, k)
               x == Up(Art!Place(n, d), kept, k)
           IN  Outcome(r, n, d, k, v) /\ Mono(x, r, n, d, k, v)
<1> DEFINE c == Child(n, d, k)
           e == Depth(n, d)
           at == Art!Place(n, d)
           b == k[d + Len(n.prefix) + 1]
           new == Art!Inner(n.prefix, Art!Replaced(n.children, b, below))
<1>1. SoundBelow(n, d, k)
  BY SoundIsBelow
<1>2. InnerOK(n)
  BY <1>1, LeafAnswers DEF SoundBelow, LeafOK
<1>3. n.type = "inner" /\ n.prefix \in Strings /\ Kept(n.children)
  BY <1>2 DEF InnerOK
<1>4. /\ e \in (d + 1)..Len(k) /\ e = d + Len(n.prefix) + 1 /\ b \in Art!Bytes
      /\ Spells(k, d, n.prefix) /\ d + Len(n.prefix) < Len(k)
      /\ Art!ChildOf(n.children, b) # Art!Absent /\ Art!Fork(at) = d + Len(n.prefix)
  BY <1>3, GoesFacts
<1>5. at.node = n /\ at.depth = d
  BY DEF Art!Place
<1>6. \A y : Up(at, y, k) = IF Art!IsNode(y) THEN Art!Inner(n.prefix, Art!Replaced(n.children, b, y)) ELSE y
  BY <1>4, <1>5 DEF Up, Goes
<1>7. /\ \A q \in Strings : Via(q, e, k) => Via(q, d, k) /\ Look(n, q, d) = Look(c, q, e)
      /\ Clash(n, d, k) <=> Clash(c, e, k)
  BY ChildLooks
<1>8. Via(k, e, k)
  <2>1. e \in 0..Len(k)
    BY <1>4, StringFacts
  <2> QED
    BY <2>1, ViaFacts
<1>9. Look(n, k, d) = Look(c, k, e)
  BY <1>7, <1>8
<1>10. ~Art!IsNode(Art!Panics) /\ ~Art!IsNode(Art!Absent)
  BY DEF Art!IsNode, Art!Panics, Art!Absent
<1>11. CASE Clash(c, e, k)
  <2>1. below = Art!Panics /\ kept = Art!Panics
    BY <1>11 DEF Outcome, Mono, Keeps
  <2>2. Up(at, below, k) = Art!Panics /\ Up(at, kept, k) = Art!Panics
    BY <1>6, <1>10, <2>1
  <2> QED
    BY <1>7, <1>11, <2>2 DEF Outcome, Mono, Keeps
<1>12. CASE ~Clash(c, e, k)
  <2>1. Art!IsNode(below) /\ Sound(below, e, k) /\ Stores(below, c, e, k, v)
    BY <1>12 DEF Outcome
  <2>2. below # Art!Absent
    BY <1>10, <2>1
  <2>3. Gains(n.children, b, below, Art!Replaced(n.children, b, below))
    BY <1>3, <1>4, <2>2, ReplacedFacts
  <2>4. \A q \in Strings : Via(q, e, k) => Look(below, q, e) = IF q = k THEN v ELSE Look(n, q, d)
    BY <1>7, <2>1 DEF Stores
  <2>5. Sound(new, d, k) /\ Stores(new, n, d, k, v)
    BY <1>2, <1>4, <2>1, <2>2, <2>3, <2>4, ChildStored
  <2>6. Up(at, below, k) = new
    BY <1>6, <2>1
  <2>7. Art!IsNode(new)
    BY <2>5, SoundIsNode
  <2> HIDE DEF new, at, c, e
  <2>8. Outcome(Up(at, below, k), n, d, k, v)
    BY <1>7, <1>12, <2>5, <2>6, <2>7 DEF Outcome
  <2>9. Keeps(n, d, k, v) <=> Keeps(c, e, k, v)
    BY <1>7, <1>9 DEF Keeps
  <2>10. kept = IF Keeps(c, e, k, v) THEN Art!Absent ELSE below
    BY DEF Mono, c, e
  <2>11. Up(at, Art!Absent, k) = Art!Absent
    BY <1>6, <1>10
  <2>12. Mono(Up(at, kept, k), Up(at, below, k), n, d, k, v)
    BY <2>9, <2>10, <2>11 DEF Mono
  <2> QED
    BY <2>8, <2>12 DEF at
<1> QED
  BY <1>11, <1>12

-----------------------------------------------------------------------------
(* What an insert into a sound node comes to, and when a lookup panics.    *)
Inserts(n, d, k, v) ==
    LET r == Art!InsertRec(n, k, d, v, TRUE)
        x == Art!InsertRec(n, k, d, v, FALSE)
    IN  /\ Outcome(r, n, d, k, v) /\ Mono(x, r, n, d, k, v)
        /\ Art!GetRec(n, k, d) = Panicked => Longer(n, d, k)

(* A lookup that panics where its way stops.                               *)
LEMMA GetStops ==
    ASSUME NEW n, NEW k \in Strings, NEW d \in 0..Len(k), Sound(n, d, k), ~Goes(n, d, k),
           Art!GetRec(n, k, d) = Panicked
    PROVE  Longer(n, d, k)
<1>1. CASE LeafOK(n, d, k)
  BY <1>1, LeafAnswers, LookFacts DEF LeafOK
<1>2. CASE InnerOK(n)
  <2> DEFINE c == Len(n.prefix)
  <2>1. Spells(k, d, n.prefix) /\ d + c = Len(k)
    BY <1>2, InnerAnswers, LookFacts
  <2>2. n.prefix \in Strings /\ c \in Nat /\ Len(k) \in Nat
    BY <1>2, StringFacts DEF InnerOK
  <2>3. Splits(k, d, n.prefix, c)
    BY <2>1, <2>2 DEF Splits, Spells
  <2> QED
    BY <1>2, <2>1, <2>3, InnerClash
<1> QED
  BY <1>1, <1>2, SoundIsBelow DEF SoundBelow

(* An insert where its way stops,                                          *)
LEMMA InsertStops ==
    ASSUME NEW n, NEW k \in Strings, NEW d \in 0..Len(k), Sound(n, d, k), ~Goes(n, d, k),
           NEW v, Real(v)
    PROVE  Inserts(n, d, k, v)
<1> DEFINE X(always) == Art!Changed(Art!Place(n, d), k, v, always)
<1>1. /\ Art!InsertRec(n, k, d, v, TRUE) = X(TRUE)
      /\ Art!InsertRec(n, k, d, v, FALSE) = X(FALSE)
  <2>1. ASSUME NEW always
        PROVE  Art!InsertRec(n, k, d, v, always) = Art!Changed(Art!Place(n, d), k, v, always)
    BY StopHere
  <2> QED
    BY <2>1
<1>2. LeafOK(n, d, k) \/ InnerOK(n)
  BY SoundIsBelow DEF SoundBelow
<1>3. Outcome(X(TRUE), n, d, k, v) /\ Mono(X(FALSE), X(TRUE), n, d, k, v)
  <2>1. CASE LeafOK(n, d, k)
    BY <2>1, LeafChanged
  <2>2. CASE InnerOK(n)
    BY <2>2, InnerChanged
  <2> QED
    BY <1>2, <2>1, <2>2
<1> HIDE DEF X
<1> QED
  BY <1>1, <1>3, GetStops DEF Inserts

(* and where it goes on, by what it comes to in the child.                 *)
LEMMA InsertGoesOn ==
    ASSUME NEW n, NEW k \in Strings, NEW d \in 0..Len(k), Sound(n, d, k), Goes(n, d, k),
           NEW v, Real(v), Inserts(Child(n, d, k), Depth(n, d), k, v)
    PROVE  Inserts(n, d, k, v)
<1> DEFINE c == Child(n, d, k)
           e == Depth(n, d)
           below == Art!InsertRec(c, k, e, v, TRUE)
           kept == Art!InsertRec(c, k, e, v, FALSE)
<1>1. SoundBelow(n, d, k) /\ Via(k, d, k) /\ d \in Nat
  BY SoundIsBelow, ViaFacts, StringFacts
<1>2. /\ Art!GetRec(n, k, d) = Art!GetRec(c, k, e)
      /\ Art!InsertRec(n, k, d, v, TRUE) = Up(Art!Place(n, d), below, k)
      /\ Art!InsertRec(n, k, d, v, FALSE) = Up(Art!Place(n, d), kept, k)
  BY <1>1, StepDown
<1>3. /\ Outcome(below, c, e, k, v) /\ Mono(kept, below, c, e, k, v)
      /\ Art!GetRec(c, k, e) = Panicked => Longer(c, e, k)
  BY DEF Inserts
<1> HIDE DEF below, kept
<1>4. LET r == Up(Art!Place(n, d), below, k)
          x == Up(Art!Place(n, d), kept, k)
      IN  Outcome(r, n, d, k, v) /\ Mono(x, r, n, d, k, v)
  BY <1>3, ChildInserted
<1>5. Longer(c, e, k) => Longer(n, d, k)
  BY ChildLooks
<1> QED
  BY <1>2, <1>3, <1>4, <1>5 DEF Inserts

(* What an insert comes to in any sound node: by induction on how many     *)
(* bytes of the key are left, as the code recurses.                        *)
LEMMA InsertFacts ==
    ASSUME NEW k \in Strings, NEW v, Real(v), NEW n, NEW d \in 0..Len(k), Sound(n, d, k)
    PROVE  Inserts(n, d, k, v)
<1> DEFINE Ins(m) == \A a : \A e \in 0..Len(k) :
                        Len(k) - e <= m /\ Sound(a, e, k) => Inserts(a, e, k, v)
           S == {m \in 0..Len(k) : Ins(m)}
<1>1. Len(k) \in Nat
  BY StringFacts
<1>2. ASSUME NEW a, NEW e \in 0..Len(k), Sound(a, e, k), Goes(a, e, k)
      PROVE  /\ Depth(a, e) \in (e + 1)..Len(k)
             /\ Sound(Child(a, e, k), Depth(a, e), k)
  <2>1. SoundBelow(a, e, k)
    BY <1>2, SoundIsBelow
  <2>2. Via(k, e, k)
    BY ViaFacts
  <2>3. a.type = "inner" => a.prefix \in Strings
    BY <2>1 DEF SoundBelow, LeafOK, InnerOK
  <2> QED
    BY <1>2, <2>1, <2>2, <2>3, GoesFacts DEF SoundBelow
<1>3. 0 \in S
  <2> SUFFICES ASSUME NEW a, NEW e \in 0..Len(k), Len(k) - e <= 0, Sound(a, e, k)
               PROVE  Inserts(a, e, k, v)
    BY <1>1
  <2>1. ~Goes(a, e, k)
    BY <1>1, <1>2
  <2> QED
    BY <2>1, InsertStops
<1>4. ASSUME NEW m \in 0..(Len(k) - 1), m \in S PROVE m + 1 \in S
  <2> SUFFICES ASSUME NEW a, NEW e \in 0..Len(k), Len(k) - e <= m + 1, Sound(a, e, k)
               PROVE  Inserts(a, e, k, v)
    BY <1>1
  <2>1. CASE Goes(a, e, k)
    <3> DEFINE c == Child(a, e, k)
               t == Depth(a, e)
    <3>1. t \in (e + 1)..Len(k) /\ Sound(c, t, k)
      BY <1>2, <2>1
    <3> HIDE DEF c, t
    <3>2. t \in 0..Len(k) /\ Len(k) - t <= m
      BY <1>1, <3>1
    <3>3. Inserts(c, t, k, v)
      BY <1>4, <3>1, <3>2
    <3> QED
      BY <2>1, <3>3, InsertGoesOn DEF c, t
  <2>2. CASE ~Goes(a, e, k)
    BY <2>2, InsertStops
  <2> QED
    BY <2>1, <2>2
<1> HIDE DEF S
<1>5. \A m \in 0..Len(k) : m \in S
  BY <1>1, <1>3, <1>4, StepByStep
<1>6. Len(k) - d <= Len(k) /\ Len(k) \in 0..Len(k)
  BY <1>1
<1> QED
  BY <1>5, <1>6 DEF S

-----------------------------------------------------------------------------
(* The state machine: the ART holds what the plain map does.               *)

(* A lookup in the tree under this root, or in none.                       *)
LookedUp(root, q) == IF root = Art!Absent THEN None ELSE Look(root, q, 0)

(* What every ART reached holds: sound nodes, and under each key its value.*)
ArtHolds(root, map) ==
    /\ root = Art!Absent \/ Sound(root, 0, <<>>)
    /\ \A q \in Strings : LookedUp(root, q) = IF q \in Keys THEN map[q] ELSE None

(* The plain map that needs prefix-free keys, with the count of its keys.  *)
FreeOK ==
    /\ plainFree \in [Keys -> Values \union {None}]
    /\ IsFiniteSet(PlainFree!Stored) /\ plainFreeSize = Cardinality(PlainFree!Stored)

(* The inductive invariant of the ART.                                     *)
ArtInv == ArtHolds(artRoot, plainFree) /\ FreeOK /\ artLen = plainFreeSize

(* Keys and bounds are strings of bytes, and values are values.            *)
LEMMA KeysAreBytes ==
    /\ \A k \in Keys \union Bounds : k \in Strings
    /\ \A k \in Strings : 0 \in 0..Len(k) /\ Via(k, 0, <<>>) /\ \A q \in Strings : Via(q, 0, k)
    /\ \A v \in Values : Real(v) /\ v \in Nat
<1>1. \A k \in Keys \union Bounds : k \in Strings
  BY BytesAndCaps, KeysAssumption DEF Strings
<1>2. ASSUME NEW k \in Strings, NEW q, NEW r PROVE 0 \in 0..Len(k) /\ Via(k, 0, q)
  BY StringFacts DEF Via
<1>3. \A v \in Values : Real(v) /\ v \in Nat
  BY ValueAssumption DEF Real
<1> QED
  BY <1>1, <1>2, <1>3

(* A proper prefix, byte by byte.                                          *)
LEMMA StrictPrefixIsShorter ==
    ASSUME NEW s \in Strings, NEW t \in Strings
    PROVE  PlainFree!IsStrictPrefix(s, t) <=> ShorterPrefix(s, t)
<1>1. s \in Seq(Art!Bytes) /\ t \in Seq(Art!Bytes)
  BY DEF Strings
<1>2. IsPrefix(s, t) <=> Len(s) <= Len(t) /\ \A i \in 1..Len(s) : s[i] = t[i]
  BY <1>1, PrefixByEntries
<1>3. PlainFree!IsStrictPrefix(s, t) <=> IsPrefix(s, t) /\ s # t
  BY DEF PlainFree!IsStrictPrefix, PlainFree!IsPrefix, IsPrefix
<1>4. Len(s) \in Nat /\ Len(t) \in Nat
  BY StringFacts
<1>5. Len(s) = Len(t) /\ (\A i \in 1..Len(s) : s[i] = t[i]) => s = t
  BY <1>1, SeqEqual
<1> QED
  BY <1>2, <1>3, <1>4, <1>5 DEF ShorterPrefix

(* The keys below the root are those stored in the plain map.              *)
LEMMA HeldIsStored ==
    ASSUME ArtHolds(artRoot, plainFree), artRoot # Art!Absent, NEW h \in Strings
    PROVE  Held(artRoot, h, 0) <=> h \in PlainFree!Stored
<1>1. Look(artRoot, h, 0) = IF h \in Keys THEN plainFree[h] ELSE None
  BY DEF ArtHolds, LookedUp
<1> QED
  BY <1>1, LookFacts DEF PlainFree!Stored

(* Under no root there is nothing.                                         *)
LEMMA NothingIsStored ==
    ASSUME ArtHolds(artRoot, plainFree), artRoot = Art!Absent
    PROVE  PlainFree!Stored = {} /\ \A k \in Keys : plainFree[k] = None
  BY KeysAreBytes DEF ArtHolds, LookedUp, PlainFree!Stored

(* A key clashes with a key of the tree exactly if the plain map refuses   *)
(* it.                                                                     *)
LEMMA ClashIsClashes ==
    ASSUME ArtHolds(artRoot, plainFree), artRoot # Art!Absent, NEW k \in Strings
    PROVE  PlainFree!Clashes(k) <=> Clash(artRoot, 0, k)
<1>1. PlainFree!Clashes(k) <=>
         \E q \in PlainFree!Stored : PlainFree!IsStrictPrefix(k, q) \/ PlainFree!IsStrictPrefix(q, k)
  BY DEF PlainFree!Clashes
<1>2. \A q \in PlainFree!Stored : q \in Strings
  BY KeysAreBytes DEF PlainFree!Stored
<1>3. \A q \in Strings : Held(artRoot, q, 0) <=> q \in PlainFree!Stored
  BY HeldIsStored
<1>4. \A q \in Strings : Via(q, 0, k)
  BY KeysAreBytes
<1>5. \A q \in Strings :
         Tangled(q, k) <=> PlainFree!IsStrictPrefix(k, q) \/ PlainFree!IsStrictPrefix(q, k)
  BY StrictPrefixIsShorter DEF Tangled
<1> QED
  BY <1>1, <1>2, <1>3, <1>4, <1>5 DEF Clash

(* What the calls do on a tree that holds what the plain map does.         *)
LEMMA CallFacts ==
    ASSUME ArtHolds(artRoot, plainFree), artRoot # Art!Absent, NEW k \in Strings, NEW v, Real(v)
    PROVE  LET r == Art!NewRoot(k, v)
               clash == PlainFree!Clashes(k)
           IN  /\ Found(Art!Get(k)) = Look(artRoot, k, 0)
               /\ Art!Get(k) = Panicked =>
                     \E q \in PlainFree!Stored : PlainFree!IsStrictPrefix(k, q)
               /\ clash => r = Art!Panics
               /\ ~clash => r # Art!Panics /\ Sound(r, 0, k) /\ Stores(r, artRoot, 0, k, v)
               /\ Art!InsertMono(k, v) =
                     IF ~clash /\ Look(artRoot, k, 0) # None /\ ~(v > Look(artRoot, k, 0))
                     THEN Art!Absent ELSE r
<1> DEFINE r == Art!InsertRec(artRoot, k, 0, v, TRUE)
           x == Art!InsertRec(artRoot, k, 0, v, FALSE)
<1>1. Art!Get(k) = Art!GetRec(artRoot, k, 0) /\ Art!NewRoot(k, v) = r /\ Art!InsertMono(k, v) = x
  BY DEF Art!Get, Art!NewRoot, Art!InsertMono
<1>2. Sound(artRoot, 0, k)
  <2>1. Sound(artRoot, 0, <<>>) /\ Via(k, 0, <<>>)
    BY KeysAreBytes DEF ArtHolds
  <2> QED
    BY <2>1, SoundVia
<1>3. 0 \in 0..Len(k)
  BY KeysAreBytes
<1>4. Inserts(artRoot, 0, k, v)
  BY <1>2, <1>3, InsertFacts
<1>5. /\ Outcome(r, artRoot, 0, k, v) /\ Mono(x, r, artRoot, 0, k, v)
      /\ Art!GetRec(artRoot, k, 0) = Panicked => Longer(artRoot, 0, k)
  BY <1>4 DEF Inserts
<1> HIDE DEF r, x
<1>6. PlainFree!Clashes(k) <=> Clash(artRoot, 0, k)
  BY ClashIsClashes
<1>7. Longer(artRoot, 0, k) => \E q \in PlainFree!Stored : PlainFree!IsStrictPrefix(k, q)
  BY HeldIsStored, StrictPrefixIsShorter DEF Longer
<1>8. ~PlainFree!Clashes(k) => r # Art!Panics /\ Sound(r, 0, k) /\ Stores(r, artRoot, 0, k, v)
  BY <1>3, <1>5, <1>6, SoundIsNode DEF Outcome
<1>9. PlainFree!Clashes(k) => r = Art!Panics
  BY <1>5, <1>6 DEF Outcome
<1>10. x = IF ~PlainFree!Clashes(k) /\ Look(artRoot, k, 0) # None /\ ~(v > Look(artRoot, k, 0))
           THEN Art!Absent ELSE r
  BY <1>5, <1>6 DEF Mono, Keeps
<1>11. Found(Art!Get(k)) = Look(artRoot, k, 0)
  BY <1>1 DEF Look
<1> QED
  BY <1>1, <1>5, <1>7, <1>8, <1>9, <1>10, <1>11

(* The first key of a tree is a leaf.                                      *)
LEMMA FirstCallFacts ==
    ASSUME ArtHolds(artRoot, plainFree), artRoot = Art!Absent, NEW k \in Strings, NEW v, Real(v)
    PROVE  LET r == Art!NewRoot(k, v)
           IN  /\ Art!Get(k) = None /\ ~PlainFree!Clashes(k) /\ Art!InsertMono(k, v) = r
               /\ r # Art!Panics /\ r # Art!Absent /\ Sound(r, 0, k)
               /\ \A q \in Strings : LookedUp(r, q) = IF q = k THEN v ELSE None
<1> DEFINE r == Art!Leaf(k, v)
<1>1. Art!Get(k) = None /\ Art!NewRoot(k, v) = r /\ Art!InsertMono(k, v) = r
  BY DEF Art!Get, Art!NewRoot, Art!InsertMono
<1>2. ~PlainFree!Clashes(k)
  BY NothingIsStored DEF PlainFree!Clashes
<1>3. r.type = "leaf" /\ r.key = k /\ r.value = v
  BY DEF Art!Leaf
<1> HIDE DEF r
<1>4. 0 \in 0..Len(k) /\ Via(k, 0, k)
  BY KeysAreBytes
<1>5. LeafOK(r, 0, k)
  BY <1>3, <1>4 DEF LeafOK, Real
<1>6. Sound(r, 0, k)
  BY <1>4, <1>5, LeafIsSound
<1>7. r # Art!Panics /\ r # Art!Absent
  BY <1>4, <1>6, SoundIsNode
<1>8. \A q \in Strings : LookedUp(r, q) = IF q = k THEN v ELSE None
  BY <1>3, <1>7, LeafLooks DEF LookedUp
<1> QED
  BY <1>1, <1>2, <1>6, <1>7, <1>8

(* What both are about: the answers, by the plain map.                     *)
LEMMA ArtAnswers ==
    ASSUME ArtInv, NEW k \in Keys, NEW v \in Values
    PROVE  LET clash == PlainFree!Clashes(k)
               r == Art!NewRoot(k, v)
           IN  /\ Found(Art!Get(k)) = plainFree[k]
               /\ Art!InsertPanics(k, v) <=> clash
               /\ ~clash => Art!Get(k) = plainFree[k] /\ ArtHolds(r, [plainFree EXCEPT ![k] = v])
               /\ clash => r = Art!Panics
               /\ Art!InsertMono(k, v) =
                     IF ~clash /\ plainFree[k] # None /\ ~(v > plainFree[k])
                     THEN Art!Absent ELSE r
<1> DEFINE r == Art!NewRoot(k, v)
           clash == PlainFree!Clashes(k)
           map == [plainFree EXCEPT ![k] = v]
<1>1. k \in Strings /\ Real(v)
  BY KeysAreBytes
<1>2. ArtHolds(artRoot, plainFree) /\ plainFree \in [Keys -> Values \union {None}]
  BY DEF ArtInv, FreeOK
<1>3. LookedUp(artRoot, k) = plainFree[k]
  BY <1>1, <1>2 DEF ArtHolds
<1>4. \A q \in Strings : LookedUp(artRoot, q) = IF q \in Keys THEN plainFree[q] ELSE None
  BY <1>2 DEF ArtHolds
<1>5. \A q \in Keys : map[q] = IF q = k THEN v ELSE plainFree[q]
  BY <1>2
<1>6. Art!InsertPanics(k, v) <=> Art!Get(k) = Panicked \/ r = Art!Panics
  BY DEF Art!InsertPanics, Art!Old
<1>7. Via(k, 0, <<>>) /\ Via(<<>>, 0, k)
  BY <1>1 DEF Via, Strings
<1> HIDE DEF map
<1>8. CASE artRoot = Art!Absent
  <2>1. /\ Art!Get(k) = None /\ ~clash /\ Art!InsertMono(k, v) = r
        /\ r # Art!Panics /\ r # Art!Absent /\ Sound(r, 0, k)
        /\ \A q \in Strings : LookedUp(r, q) = IF q = k THEN v ELSE None
    BY <1>1, <1>2, <1>8, FirstCallFacts
  <2> HIDE DEF r, clash
  <2>2. \A q \in Keys : plainFree[q] = None
    BY <1>2, <1>8, NothingIsStored
  <2>3. ArtHolds(r, map)
    <3>1. Sound(r, 0, <<>>)
      BY <1>7, <2>1, SoundVia
    <3>2. \A q \in Strings : LookedUp(r, q) = IF q \in Keys THEN map[q] ELSE None
      BY <1>5, <2>1, <2>2
    <3> QED
      BY <3>1, <3>2 DEF ArtHolds
  <2>4. None # Panicked /\ Found(None) = None
    BY LookFacts
  <2> QED
    BY <1>6, <2>1, <2>2, <2>3, <2>4 DEF r, clash, map
<1>9. CASE artRoot # Art!Absent
  <2>1. /\ Found(Art!Get(k)) = Look(artRoot, k, 0)
        /\ Art!Get(k) = Panicked =>
              \E q \in PlainFree!Stored : PlainFree!IsStrictPrefix(k, q)
        /\ clash => r = Art!Panics
        /\ ~clash => r # Art!Panics /\ Sound(r, 0, k) /\ Stores(r, artRoot, 0, k, v)
        /\ Art!InsertMono(k, v) =
              IF ~clash /\ Look(artRoot, k, 0) # None /\ ~(v > Look(artRoot, k, 0))
              THEN Art!Absent ELSE r
    BY <1>1, <1>2, <1>9, CallFacts
  <2>2. Art!Get(k) = Panicked => clash
    BY <2>1 DEF PlainFree!Clashes
  <2> HIDE DEF r, clash
  <2>3. \A q : LookedUp(artRoot, q) = Look(artRoot, q, 0)
    BY <1>9 DEF LookedUp
  <2>4. Look(artRoot, k, 0) = plainFree[k]
    BY <1>3, <2>3
  <2>5. ASSUME ~clash PROVE Art!Get(k) = plainFree[k] /\ ArtHolds(r, map)
    <3>1. Art!Get(k) # Panicked
      BY <2>2, <2>5
    <3>2. Art!Get(k) = plainFree[k]
      BY <2>1, <2>4, <3>1 DEF Found
    <3>3. Sound(r, 0, <<>>)
      BY <1>7, <2>1, <2>5, SoundVia
    <3>4. r # Art!Absent
      BY <1>1, <2>1, <2>5, KeysAreBytes, SoundIsNode
    <3>5. \A q \in Strings : Look(r, q, 0) = IF q = k THEN v ELSE Look(artRoot, q, 0)
      BY <1>1, <2>1, <2>5, KeysAreBytes DEF Stores
    <3>6. \A q \in Strings : LookedUp(r, q) = IF q \in Keys THEN map[q] ELSE None
      BY <1>4, <1>5, <2>3, <3>4, <3>5 DEF LookedUp
    <3> QED
      BY <3>2, <3>3, <3>6 DEF ArtHolds
  <2> QED
    BY <1>6, <2>1, <2>2, <2>4, <2>5 DEF r, clash, map
<1> QED
  BY <1>8, <1>9

(* The plain map that needs prefix-free keys, with the count of its keys.  *)
LEMMA FreeStep ==
    ASSUME FreeOK, NEW k \in Keys, NEW v \in Values, PlainFree!Insert(k, v), ~PlainFree!Clashes(k)
    PROVE  /\ FreeOK' /\ plainFree' = [plainFree EXCEPT ![k] = v]
           /\ plainFreeSize' = IF plainFree[k] = None THEN plainFreeSize + 1 ELSE plainFreeSize
<1>1. plainFree' = [plainFree EXCEPT ![k] = v] /\ plainFreeSize' = PlainFree!Cardinality(PlainFree!Stored \union {k})
  BY DEF PlainFree!Insert
<1>2. plainFreeSize' = Cardinality(PlainFree!Stored \union {k})
  BY <1>1 DEF PlainFree!Cardinality, Cardinality
<1>3. v # None
  BY ValueAssumption
<1>4. plainFree \in [Keys -> Values \union {None}]
  BY DEF FreeOK
<1>5. PlainFree!Stored' = PlainFree!Stored \union {k}
  BY <1>1, <1>3, <1>4 DEF PlainFree!Stored
<1>6. k \in PlainFree!Stored <=> plainFree[k] # None
  BY DEF PlainFree!Stored
<1>7. IsFiniteSet(PlainFree!Stored) /\ plainFreeSize = Cardinality(PlainFree!Stored)
  BY DEF FreeOK
<1> DEFINE S == PlainFree!Stored
<1>8. /\ IsFiniteSet(S \union {k})
      /\ Cardinality(S \union {k}) = IF k \in S THEN Cardinality(S) ELSE Cardinality(S) + 1
  BY <1>7, FS_AddElement
<1>9. plainFree' \in [Keys -> Values \union {None}]
  BY <1>1, <1>4
<1> QED
  BY <1>1, <1>2, <1>5, <1>6, <1>7, <1>8, <1>9 DEF FreeOK

(* The tree that new and clear leave.                                      *)
LEMMA NoneHeld ==
    ASSUME NEW map, map = [k \in Keys |-> None]
    PROVE  ArtHolds(Art!Absent, map)
  BY DEF ArtHolds, LookedUp

(* The invariant holds at first,                                           *)
LEMMA ArtInvInit == Init => ArtInv
<1> SUFFICES ASSUME Init PROVE ArtInv
  OBVIOUS
<1>1. artRoot = Art!Absent /\ artLen = 0
  BY DEF Init, Art!Init
<1>2. plainFree = [k \in Keys |-> None] /\ plainFreeSize = 0
  BY DEF Init, PlainFree!Init
<1>3. PlainFree!Stored = {}
  BY <1>2 DEF PlainFree!Stored
<1>4. FreeOK
  BY <1>2, <1>3, FS_EmptySet DEF FreeOK
<1> QED
  BY <1>1, <1>2, <1>4, NoneHeld DEF ArtInv

(* every call keeps it,                                                    *)
LEMMA ArtInvStep == ArtInv /\ [Next]_vars => ArtInv'
<1> SUFFICES ASSUME ArtInv, [Next]_vars PROVE ArtInv'
  OBVIOUS
<1>1. ASSUME NEW w \in Writes, Insert(w[1], w[2]) PROVE ArtInv'
  <2> DEFINE k == w[1]
             v == w[2]
  <2>1. k \in Keys /\ v \in Values
    BY KeysAreStrings
  <2>2. Art!Insert(k, v) /\ PlainFree!Insert(k, v)
    BY <1>1 DEF Insert
  <2> HIDE DEF k, v
  <2>3. /\ Found(Art!Get(k)) = plainFree[k]
        /\ Art!InsertPanics(k, v) <=> PlainFree!Clashes(k)
        /\ ~PlainFree!Clashes(k) =>
              Art!Get(k) = plainFree[k] /\ ArtHolds(Art!NewRoot(k, v), [plainFree EXCEPT ![k] = v])
    BY <2>1, ArtAnswers
  <2>4. CASE PlainFree!Clashes(k)
    <3>1. UNCHANGED <<artRoot, artLen>>
      BY <2>2, <2>3, <2>4 DEF Art!Insert
    <3>2. UNCHANGED <<plainFree, plainFreeSize>>
      BY <2>2, <2>4 DEF PlainFree!Insert
    <3>3. FreeOK'
      BY <3>2 DEF ArtInv, FreeOK, PlainFree!Stored
    <3>4. ArtHolds(artRoot, plainFree)'
      BY <3>1, <3>2 DEF ArtInv, ArtHolds
    <3> QED
      BY <3>1, <3>2, <3>3, <3>4 DEF ArtInv
  <2>5. CASE ~PlainFree!Clashes(k)
    <3>1. artRoot' = Art!NewRoot(k, v) /\ artLen' = IF Art!Get(k) = None THEN artLen + 1 ELSE artLen
      BY <2>2, <2>3, <2>5 DEF Art!Insert, Art!Old
    <3>2. /\ FreeOK' /\ plainFree' = [plainFree EXCEPT ![k] = v]
          /\ plainFreeSize' = IF plainFree[k] = None THEN plainFreeSize + 1 ELSE plainFreeSize
      BY <2>1, <2>2, <2>5, FreeStep DEF ArtInv
    <3>3. ArtHolds(artRoot, plainFree)'
      <4>1. ArtHolds(Art!NewRoot(k, v), [plainFree EXCEPT ![k] = v])
        BY <2>3, <2>5
      <4>2. ArtHolds(artRoot', plainFree')
        BY <3>1, <3>2, <4>1
      <4> QED
        BY <4>2 DEF ArtHolds
    <3>4. artLen' = plainFreeSize'
      BY <2>3, <2>5, <3>1, <3>2 DEF ArtInv
    <3> QED
      BY <3>2, <3>3, <3>4 DEF ArtInv
  <2> QED
    BY <2>4, <2>5
<1>2. ASSUME Clear PROVE ArtInv'
  <2>1. artRoot' = Art!Absent /\ artLen' = 0
    BY <1>2 DEF Clear, Art!Clear
  <2>2. plainFree' = [k \in Keys |-> None] /\ plainFreeSize' = 0
    BY <1>2 DEF Clear, PlainFree!Clear
  <2>3. PlainFree!Stored' = {}
    BY <2>2 DEF PlainFree!Stored
  <2>4. FreeOK'
    BY <2>2, <2>3, FS_EmptySet DEF FreeOK
  <2>5. ArtHolds(artRoot, plainFree)'
    BY <2>1, <2>2, NoneHeld
  <2> QED
    BY <2>1, <2>2, <2>4, <2>5 DEF ArtInv
<1>3. ASSUME UNCHANGED vars PROVE ArtInv'
  BY <1>3 DEF vars, ArtInv, ArtHolds, FreeOK, PlainFree!Stored
<1> QED
  BY <1>1, <1>2, <1>3 DEF Next

(* and so it always holds.                                                 *)
LEMMA AlwaysArtInv == Spec => []ArtInv
  BY ArtInvInit, ArtInvStep, PTL DEF Spec

(* Whatever is inserted in whatever order, and whatever is cleared, the    *)
(* ART is a map that refuses exactly the keys that clash with a stored     *)
(* one: by get, by which inserts panic, by its cached length, and by when  *)
(* the insert that keeps a newer value does nothing (insert and get of     *)
(* art.rs, insert_mono of concurrent_art.rs).                              *)
THEOREM ArtTreeIsAMap == Spec => []ArtIsAMap
<1>1. ArtInv => ArtIsAMap
  <2> SUFFICES ASSUME ArtInv PROVE ArtIsAMap
    OBVIOUS
  <2>1. \A w \in Writes : w[1] \in Keys /\ w[2] \in Values
    BY KeysAreStrings
  <2>2. ASSUME NEW k \in Keys PROVE Found(Art!Get(k)) = plainFree[k]
    <3>1. k \in Strings
      BY KeysAreBytes
    <3>2. LookedUp(artRoot, k) = plainFree[k]
      BY <3>1 DEF ArtInv, ArtHolds
    <3> QED
      BY <3>2, LookFacts DEF LookedUp, Art!Get, Look
  <2>3. \A w \in Writes : Art!InsertPanics(w[1], w[2]) <=> PlainFree!Clashes(w[1])
    BY <2>1, ArtAnswers
  <2>4. artLen = plainFreeSize
    BY DEF ArtInv
  <2>5. ASSUME NEW w \in Writes
        PROVE  Art!InsertMono(w[1], w[2]) =
                  IF PlainFree!Clashes(w[1]) THEN Art!Panics
                  ELSE IF plainFree[w[1]] # None /\ plainFree[w[1]] >= w[2] THEN Art!Absent
                  ELSE Art!NewRoot(w[1], w[2])
    <3> DEFINE k == w[1]
               v == w[2]
               r == Art!NewRoot(k, v)
    <3>1. k \in Keys /\ v \in Values /\ v \in Nat
      BY <2>1, KeysAreBytes
    <3> HIDE DEF k, v
    <3>2. /\ PlainFree!Clashes(k) => r = Art!Panics
          /\ Art!InsertMono(k, v) =
                IF ~PlainFree!Clashes(k) /\ plainFree[k] # None /\ ~(v > plainFree[k])
                THEN Art!Absent ELSE r
      BY <3>1, ArtAnswers
    <3> HIDE DEF r
    <3>3. plainFree[k] # None => (~(v > plainFree[k]) <=> plainFree[k] >= v)
      <4>1. plainFree[k] # None => plainFree[k] \in Nat
        BY <3>1, KeysAreBytes DEF ArtInv, FreeOK
      <4> QED
        BY <3>1, <4>1
    <3>4. Art!InsertMono(k, v) =
             IF PlainFree!Clashes(k) THEN Art!Panics
             ELSE IF plainFree[k] # None /\ plainFree[k] >= v THEN Art!Absent ELSE r
      BY <3>2, <3>3
    <3> QED
      BY <3>4 DEF k, v, r
  <2> QED
    BY <2>2, <2>3, <2>4, <2>5 DEF ArtIsAMap
<1> QED
  BY <1>1, AlwaysArtInv, PTL

(* A lookup that panics was of a proper prefix of a stored key: the index  *)
(* past the end of the key in get_rec of art.rs is met by no other.        *)
THEOREM ArtPanicsOnPrefixesOnly == Spec => []ArtGetPanicsOnPrefixesOnly
<1>1. ArtInv => ArtGetPanicsOnPrefixesOnly
  <2> SUFFICES ASSUME ArtInv, NEW k \in Keys \union Bounds, Art!Get(k) = Panicked
               PROVE  \E q \in PlainFree!Stored : IsStrictPrefix(k, q)
    BY DEF ArtGetPanicsOnPrefixesOnly
  <2>1. k \in Strings
    BY KeysAreBytes
  <2>2. artRoot # Art!Absent
    BY LookFacts DEF Art!Get
  <2>3. ArtHolds(artRoot, plainFree)
    BY DEF ArtInv
  <2>4. PICK v \in {0, 1, 2} : Real(v)
    BY DEF Real
  <2>5. \E q \in PlainFree!Stored : PlainFree!IsStrictPrefix(k, q)
    BY <2>1, <2>2, <2>3, <2>4, CallFacts
  <2> QED
    BY <2>5 DEF PlainFree!IsStrictPrefix, IsStrictPrefix, PlainFree!IsPrefix, IsPrefix
<1> QED
  BY <1>1, AlwaysArtInv, PTL

(* Soundness, in the terms of the type invariant.                          *)
LEMMA PlaceIsWellPlaced ==
    ASSUME NEW at, NEW q \in Strings, PlaceOK(at, q)
    PROVE  Art!WellPlaced(at, q)
<1>1. at.depth \in 0..Len(q) /\ (LeafOK(at.node, at.depth, q) \/ InnerOK(at.node))
  BY DEF PlaceOK
<1>2. CASE LeafOK(at.node, at.depth, q)
  <2> DEFINE n == at.node
             d == at.depth
             s == Art!Cut(q, d)
  <2>1. n.type = "leaf" /\ Via(n.key, d, q)
    BY <1>2 DEF LeafOK
  <2>2. s \in Strings /\ Len(s) = d /\ \A j \in 1..d : s[j] = q[j]
    BY <1>1, CutFacts
  <2> HIDE DEF s
  <2>3. n.key \in Strings /\ Len(s) <= Len(n.key) /\ \A j \in 1..Len(s) : s[j] = n.key[j]
    BY <2>1, <2>2 DEF Via
  <2>4. IsPrefix(s, n.key)
    BY <2>2, <2>3, PrefixByEntries DEF Strings
  <2> QED
    BY <2>1, <2>4 DEF Art!WellPlaced, Art!IsPrefix, IsPrefix, s
<1>3. CASE InnerOK(at.node)
  <2> DEFINE n == at.node
  <2>1. PICK b, c \in Art!Bytes :
           b # c /\ Art!ChildOf(n.children, b) # Art!Absent /\ Art!ChildOf(n.children, c) # Art!Absent
    BY <1>3 DEF InnerOK
  <2>2. Kept(n.children) /\ n.type = "inner"
    BY <1>3 DEF InnerOK
  <2>3. Art!WellFilled(n.children)
    BY <2>1, <2>2, KeptIsFilled
  <2> QED
    BY <2>2, <2>3 DEF Art!WellPlaced
<1> QED
  BY <1>1, <1>2, <1>3

(* The lists of edges of the trie are in order, every container of the     *)
(* ART is within the capacity of its kind with bytes and children paired,  *)
(* and every leaf lies on the way of its key, wherever the keys lead.      *)
THEOREM TreesAreWellFormed == Spec => []TypeOK
<1>1. TrieInv /\ ArtInv => TypeOK
  <2> SUFFICES ASSUME TrieInv, ArtInv PROVE TypeOK
    OBVIOUS
  <2>1. radixLen \in Nat /\ artLen \in Nat
    <3>1. radixLen = Cardinality(Plain!Stored) /\ IsFiniteSet(Plain!Stored)
      BY DEF TrieInv, PlainOK
    <3>2. artLen = Cardinality(PlainFree!Stored) /\ IsFiniteSet(PlainFree!Stored)
      BY DEF ArtInv, FreeOK
    <3> QED
      BY <3>1, <3>2, FS_CardinalityType
  <2>2. ASSUME NEW k \in Keys, NEW n \in 0..Len(k)
        PROVE  LET children == Radix!Down(radixRoot, k)[n].children
               IN  \A i, j \in DOMAIN children : i < j => children[i].byte < children[j].byte
    <3> DEFINE ch == Radix!Down(radixRoot, k)[n].children
    <3>1. k \in Seq(Nat) /\ TrieSound(radixRoot)
      BY KeysAreStrings DEF TrieInv, TrieHolds
    <3>2. Radix!Down(radixRoot, k) = Trie!Down(radixRoot, k)
      BY RadixIsTrie
    <3>3. EdgesSorted(ch)
      BY <3>1, <3>2 DEF TrieSound
    <3> HIDE DEF ch
    <3>4. ch \in Seq(ToSet(ch)) /\ \A i, j \in 1..Len(ch) : i < j => ch[i].byte < ch[j].byte
      BY <3>3 DEF EdgesSorted
    <3>5. DOMAIN ch = 1..Len(ch)
      BY <3>4
    <3>6. \A i, j \in DOMAIN ch : i < j => ch[i].byte < ch[j].byte
      BY <3>4, <3>5
    <3> QED
      BY <3>6 DEF ch
  <2>3. ASSUME artRoot # Art!Absent, NEW k \in Keys, NEW n \in 0..Len(k)
        PROVE  Art!WellPlaced(Art!Down(artRoot, 0, k)[n], k)
    <3>1. k \in Strings /\ Via(k, 0, <<>>) /\ Sound(artRoot, 0, <<>>)
      BY <2>3, KeysAreBytes DEF ArtInv, ArtHolds
    <3>2. PlaceOK(Art!Down(artRoot, 0, k)[n], k)
      BY <3>1 DEF Sound
    <3> QED
      BY <3>1, <3>2, PlaceIsWellPlaced
  <2> QED
    BY <2>1, <2>2, <2>3 DEF TypeOK
<1> QED
  BY <1>1, AlwaysTrieInv, AlwaysArtInv, PTL
=============================================================================
