------------------------ MODULE FlatRadixBimap_proofs ------------------------
(***************************************************************************)
(* TLAPS proofs about FlatRadixBimap, for every set of ids, every width of *)
(* usize and every capacity below it, with and without overflow checks.    *)
(***************************************************************************)
EXTENDS FlatRadixBimap, SequenceLemmas

Entries == KeyIds \X ValIds
Indexes == 0..(UsizeSize - 1)

(* One slot of a vector written.                                           *)
Written(vec, x, v) == [vec EXCEPT ![x + 1] = v]

(* The slots of a logged pair.                                             *)
KeyIndex(i) == ToIndex(order[i][1])
ValIndex(i) == ToIndex(order[i][2])

(* No two logged pairs share a slot.                                       *)
OrderDistinct ==
    \A i, j \in DOMAIN order :
        KeyIndex(i) = KeyIndex(j) \/ ValIndex(i) = ValIndex(j) => i = j

(* A logged pair is in its two slots.                                      *)
OrderBound ==
    \A i \in DOMAIN order : /\ Slot(fwd, KeyIndex(i)) = order[i][2]
                            /\ Slot(rev, ValIndex(i)) = order[i][1]

(* A slot in use is that of a logged pair.                                 *)
NoOrphans ==
    \A x \in Indexes :
        /\ Slot(fwd, x) # None => \E i \in DOMAIN order : KeyIndex(i) = x
        /\ Slot(rev, x) # None => \E i \in DOMAIN order : ValIndex(i) = x

Intact == OrderDistinct /\ OrderBound /\ NoOrphans

(* The inductive invariant: until a resize that wrapped cut the slots of   *)
(* logged pairs away, the slots in use are those of the logged pairs, each *)
(* of one pair only.  InSync alone is not inductive: it does not tell a    *)
(* pair logged twice from a pair logged once, and a truncation that drops  *)
(* one of the two would empty the slots of the other.                      *)
IInv == Typed /\ (unwound \/ Intact)

-----------------------------------------------------------------------------
(* An id is cut to an index, and an index is its own cut.                  *)
LEMMA IndexFacts ==
    /\ \A id \in Nat : ToIndex(id) \in Indexes
    /\ \A x \in Indexes : x \in Nat /\ ToIndex(x) = x
    /\ \A x \in Indexes :
          (x + 1) % UsizeSize = IF x + 1 = UsizeSize THEN 0 ELSE x + 1
<1>1. UsizeSize \in Nat \ {0}
  BY SizeAssumption
<1>2. ASSUME NEW id \in Nat PROVE id % UsizeSize \in 0..(UsizeSize - 1)
  BY <1>1
<1>3. ASSUME NEW x \in 0..(UsizeSize - 1)
      PROVE  /\ x \in Nat /\ x % UsizeSize = x
             /\ (x + 1) % UsizeSize = IF x + 1 = UsizeSize THEN 0 ELSE x + 1
  BY <1>1
<1> QED
  BY <1>2, <1>3 DEF ToIndex, Indexes

(* A slot holds an option, and a slot past the end reads as None.          *)
LEMMA SlotType ==
    ASSUME NEW S, NEW vec \in Seq(S \union {None}), NEW x \in Nat
    PROVE  /\ Slot(vec, x) \in S \union {None}
           /\ x >= Len(vec) => Slot(vec, x) = None
<1>1. Len(vec) \in Nat
  BY LenProperties
<1>2. ASSUME x < Len(vec) PROVE vec[x + 1] \in S \union {None}
  <2>1. x + 1 \in 1..Len(vec)
    BY <1>1, <1>2
  <2> QED
    BY <2>1, ElementOfSeq
<1> QED
  BY <1>1, <1>2 DEF Slot

(* A function on 1..n is a vector of length n.                             *)
LEMMA VectorByElements ==
    ASSUME NEW S, NEW n \in Nat, NEW f \in [1..n -> S]
    PROVE  f \in Seq(S) /\ Len(f) = n
<1>1. f \in Seq(S)
  BY SeqDef
<1>2. DOMAIN f = 1..n /\ DOMAIN f = 1..Len(f) /\ Len(f) \in Nat
  BY <1>1, LenProperties
<1> QED
  BY <1>1, <1>2

(* Growing a vector for an index, when it neither panics nor wraps, leaves *)
(* every slot as it was and stays within the capacity.                     *)
LEMMA GrownVector ==
    ASSUME NEW S, NEW vec \in Seq(S \union {None}), Len(vec) <= MaxVecLen,
           NEW x \in Indexes, ~SlotPanics(vec, x)
    PROVE  /\ WithSlot(vec, x) \in Seq(S \union {None})
           /\ Len(WithSlot(vec, x)) \in Nat
           /\ Len(WithSlot(vec, x)) <= MaxVecLen
           /\ x < Len(WithSlot(vec, x)) \/ Len(vec) <= Len(WithSlot(vec, x))
                 => \A y \in Nat : Slot(WithSlot(vec, x), y) = Slot(vec, y)
<1>1. /\ Len(vec) \in Nat /\ x \in Nat /\ x < UsizeSize
      /\ UsizeSize \in Nat /\ MaxVecLen \in Nat /\ MaxVecLen < UsizeSize
  BY LenProperties, SizeAssumption DEF Indexes
<1>2. CASE ~NeedsSlot(vec, x)
  BY <1>1, <1>2 DEF WithSlot
<1>3. CASE NeedsSlot(vec, x)
  <2> DEFINE n == IF x + 1 = UsizeSize THEN 0 ELSE x + 1
             grown == [j \in 1..n |-> IF j <= Len(vec) THEN vec[j] ELSE None]
  <2>1. WithSlot(vec, x) = grown
    BY <1>3, IndexFacts DEF WithSlot, Resized
  <2>2. n \in Nat /\ n <= MaxVecLen
    BY <1>1, <1>3 DEF SlotPanics
  <2>3. Len(vec) <= x
    BY <1>1, <1>3 DEF NeedsSlot
  <2>4. x < n \/ Len(vec) <= n => Len(vec) <= n
    BY <1>1, <2>3
  <2> HIDE DEF n
  <2>5. \A j \in 1..Len(vec) : vec[j] \in S \union {None}
    BY ElementOfSeq
  <2>6. grown \in [1..n -> S \union {None}]
    BY <1>1, <2>2, <2>5
  <2>7. grown \in Seq(S \union {None}) /\ Len(grown) = n
    BY <2>2, <2>6, VectorByElements
  <2>8. ASSUME Len(vec) <= n, NEW y \in Nat
        PROVE  Slot(grown, y) = Slot(vec, y)
    <3>1. CASE y < Len(vec)
      <4>1. y + 1 \in 1..n /\ y + 1 <= Len(vec) /\ y < n
        BY <1>1, <2>2, <2>8, <3>1
      <4>2. grown[y + 1] = vec[y + 1]
        BY <4>1
      <4> HIDE DEF grown
      <4> QED
        BY <2>7, <3>1, <4>1, <4>2 DEF Slot
    <3>2. CASE ~(y < Len(vec)) /\ y < n
      <4>1. y + 1 \in 1..n /\ ~(y + 1 <= Len(vec))
        BY <1>1, <2>2, <3>2
      <4>2. grown[y + 1] = None
        BY <4>1
      <4> HIDE DEF grown
      <4> QED
        BY <2>7, <3>2, <4>2 DEF Slot
    <3>3. CASE ~(y < Len(vec)) /\ ~(y < n)
      <4> HIDE DEF grown
      <4> QED
        BY <2>7, <3>3 DEF Slot
    <3> QED
      BY <3>1, <3>2, <3>3
  <2> HIDE DEF grown
  <2> QED
    BY <2>1, <2>2, <2>4, <2>7, <2>8
<1> QED
  BY <1>2, <1>3

(* Writing one slot of a vector leaves its length and the other slots.     *)
LEMMA WrittenVector ==
    ASSUME NEW S, NEW vec \in Seq(S \union {None}), NEW v \in S,
           NEW x \in Nat, x < Len(vec)
    PROVE  /\ Written(vec, x, v) \in Seq(S \union {None})
           /\ Len(Written(vec, x, v)) = Len(vec)
<1>1. Len(vec) \in Nat
  BY LenProperties
<1>2. x + 1 \in 1..Len(vec) /\ v \in S \union {None}
  BY <1>1
<1> QED
  BY <1>2, ExceptSeq DEF Written

(* What is in the slots after one was written,                             *)
LEMMA WrittenSlot ==
    ASSUME NEW S, NEW vec \in Seq(S \union {None}), NEW v \in S,
           NEW x \in Nat, x < Len(vec)
    PROVE  \A y \in Nat : Slot(Written(vec, x, v), y)
                             = IF y = x THEN v ELSE Slot(vec, y)
<1> DEFINE written == Written(vec, x, v)
<1>1. Len(vec) \in Nat /\ DOMAIN vec = 1..Len(vec)
  BY LenProperties
<1>2. Len(written) = Len(vec)
  BY WrittenVector
<1>3. \A j \in 1..Len(vec) : written[j] = IF j = x + 1 THEN v ELSE vec[j]
  BY <1>1 DEF Written
<1> HIDE DEF written
<1>4. ASSUME NEW y \in Nat
      PROVE  Slot(written, y) = IF y = x THEN v ELSE Slot(vec, y)
  <2>1. CASE y < Len(vec)
    <3>1. y + 1 \in 1..Len(vec) /\ (y + 1 = x + 1 <=> y = x)
      BY <1>1, <2>1
    <3> QED
      BY <1>2, <1>3, <2>1, <3>1 DEF Slot
  <2>2. CASE ~(y < Len(vec))
    BY <1>1, <1>2, <2>2 DEF Slot
  <2> QED
    BY <2>1, <2>2
<1> QED
  BY <1>4 DEF written

(* Emptying a set of slots leaves the length and the other slots.          *)
LEMMA EmptiedVector ==
    ASSUME NEW S, NEW vec \in Seq(S \union {None}), NEW idxs
    PROVE  /\ Emptied(vec, idxs) \in Seq(S \union {None})
           /\ Len(Emptied(vec, idxs)) = Len(vec)
<1> DEFINE emptied == [j \in 1..Len(vec) |-> IF j - 1 \in idxs THEN None ELSE vec[j]]
<1>1. Len(vec) \in Nat /\ DOMAIN vec = 1..Len(vec)
  BY LenProperties
<1>2. Emptied(vec, idxs) = emptied
  BY <1>1 DEF Emptied
<1>3. \A j \in 1..Len(vec) : vec[j] \in S \union {None}
  BY ElementOfSeq
<1>4. emptied \in [1..Len(vec) -> S \union {None}]
  BY <1>3
<1> HIDE DEF emptied
<1> QED
  BY <1>1, <1>2, <1>4, VectorByElements

(* and after one was emptied.                                              *)
LEMMA EmptiedSlot ==
    ASSUME NEW S, NEW vec \in Seq(S \union {None}), NEW idxs
    PROVE  \A y \in Nat : Slot(Emptied(vec, idxs), y)
                             = IF y \in idxs THEN None ELSE Slot(vec, y)
<1> DEFINE emptied == Emptied(vec, idxs)
<1>1. Len(vec) \in Nat /\ DOMAIN vec = 1..Len(vec)
  BY LenProperties
<1>2. Len(emptied) = Len(vec)
  BY EmptiedVector
<1>3. \A j \in 1..Len(vec) :
         emptied[j] = IF j - 1 \in idxs THEN None ELSE vec[j]
  BY <1>1 DEF Emptied
<1> HIDE DEF emptied
<1>4. ASSUME NEW y \in Nat
      PROVE  Slot(emptied, y) = IF y \in idxs THEN None ELSE Slot(vec, y)
  <2>1. CASE y < Len(vec)
    <3>1. y + 1 \in 1..Len(vec) /\ (y + 1) - 1 = y
      BY <1>1, <2>1
    <3>2. emptied[y + 1] = IF y \in idxs THEN None ELSE vec[y + 1]
      BY <1>3, <3>1
    <3> QED
      BY <1>2, <2>1, <3>2 DEF Slot
  <2>2. CASE ~(y < Len(vec))
    BY <1>1, <1>2, <2>2 DEF Slot
  <2> QED
    BY <2>1, <2>2
<1> QED
  BY <1>4 DEF emptied

-----------------------------------------------------------------------------
(* The types of the parts of the state, as facts.                          *)
LEMMA Types ==
    ASSUME Typed
    PROVE  /\ order \in Seq(Entries)
           /\ Len(order) \in Nat
           /\ DOMAIN order = 1..Len(order)
           /\ \A i \in 1..Len(order) :
                 /\ order[i] \in Entries
                 /\ order[i] = <<order[i][1], order[i][2]>>
                 /\ order[i][1] \in KeyIds /\ KeyIndex(i) \in Indexes
                 /\ order[i][2] \in ValIds /\ ValIndex(i) \in Indexes
           /\ fwd \in Seq(ValIds \union {None}) /\ Len(fwd) \in Nat
           /\ rev \in Seq(KeyIds \union {None}) /\ Len(rev) \in Nat
           /\ Len(fwd) <= MaxVecLen /\ Len(rev) <= MaxVecLen
           /\ \A m \in marks : /\ m.len \in Nat /\ m.len = Len(m.at)
                               /\ m.at \in Seq(Entries)
<1>1. order \in Seq(Entries)
  BY DEF Typed, Entries
<1>2. Len(order) \in Nat /\ DOMAIN order = 1..Len(order)
  BY <1>1, LenProperties
<1>3. \A i \in 1..Len(order) : order[i] \in Entries
  BY <1>1, ElementOfSeq
<1>4. \A e \in Entries : /\ e[1] \in KeyIds /\ e[2] \in ValIds
                         /\ e = <<e[1], e[2]>>
                         /\ ToIndex(e[1]) \in Indexes /\ ToIndex(e[2]) \in Indexes
  <2>1. \A e \in Entries : e[1] \in KeyIds /\ e[2] \in ValIds /\ e = <<e[1], e[2]>>
    BY DEF Entries
  <2> QED
    BY <2>1, IdAssumption, IndexFacts
<1>5. \A m \in marks : /\ m.len \in Nat /\ m.len = Len(m.at)
                       /\ m.at \in Seq(Entries)
  BY DEF Typed, Entries
<1>6. /\ fwd \in Seq(ValIds \union {None}) /\ Len(fwd) \in Nat
      /\ rev \in Seq(KeyIds \union {None}) /\ Len(rev) \in Nat
      /\ Len(fwd) <= MaxVecLen /\ Len(rev) <= MaxVecLen
  BY LenProperties DEF Typed
<1> QED
  BY <1>1, <1>2, <1>3, <1>4, <1>5, <1>6 DEF KeyIndex, ValIndex

(* The ids are natural numbers, None is none of them.                      *)
LEMMA IdFacts ==
    /\ \A k \in KeyIds : k \in Nat /\ k # None /\ ToIndex(k) \in Indexes
    /\ \A v \in ValIds : v \in Nat /\ v # None /\ ToIndex(v) \in Indexes
    /\ \A x \in Indexes : x \in Nat /\ x # None /\ ToIndex(x) = x
<1>1. KeyIds \subseteq Nat /\ ValIds \subseteq Nat /\ None \notin Nat
  BY IdAssumption, NoneAssumption
<1> QED
  BY <1>1, IndexFacts

(* A call that leaves the vectors and the log alone.                       *)
LEMMA ReadKeepsIInv ==
    ASSUME IInv, UNCHANGED <<fwd, rev, order, marks, unwound>>,
           ret' \in [tag : Tags, key : KeyIds \union {None}, val : ValIds \union {None}]
    PROVE  IInv'
<1>1. Typed'
  BY DEF IInv, Typed
<1>2. Intact => Intact'
  BY DEF Intact, OrderDistinct, OrderBound, NoOrphans, KeyIndex, ValIndex, Slot
<1> QED
  BY <1>1, <1>2 DEF IInv

(* A fresh pair goes into its two slots and to the end of the log; the     *)
(* vectors grew first where they had to.                                   *)
LEMMA BindKeepsIInv ==
    ASSUME IInv, NEW k \in KeyIds, NEW v \in ValIds, InsertBinds(k, v)
    PROVE  IInv'
<1> DEFINE ki == ToIndex(k)
           vi == ToIndex(v)
           grownFwd == WithSlot(fwd, ki)
           grownRev == WithSlot(rev, vi)
<1>0. PICK n \in Nat : n = Len(order)
  BY Types DEF IInv
<1>1. /\ Slot(fwd, ki) = None /\ Slot(rev, vi) = None
      /\ ~SlotPanics(fwd, ki) /\ ki < Len(grownFwd)
      /\ ~SlotPanics(rev, vi) /\ vi < Len(grownRev)
      /\ fwd' = Written(grownFwd, ki, v)
      /\ rev' = Written(grownRev, vi, k)
      /\ order' = Append(order, <<k, v>>)
      /\ ret' = Answer("Ok", k, v)
      /\ UNCHANGED <<marks, unwound>>
  BY DEF InsertBinds, KeyTaken, ValTaken, Written
<1>2. ki \in Indexes /\ vi \in Indexes /\ ki \in Nat /\ vi \in Nat
  BY IdFacts
<1>3. /\ order \in Seq(Entries) /\ DOMAIN order = 1..n
      /\ fwd \in Seq(ValIds \union {None}) /\ Len(fwd) <= MaxVecLen
      /\ rev \in Seq(KeyIds \union {None}) /\ Len(rev) <= MaxVecLen
      /\ \A i \in 1..n : KeyIndex(i) \in Indexes /\ ValIndex(i) \in Indexes
      /\ \A i \in 1..n : order[i][1] \in KeyIds /\ order[i][2] \in ValIds
  BY <1>0, Types DEF IInv
<1>4. <<k, v>> \in Entries
  BY DEF Entries
<1>5. /\ order' \in Seq(Entries)
      /\ DOMAIN order' = 1..(n + 1)
      /\ \A i \in 1..n : order'[i] = order[i]
      /\ order'[n + 1] = <<k, v>>
  BY <1>0, <1>1, <1>3, <1>4, AppendFacts
<1>6. /\ grownFwd \in Seq(ValIds \union {None}) /\ Len(grownFwd) <= MaxVecLen
      /\ \A y \in Nat : Slot(grownFwd, y) = Slot(fwd, y)
  BY <1>1, <1>2, <1>3, GrownVector
<1>7. /\ grownRev \in Seq(KeyIds \union {None}) /\ Len(grownRev) <= MaxVecLen
      /\ \A y \in Nat : Slot(grownRev, y) = Slot(rev, y)
  BY <1>1, <1>2, <1>3, GrownVector
<1> HIDE DEF grownFwd, grownRev, ki, vi
<1>8. /\ fwd' \in Seq(ValIds \union {None}) /\ Len(fwd') = Len(grownFwd)
      /\ \A y \in Nat : Slot(fwd', y) = IF y = ki THEN v ELSE Slot(fwd, y)
  <2>1. /\ fwd' = Written(grownFwd, ki, v) /\ ki < Len(grownFwd) /\ ki \in Nat
        /\ grownFwd \in Seq(ValIds \union {None})
    BY <1>1, <1>2, <1>6
  <2>2. fwd' \in Seq(ValIds \union {None}) /\ Len(fwd') = Len(grownFwd)
    BY <2>1, WrittenVector
  <2>3. \A y \in Nat : Slot(fwd', y) = IF y = ki THEN v ELSE Slot(grownFwd, y)
    BY <2>1, WrittenSlot
  <2> QED
    BY <1>6, <2>2, <2>3
<1>9. /\ rev' \in Seq(KeyIds \union {None}) /\ Len(rev') = Len(grownRev)
      /\ \A y \in Nat : Slot(rev', y) = IF y = vi THEN k ELSE Slot(rev, y)
  <2>1. /\ rev' = Written(grownRev, vi, k) /\ vi < Len(grownRev) /\ vi \in Nat
        /\ grownRev \in Seq(KeyIds \union {None})
    BY <1>1, <1>2, <1>7
  <2>2. rev' \in Seq(KeyIds \union {None}) /\ Len(rev') = Len(grownRev)
    BY <2>1, WrittenVector
  <2>3. \A y \in Nat : Slot(rev', y) = IF y = vi THEN k ELSE Slot(grownRev, y)
    BY <2>1, WrittenSlot
  <2> QED
    BY <1>7, <2>2, <2>3
<1>10. Typed'
  <2>1. ret' \in [tag : Tags, key : KeyIds \union {None}, val : ValIds \union {None}]
    BY <1>1 DEF Answer, Tags
  <2> QED
    BY <1>1, <1>5, <1>6, <1>7, <1>8, <1>9, <2>1 DEF IInv, Typed, Entries
<1>11. ASSUME Intact PROVE Intact'
  <2>1. \A i \in 1..n : KeyIndex(i)' = KeyIndex(i) /\ ValIndex(i)' = ValIndex(i)
    BY <1>5 DEF KeyIndex, ValIndex
  <2>2. KeyIndex(n + 1)' = ki /\ ValIndex(n + 1)' = vi
    BY <1>5 DEF KeyIndex, ValIndex, ki, vi
  <2>3. \A i \in 1..(n + 1) : i \in 1..n \/ i = n + 1
    OBVIOUS
  <2>4. \A i \in 1..n : i \in 1..(n + 1)
    OBVIOUS
  <2>5. n + 1 \in 1..(n + 1)
    OBVIOUS
  <2>6. \A i \in 1..n : /\ Slot(fwd, KeyIndex(i)) = order[i][2]
                        /\ Slot(rev, ValIndex(i)) = order[i][1]
    BY <1>3, <1>11 DEF Intact, OrderBound
  <2>7. \A i \in 1..n : /\ KeyIndex(i) # ki /\ ValIndex(i) # vi
                        /\ KeyIndex(i) \in Nat /\ ValIndex(i) \in Nat
    BY <1>1, <1>3, <2>6, IdFacts DEF ki, vi
  <2>8. OrderDistinct'
    <3>1. \A i, j \in 1..n :
             KeyIndex(i) = KeyIndex(j) \/ ValIndex(i) = ValIndex(j) => i = j
      BY <1>3, <1>11 DEF Intact, OrderDistinct
    <3> QED
      BY <1>5, <2>1, <2>2, <2>3, <2>7, <3>1 DEF OrderDistinct
  <2>9. OrderBound'
    <3>1. ASSUME NEW i \in 1..n
          PROVE  /\ Slot(fwd', KeyIndex(i)') = order'[i][2]
                 /\ Slot(rev', ValIndex(i)') = order'[i][1]
      BY <1>5, <1>8, <1>9, <2>1, <2>6, <2>7
    <3>2. /\ Slot(fwd', KeyIndex(n + 1)') = order'[n + 1][2]
          /\ Slot(rev', ValIndex(n + 1)') = order'[n + 1][1]
      BY <1>2, <1>5, <1>8, <1>9, <2>2
    <3> QED
      BY <1>5, <2>3, <3>1, <3>2 DEF OrderBound
  <2>10. NoOrphans'
    <3>1. ASSUME NEW x \in Indexes, Slot(fwd', x) # None
          PROVE  \E i \in 1..(n + 1) : KeyIndex(i)' = x
      <4>1. CASE x = ki
        BY <2>2, <2>5, <4>1
      <4>2. CASE x # ki
        <5>1. Slot(fwd, x) # None
          BY <1>8, <3>1, <4>2, IdFacts
        <5> QED
          BY <1>3, <1>11, <2>1, <2>4, <5>1 DEF Intact, NoOrphans
      <4> QED
        BY <4>1, <4>2
    <3>2. ASSUME NEW x \in Indexes, Slot(rev', x) # None
          PROVE  \E i \in 1..(n + 1) : ValIndex(i)' = x
      <4>1. CASE x = vi
        BY <2>2, <2>5, <4>1
      <4>2. CASE x # vi
        <5>1. Slot(rev, x) # None
          BY <1>9, <3>2, <4>2, IdFacts
        <5> QED
          BY <1>3, <1>11, <2>1, <2>4, <5>1 DEF Intact, NoOrphans
      <4> QED
        BY <4>1, <4>2
    <3> QED
      BY <1>5, <3>1, <3>2 DEF NoOrphans
  <2> QED
    BY <2>8, <2>9, <2>10 DEF Intact
<1> QED
  BY <1>1, <1>10, <1>11 DEF IInv

(* A panic on the growth of a vector: the forward vector may be longer by  *)
(* slots that hold None, or, where the sum wrapped before the reverse one  *)
(* panicked, empty.                                                        *)
LEMMA CannotGrowKeepsIInv ==
    ASSUME IInv, NEW k \in KeyIds, NEW v \in ValIds, InsertCannotGrow(k, v)
    PROVE  IInv'
<1> DEFINE ki == ToIndex(k)
           grown == WithSlot(fwd, ki)
<1>1. /\ UNCHANGED <<rev, order>>
      /\ marks' = IF unwound' THEN {} ELSE marks
      /\ ret' = Answer("Unwound", k, v)
      /\ \/ UNCHANGED <<fwd, unwound>>
         \/ /\ ~SlotPanics(fwd, ki)
            /\ fwd' = grown
            /\ unwound' = (unwound \/ Len(grown) < Len(fwd))
  BY DEF InsertCannotGrow
<1>2. ret' \in [tag : Tags, key : KeyIds \union {None}, val : ValIds \union {None}]
  BY <1>1 DEF Answer, Tags
<1>3. /\ fwd \in Seq(ValIds \union {None}) /\ Len(fwd) <= MaxVecLen /\ Len(fwd) \in Nat
      /\ unwound \in BOOLEAN
  BY Types DEF IInv, Typed
<1>4. ki \in Indexes
  BY IdFacts
<1> HIDE DEF ki
<1>5. ~SlotPanics(fwd, ki)
         => /\ grown \in Seq(ValIds \union {None}) /\ Len(grown) <= MaxVecLen
            /\ Len(grown) \in Nat
            /\ Len(fwd) <= Len(grown) => \A y \in Nat : Slot(grown, y) = Slot(fwd, y)
  BY <1>3, <1>4, GrownVector
<1> HIDE DEF grown
<1>6. fwd' \in Seq(ValIds \union {None}) /\ Len(fwd') <= MaxVecLen /\ unwound' \in BOOLEAN
  BY <1>1, <1>3, <1>5
<1>7. Typed'
  <2>1. /\ marks' \subseteq [len : Nat, at : Seq(KeyIds \X ValIds)]
        /\ \A m \in marks' : m.len = Len(m.at)
    BY <1>1 DEF IInv, Typed
  <2> QED
    BY <1>1, <1>2, <1>6, <2>1 DEF IInv, Typed
<1>8. unwound' \/ (~unwound /\ \A y \in Nat : Slot(fwd', y) = Slot(fwd, y)) \/ unwound
  <2>1. CASE UNCHANGED fwd
    BY <2>1
  <2>2. CASE /\ ~SlotPanics(fwd, ki)
             /\ fwd' = grown
             /\ unwound' = (unwound \/ Len(grown) < Len(fwd))
    <3>1. CASE Len(grown) < Len(fwd)
      BY <2>2, <3>1
    <3>2. CASE ~(Len(grown) < Len(fwd))
      <4>1. Len(fwd) <= Len(grown)
        BY <1>3, <1>5, <2>2, <3>2
      <4>2. \A y \in Nat : Slot(fwd', y) = Slot(fwd, y)
        BY <1>5, <2>2, <4>1
      <4> QED
        BY <4>2
    <3> QED
      BY <3>1, <3>2
  <2> QED
    BY <1>1, <2>1, <2>2
<1>9. unwound => unwound'
  BY <1>1
<1>10. ASSUME ~unwound' PROVE Intact'
  <2>1. Intact /\ \A y \in Nat : Slot(fwd', y) = Slot(fwd, y)
    BY <1>8, <1>9, <1>10 DEF IInv
  <2>2. /\ DOMAIN order = 1..Len(order)
        /\ \A i \in 1..Len(order) : KeyIndex(i) \in Indexes /\ ValIndex(i) \in Indexes
        /\ \A x \in Indexes : x \in Nat
    BY Types, IdFacts DEF IInv
  <2>3. \A i \in 1..Len(order) : Slot(fwd', KeyIndex(i)) = Slot(fwd, KeyIndex(i))
    BY <2>1, <2>2
  <2>4. OrderBound'
    BY <1>1, <2>1, <2>2, <2>3 DEF Intact, OrderBound, KeyIndex, ValIndex
  <2>5. NoOrphans'
    BY <1>1, <2>1, <2>2 DEF Intact, NoOrphans, KeyIndex, ValIndex
  <2> QED
    BY <1>1, <2>1, <2>4, <2>5 DEF Intact, OrderDistinct, KeyIndex, ValIndex
<1> QED
  BY <1>7, <1>10 DEF IInv

(* A vector that wrapped is empty, and the panic ends the promise.         *)
LEMMA WrapsKeepsIInv ==
    ASSUME IInv, NEW k \in KeyIds, NEW v \in ValIds, InsertWraps(k, v)
    PROVE  IInv'
<1> DEFINE ki == ToIndex(k)
           vi == ToIndex(v)
           grownFwd == WithSlot(fwd, ki)
           grownRev == WithSlot(rev, vi)
<1>1. /\ ~SlotPanics(fwd, ki) /\ ~SlotPanics(rev, vi)
      /\ \/ fwd' = grownFwd
         \/ ki < Len(grownFwd) /\ fwd' = Written(grownFwd, ki, v)
      /\ rev' = grownRev
      /\ ret' = Answer("Unwound", k, v)
      /\ unwound' = TRUE /\ marks' = {}
      /\ UNCHANGED order
  BY DEF InsertWraps, Broken, Written
<1>2. ki \in Indexes /\ vi \in Indexes /\ ki \in Nat
  BY IdFacts
<1>3. /\ fwd \in Seq(ValIds \union {None}) /\ Len(fwd) <= MaxVecLen
      /\ rev \in Seq(KeyIds \union {None}) /\ Len(rev) <= MaxVecLen
  BY Types DEF IInv
<1> HIDE DEF ki, vi
<1>4. grownFwd \in Seq(ValIds \union {None}) /\ Len(grownFwd) <= MaxVecLen
  BY <1>1, <1>2, <1>3, GrownVector
<1>5. grownRev \in Seq(KeyIds \union {None}) /\ Len(grownRev) <= MaxVecLen
  BY <1>1, <1>2, <1>3, GrownVector
<1> HIDE DEF grownFwd, grownRev
<1>6. fwd' \in Seq(ValIds \union {None}) /\ Len(fwd') <= MaxVecLen
  BY <1>1, <1>2, <1>4, WrittenVector
<1>7. ret' \in [tag : Tags, key : KeyIds \union {None}, val : ValIds \union {None}]
  BY <1>1 DEF Answer, Tags
<1> QED
  BY <1>1, <1>5, <1>6, <1>7 DEF IInv, Typed

-----------------------------------------------------------------------------
(* A cut of the log that leaves the first c entries; the forward vector    *)
(* loses the slots of the entries after a, the reverse one those after b.  *)
CutTo(c, a, b) ==
    /\ order' = SubSeq(order, 1, c)
    /\ fwd' = Emptied(fwd, KeySlots({order[i] : i \in (a + 1)..Len(order)}))
    /\ rev' = Emptied(rev, ValSlots({order[i] : i \in (b + 1)..Len(order)}))

(* What a cut does, entry by entry and slot by slot.                       *)
LEMMA CutTypes ==
    ASSUME Typed, NEW c \in 0..Len(order), NEW a, NEW b, CutTo(c, a, b)
    PROVE  /\ order' \in Seq(Entries)
           /\ fwd' \in Seq(ValIds \union {None}) /\ Len(fwd') = Len(fwd)
           /\ rev' \in Seq(KeyIds \union {None}) /\ Len(rev') = Len(rev)
<1>1. /\ fwd \in Seq(ValIds \union {None}) /\ rev \in Seq(KeyIds \union {None})
      /\ order \in Seq(Entries)
  BY Types
<1>2. order' \in Seq(Entries)
  BY <1>1, PrefixFacts DEF CutTo
<1>3. fwd' \in Seq(ValIds \union {None}) /\ Len(fwd') = Len(fwd)
  BY <1>1, EmptiedVector DEF CutTo
<1>4. rev' \in Seq(KeyIds \union {None}) /\ Len(rev') = Len(rev)
  BY <1>1, EmptiedVector DEF CutTo
<1> QED
  BY <1>2, <1>3, <1>4

(* After a cut: the pairs that stay logged, and the slots that were        *)
(* emptied.                                                                *)
LEMMA CutFacts ==
    ASSUME Typed, NEW c \in 0..Len(order), NEW a \in Nat, NEW b \in Nat,
           CutTo(c, a, b)
    PROVE  /\ DOMAIN order' = 1..c
           /\ \A i \in 1..c : i \in 1..Len(order) /\ order'[i] = order[i]
           /\ \A x \in Indexes :
                 Slot(fwd', x) = IF \E i \in (a + 1)..Len(order) : KeyIndex(i) = x
                                 THEN None ELSE Slot(fwd, x)
           /\ \A x \in Indexes :
                 Slot(rev', x) = IF \E i \in (b + 1)..Len(order) : ValIndex(i) = x
                                 THEN None ELSE Slot(rev, x)
<1>1. /\ fwd \in Seq(ValIds \union {None}) /\ rev \in Seq(KeyIds \union {None})
      /\ order \in Seq(Entries) /\ Len(order) \in Nat
      /\ \A x \in Indexes : x \in Nat
  BY Types, IdFacts
<1>2. DOMAIN order' = 1..c /\ \A i \in 1..c : order'[i] = order[i]
  BY <1>1, PrefixFacts DEF CutTo
<1>3. \A i \in 1..c : i \in 1..Len(order)
  BY <1>1
<1> DEFINE goneKeys == KeySlots({order[i] : i \in (a + 1)..Len(order)})
           goneVals == ValSlots({order[i] : i \in (b + 1)..Len(order)})
<1>4. \A x : x \in goneKeys <=> \E i \in (a + 1)..Len(order) : KeyIndex(i) = x
  BY DEF KeySlots, KeyIndex
<1>5. \A x : x \in goneVals <=> \E i \in (b + 1)..Len(order) : ValIndex(i) = x
  BY DEF ValSlots, ValIndex
<1>6. fwd' = Emptied(fwd, goneKeys) /\ rev' = Emptied(rev, goneVals)
  BY DEF CutTo
<1> HIDE DEF goneKeys, goneVals
<1>7. \A x \in Nat : Slot(fwd', x) = IF x \in goneKeys THEN None ELSE Slot(fwd, x)
  <2>1. fwd \in Seq(ValIds \union {None})
    BY <1>1
  <2>2. \A x \in Nat : Slot(Emptied(fwd, goneKeys), x)
                         = IF x \in goneKeys THEN None ELSE Slot(fwd, x)
    BY ONLY <2>1, EmptiedSlot
  <2> QED
    BY <1>6, <2>2
<1>8. \A x \in Nat : Slot(rev', x) = IF x \in goneVals THEN None ELSE Slot(rev, x)
  <2>1. rev \in Seq(KeyIds \union {None})
    BY <1>1
  <2>2. \A x \in Nat : Slot(Emptied(rev, goneVals), x)
                         = IF x \in goneVals THEN None ELSE Slot(rev, x)
    BY ONLY <2>1, EmptiedSlot
  <2> QED
    BY <1>6, <2>2
<1>9. \A x \in Indexes :
         Slot(fwd', x) = IF \E i \in (a + 1)..Len(order) : KeyIndex(i) = x
                         THEN None ELSE Slot(fwd, x)
  BY <1>1, <1>4, <1>7
<1>10. \A x \in Indexes :
          Slot(rev', x) = IF \E i \in (b + 1)..Len(order) : ValIndex(i) = x
                          THEN None ELSE Slot(rev, x)
  BY <1>1, <1>5, <1>8
<1> QED
  BY <1>2, <1>3, <1>9, <1>10

(* Truncate and rollback as cuts.                                          *)
LEMMA TruncateIsCut ==
    ASSUME Typed, NEW n \in Nat, Truncate(n)
    PROVE  \E c \in 0..Len(order) :
              /\ c = (IF n < Len(order) THEN n ELSE Len(order))
              /\ CutTo(c, n, n)
<1> DEFINE c == IF n < Len(order) THEN n ELSE Len(order)
<1>1. c \in 0..Len(order)
  BY Types
<1>2. CutTo(c, n, n)
  BY DEF Truncate, CutTo, Scope!Kept, Scope!Dropped
<1> QED
  BY <1>1, <1>2

(* A cut of all three stores at the same place keeps them in step.         *)
LEMMA CutKeepsIntact ==
    ASSUME Typed, Intact, NEW n \in Nat, NEW c \in 0..Len(order),
           c = (IF n < Len(order) THEN n ELSE Len(order)),
           CutTo(c, n, n)
    PROVE  Intact'
<1>1. /\ Len(order) \in Nat /\ DOMAIN order = 1..Len(order)
      /\ \A i \in 1..Len(order) : KeyIndex(i) \in Indexes /\ ValIndex(i) \in Indexes
  BY Types
<1>2. DOMAIN order' = 1..c
  BY CutFacts
<1>3. \A i \in 1..c : i \in 1..Len(order) /\ order'[i] = order[i]
  BY CutFacts
<1>4. \A x \in Indexes :
         Slot(fwd', x) = IF \E i \in (n + 1)..Len(order) : KeyIndex(i) = x
                         THEN None ELSE Slot(fwd, x)
  BY CutFacts
<1>5. \A x \in Indexes :
         Slot(rev', x) = IF \E i \in (n + 1)..Len(order) : ValIndex(i) = x
                         THEN None ELSE Slot(rev, x)
  BY CutFacts
<1>6. \A i \in 1..c : KeyIndex(i)' = KeyIndex(i) /\ ValIndex(i)' = ValIndex(i)
  BY <1>3 DEF KeyIndex, ValIndex
<1>7. \A i, j \in 1..Len(order) :
         KeyIndex(i) = KeyIndex(j) \/ ValIndex(i) = ValIndex(j) => i = j
  BY <1>1 DEF Intact, OrderDistinct
<1>0. Len(order) \in Nat
  BY Types
<1>8. ASSUME NEW i \in 1..c PROVE i \notin (n + 1)..Len(order)
  BY <1>0
<1>9. ASSUME NEW i \in 1..Len(order) PROVE i \in (n + 1)..Len(order) \/ i \in 1..c
  BY <1>0
<1>10. OrderDistinct'
  BY <1>2, <1>3, <1>6, <1>7 DEF OrderDistinct
<1>11. OrderBound'
  <2>1. ASSUME NEW i \in 1..c
        PROVE  Slot(fwd', KeyIndex(i)) = order[i][2] /\ Slot(rev', ValIndex(i)) = order[i][1]
    <3>1. /\ i \in 1..Len(order) /\ KeyIndex(i) \in Indexes /\ ValIndex(i) \in Indexes
          /\ Slot(fwd, KeyIndex(i)) = order[i][2] /\ Slot(rev, ValIndex(i)) = order[i][1]
      BY <1>1, <1>3 DEF Intact, OrderBound
    <3>2. ~\E j \in (n + 1)..Len(order) :
              KeyIndex(j) = KeyIndex(i) \/ ValIndex(j) = ValIndex(i)
      <4>1. ASSUME NEW j \in (n + 1)..Len(order),
                   KeyIndex(j) = KeyIndex(i) \/ ValIndex(j) = ValIndex(i)
            PROVE  FALSE
        <5>1. j \in 1..Len(order)
          BY <1>0
        <5>2. i = j
          BY <1>7, <3>1, <4>1, <5>1
        <5> QED
          BY <1>8, <5>2
      <4> QED
        BY <4>1
    <3>3. Slot(fwd', KeyIndex(i)) = Slot(fwd, KeyIndex(i))
      BY <1>4, <3>1, <3>2
    <3>4. Slot(rev', ValIndex(i)) = Slot(rev, ValIndex(i))
      BY <1>5, <3>1, <3>2
    <3> QED
      BY <3>1, <3>3, <3>4
  <2> QED
    BY <1>2, <1>3, <1>6, <2>1 DEF OrderBound
<1>12. NoOrphans'
  <2>1. ASSUME NEW x \in Indexes, Slot(fwd', x) # None
        PROVE  \E i \in 1..c : KeyIndex(i) = x
    <3>1. /\ Slot(fwd, x) # None
          /\ ~\E i \in (n + 1)..Len(order) : KeyIndex(i) = x
      BY <1>4, <2>1
    <3>2. PICK i \in 1..Len(order) : KeyIndex(i) = x
      BY <1>1, <3>1 DEF Intact, NoOrphans
    <3> QED
      BY <1>9, <3>1, <3>2
  <2>2. ASSUME NEW x \in Indexes, Slot(rev', x) # None
        PROVE  \E i \in 1..c : ValIndex(i) = x
    <3>1. /\ Slot(rev, x) # None
          /\ ~\E i \in (n + 1)..Len(order) : ValIndex(i) = x
      BY <1>5, <2>2
    <3>2. PICK i \in 1..Len(order) : ValIndex(i) = x
      BY <1>1, <3>1 DEF Intact, NoOrphans
    <3> QED
      BY <1>9, <3>1, <3>2
  <2> QED
    BY <1>2, <1>6, <2>1, <2>2 DEF NoOrphans
<1> QED
  BY <1>10, <1>11, <1>12 DEF Intact

(* truncate, and rollback_to with it, cuts all three stores at one place.  *)
LEMMA TruncateKeepsIInv ==
    ASSUME IInv, NEW n \in Nat, Truncate(n)
    PROVE  IInv'
<1>1. PICK c \in 0..Len(order) :
         /\ c = (IF n < Len(order) THEN n ELSE Len(order))
         /\ CutTo(c, n, n)
  BY TruncateIsCut DEF IInv
<1>2. Intact => Intact'
  BY <1>1, CutKeepsIntact DEF IInv
<1>3. Typed'
  <2>1. /\ order' \in Seq(Entries)
        /\ fwd' \in Seq(ValIds \union {None}) /\ Len(fwd') = Len(fwd)
        /\ rev' \in Seq(KeyIds \union {None}) /\ Len(rev') = Len(rev)
    BY <1>1, CutTypes DEF IInv
  <2>2. ret' \in [tag : Tags, key : KeyIds \union {None}, val : ValIds \union {None}]
    BY DEF Truncate, Unit, Answer, Tags
  <2> QED
    BY <2>1, <2>2 DEF IInv, Typed, Truncate, Entries
<1> QED
  BY <1>2, <1>3 DEF IInv, Truncate

(* A fault leaves a cut of each store, not all at the same place.          *)
LEMMA TruncateFaultsIsCut ==
    ASSUME Typed, NEW n \in Nat, TruncateFaults(n)
    PROVE  \E i \in 1..Len(order) :
              /\ i - 1 \in 0..Len(order) /\ i \in Nat
              /\ SlotLost(order[i])
              /\ CutTo(i - 1, i - 1, i)
<1>1. PICK i \in (n + 1)..Len(order) :
         /\ SlotLost(order[i])
         /\ order' = Scope!Kept(i - 1)
         /\ fwd' = Emptied(fwd, KeySlots(Scope!Dropped(i - 1)))
         /\ rev' = Emptied(rev, ValSlots(Scope!Dropped(i)))
  BY DEF TruncateFaults
<1>2. /\ i \in 1..Len(order) /\ i \in Nat
      /\ i - 1 \in 0..Len(order) /\ i - 1 < Len(order)
  BY Types
<1>3. Scope!Kept(i - 1) = SubSeq(order, 1, i - 1)
  BY <1>2 DEF Scope!Kept
<1>4. CutTo(i - 1, i - 1, i)
  BY <1>1, <1>3 DEF CutTo, Scope!Dropped
<1> QED
  BY <1>1, <1>2, <1>4

(* A truncation that panics keeps the invariant, with unwound set.         *)
LEMMA TruncateFaultsKeepsIInv ==
    ASSUME IInv, NEW n \in Nat, TruncateFaults(n)
    PROVE  IInv'
<1>1. PICK i \in 1..Len(order) : i - 1 \in 0..Len(order) /\ CutTo(i - 1, i - 1, i)
  BY TruncateFaultsIsCut DEF IInv
<1>2. /\ order' \in Seq(Entries)
      /\ fwd' \in Seq(ValIds \union {None}) /\ Len(fwd') = Len(fwd)
      /\ rev' \in Seq(KeyIds \union {None}) /\ Len(rev') = Len(rev)
  BY <1>1, CutTypes DEF IInv
<1>3. ret' \in [tag : Tags, key : KeyIds \union {None}, val : ValIds \union {None}]
  BY DEF TruncateFaults, Answer, Tags
<1>4. unwound' = TRUE /\ marks' = {}
  BY DEF TruncateFaults, Broken
<1> QED
  BY <1>2, <1>3, <1>4 DEF IInv, Typed, Entries

(* A vector without elements has no slot in use.                           *)
LEMMA NoSlots == Len(<<>>) = 0 /\ \A x \in Indexes : Slot(<<>>, x) = None
<1>1. Len(<<>>) = 0
  OBVIOUS
<1> QED
  BY <1>1, IdFacts DEF Slot

(* So does a clear, which makes any bimap intact.                          *)
LEMMA ClearKeepsIInv ==
    ASSUME IInv, Clear
    PROVE  IInv'
<1>1. /\ fwd' = <<>> /\ rev' = <<>> /\ order' = <<>>
      /\ ret' = Unit
      /\ UNCHANGED <<marks, unwound>>
  BY DEF Clear
<1>2. Intact' /\ Len(fwd') = 0 /\ Len(rev') = 0
  BY <1>1, NoSlots DEF Intact, OrderDistinct, OrderBound, NoOrphans
<1>3. Typed'
  <2>1. /\ fwd' \in Seq(ValIds \union {None})
        /\ rev' \in Seq(KeyIds \union {None})
        /\ order' \in Seq(KeyIds \X ValIds)
    BY <1>1, EmptySeq
  <2>2. ret' \in [tag : Tags, key : KeyIds \union {None}, val : ValIds \union {None}]
    BY <1>1 DEF Unit, Answer, Tags
  <2> QED
    BY <1>1, <1>2, <2>1, <2>2, SizeAssumption DEF IInv, Typed
<1> QED
  BY <1>2, <1>3 DEF IInv

(* Taking and dropping marks touches no slot.                              *)
LEMMA MarksKeepIInv ==
    ASSUME IInv, TakeMark \/ ForgetMark
    PROVE  IInv'
<1>1. UNCHANGED <<fwd, rev, order, ret, unwound>>
  BY DEF TakeMark, ForgetMark, Scope!TakeMark, Scope!ForgetMark
<1>2. order \in Seq(KeyIds \X ValIds) /\ Len(order) \in Nat
  BY Types DEF IInv, Entries
<1>3. marks' \subseteq marks \union {[len |-> Len(order), at |-> order]}
  BY DEF TakeMark, ForgetMark, Scope!TakeMark, Scope!ForgetMark, Scope!MarkOf
<1>4. /\ marks' \subseteq [len : Nat, at : Seq(KeyIds \X ValIds)]
      /\ \A m \in marks' : m.len = Len(m.at)
  BY <1>2, <1>3 DEF IInv, Typed
<1>5. Typed'
  BY <1>1, <1>4 DEF IInv, Typed
<1>6. Intact => Intact'
  BY <1>1 DEF Intact, OrderDistinct, OrderBound, NoOrphans, KeyIndex, ValIndex, Slot
<1> QED
  BY <1>1, <1>5, <1>6 DEF IInv

-----------------------------------------------------------------------------
(* The empty bimap is intact.                                              *)
LEMMA InitIInv == Init => IInv
<1> SUFFICES ASSUME Init PROVE IInv
  OBVIOUS
<1>1. Intact /\ Len(fwd) = 0 /\ Len(rev) = 0
  BY NoSlots DEF Init, Intact, OrderDistinct, OrderBound, NoOrphans
<1>2. /\ fwd \in Seq(ValIds \union {None})
      /\ rev \in Seq(KeyIds \union {None})
      /\ order \in Seq(KeyIds \X ValIds)
  BY EmptySeq DEF Init
<1>3. marks = {} /\ unwound \in BOOLEAN
  BY DEF Init
<1>4. ret \in [tag : Tags, key : KeyIds \union {None}, val : ValIds \union {None}]
  BY DEF Init, Unit, Answer, Tags
<1>5. Typed
  <2>1. Len(fwd) <= MaxVecLen /\ Len(rev) <= MaxVecLen
    BY <1>1, SizeAssumption
  <2>2. /\ marks \subseteq [len : Nat, at : Seq(KeyIds \X ValIds)]
        /\ \A m \in marks : m.len = Len(m.at)
    BY <1>3
  <2> QED
    BY <1>2, <1>3, <1>4, <2>1, <2>2 DEF Typed
<1> QED
  BY <1>1, <1>5 DEF IInv

(* Every outcome of an insert keeps the invariant.                         *)
LEMMA InsertKeepsIInv ==
    ASSUME IInv, NEW k \in KeyIds, NEW v \in ValIds,
           \/ InsertRefused(k, v) \/ InsertBinds(k, v)
           \/ InsertCannotGrow(k, v) \/ InsertWraps(k, v)
    PROVE  IInv'
<1>1. ASSUME NEW tag \in Tags, Refuse(tag, k, v) PROVE IInv'
  <2>1. ret' \in [tag : Tags, key : KeyIds \union {None}, val : ValIds \union {None}]
    BY <1>1 DEF Refuse, Answer
  <2> QED
    BY <1>1, <2>1, ReadKeepsIInv DEF Refuse
<1>2. InsertRefused(k, v) => IInv'
  BY <1>1 DEF InsertRefused, Tags
<1> QED
  BY <1>2, BindKeepsIInv, CannotGrowKeepsIInv, WrapsKeepsIInv

(* The invariant is inductive.                                             *)
LEMMA NextKeepsIInv == IInv /\ [Next]_vars => IInv'
<1> SUFFICES ASSUME IInv, [Next]_vars PROVE IInv'
  OBVIOUS
<1>1. ASSUME NEW k \in KeyIds, Get(k) PROVE IInv'
  <2>1. Slot(fwd, ToIndex(k)) \in ValIds \union {None}
    BY Types, IdFacts, SlotType DEF IInv
  <2> QED
    BY <1>1, <2>1, ReadKeepsIInv DEF Get, Answer, Tags
<1>2. ASSUME NEW v \in ValIds, GetKey(v) PROVE IInv'
  <2>1. Slot(rev, ToIndex(v)) \in KeyIds \union {None}
    BY Types, IdFacts, SlotType DEF IInv
  <2> QED
    BY <1>2, <2>1, ReadKeepsIInv DEF GetKey, Answer, Tags
<1>3. ASSUME NEW n \in Lengths, Truncate(n) \/ TruncateFaults(n) PROVE IInv'
  <2>1. n \in Nat
    BY Types DEF IInv, Lengths
  <2> QED
    BY <1>3, <2>1, TruncateKeepsIInv, TruncateFaultsKeepsIInv
<1>4. ASSUME NEW m \in marks, RollbackTo(m) PROVE IInv'
  <2>1. m.len \in Nat
    BY Types DEF IInv
  <2> QED
    BY <1>4, <2>1, TruncateKeepsIInv, TruncateFaultsKeepsIInv DEF RollbackTo
<1>5. ASSUME UNCHANGED vars PROVE IInv'
  BY <1>5, ReadKeepsIInv DEF vars, IInv, Typed
<1> QED
  BY <1>1, <1>2, <1>3, <1>4, <1>5, InsertKeepsIInv, ClearKeepsIInv, MarksKeepIInv
     DEF Next

(* So it always holds.                                                     *)
LEMMA AlwaysIInv == Spec => []IInv
BY InitIInv, NextKeepsIInv, PTL DEF Spec

(* On an intact bimap a logged pair has not lost its slots.                *)
LEMMA SlotsReach ==
    ASSUME Typed, Intact
    PROVE  \A e \in ToSet(order) : ~SlotLost(e)
<1> SUFFICES ASSUME NEW i \in 1..Len(order) PROVE ~SlotLost(order[i])
  BY Types DEF ToSet
<1>1. /\ order[i][1] \in KeyIds /\ order[i][2] \in ValIds
      /\ KeyIndex(i) \in Indexes /\ ValIndex(i) \in Indexes
      /\ DOMAIN order = 1..Len(order)
      /\ Len(fwd) \in Nat /\ Len(rev) \in Nat
  BY Types
<1>2. Slot(fwd, KeyIndex(i)) # None /\ Slot(rev, ValIndex(i)) # None
  BY <1>1, IdFacts DEF Intact, OrderBound
<1>3. KeyIndex(i) < Len(fwd) /\ ValIndex(i) < Len(rev)
  BY <1>2 DEF Slot
<1>4. KeyIndex(i) \in Nat /\ ValIndex(i) \in Nat
  BY <1>1, IdFacts
<1> QED
  BY <1>1, <1>3, <1>4 DEF SlotLost, KeyIndex, ValIndex

(* The vectors keep their types and their capacity, after a wrapped resize *)
(* as before it, and until one they reach every slot truncate will index.  *)
THEOREM TypeCorrect == Spec => []TypeOK
<1>1. IInv => TypeOK
  BY SlotsReach DEF IInv, TypeOK
<1> QED
  BY <1>1, AlwaysIInv, PTL

(* The inductive invariant says what InSync says, and a pair more: that a  *)
(* slot has one pair at most.                                              *)
LEMMA IntactIsInSync ==
    ASSUME Typed, Intact
    PROVE  InSync
<1>1. /\ DOMAIN order = 1..Len(order)
      /\ \A i \in 1..Len(order) :
            /\ order[i][1] \in KeyIds /\ KeyIndex(i) \in Indexes
            /\ order[i][2] \in ValIds /\ ValIndex(i) \in Indexes
  BY Types
<1>2. ToSet(order) = {order[i] : i \in 1..Len(order)}
  BY <1>1 DEF ToSet
<1>3. \A i \in 1..Len(order) : /\ Slot(fwd, KeyIndex(i)) = order[i][2]
                               /\ Slot(rev, ValIndex(i)) = order[i][1]
  BY <1>1 DEF Intact, OrderBound
<1>4. ASSUME NEW x \in Indexes, NEW v \in ValIds, Slot(fwd, x) = v
      PROVE  \E i \in 1..Len(order) : <<x, v>> = <<KeyIndex(i), order[i][2]>>
  <2>1. v # None
    BY IdFacts
  <2>2. PICK i \in 1..Len(order) : KeyIndex(i) = x
    BY <1>1, <1>4, <2>1 DEF Intact, NoOrphans
  <2> QED
    BY <1>3, <1>4, <2>2
<1>5. ASSUME NEW x \in Indexes, NEW k \in KeyIds, Slot(rev, x) = k
      PROVE  \E i \in 1..Len(order) : <<k, x>> = <<order[i][1], ValIndex(i)>>
  <2>1. k # None
    BY IdFacts
  <2>2. PICK i \in 1..Len(order) : ValIndex(i) = x
    BY <1>1, <1>5, <2>1 DEF Intact, NoOrphans
  <2> QED
    BY <1>3, <1>5, <2>2
<1> DEFINE fromFwd == {p \in Indexes \X ValIds : Slot(fwd, p[1]) = p[2]}
           fromRev == {p \in KeyIds \X Indexes : Slot(rev, p[2]) = p[1]}
<1>6. fromFwd = {<<ToIndex(e[1]), e[2]>> : e \in ToSet(order)}
  <2>1. ASSUME NEW p \in fromFwd
        PROVE  p \in {<<ToIndex(e[1]), e[2]>> : e \in ToSet(order)}
    <3>1. p = <<p[1], p[2]>> /\ p[1] \in Indexes /\ p[2] \in ValIds /\ Slot(fwd, p[1]) = p[2]
      OBVIOUS
    <3>2. PICK i \in 1..Len(order) : p = <<KeyIndex(i), order[i][2]>>
      BY <1>4, <3>1
    <3>3. order[i] \in ToSet(order)
      BY <1>2
    <3> QED
      BY <3>2, <3>3 DEF KeyIndex
  <2>2. ASSUME NEW i \in 1..Len(order)
        PROVE  <<ToIndex(order[i][1]), order[i][2]>> \in fromFwd
    <3>1. /\ order[i][2] \in ValIds /\ KeyIndex(i) \in Indexes
          /\ Slot(fwd, KeyIndex(i)) = order[i][2]
      BY <1>1, <1>3
    <3> QED
      BY <3>1 DEF KeyIndex
  <2> HIDE DEF fromFwd
  <2> QED
    BY <1>2, <2>1, <2>2
<1>7. fromRev = {<<e[1], ToIndex(e[2])>> : e \in ToSet(order)}
  <2>1. ASSUME NEW p \in fromRev
        PROVE  p \in {<<e[1], ToIndex(e[2])>> : e \in ToSet(order)}
    <3>1. p = <<p[1], p[2]>> /\ p[2] \in Indexes /\ p[1] \in KeyIds /\ Slot(rev, p[2]) = p[1]
      OBVIOUS
    <3>2. PICK i \in 1..Len(order) : p = <<order[i][1], ValIndex(i)>>
      BY <1>5, <3>1
    <3>3. order[i] \in ToSet(order)
      BY <1>2
    <3> QED
      BY <3>2, <3>3 DEF ValIndex
  <2>2. ASSUME NEW i \in 1..Len(order)
        PROVE  <<order[i][1], ToIndex(order[i][2])>> \in fromRev
    <3>1. /\ order[i][1] \in KeyIds /\ ValIndex(i) \in Indexes
          /\ Slot(rev, ValIndex(i)) = order[i][1]
      BY <1>1, <1>3
    <3> QED
      BY <3>1 DEF ValIndex
  <2> HIDE DEF fromRev
  <2> QED
    BY <1>2, <2>1, <2>2
<1> QED
  BY <1>6, <1>7 DEF InSync, Indexes

(* Vectors and log never desync, whatever the ids, until a resize wrapped. *)
THEOREM NeverDesync == Spec => []InSyncUntilUnwound
<1>1. IInv => InSyncUntilUnwound
  BY IntactIsInSync DEF IInv, InSyncUntilUnwound
<1> QED
  BY <1>1, AlwaysIInv, PTL

-----------------------------------------------------------------------------
(* A rollback that did not fault keeps the laws, for open and stale marks. *)
LEMMA TruncateKeepsLaws ==
    ASSUME Typed, NEW m \in marks, Truncate(m.len)
    PROVE  Scope!Laws(m)
<1>1. /\ m.len \in Nat /\ m.len = Len(m.at)
      /\ m.at \in Seq(Entries)
      /\ order \in Seq(Entries)
  BY Types
<1>2. Len(order) \in Nat
  BY Types
<1>3. PICK c \in 0..Len(order) :
         /\ c = (IF m.len < Len(order) THEN m.len ELSE Len(order))
         /\ CutTo(c, m.len, m.len)
  BY <1>1, TruncateIsCut
<1>4. order' = SubSeq(order, 1, c)
  BY <1>3 DEF CutTo
<1>5. Scope!Restores(m)
  <2>1. ASSUME IsPrefix(m.at, order) PROVE order' = m.at
    <3>1. m.len \in 0..Len(order) /\ SubSeq(order, 1, m.len) = m.at
      BY <1>1, <2>1, CutToPrefix
    <3>2. c = m.len
      BY <1>2, <1>3, <3>1
    <3> QED
      BY <1>4, <3>1, <3>2
  <2> QED
    BY <2>1 DEF Scope!Restores, Scope!Open, Scope!IsPrefix, IsPrefix
<1>6. Scope!LastInFirstOut
  <2>1. IsPrefix(order', order)
    BY <1>1, <1>4, CutIsPrefix
  <2> QED
    BY <2>1 DEF Scope!LastInFirstOut, Scope!IsPrefix, IsPrefix
<1>7. Scope!OvershootIsNoOp(m)
  <2>1. m.len >= Len(order) => c = Len(order)
    BY <1>1, <1>2, <1>3
  <2> QED
    BY <1>1, <1>4, <2>1, CutIsPrefix DEF Scope!OvershootIsNoOp
<1>8. Scope!IsIdempotent(m)
  <2>1. Len(order') = c
    BY <1>1, <1>4, PrefixFacts
  <2>2. c <= m.len
    BY <1>1, <1>2, <1>3
  <2> QED
    BY <2>1, <2>2 DEF Scope!IsIdempotent
<1> QED
  BY <1>5, <1>6, <1>7, <1>8 DEF Scope!Laws

(* So truncate and rollback_to cannot fault on an intact bimap.            *)
LEMMA NoFaultWhileIntact ==
    ASSUME Typed, Intact, NEW n \in Nat
    PROVE  ~TruncateFaults(n)
<1> SUFFICES ASSUME TruncateFaults(n) PROVE FALSE
  OBVIOUS
<1>1. PICK i \in 1..Len(order) : SlotLost(order[i])
  BY TruncateFaultsIsCut
<1>2. order[i] \in ToSet(order)
  BY <1>1, Types DEF ToSet
<1> QED
  BY <1>1, <1>2, SlotsReach

(* rollback_to never faults on an intact bimap, restores what an open mark *)
(* covered in the log and in both vectors, and keeps the other laws for    *)
(* stale marks too.                                                        *)
THEOREM RollbackIsAtomic == Spec => RollbackRestores
<1>1. ASSUME IInv, [Next]_vars, NEW m \in marks, RollbackTo(m)
      PROVE  unwound \/ (Scope!Laws(m) /\ InSync')
  <2> SUFFICES ASSUME ~unwound PROVE Scope!Laws(m) /\ InSync'
    OBVIOUS
  <2>1. Typed /\ Intact
    BY <1>1 DEF IInv
  <2>2. m.len \in Nat
    BY <2>1, Types
  <2>3. Truncate(m.len)
    BY <1>1, <2>1, <2>2, NoFaultWhileIntact DEF RollbackTo
  <2>4. IInv' /\ ~unwound'
    BY <1>1, <2>3, NextKeepsIInv DEF Truncate
  <2>5. InSync'
    <3>1. Typed /\ Intact => InSync
      BY IntactIsInSync
    <3>2. (Typed /\ Intact => InSync)'
      BY IntactIsInSync, PTL
    <3> QED
      BY <2>4, <3>2 DEF IInv
  <2> QED
    BY <1>1, <2>1, <2>3, <2>5, TruncateKeepsLaws
<1>2. IInv /\ [Next]_vars
         => [\A m \in marks :
                RollbackTo(m) => unwound \/ (Scope!Laws(m) /\ InSync')]_vars
  BY <1>1
<1> QED
  BY <1>2, AlwaysIInv, PTL DEF Spec, RollbackRestores

-----------------------------------------------------------------------------
IndexEntries == Indexes \X Indexes

(* A log as the slots tell it.                                             *)
ByIndex(l) == [i \in DOMAIN l |-> <<ToIndex(l[i][1]), ToIndex(l[i][2])>>]

(* A log of ids read as a log of indexes.                                  *)
LEMMA ByIndexFacts ==
    ASSUME NEW l \in Seq(Entries)
    PROVE  /\ ByIndex(l) \in Seq(IndexEntries)
           /\ Len(ByIndex(l)) = Len(l)
           /\ DOMAIN ByIndex(l) = 1..Len(l)
           /\ \A i \in 1..Len(l) : ByIndex(l)[i] = <<ToIndex(l[i][1]), ToIndex(l[i][2])>>
<1> DEFINE f == ByIndex(l)
<1>1. Len(l) \in Nat /\ DOMAIN l = 1..Len(l)
  BY LenProperties
<1>2. \A i \in 1..Len(l) : l[i] \in Entries
  BY ElementOfSeq
<1>3. \A e \in Entries : <<ToIndex(e[1]), ToIndex(e[2])>> \in IndexEntries
  BY IdFacts DEF Entries, IndexEntries
<1>4. f \in [1..Len(l) -> IndexEntries]
  BY <1>1, <1>2, <1>3 DEF ByIndex
<1>5. \A i \in 1..Len(l) : f[i] = <<ToIndex(l[i][1]), ToIndex(l[i][2])>>
  BY <1>1 DEF ByIndex
<1> HIDE DEF f
<1>6. f \in Seq(IndexEntries) /\ Len(f) = Len(l)
  BY <1>1, <1>4, VectorByElements
<1> QED
  BY <1>4, <1>5, <1>6 DEF f

(* Cutting and extending the log cut and extend what the slots tell of it. *)
LEMMA ByIndexCut ==
    ASSUME NEW l \in Seq(Entries), NEW c \in 0..Len(l)
    PROVE  ByIndex(SubSeq(l, 1, c)) = SubSeq(ByIndex(l), 1, c)
<1> DEFINE cut == SubSeq(l, 1, c)
           left == ByIndex(cut)
           right == SubSeq(ByIndex(l), 1, c)
<1>1. /\ cut \in Seq(Entries) /\ Len(cut) = c
      /\ \A i \in 1..c : cut[i] = l[i]
  BY PrefixFacts
<1>2. /\ ByIndex(l) \in Seq(IndexEntries) /\ Len(ByIndex(l)) = Len(l)
      /\ \A i \in 1..Len(l) : ByIndex(l)[i] = <<ToIndex(l[i][1]), ToIndex(l[i][2])>>
  BY ByIndexFacts
<1>3. /\ right \in Seq(IndexEntries) /\ Len(right) = c
      /\ \A i \in 1..c : right[i] = ByIndex(l)[i]
  BY <1>2, PrefixFacts
<1> HIDE DEF cut, right
<1>4. /\ left \in Seq(IndexEntries) /\ Len(left) = c
      /\ \A i \in 1..c : left[i] = <<ToIndex(cut[i][1]), ToIndex(cut[i][2])>>
  BY <1>1, ByIndexFacts
<1> HIDE DEF left
<1>5. \A i \in 1..c : i \in 1..Len(l)
  BY LenProperties
<1>6. \A i \in 1..c : left[i] = right[i]
  BY <1>1, <1>2, <1>3, <1>4, <1>5
<1>7. left = right
  BY <1>3, <1>4, <1>6, SeqEqual
<1> QED
  BY <1>7 DEF left, right, cut

(* Reading after appending is appending what was read.                     *)
LEMMA ByIndexAppend ==
    ASSUME NEW l \in Seq(Entries), NEW k \in KeyIds, NEW v \in ValIds
    PROVE  ByIndex(Append(l, <<k, v>>)) = Append(ByIndex(l), <<ToIndex(k), ToIndex(v)>>)
<1> DEFINE longer == Append(l, <<k, v>>)
           left == ByIndex(longer)
           right == Append(ByIndex(l), <<ToIndex(k), ToIndex(v)>>)
<1>0. <<k, v>> \in Entries /\ <<ToIndex(k), ToIndex(v)>> \in IndexEntries
  BY IdFacts DEF Entries, IndexEntries
<1>1. /\ longer \in Seq(Entries) /\ Len(longer) = Len(l) + 1
      /\ \A i \in 1..Len(l) : longer[i] = l[i]
      /\ longer[Len(l) + 1] = <<k, v>>
  BY <1>0, AppendFacts
<1>2. /\ ByIndex(l) \in Seq(IndexEntries) /\ Len(ByIndex(l)) = Len(l)
      /\ \A i \in 1..Len(l) : ByIndex(l)[i] = <<ToIndex(l[i][1]), ToIndex(l[i][2])>>
  BY ByIndexFacts
<1>3. /\ right \in Seq(IndexEntries) /\ Len(right) = Len(l) + 1
      /\ \A i \in 1..Len(l) : right[i] = ByIndex(l)[i]
      /\ right[Len(l) + 1] = <<ToIndex(k), ToIndex(v)>>
  BY <1>0, <1>2, AppendFacts
<1> HIDE DEF longer, right
<1>4. /\ left \in Seq(IndexEntries) /\ Len(left) = Len(l) + 1
      /\ \A i \in 1..(Len(l) + 1) :
            left[i] = <<ToIndex(longer[i][1]), ToIndex(longer[i][2])>>
  BY <1>1, ByIndexFacts
<1> HIDE DEF left
<1>5. Len(l) \in Nat
  BY LenProperties
<1>6. ASSUME NEW i \in 1..(Len(l) + 1) PROVE left[i] = right[i]
  <2>1. CASE i = Len(l) + 1
    <3>1. left[i] = <<ToIndex(longer[i][1]), ToIndex(longer[i][2])>>
      BY <1>4
    <3>2. longer[i] = <<k, v>> /\ right[i] = <<ToIndex(k), ToIndex(v)>>
      BY <1>1, <1>3, <2>1
    <3> QED
      BY <3>1, <3>2
  <2>2. CASE i # Len(l) + 1
    <3>1. i \in 1..Len(l)
      BY <1>5, <2>2
    <3> QED
      BY <1>1, <1>2, <1>3, <1>4, <3>1
  <2> QED
    BY <2>1, <2>2
<1>7. left = right
  BY <1>3, <1>4, <1>6, SeqEqual
<1> QED
  BY <1>7 DEF left, right, longer

(* Under Intact the abstract lookups are the slots.                        *)
LEMMA LookupsAgree ==
    ASSUME Typed, Intact
    PROVE  /\ \A x \in Indexes : Abstract!KeyBound(x) <=> Slot(fwd, x) # None
           /\ \A x \in Indexes : Abstract!ValueBound(x) <=> Slot(rev, x) # None
           /\ \A x \in Indexes : Slot(fwd, x) # None
                 => <<x, ToIndex(Slot(fwd, x))>> \in Abstract!Pairs
           /\ \A x \in Indexes : Slot(rev, x) # None
                 => <<ToIndex(Slot(rev, x)), x>> \in Abstract!Pairs
<1>1. /\ order \in Seq(Entries) /\ DOMAIN order = 1..Len(order)
      /\ \A i \in 1..Len(order) :
            /\ order[i][1] \in KeyIds /\ KeyIndex(i) \in Indexes
            /\ order[i][2] \in ValIds /\ ValIndex(i) \in Indexes
  BY Types
<1>2. Abstract!Pairs = {<<KeyIndex(i), ValIndex(i)>> : i \in 1..Len(order)}
  <2>1. IndexLog = [i \in 1..Len(order) |-> <<KeyIndex(i), ValIndex(i)>>]
    BY <1>1 DEF IndexLog, KeyIndex, ValIndex
  <2> QED
    BY <2>1 DEF Abstract!Pairs, Abstract!ToSet
<1>3. \A i \in 1..Len(order) :
         /\ Slot(fwd, KeyIndex(i)) = order[i][2] /\ order[i][2] # None
         /\ Slot(rev, ValIndex(i)) = order[i][1] /\ order[i][1] # None
  BY <1>1, IdFacts DEF Intact, OrderBound
<1>4. ASSUME NEW x \in Indexes, Slot(fwd, x) # None
      PROVE  <<x, ToIndex(Slot(fwd, x))>> \in Abstract!Pairs /\ Abstract!KeyBound(x)
  <2>1. PICK i \in 1..Len(order) : KeyIndex(i) = x
    BY <1>1, <1>4 DEF Intact, NoOrphans
  <2>2. ToIndex(Slot(fwd, x)) = ValIndex(i)
    BY <1>3, <2>1 DEF ValIndex
  <2>3. <<x, ValIndex(i)>> \in Abstract!Pairs /\ ValIndex(i) \in Indexes
    BY <1>1, <1>2, <2>1
  <2> QED
    BY <2>2, <2>3 DEF Abstract!KeyBound, Indexes
<1>5. ASSUME NEW x \in Indexes, Slot(rev, x) # None
      PROVE  <<ToIndex(Slot(rev, x)), x>> \in Abstract!Pairs /\ Abstract!ValueBound(x)
  <2>1. PICK i \in 1..Len(order) : ValIndex(i) = x
    BY <1>1, <1>5 DEF Intact, NoOrphans
  <2>2. ToIndex(Slot(rev, x)) = KeyIndex(i)
    BY <1>3, <2>1 DEF KeyIndex
  <2>3. <<KeyIndex(i), x>> \in Abstract!Pairs /\ KeyIndex(i) \in Indexes
    BY <1>1, <1>2, <2>1
  <2> QED
    BY <2>2, <2>3 DEF Abstract!ValueBound, Indexes
<1>6. ASSUME NEW x \in Indexes, NEW y, <<x, y>> \in Abstract!Pairs
      PROVE  Slot(fwd, x) # None /\ Slot(rev, y) # None
  <2>1. PICK i \in 1..Len(order) : <<x, y>> = <<KeyIndex(i), ValIndex(i)>>
    BY <1>2, <1>6
  <2> QED
    BY <1>3, <2>1
<1>7. \A x \in Indexes : Abstract!KeyBound(x) => Slot(fwd, x) # None
  BY <1>6 DEF Abstract!KeyBound
<1>8. \A x \in Indexes : Abstract!ValueBound(x) => Slot(rev, x) # None
  BY <1>6 DEF Abstract!ValueBound, Indexes
<1> QED
  BY <1>4, <1>5, <1>7, <1>8

-----------------------------------------------------------------------------
(* Whatever a call did to the vectors, the log was cut or grew by a pair.  *)
LEMMA CutIsAbstractCut ==
    ASSUME Typed, NEW n \in Nat, order' = Scope!Kept(n)
    PROVE  \E c \in 0..Len(order) : order' = SubSeq(order, 1, c)
<1>1. Len(order) \in Nat
  BY Types
<1> DEFINE c == IF n < Len(order) THEN n ELSE Len(order)
<1>2. c \in 0..Len(order)
  BY <1>1
<1> QED
  BY <1>2 DEF Scope!Kept

(* A log that did not change was cut at its end.                           *)
LEMMA SameIsAbstractCut ==
    ASSUME Typed, order' = order
    PROVE  \E c \in 0..Len(order) : order' = SubSeq(order, 1, c)
<1>1. order \in Seq(Entries)
  BY Types
<1>2. Len(order) \in 0..Len(order)
  BY Types
<1>3. SubSeq(order, 1, Len(order)) = order
  BY <1>1, <1>2, CutIsPrefix
<1> QED
  BY <1>2, <1>3

(* Every step cuts the log or appends one pair to it.                      *)
LEMMA LogMoves ==
    ASSUME Typed, [Next]_vars
    PROVE  \/ \E c \in 0..Len(order) : order' = SubSeq(order, 1, c)
           \/ \E k \in KeyIds, v \in ValIds : order' = Append(order, <<k, v>>)
<1> DEFINE Shortened == \E c \in 0..Len(order) : order' = SubSeq(order, 1, c)
<1>1. ASSUME UNCHANGED order PROVE Shortened
  BY <1>1, SameIsAbstractCut
<1>2. ASSUME NEW n \in Nat, order' = Scope!Kept(n) PROVE Shortened
  BY <1>2, CutIsAbstractCut
<1>3. ASSUME NEW n \in Nat, TruncateFaults(n) PROVE Shortened
  <2>1. PICK i \in (n + 1)..Len(order) : order' = Scope!Kept(i - 1)
    BY <1>3 DEF TruncateFaults
  <2>2. i - 1 \in Nat
    BY Types
  <2> QED
    BY <1>2, <2>1, <2>2
<1>4. ASSUME NEW n \in Nat, Truncate(n) PROVE Shortened
  BY <1>2, <1>4 DEF Truncate
<1>5. ASSUME NEW n \in Lengths, Truncate(n) \/ TruncateFaults(n) PROVE Shortened
  BY <1>3, <1>4, <1>5, Types DEF Lengths
<1>6. ASSUME NEW m \in marks, RollbackTo(m) PROVE Shortened
  BY <1>3, <1>4, <1>6, Types DEF RollbackTo
<1>7. ASSUME Clear PROVE Shortened
  <2>1. order' = SubSeq(order, 1, 0)
    BY <1>7, SubSeqEmpty DEF Clear
  <2> QED
    BY <2>1, Types
<1>8. ASSUME NEW k \in KeyIds, NEW v \in ValIds,
             \/ InsertRefused(k, v) \/ InsertBinds(k, v)
             \/ InsertCannotGrow(k, v) \/ InsertWraps(k, v)
      PROVE  UNCHANGED order \/ order' = Append(order, <<k, v>>)
  BY <1>8 DEF InsertRefused, InsertBinds, InsertCannotGrow, InsertWraps, Refuse
<1>9. ASSUME \/ \E k \in KeyIds : Get(k)
             \/ \E v \in ValIds : GetKey(v)
             \/ TakeMark \/ ForgetMark \/ UNCHANGED vars
      PROVE  UNCHANGED order
  BY <1>9 DEF Get, GetKey, TakeMark, ForgetMark, Scope!TakeMark, Scope!ForgetMark, vars
<1> HIDE DEF Shortened
<1>10. Shortened \/ \E k \in KeyIds, v \in ValIds : order' = Append(order, <<k, v>>)
  BY <1>1, <1>5, <1>6, <1>7, <1>8, <1>9 DEF Next
<1> QED
  BY <1>10 DEF Shortened

(* The abstract log moves as the log does.                                 *)
LEMMA AbstractLogMoves ==
    ASSUME Typed
    PROVE  /\ IndexLog = ByIndex(order)
           /\ IndexLog' = ByIndex(order')
           /\ Len(IndexLog) = Len(order)
           /\ \A c \in 0..Len(order) :
                 order' = SubSeq(order, 1, c) => IndexLog' = SubSeq(IndexLog, 1, c)
           /\ \A k \in KeyIds, v \in ValIds :
                 order' = Append(order, <<k, v>>)
                    => IndexLog' = Append(IndexLog, <<ToIndex(k), ToIndex(v)>>)
<1>1. IndexLog = ByIndex(order) /\ IndexLog' = ByIndex(order')
  BY DEF IndexLog, ByIndex
<1>2. order \in Seq(Entries)
  BY Types
<1>3. Len(IndexLog) = Len(order)
  BY <1>1, <1>2, ByIndexFacts
<1>4. ASSUME NEW c \in 0..Len(order), order' = SubSeq(order, 1, c)
      PROVE  IndexLog' = SubSeq(IndexLog, 1, c)
  BY <1>1, <1>2, <1>4, ByIndexCut
<1>5. ASSUME NEW k \in KeyIds, NEW v \in ValIds, order' = Append(order, <<k, v>>)
      PROVE  IndexLog' = Append(IndexLog, <<ToIndex(k), ToIndex(v)>>)
  BY <1>1, <1>2, <1>5, ByIndexAppend
<1> QED
  BY <1>1, <1>3, <1>4, <1>5

(* The answer of a call, as the slots tell it.                             *)
Indexed(answer) == [answer EXCEPT !.key = Index(@), !.val = Index(@)]

(* An answer cut to indexes is an answer of the abstract bimap.            *)
LEMMA IndexedAnswer ==
    ASSUME NEW tag, NEW k, NEW v
    PROVE  Indexed(Answer(tag, k, v)) = Abstract!Answer(tag, Index(k), Index(v))
<1> DEFINE old == [tag |-> tag, key |-> k, val |-> v]
<1>1. [old EXCEPT !.key = Index(@)] = [tag |-> tag, key |-> Index(k), val |-> v]
  OBVIOUS
<1>2. [[tag |-> tag, key |-> Index(k), val |-> v] EXCEPT !.val = Index(@)]
         = [tag |-> tag, key |-> Index(k), val |-> Index(v)]
  OBVIOUS
<1>3. [old EXCEPT !.key = Index(@), !.val = Index(@)]
         = [[old EXCEPT !.key = Index(@)] EXCEPT !.val = Index(@)]
  OBVIOUS
<1> QED
  BY <1>1, <1>2, <1>3 DEF Indexed, Answer, Abstract!Answer

(* So is the mapped answer after a step.                                   *)
LEMMA AbstractAnswer ==
    ASSUME NEW tag, NEW k, NEW v, ret' = Answer(tag, k, v)
    PROVE  IndexRet' = Abstract!Answer(tag, Index(k), Index(v))
<1>1. IndexRet' = Indexed(ret')
  BY DEF IndexRet, Indexed
<1> QED
  BY <1>1, IndexedAnswer

(* Ids of keys and of values have indexes.                                 *)
LEMMA IndexOfIds ==
    /\ \A k \in KeyIds : Index(k) = ToIndex(k) /\ Index(k) \in Indexes
    /\ \A v \in ValIds : Index(v) = ToIndex(v) /\ Index(v) \in Indexes
    /\ Index(None) = None
BY IdFacts DEF Index

(* Dropping a prefix's rest, or everything, with a unit answer.            *)
LEMMA UnitCutIsRollBack ==
    ASSUME Typed, ret' = Unit,
           \E c \in 0..Len(order) : order' = SubSeq(order, 1, c)
    PROVE  Abstract!RollBack
<1>1. PICK c \in 0..Len(order) : order' = SubSeq(order, 1, c)
  OBVIOUS
<1>2. IndexLog' = SubSeq(IndexLog, 1, c) /\ c \in 0..Len(IndexLog)
  BY <1>1, AbstractLogMoves
<1>3. IndexRet' = Abstract!Unit
  BY AbstractAnswer, IndexOfIds DEF Unit, Abstract!Unit
<1> QED
  BY <1>2, <1>3 DEF Abstract!RollBack

(* A step of an intact bimap is a step of the abstract one.                *)
LEMMA IntactStep ==
    ASSUME Typed, Intact, unwound = FALSE, unwound' = FALSE, [Next]_vars
    PROVE  Abstract!Next \/ UNCHANGED Abstract!vars
<1> DEFINE inserts == \E k \in Indexes, v \in Indexes : Abstract!Insert(k, v)
           gets == \E k \in Indexes : Abstract!GetByKey(k)
           getKeys == \E v \in Indexes : Abstract!GetByValue(v)
           rollBack == Abstract!RollBack
           unwind == Abstract!Unwind
<1>1. inserts \/ gets \/ getKeys \/ rollBack \/ unwind => Abstract!Next
  BY DEF Abstract!Next, Indexes
<1>2. UNCHANGED order => UNCHANGED IndexLog
  BY DEF IndexLog
<1>3. ASSUME NEW k \in KeyIds, NEW v \in ValIds, InsertRefused(k, v) \/ InsertBinds(k, v)
      PROVE  inserts
  <2>1. /\ ToIndex(k) \in Indexes /\ ToIndex(v) \in Indexes
        /\ Index(k) = ToIndex(k) /\ Index(v) = ToIndex(v)
    BY IndexOfIds
  <2>2. /\ KeyTaken(k) <=> Abstract!KeyBound(ToIndex(k))
        /\ ValTaken(v) <=> Abstract!ValueBound(ToIndex(v))
    BY <2>1, LookupsAgree DEF KeyTaken, ValTaken
  <2>3. \/ /\ KeyTaken(k)
           /\ ret' = Answer("DuplicateKey", k, v) /\ UNCHANGED order
        \/ /\ ~KeyTaken(k) /\ ValTaken(v)
           /\ ret' = Answer("DuplicateValue", k, v) /\ UNCHANGED order
        \/ /\ ~KeyTaken(k) /\ ~ValTaken(v)
           /\ ret' = Answer("Ok", k, v) /\ order' = Append(order, <<k, v>>)
    BY <1>3 DEF InsertRefused, InsertBinds, Refuse
  <2>4. order' = Append(order, <<k, v>>)
           => IndexLog' = Append(IndexLog, <<ToIndex(k), ToIndex(v)>>)
    BY AbstractLogMoves
  <2>5. \A tag : ret' = Answer(tag, k, v)
           => IndexRet' = Abstract!Answer(tag, ToIndex(k), ToIndex(v))
    BY <2>1, AbstractAnswer
  <2>6. Abstract!Insert(ToIndex(k), ToIndex(v))
    BY <1>2, <2>2, <2>3, <2>4, <2>5 DEF Abstract!Insert
  <2> QED
    BY <2>1, <2>6
<1>4. ASSUME NEW k \in KeyIds, NEW v \in ValIds, InsertCannotGrow(k, v) PROVE unwind
  <2>1. UNCHANGED IndexLog
    BY <1>2, <1>4 DEF InsertCannotGrow
  <2>2. IndexRet' = Abstract!Answer("Unwound", Index(k), Index(v))
    BY <1>4, AbstractAnswer DEF InsertCannotGrow
  <2> QED
    BY <2>1, <2>2, IndexOfIds DEF Abstract!Unwind, Indexes
<1>5. ASSUME NEW k \in KeyIds, Get(k) PROVE gets
  <2> DEFINE x == ToIndex(k)
             found == Slot(fwd, x)
  <2>1. x \in Indexes /\ Index(k) = x
    BY IndexOfIds
  <2>2. found \in ValIds \union {None}
    BY <2>1, Types, IdFacts, SlotType
  <2>3. UNCHANGED IndexLog /\ IndexRet' = Abstract!Answer("get", x, Index(found))
    BY <1>2, <1>5, <2>1, AbstractAnswer DEF Get
  <2>4. /\ Abstract!KeyBound(x) <=> found # None
        /\ found # None => <<x, ToIndex(found)>> \in Abstract!Pairs
    BY <2>1, LookupsAgree
  <2> HIDE DEF x, found
  <2>5. Abstract!GetByKey(x)
    BY <2>2, <2>3, <2>4, IndexOfIds DEF Abstract!GetByKey, Indexes
  <2> QED
    BY <2>1, <2>5
<1>6. ASSUME NEW v \in ValIds, GetKey(v) PROVE getKeys
  <2> DEFINE x == ToIndex(v)
             found == Slot(rev, x)
  <2>1. x \in Indexes /\ Index(v) = x
    BY IndexOfIds
  <2>2. found \in KeyIds \union {None}
    BY <2>1, Types, IdFacts, SlotType
  <2>3. UNCHANGED IndexLog /\ IndexRet' = Abstract!Answer("get_key", Index(found), x)
    BY <1>2, <1>6, <2>1, AbstractAnswer DEF GetKey
  <2>4. /\ Abstract!ValueBound(x) <=> found # None
        /\ found # None => <<ToIndex(found), x>> \in Abstract!Pairs
    BY <2>1, LookupsAgree
  <2> HIDE DEF x, found
  <2>5. Abstract!GetByValue(x)
    BY <2>2, <2>3, <2>4, IndexOfIds DEF Abstract!GetByValue, Indexes
  <2> QED
    BY <2>1, <2>5
<1>7. ASSUME NEW n \in Nat, Truncate(n) PROVE rollBack
  BY <1>7, CutIsAbstractCut, UnitCutIsRollBack DEF Truncate
<1>8. ASSUME NEW n \in Nat PROVE ~TruncateFaults(n)
  BY DEF TruncateFaults, Broken
<1>9. ASSUME NEW n \in Lengths, Truncate(n) \/ TruncateFaults(n) PROVE rollBack
  BY <1>7, <1>8, <1>9, Types DEF Lengths
<1>10. ASSUME NEW m \in marks, RollbackTo(m) PROVE rollBack
  BY <1>7, <1>8, <1>10, Types DEF RollbackTo
<1>11. ASSUME Clear PROVE rollBack
  <2>1. order' = SubSeq(order, 1, 0) /\ 0 \in 0..Len(order)
    BY <1>11, SubSeqEmpty, Types DEF Clear
  <2> QED
    BY <1>11, <2>1, UnitCutIsRollBack DEF Clear
<1>12. ASSUME TakeMark \/ ForgetMark \/ UNCHANGED vars
       PROVE  UNCHANGED Abstract!vars
  <2>1. UNCHANGED <<order, ret, unwound>>
    BY <1>12 DEF TakeMark, ForgetMark, Scope!TakeMark, Scope!ForgetMark, vars
  <2> QED
    BY <2>1 DEF Abstract!vars, IndexLog, IndexRet
<1>13. ASSUME NEW k \in KeyIds, NEW v \in ValIds PROVE ~InsertWraps(k, v)
  BY DEF InsertWraps, Broken
<1> HIDE DEF inserts, gets, getKeys, rollBack, unwind
<1>14. inserts \/ gets \/ getKeys \/ rollBack \/ unwind \/ UNCHANGED Abstract!vars
  BY <1>3, <1>4, <1>5, <1>6, <1>9, <1>10, <1>11, <1>12, <1>13 DEF Next
<1> QED
  BY <1>1, <1>14

(* Once raised, unwound stays.                                             *)
LEMMA UnwoundStays ==
    ASSUME unwound = TRUE, [Next]_vars
    PROVE  unwound' = TRUE
BY DEF Next, InsertRefused, InsertBinds, InsertCannotGrow, InsertWraps, Refuse, Broken,
       Get, GetKey, Truncate, TruncateFaults, RollbackTo, Clear, TakeMark, ForgetMark, vars

(* The two vectors and the log are a correct implementation of the         *)
(* bijection that Bimap promises over ids cut to usize, for every client.  *)
THEOREM FlatRadixBimapIsABimap == Spec => ImplementsBimap
<1>1. Init => Abstract!Init
  <2> SUFFICES ASSUME Init PROVE Abstract!Init
    OBVIOUS
  <2>1. IndexLog = <<>>
    BY DEF Init, IndexLog
  <2>2. IndexRet = Abstract!Unit
    <3>1. IndexRet = Indexed(ret)
      BY DEF IndexRet, Indexed
    <3> QED
      BY <3>1, IndexedAnswer, IndexOfIds DEF Init, Unit, Abstract!Unit
  <2> QED
    BY <2>1, <2>2 DEF Init, Abstract!Init
<1>2. IInv /\ [Next]_vars => [Abstract!Next]_(Abstract!vars)
  <2> SUFFICES ASSUME IInv, [Next]_vars
               PROVE  Abstract!Next \/ UNCHANGED Abstract!vars
    OBVIOUS
  <2>1. unwound \in BOOLEAN /\ unwound' \in BOOLEAN
    BY NextKeepsIInv DEF IInv, Typed
  <2>2. CASE unwound' = TRUE
    <3>1. \/ \E c \in 0..Len(IndexLog) : IndexLog' = SubSeq(IndexLog, 1, c)
          \/ \E x \in Indexes, y \in Indexes : IndexLog' = Append(IndexLog, <<x, y>>)
      BY LogMoves, AbstractLogMoves, IdFacts DEF IInv
    <3> QED
      BY <2>2, <3>1 DEF Abstract!Next, Abstract!HalfDone, Indexes
  <2>3. CASE unwound' = FALSE
    <3>1. unwound = FALSE
      BY <2>1, <2>3, UnwoundStays
    <3> QED
      BY <2>3, <3>1, IntactStep DEF IInv
  <2> QED
    BY <2>1, <2>2, <2>3
<1> QED
  BY <1>1, <1>2, AlwaysIInv, PTL DEF Spec, ImplementsBimap, Abstract!Spec
=============================================================================
