------------------------- MODULE BTreeBimap_proofs -------------------------
(***************************************************************************)
(* TLAPS proofs about BTreeBimap, for every set of keys and of values,     *)
(* every number of marks, and elements that may or may not panic.          *)
(***************************************************************************)
EXTENDS BTreeBimap, SequenceLemmas

Entries == Keys \X Vals

(* The inductive invariant: lookups and log agree exactly, or, once a      *)
(* panic left a call half done, at least on what is logged.                *)
IInv == TypeOK /\ OrderCovered /\ (unwound \/ NoOrphans)

(* A cut of the log that leaves the first c entries; the forward map loses *)
(* the entries after a, the reverse map those after b.                     *)
CutTo(c, a, b) ==
    /\ order' = SubSeq(order, 1, c)
    /\ fwd' = Without(fwd, KeysOf({order[i] : i \in (a + 1)..Len(order)}))
    /\ rev' = Without(rev, ValsOf({order[i] : i \in (b + 1)..Len(order)}))

-----------------------------------------------------------------------------
(* The types of the parts of the state, as facts.                          *)
LEMMA Types ==
    ASSUME TypeOK
    PROVE  /\ order \in Seq(Entries)
           /\ Len(order) \in Nat
           /\ DOMAIN order = 1..Len(order)
           /\ \A i \in 1..Len(order) : /\ order[i] \in Entries
                                       /\ order[i][1] \in Keys
                                       /\ order[i][2] \in Vals
                                       /\ order[i] = <<order[i][1], order[i][2]>>
           /\ fwd \in [Keys -> Vals \union {None}]
           /\ rev \in [Vals -> Keys \union {None}]
           /\ None \notin Keys /\ None \notin Vals
           /\ \A m \in marks : /\ m.len \in Nat /\ m.len = Len(m.at)
                               /\ m.at \in Seq(Entries)
<1>1. order \in Seq(Entries)
  BY DEF TypeOK, Entries
<1>2. Len(order) \in Nat /\ DOMAIN order = 1..Len(order)
  BY <1>1, LenProperties
<1>3. \A i \in 1..Len(order) : order[i] \in Entries
  BY <1>1, ElementOfSeq
<1>4. \A e \in Entries : e[1] \in Keys /\ e[2] \in Vals /\ e = <<e[1], e[2]>>
  BY DEF Entries
<1>5. \A m \in marks : /\ m.len \in Nat /\ m.len = Len(m.at)
                       /\ m.at \in Seq(Entries)
  BY DEF TypeOK, Entries
<1>6. None \notin Keys /\ None \notin Vals
  BY NoneAssumption
<1> QED
  BY <1>1, <1>2, <1>3, <1>4, <1>5, <1>6 DEF TypeOK

(* What a cut does, entry by entry and lookup by lookup.                   *)
LEMMA CutFacts ==
    ASSUME TypeOK, NEW c \in 0..Len(order), NEW a \in Nat, NEW b \in Nat,
           CutTo(c, a, b)
    PROVE  /\ order' \in Seq(Entries)
           /\ DOMAIN order' = 1..c
           /\ \A i \in 1..c : i \in 1..Len(order) /\ order'[i] = order[i]
           /\ fwd' \in [Keys -> Vals \union {None}]
           /\ rev' \in [Vals -> Keys \union {None}]
           /\ \A k \in Keys :
                 IF \E i \in (a + 1)..Len(order) : order[i][1] = k
                 THEN fwd'[k] = None ELSE fwd'[k] = fwd[k]
           /\ \A v \in Vals :
                 IF \E i \in (b + 1)..Len(order) : order[i][2] = v
                 THEN rev'[v] = None ELSE rev'[v] = rev[v]
<1> DEFINE goneKeys == KeysOf({order[i] : i \in (a + 1)..Len(order)})
           goneVals == ValsOf({order[i] : i \in (b + 1)..Len(order)})
<1>1. \A k : k \in goneKeys <=> \E i \in (a + 1)..Len(order) : order[i][1] = k
  BY DEF KeysOf
<1>2. \A v : v \in goneVals <=> \E i \in (b + 1)..Len(order) : order[i][2] = v
  BY DEF ValsOf
<1>3. fwd' = Without(fwd, goneKeys) /\ rev' = Without(rev, goneVals)
  BY DEF CutTo
<1> HIDE DEF goneKeys, goneVals
<1>4. /\ order \in Seq(Entries) /\ Len(order) \in Nat
      /\ fwd \in [Keys -> Vals \union {None}]
      /\ rev \in [Vals -> Keys \union {None}]
  BY Types
<1>5. /\ order' \in Seq(Entries)
      /\ DOMAIN order' = 1..c
      /\ \A i \in 1..c : order'[i] = order[i]
  <2>1. order' = SubSeq(order, 1, c)
    BY DEF CutTo
  <2>2. /\ SubSeq(order, 1, c) \in Seq(Entries)
        /\ DOMAIN SubSeq(order, 1, c) = 1..c
        /\ \A i \in 1..c : SubSeq(order, 1, c)[i] = order[i]
    BY <1>4, PrefixFacts
  <2> QED
    BY <2>1, <2>2
<1>6. \A i \in 1..c : i \in 1..Len(order)
  BY <1>4
<1>7. /\ fwd' \in [Keys -> Vals \union {None}]
      /\ \A k \in Keys : fwd'[k] = IF k \in goneKeys THEN None ELSE fwd[k]
  BY <1>3, <1>4 DEF Without
<1>8. /\ rev' \in [Vals -> Keys \union {None}]
      /\ \A v \in Vals : rev'[v] = IF v \in goneVals THEN None ELSE rev[v]
  BY <1>3, <1>4 DEF Without
<1> QED
  BY <1>1, <1>2, <1>5, <1>6, <1>7, <1>8

(* Truncate and rollback as cuts.                                          *)
LEMMA TruncateIsCut ==
    ASSUME TypeOK, NEW n \in Nat, Truncate(n)
    PROVE  \E c \in 0..Len(order) :
              /\ c = (IF n < Len(order) THEN n ELSE Len(order))
              /\ CutTo(c, n, n)
<1> DEFINE c == IF n < Len(order) THEN n ELSE Len(order)
<1>1. c \in 0..Len(order)
  BY Types
<1>2. CutTo(c, n, n)
  BY DEF Truncate, CutTo, Scope!Kept, Scope!Dropped
<1> QED
  BY <1>1, <1>2

-----------------------------------------------------------------------------
(* Whatever the maps lose belongs to entries the log has lost as well:     *)
(* the pairs that stay logged stay bound.                                  *)
LEMMA CutKeepsCovered ==
    ASSUME TypeOK, OrderCovered,
           NEW c \in 0..Len(order), NEW a \in Nat, NEW b \in Nat,
           a < Len(order) => c <= a,
           b < Len(order) => c <= b,
           CutTo(c, a, b)
    PROVE  OrderCovered'
<1>1. /\ DOMAIN order' = 1..c
      /\ \A i \in 1..c : i \in 1..Len(order) /\ order'[i] = order[i]
  BY CutFacts
<1>2. /\ DOMAIN order = 1..Len(order) /\ Len(order) \in Nat
      /\ \A i \in 1..Len(order) : order[i][1] \in Keys /\ order[i][2] \in Vals
  BY Types
<1>3. \A i, j \in 1..Len(order) :
         order[i][1] = order[j][1] \/ order[i][2] = order[j][2] => i = j
  BY <1>2 DEF OrderCovered, OrderDistinct
<1>4. OrderDistinct'
  BY <1>1, <1>3 DEF OrderDistinct
<1>5. ASSUME NEW i \in 1..c
      PROVE  /\ fwd'[order[i][1]] = order[i][2]
             /\ rev'[order[i][2]] = order[i][1]
  <2>1. i \in 1..Len(order)
    BY <1>1
  <2>2. order[i][1] \in Keys /\ order[i][2] \in Vals
    BY <1>2, <2>1
  <2>3. fwd[order[i][1]] = order[i][2] /\ rev[order[i][2]] = order[i][1]
    BY <1>2, <2>1 DEF OrderCovered, OrderBound
  <2>4. ASSUME NEW j \in (a + 1)..Len(order), order[j][1] = order[i][1]
        PROVE  FALSE
    BY <1>2, <1>3, <2>1, <2>4
  <2>5. ASSUME NEW j \in (b + 1)..Len(order), order[j][2] = order[i][2]
        PROVE  FALSE
    BY <1>2, <1>3, <2>1, <2>5
  <2>6. fwd'[order[i][1]] = fwd[order[i][1]]
    BY <2>2, <2>4, CutFacts
  <2>7. rev'[order[i][2]] = rev[order[i][2]]
    BY <2>2, <2>5, CutFacts
  <2> QED
    BY <2>3, <2>6, <2>7
<1>6. OrderBound'
  BY <1>1, <1>5 DEF OrderBound
<1> QED
  BY <1>4, <1>6 DEF OrderCovered

(* A cut of all three stores at the same place leaves no orphan.           *)
LEMMA CutKeepsNoOrphans ==
    ASSUME TypeOK, NoOrphans, NEW n \in Nat, NEW c \in 0..Len(order),
           c = (IF n < Len(order) THEN n ELSE Len(order)),
           CutTo(c, n, n)
    PROVE  NoOrphans'
<1>1. /\ DOMAIN order' = 1..c
      /\ \A i \in 1..c : order'[i] = order[i]
  BY CutFacts
<1>2. DOMAIN order = 1..Len(order)
  BY Types
<1>0. Len(order) \in Nat
  BY Types
<1>3. ASSUME NEW i \in 1..Len(order), i \notin (n + 1)..Len(order)
      PROVE  order[i] \in ToSet(order')
  <2>1. i \in 1..c
    BY <1>0, <1>3
  <2> QED
    BY <1>1, <2>1 DEF ToSet
<1>4. ASSUME NEW k \in Keys, fwd'[k] # None
      PROVE  <<k, fwd'[k]>> \in ToSet(order')
  <2>1. /\ fwd'[k] = fwd[k]
        /\ ~\E i \in (n + 1)..Len(order) : order[i][1] = k
    BY <1>4, CutFacts
  <2>2. <<k, fwd[k]>> \in ToSet(order)
    BY <1>4, <2>1 DEF NoOrphans
  <2>3. PICK i \in 1..Len(order) : order[i] = <<k, fwd[k]>>
    BY <1>2, <2>2 DEF ToSet
  <2>4. order[i][1] = k
    BY <2>3
  <2>5. order[i] \in ToSet(order')
    BY <1>3, <2>1, <2>4
  <2> QED
    BY <2>1, <2>3, <2>5
<1>5. ASSUME NEW v \in Vals, rev'[v] # None
      PROVE  <<rev'[v], v>> \in ToSet(order')
  <2>1. /\ rev'[v] = rev[v]
        /\ ~\E i \in (n + 1)..Len(order) : order[i][2] = v
    BY <1>5, CutFacts
  <2>2. <<rev[v], v>> \in ToSet(order)
    BY <1>5, <2>1 DEF NoOrphans
  <2>3. PICK i \in 1..Len(order) : order[i] = <<rev[v], v>>
    BY <1>2, <2>2 DEF ToSet
  <2>4. order[i][2] = v
    BY <2>3
  <2>5. order[i] \in ToSet(order')
    BY <1>3, <2>1, <2>4
  <2> QED
    BY <2>1, <2>3, <2>5
<1> QED
  BY <1>4, <1>5 DEF NoOrphans

-----------------------------------------------------------------------------
(* A call that only reads leaves the invariant as it was.                  *)
LEMMA ReadKeepsIInv ==
    ASSUME IInv, UNCHANGED <<fwd, rev, order, marks, unwound>>,
           ret' \in [tag : Tags, key : Keys \union {None}, val : Vals \union {None}]
    PROVE  IInv'
<1>1. TypeOK'
  BY DEF IInv, TypeOK
<1>2. OrderCovered'
  BY DEF IInv, OrderCovered, OrderDistinct, OrderBound
<1>3. (unwound \/ NoOrphans)'
  BY DEF IInv, NoOrphans
<1> QED
  BY <1>1, <1>2, <1>3 DEF IInv

(* A fresh pair goes into all three stores.                                *)
LEMMA BindKeepsIInv ==
    ASSUME IInv, NEW k \in Keys, NEW v \in Vals,
           fwd[k] = None, rev[v] = None, Bind(k, v)
    PROVE  IInv'
<1> DEFINE n == Len(order)
<1>1. /\ order \in Seq(Entries)
      /\ DOMAIN order = 1..n
  BY Types DEF IInv
<1>2. n \in Nat
  BY Types DEF IInv
<1>3. /\ fwd \in [Keys -> Vals \union {None}]
      /\ rev \in [Vals -> Keys \union {None}]
      /\ None \notin Keys /\ None \notin Vals
      /\ \A i \in 1..n : order[i][1] \in Keys /\ order[i][2] \in Vals
  BY Types DEF IInv
<1>4. <<k, v>> \in Entries
  BY DEF Entries
<1>5. /\ order' \in Seq(Entries)
      /\ DOMAIN order' = 1..(n + 1)
      /\ \A i \in 1..n : order'[i] = order[i]
      /\ order'[n + 1] = <<k, v>>
  BY <1>1, <1>4, AppendFacts DEF Bind
<1>6. /\ fwd' = [fwd EXCEPT ![k] = v]
      /\ rev' = [rev EXCEPT ![v] = k]
  BY DEF Bind
<1> HIDE DEF n
<1>7. \A i \in 1..n : /\ fwd[order[i][1]] = order[i][2]
                      /\ rev[order[i][2]] = order[i][1]
                      /\ order[i][1] # k /\ order[i][2] # v
  BY <1>1, <1>3 DEF IInv, OrderCovered, OrderBound
<1>8. TypeOK'
  <2>1. fwd' \in [Keys -> Vals \union {None}] /\ rev' \in [Vals -> Keys \union {None}]
    BY <1>3, <1>6
  <2>2. ret' \in [tag : Tags, key : Keys \union {None}, val : Vals \union {None}]
    BY DEF Bind, Answer, Tags
  <2>3. UNCHANGED <<marks, unwound>>
    BY DEF Bind
  <2> QED
    BY <1>5, <2>1, <2>2, <2>3 DEF IInv, TypeOK, Entries
<1>9. \A i \in 1..(n + 1) : i \in 1..n \/ i = n + 1
  BY <1>2
<1>10. OrderDistinct'
  <2>1. \A i, j \in 1..n :
           order[i][1] = order[j][1] \/ order[i][2] = order[j][2] => i = j
    BY <1>1 DEF IInv, OrderCovered, OrderDistinct
  <2> QED
    BY <1>5, <1>7, <1>9, <2>1 DEF OrderDistinct
<1>11. OrderBound'
  <2>1. ASSUME NEW i \in 1..n
        PROVE  /\ fwd'[order'[i][1]] = order'[i][2]
               /\ rev'[order'[i][2]] = order'[i][1]
    BY <1>3, <1>5, <1>6, <1>7
  <2>2. /\ fwd'[order'[n + 1][1]] = order'[n + 1][2]
        /\ rev'[order'[n + 1][2]] = order'[n + 1][1]
    BY <1>3, <1>5, <1>6
  <2> QED
    BY <1>5, <1>9, <2>1, <2>2 DEF OrderBound
<1>12. (unwound \/ NoOrphans)'
  <2>1. UNCHANGED unwound
    BY DEF Bind
  <2>2. ToSet(order) \subseteq ToSet(order') /\ <<k, v>> \in ToSet(order')
    <3>1. \A i \in 1..n : i \in 1..(n + 1)
      BY <1>2
    <3>2. n + 1 \in 1..(n + 1)
      BY <1>2
    <3> QED
      BY <1>1, <1>5, <3>1, <3>2 DEF ToSet
  <2>3. NoOrphans => NoOrphans'
    BY <1>3, <1>6, <2>2 DEF NoOrphans
  <2> QED
    BY <2>1, <2>3 DEF IInv
<1> QED
  BY <1>8, <1>10, <1>11, <1>12 DEF IInv, OrderCovered

(* A panic between the two maps leaves an orphan in fwd, of a key that is  *)
(* not logged.                                                             *)
LEMMA InsertUnwindsKeepsIInv ==
    ASSUME IInv, NEW k \in Keys, NEW v \in Vals, InsertUnwindsLate(k, v)
    PROVE  IInv'
<1>1. /\ fwd' = [fwd EXCEPT ![k] = v] /\ fwd[k] = None
      /\ unwound' = TRUE
      /\ UNCHANGED <<rev, order, marks>>
      /\ ret' = Answer("Unwound", k, v)
  BY DEF InsertUnwindsLate
<1>2. /\ fwd \in [Keys -> Vals \union {None}]
      /\ None \notin Vals
      /\ DOMAIN order = 1..Len(order)
      /\ \A i \in 1..Len(order) : order[i][1] \in Keys /\ order[i][2] \in Vals
  BY Types DEF IInv
<1>3. TypeOK'
  <2>1. fwd' \in [Keys -> Vals \union {None}]
    BY <1>1, <1>2
  <2>2. ret' \in [tag : Tags, key : Keys \union {None}, val : Vals \union {None}]
    BY <1>1 DEF Answer, Tags
  <2> QED
    BY <1>1, <2>1, <2>2 DEF IInv, TypeOK
<1>4. OrderDistinct'
  BY <1>1 DEF IInv, OrderCovered, OrderDistinct
<1>5. OrderBound'
  BY <1>1, <1>2 DEF IInv, OrderCovered, OrderBound
<1> QED
  BY <1>1, <1>3, <1>4, <1>5 DEF IInv, OrderCovered

(* truncate, and rollback_to with it, cuts all three stores at one place.  *)
LEMMA TruncateKeepsIInv ==
    ASSUME IInv, NEW n \in Nat, Truncate(n)
    PROVE  IInv'
<1>1. PICK c \in 0..Len(order) :
         /\ c = (IF n < Len(order) THEN n ELSE Len(order))
         /\ CutTo(c, n, n)
  BY TruncateIsCut DEF IInv
<1>2. Len(order) \in Nat
  BY Types DEF IInv
<1>3. n < Len(order) => c <= n
  BY <1>1, <1>2
<1>4. OrderCovered'
  BY <1>1, <1>3, CutKeepsCovered DEF IInv
<1>5. (unwound \/ NoOrphans)'
  <2>1. NoOrphans => NoOrphans'
    BY <1>1, CutKeepsNoOrphans DEF IInv
  <2> QED
    BY <2>1 DEF IInv, Truncate
<1>6. TypeOK'
  <2>1. /\ order' \in Seq(Entries)
        /\ fwd' \in [Keys -> Vals \union {None}]
        /\ rev' \in [Vals -> Keys \union {None}]
    BY <1>1, CutFacts DEF IInv
  <2>2. ret' \in [tag : Tags, key : Keys \union {None}, val : Vals \union {None}]
    BY DEF Truncate, Unit, Answer, Tags
  <2> QED
    BY <2>1, <2>2 DEF IInv, TypeOK, Truncate, Entries
<1> QED
  BY <1>4, <1>5, <1>6 DEF IInv

(* A panic inside the loop leaves orphans of the entry just popped, never  *)
(* a logged pair without its bindings.                                     *)
LEMMA TruncateUnwindsKeepsIInv ==
    ASSUME IInv, NEW n \in Nat, TruncateUnwinds(n)
    PROVE  IInv'
<1>1. PICK i \in (n + 1)..Len(order), fwdDone \in BOOLEAN :
         /\ order' = Scope!Kept(i - 1)
         /\ fwd' = Without(fwd, KeysOf(Scope!Dropped(IF fwdDone THEN i - 1 ELSE i)))
         /\ rev' = Without(rev, ValsOf(Scope!Dropped(i)))
  BY DEF TruncateUnwinds
<1>2. Len(order) \in Nat
  BY Types DEF IInv
<1>3. PICK c \in 0..Len(order), a \in Nat :
         /\ c = i - 1 /\ c < Len(order)
         /\ a = IF fwdDone THEN i - 1 ELSE i
  BY <1>2
<1>4. CutTo(c, a, i)
  <2>1. Scope!Kept(i - 1) = SubSeq(order, 1, c)
    BY <1>2, <1>3 DEF Scope!Kept
  <2> QED
    BY <1>1, <1>3, <2>1 DEF CutTo, Scope!Dropped
<1>5. i \in Nat /\ c <= a /\ c <= i
  BY <1>2, <1>3
<1>6. OrderCovered'
  BY <1>4, <1>5, CutKeepsCovered DEF IInv
<1>7. TypeOK'
  <2>1. /\ order' \in Seq(Entries)
        /\ fwd' \in [Keys -> Vals \union {None}]
        /\ rev' \in [Vals -> Keys \union {None}]
    BY <1>4, <1>5, CutFacts DEF IInv
  <2>2. ret' \in [tag : Tags, key : Keys \union {None}, val : Vals \union {None}]
    BY DEF TruncateUnwinds, Answer, Tags
  <2> QED
    BY <2>1, <2>2 DEF IInv, TypeOK, TruncateUnwinds, Entries
<1>8. unwound' = TRUE
  BY DEF TruncateUnwinds
<1> QED
  BY <1>6, <1>7, <1>8 DEF IInv

LEMMA ClearKeepsIInv ==
    ASSUME IInv, Clear
    PROVE  IInv'
<1>1. /\ fwd' = [k \in Keys |-> None]
      /\ rev' = [v \in Vals |-> None]
      /\ order' = <<>>
      /\ ret' = Unit
      /\ UNCHANGED <<marks, unwound>>
  BY DEF Clear
<1>2. TypeOK'
  BY <1>1 DEF IInv, TypeOK, Unit, Answer, Tags
<1>3. OrderCovered'
  BY <1>1 DEF OrderCovered, OrderDistinct, OrderBound
<1>4. NoOrphans'
  BY <1>1 DEF NoOrphans
<1> QED
  BY <1>2, <1>3, <1>4 DEF IInv

LEMMA MarksKeepIInv ==
    ASSUME IInv, TakeMark \/ ForgetMark
    PROVE  IInv'
<1>1. UNCHANGED <<fwd, rev, order, ret, unwound>>
  BY DEF TakeMark, ForgetMark, Scope!TakeMark, Scope!ForgetMark
<1>2. order \in Seq(Keys \X Vals) /\ Len(order) \in Nat
  BY Types DEF IInv, Entries
<1>3. marks' \subseteq marks \union {[len |-> Len(order), at |-> order]}
  BY DEF TakeMark, ForgetMark, Scope!TakeMark, Scope!ForgetMark, Scope!MarkOf
<1>4. /\ marks' \subseteq [len : Nat, at : Seq(Keys \X Vals)]
      /\ \A m \in marks' : m.len = Len(m.at)
  BY <1>2, <1>3 DEF IInv, TypeOK
<1>5. TypeOK'
  BY <1>1, <1>4 DEF IInv, TypeOK
<1>6. OrderCovered'
  BY <1>1 DEF IInv, OrderCovered, OrderDistinct, OrderBound
<1>7. (unwound \/ NoOrphans)'
  BY <1>1 DEF IInv, NoOrphans
<1> QED
  BY <1>5, <1>6, <1>7 DEF IInv

-----------------------------------------------------------------------------
LEMMA InitIInv == Init => IInv
<1> SUFFICES ASSUME Init PROVE IInv
  OBVIOUS
<1>1. TypeOK
  <2>1. /\ fwd \in [Keys -> Vals \union {None}]
        /\ rev \in [Vals -> Keys \union {None}]
    BY DEF Init
  <2>2. order \in Seq(Keys \X Vals)
    BY EmptySeq DEF Init
  <2>4. marks = {} /\ unwound = FALSE
    BY DEF Init
  <2>3. ret \in [tag : Tags, key : Keys \union {None}, val : Vals \union {None}]
    BY DEF Init, Unit, Answer, Tags
  <2> QED
    BY <2>1, <2>2, <2>3, <2>4 DEF TypeOK
<1>2. OrderCovered /\ NoOrphans
  BY DEF Init, OrderCovered, OrderDistinct, OrderBound, NoOrphans
<1> QED
  BY <1>1, <1>2 DEF IInv

LEMMA InsertKeepsIInv ==
    ASSUME IInv, NEW k \in Keys, NEW v \in Vals,
           Insert(k, v) \/ InsertUnwindsEarly(k, v) \/ InsertUnwindsLate(k, v)
    PROVE  IInv'
<1>1. ASSUME NEW tag \in Tags, Refuse(tag, k, v) PROVE IInv'
  <2>1. ret' \in [tag : Tags, key : Keys \union {None}, val : Vals \union {None}]
    BY <1>1 DEF Refuse, Answer
  <2> QED
    BY <1>1, <2>1, ReadKeepsIInv DEF Refuse
<1>2. ASSUME fwd[k] = None, rev[v] = None, Bind(k, v) PROVE IInv'
  BY <1>2, BindKeepsIInv
<1> QED
  BY <1>1, <1>2, InsertUnwindsKeepsIInv DEF Insert, InsertUnwindsEarly, Tags

(* The invariant is inductive.                                             *)
LEMMA NextKeepsIInv == IInv /\ [Next]_vars => IInv'
<1> SUFFICES ASSUME IInv, [Next]_vars PROVE IInv'
  OBVIOUS
<1>1. ASSUME NEW k \in Keys, Get(k) PROVE IInv'
  <2>1. fwd[k] \in Vals \union {None}
    BY Types DEF IInv
  <2> QED
    BY <1>1, <2>1, ReadKeepsIInv DEF Get, Answer, Tags
<1>2. ASSUME NEW v \in Vals, GetKey(v) PROVE IInv'
  <2>1. rev[v] \in Keys \union {None}
    BY Types DEF IInv
  <2> QED
    BY <1>2, <2>1, ReadKeepsIInv DEF GetKey, Answer, Tags
<1>3. ASSUME NEW n \in Lengths, Truncate(n) \/ TruncateUnwinds(n) PROVE IInv'
  <2>1. n \in Nat
    BY Types DEF IInv, Lengths
  <2> QED
    BY <1>3, <2>1, TruncateKeepsIInv, TruncateUnwindsKeepsIInv
<1>4. ASSUME NEW m \in marks, RollbackTo(m) PROVE IInv'
  <2>1. m.len \in Nat
    BY Types DEF IInv
  <2> QED
    BY <1>4, <2>1, TruncateKeepsIInv DEF RollbackTo
<1>5. ASSUME UNCHANGED vars PROVE IInv'
  BY <1>5, ReadKeepsIInv DEF vars, IInv, TypeOK
<1> QED
  BY <1>1, <1>2, <1>3, <1>4, <1>5, InsertKeepsIInv, ClearKeepsIInv, MarksKeepIInv
     DEF Next

LEMMA AlwaysIInv == Spec => []IInv
BY InitIInv, NextKeepsIInv, PTL DEF Spec

(* The stores keep their types.                                            *)
THEOREM TypeCorrect == Spec => []TypeOK
<1>1. IInv => TypeOK
  BY DEF IInv
<1> QED
  BY <1>1, AlwaysIInv, PTL

(* Even where elements panic: a logged pair is always found from both      *)
(* sides, and no key or value is logged twice.                             *)
THEOREM LoggedPairsAreFound == Spec => []OrderCovered
<1>1. IInv => OrderCovered
  BY DEF IInv
<1> QED
  BY <1>1, AlwaysIInv, PTL

(* Until a panic leaves a call half done, forward map, reverse map and log *)
(* never desync.                                                           *)
THEOREM NeverDesync == Spec => []InSyncUntilUnwound
<1>1. IInv => InSyncUntilUnwound
  BY DEF IInv, InSyncUntilUnwound, InSync
<1> QED
  BY <1>1, AlwaysIInv, PTL

-----------------------------------------------------------------------------
(* Every rollback, to an open or to a stale mark, keeps the laws.          *)
LEMMA RollbackKeepsLaws ==
    ASSUME TypeOK, NEW m \in marks, RollbackTo(m)
    PROVE  Scope!Laws(m)
<1>1. /\ m.len \in Nat /\ m.len = Len(m.at)
      /\ m.at \in Seq(Entries)
      /\ order \in Seq(Entries)
  BY Types
<1>2. Len(order) \in Nat
  BY Types
<1>3. PICK c \in 0..Len(order) :
         /\ c = (IF m.len < Len(order) THEN m.len ELSE Len(order))
         /\ CutTo(c, m.len, m.len)
  BY <1>1, TruncateIsCut DEF RollbackTo
<1>4. order' = SubSeq(order, 1, c)
  BY <1>3 DEF CutTo
<1>5. Scope!Restores(m)
  <2>1. ASSUME IsPrefix(m.at, order) PROVE order' = m.at
    <3>1. m.len \in 0..Len(order) /\ SubSeq(order, 1, m.len) = m.at
      BY <1>1, <2>1, CutToPrefix
    <3>2. c = m.len
      BY <1>2, <1>3, <3>1
    <3> QED
      BY <1>4, <3>1, <3>2
  <2> QED
    BY <2>1 DEF Scope!Restores, Scope!Open, Scope!IsPrefix, IsPrefix
<1>6. Scope!LastInFirstOut
  <2>1. IsPrefix(order', order)
    BY <1>1, <1>4, CutIsPrefix
  <2> QED
    BY <2>1 DEF Scope!LastInFirstOut, Scope!IsPrefix, IsPrefix
<1>7. Scope!OvershootIsNoOp(m)
  <2>1. m.len >= Len(order) => c = Len(order)
    BY <1>1, <1>2, <1>3
  <2> QED
    BY <1>1, <1>4, <2>1, CutIsPrefix DEF Scope!OvershootIsNoOp
<1>8. Scope!IsIdempotent(m)
  <2>1. Len(order') = c
    BY <1>1, <1>4, PrefixFacts
  <2>2. c <= m.len
    BY <1>1, <1>2, <1>3
  <2> QED
    BY <2>1, <2>2 DEF Scope!IsIdempotent
<1> QED
  BY <1>5, <1>6, <1>7, <1>8 DEF Scope!Laws

(* rollback_to restores what an open mark covered, in the log and in both  *)
(* maps, and keeps the other laws for stale marks too.                     *)
THEOREM RollbackIsAtomic == Spec => RollbackRestores
<1>1. ASSUME IInv, [Next]_vars, NEW m \in marks, RollbackTo(m)
      PROVE  Scope!Laws(m) /\ (unwound \/ InSync')
  <2>1. Scope!Laws(m)
    BY <1>1, RollbackKeepsLaws DEF IInv
  <2>2. IInv'
    BY <1>1, NextKeepsIInv
  <2>3. unwound' = unwound
    BY <1>1 DEF RollbackTo, Truncate
  <2> QED
    BY <2>1, <2>2, <2>3 DEF IInv, InSync
<1>2. IInv /\ [Next]_vars
         => [\A m \in marks :
                RollbackTo(m) => Scope!Laws(m) /\ (unwound \/ InSync')]_vars
  BY <1>1
<1> QED
  BY <1>2, AlwaysIInv, PTL DEF Spec, RollbackRestores

-----------------------------------------------------------------------------
(* Under InSync the abstract lookups are the map lookups.                  *)
LEMMA LookupsAgree ==
    ASSUME TypeOK, InSync
    PROVE  /\ \A k \in Keys : Abstract!KeyBound(k) <=> fwd[k] # None
           /\ \A v \in Vals : Abstract!ValueBound(v) <=> rev[v] # None
           /\ \A k \in Keys : fwd[k] # None => <<k, fwd[k]>> \in Abstract!Pairs
           /\ \A v \in Vals : rev[v] # None => <<rev[v], v>> \in Abstract!Pairs
<1>1. Abstract!Pairs = ToSet(order)
  BY DEF Abstract!Pairs, Abstract!ToSet, ToSet
<1>2. /\ \A k \in Keys : fwd[k] # None => <<k, fwd[k]>> \in Abstract!Pairs
      /\ \A v \in Vals : rev[v] # None => <<rev[v], v>> \in Abstract!Pairs
  BY <1>1 DEF InSync, NoOrphans
<1>3. None \notin Keys /\ None \notin Vals
  BY Types
<1>4. /\ \A k \in Keys : fwd[k] \in Vals \union {None}
      /\ \A v \in Vals : rev[v] \in Keys \union {None}
  BY Types
<1>5. \A k \in Keys, v \in Vals :
         <<k, v>> \in Abstract!Pairs => fwd[k] = v /\ rev[v] = k
  BY <1>1 DEF InSync, OrderCovered, OrderBound, ToSet
<1>6. ASSUME NEW k \in Keys PROVE Abstract!KeyBound(k) <=> fwd[k] # None
  <2>1. ASSUME fwd[k] # None PROVE Abstract!KeyBound(k)
    <3>1. fwd[k] \in Vals /\ <<k, fwd[k]>> \in Abstract!Pairs
      BY <1>2, <1>4, <2>1
    <3> QED
      BY <3>1 DEF Abstract!KeyBound
  <2>2. ASSUME NEW v \in Vals, <<k, v>> \in Abstract!Pairs PROVE fwd[k] # None
    BY <1>3, <1>5, <2>2
  <2> QED
    BY <2>1, <2>2 DEF Abstract!KeyBound
<1>7. ASSUME NEW v \in Vals PROVE Abstract!ValueBound(v) <=> rev[v] # None
  <2>1. ASSUME rev[v] # None PROVE Abstract!ValueBound(v)
    <3>1. rev[v] \in Keys /\ <<rev[v], v>> \in Abstract!Pairs
      BY <1>2, <1>4, <2>1
    <3> QED
      BY <3>1 DEF Abstract!ValueBound
  <2>2. ASSUME NEW k \in Keys, <<k, v>> \in Abstract!Pairs PROVE rev[v] # None
    BY <1>3, <1>5, <2>2
  <2> QED
    BY <2>1, <2>2 DEF Abstract!ValueBound
<1> QED
  BY <1>2, <1>6, <1>7

(* Cutting the log is a cut of the abstract log.                           *)
LEMMA CutIsAbstractCut ==
    ASSUME TypeOK, NEW n \in Nat, order' = Scope!Kept(n)
    PROVE  \E c \in 0..Len(order) : order' = SubSeq(order, 1, c)
<1>1. Len(order) \in Nat
  BY Types
<1> DEFINE c == IF n < Len(order) THEN n ELSE Len(order)
<1>2. c \in 0..Len(order)
  BY <1>1
<1> QED
  BY <1>2 DEF Scope!Kept

(* Leaving the log alone keeps all of it.                                  *)
LEMMA SameIsAbstractCut ==
    ASSUME TypeOK, order' = order
    PROVE  \E c \in 0..Len(order) : order' = SubSeq(order, 1, c)
<1>1. order \in Seq(Entries)
  BY Types
<1>2. Len(order) \in 0..Len(order)
  BY Types
<1>3. SubSeq(order, 1, Len(order)) = order
  BY <1>1, <1>2, CutIsPrefix
<1> QED
  BY <1>2, <1>3

(* Whatever a call did to the maps, the log was cut or grew by one pair.   *)
LEMMA LogMoves ==
    ASSUME TypeOK, [Next]_vars
    PROVE  \/ \E c \in 0..Len(order) : order' = SubSeq(order, 1, c)
           \/ \E k \in Keys, v \in Vals : order' = Append(order, <<k, v>>)
<1> DEFINE Shortened == \E c \in 0..Len(order) : order' = SubSeq(order, 1, c)
<1>1. ASSUME UNCHANGED order PROVE Shortened
  BY <1>1, SameIsAbstractCut
<1>2. ASSUME NEW n \in Nat, order' = Scope!Kept(n) PROVE Shortened
  BY <1>2, CutIsAbstractCut
<1>3. ASSUME NEW n \in Lengths, TruncateUnwinds(n) PROVE Shortened
  <2>1. PICK i \in (n + 1)..Len(order) : order' = Scope!Kept(i - 1)
    BY <1>3 DEF TruncateUnwinds
  <2>2. i - 1 \in Nat
    BY Types DEF Lengths
  <2> QED
    BY <1>2, <2>1, <2>2
<1>4. ASSUME NEW n \in Lengths, Truncate(n) PROVE Shortened
  BY <1>2, <1>4, Types DEF Truncate, Lengths
<1>5. ASSUME NEW m \in marks, RollbackTo(m) PROVE Shortened
  BY <1>2, <1>5, Types DEF RollbackTo, Truncate
<1>6. ASSUME Clear PROVE Shortened
  <2>1. order' = SubSeq(order, 1, 0)
    BY <1>6, SubSeqEmpty DEF Clear
  <2> QED
    BY <2>1, Types
<1>7. ASSUME NEW k \in Keys, NEW v \in Vals,
             Insert(k, v) \/ InsertUnwindsEarly(k, v) \/ InsertUnwindsLate(k, v)
      PROVE  UNCHANGED order \/ order' = Append(order, <<k, v>>)
  BY <1>7 DEF Insert, InsertUnwindsEarly, InsertUnwindsLate, Refuse, Bind
<1>8. ASSUME \/ \E k \in Keys : Get(k)
             \/ \E v \in Vals : GetKey(v)
             \/ TakeMark \/ ForgetMark \/ UNCHANGED vars
      PROVE  UNCHANGED order
  BY <1>8 DEF Get, GetKey, TakeMark, ForgetMark, Scope!TakeMark, Scope!ForgetMark, vars
<1> HIDE DEF Shortened
<1>9. Shortened \/ \E k \in Keys, v \in Vals : order' = Append(order, <<k, v>>)
  BY <1>1, <1>3, <1>4, <1>5, <1>6, <1>7, <1>8 DEF Next
<1> QED
  BY <1>9 DEF Shortened

(* A step of an intact map is a step of the abstract bimap.                *)
LEMMA IntactStep ==
    ASSUME TypeOK, InSync, unwound = FALSE, unwound' = FALSE, [Next]_vars
    PROVE  Abstract!Next \/ UNCHANGED Abstract!vars
<1> DEFINE inserts == \E k \in Keys, v \in Vals : Abstract!Insert(k, v)
           gets == \E k \in Keys : Abstract!GetByKey(k)
           getKeys == \E v \in Vals : Abstract!GetByValue(v)
           rollBack == Abstract!RollBack
           unwind == Abstract!Unwind
<1>1. inserts \/ gets \/ getKeys \/ rollBack \/ unwind => Abstract!Next
  BY DEF Abstract!Next
<1>2. ASSUME NEW k \in Keys, NEW v \in Vals, Insert(k, v)
      PROVE  Abstract!Insert(k, v)
  BY <1>2, LookupsAgree
     DEF Insert, Refuse, Bind, Answer, Abstract!Insert, Abstract!Answer
<1>3. ASSUME NEW k \in Keys, NEW v \in Vals, InsertUnwindsEarly(k, v)
      PROVE  Abstract!Unwind
  BY <1>3 DEF InsertUnwindsEarly, Refuse, Answer, Abstract!Unwind, Abstract!Answer
<1>4. ASSUME NEW k \in Keys, Get(k)
      PROVE  Abstract!GetByKey(k)
  <2>1. fwd[k] \in Vals \union {None}
    BY Types
  <2> QED
    BY <1>4, <2>1, LookupsAgree DEF Get, Answer, Abstract!GetByKey, Abstract!Answer
<1>5. ASSUME NEW v \in Vals, GetKey(v)
      PROVE  Abstract!GetByValue(v)
  <2>1. rev[v] \in Keys \union {None}
    BY Types
  <2> QED
    BY <1>5, <2>1, LookupsAgree DEF GetKey, Answer, Abstract!GetByValue, Abstract!Answer
<1>6. ASSUME NEW n \in Nat, Truncate(n) PROVE Abstract!RollBack
  <2>1. \E c \in 0..Len(order) : order' = SubSeq(order, 1, c)
    BY <1>6, CutIsAbstractCut DEF Truncate
  <2> QED
    BY <1>6, <2>1 DEF Truncate, Unit, Answer,
                      Abstract!RollBack, Abstract!Unit, Abstract!Answer
<1>7. ASSUME NEW n \in Lengths, Truncate(n) PROVE Abstract!RollBack
  BY <1>6, <1>7, Types DEF Lengths
<1>8. ASSUME NEW m \in marks, RollbackTo(m) PROVE Abstract!RollBack
  BY <1>6, <1>8, Types DEF RollbackTo
<1>9. ASSUME Clear PROVE Abstract!RollBack
  <2>1. order' = SubSeq(order, 1, 0)
    BY <1>9, SubSeqEmpty DEF Clear
  <2>2. 0 \in 0..Len(order)
    BY Types
  <2> QED
    BY <1>9, <2>1, <2>2 DEF Clear, Unit, Answer,
                            Abstract!RollBack, Abstract!Unit, Abstract!Answer
<1>10. ASSUME TakeMark \/ ForgetMark \/ UNCHANGED vars
       PROVE  UNCHANGED Abstract!vars
  BY <1>10 DEF TakeMark, ForgetMark, Scope!TakeMark, Scope!ForgetMark,
               vars, Abstract!vars
<1>11. ~\E k \in Keys, v \in Vals : InsertUnwindsLate(k, v)
  BY DEF InsertUnwindsLate
<1>12. ~\E n \in Lengths : TruncateUnwinds(n)
  BY DEF TruncateUnwinds
<1>13. (\E k \in Keys, v \in Vals : Insert(k, v)) => inserts
  BY <1>2
<1>14. (\E k \in Keys, v \in Vals : InsertUnwindsEarly(k, v)) => unwind
  BY <1>3
<1>15. (\E k \in Keys : Get(k)) => gets
  BY <1>4
<1>16. (\E v \in Vals : GetKey(v)) => getKeys
  BY <1>5
<1>17. (\E n \in Lengths : Truncate(n)) => rollBack
  BY <1>7
<1>18. (\E m \in marks : RollbackTo(m)) => rollBack
  BY <1>8
<1> HIDE DEF inserts, gets, getKeys, rollBack, unwind
<1>19. inserts \/ gets \/ getKeys \/ rollBack \/ unwind \/ UNCHANGED Abstract!vars
  BY <1>9, <1>10, <1>11, <1>12, <1>13, <1>14, <1>15, <1>16, <1>17, <1>18
     DEF Next, rollBack
<1> QED
  BY <1>1, <1>19

(* Once raised, unwound stays.                                             *)
LEMMA UnwoundStays ==
    ASSUME unwound = TRUE, [Next]_vars
    PROVE  unwound' = TRUE
BY DEF Next, Insert, InsertUnwindsEarly, InsertUnwindsLate, Refuse, Bind, Get, GetKey,
       Truncate, TruncateUnwinds, RollbackTo, Clear, TakeMark, ForgetMark, vars

(* The two maps and the log are a correct implementation of the bijection  *)
(* that Bimap promises, for every client.                                  *)
THEOREM BTreeBimapIsABimap == Spec => ImplementsBimap
<1>1. Init => Abstract!Init
  BY DEF Init, Unit, Answer, Abstract!Init, Abstract!Unit, Abstract!Answer
<1>2. IInv /\ [Next]_vars => [Abstract!Next]_(Abstract!vars)
  <2> SUFFICES ASSUME IInv, [Next]_vars
               PROVE  Abstract!Next \/ UNCHANGED Abstract!vars
    OBVIOUS
  <2>1. unwound \in BOOLEAN /\ unwound' \in BOOLEAN
    BY NextKeepsIInv DEF IInv, TypeOK
  <2>2. CASE unwound' = TRUE
    BY <2>2, LogMoves DEF IInv, Abstract!Next, Abstract!HalfDone
  <2>3. CASE unwound' = FALSE
    <3>1. unwound = FALSE
      BY <2>1, <2>3, UnwoundStays
    <3>2. InSync
      BY <3>1 DEF IInv, InSync
    <3> QED
      BY <2>3, <3>1, <3>2, IntactStep DEF IInv
  <2> QED
    BY <2>1, <2>2, <2>3
<1> QED
  BY <1>1, <1>2, AlwaysIInv, PTL DEF Spec, ImplementsBimap, Abstract!Spec
=============================================================================
