--------------------------- MODULE SequenceLemmas ---------------------------
(***************************************************************************)
(* Facts about sequences, for the proofs of every collection: cutting and  *)
(* extending an insertion log; sets of numbers; and the order of byte      *)
(* strings, with ranges of them.                                           *)
(***************************************************************************)
EXTENDS ByteStrings, Integers, FiniteSets, SequenceTheorems,
        FiniteSetTheorems, WellFoundedInduction, TLAPS

(* A prefix of a log is a log, of the length asked for, with the same      *)
(* entries.                                                                *)
LEMMA PrefixFacts ==
    ASSUME NEW S, NEW s \in Seq(S), NEW n \in 0..Len(s)
    PROVE  /\ SubSeq(s, 1, n) \in Seq(S)
           /\ Len(SubSeq(s, 1, n)) = n
           /\ DOMAIN SubSeq(s, 1, n) = 1..n
           /\ \A i \in 1..n : SubSeq(s, 1, n)[i] = s[i]
<1>1. Len(s) \in Nat /\ \A i \in 1..n : s[i] \in S
  BY LenProperties, ElementOfSeq
<1>2. /\ SubSeq(s, 1, n) \in Seq(S)
      /\ Len(SubSeq(s, 1, n)) = n
      /\ \A i \in 1..n : SubSeq(s, 1, n)[i] = s[i]
  BY <1>1, SubSeqProperties
<1>3. DOMAIN SubSeq(s, 1, n) = 1..n
  BY <1>2, LenProperties
<1> QED
  BY <1>2, <1>3

(* IsPrefix, entry by entry.                                               *)
LEMMA PrefixByEntries ==
    ASSUME NEW S, NEW s \in Seq(S), NEW t \in Seq(S)
    PROVE  IsPrefix(s, t) <=> /\ Len(s) <= Len(t)
                              /\ \A i \in 1..Len(s) : s[i] = t[i]
<1>1. Len(s) \in Nat /\ Len(t) \in Nat
  BY LenProperties
<1>2. CASE Len(s) <= Len(t)
  <2>1. Len(s) \in 0..Len(s) /\ Len(s) \in 0..Len(t)
    BY <1>1, <1>2
  <2> DEFINE p == SubSeq(s, 1, Len(s))
             q == SubSeq(t, 1, Len(s))
  <2>2. /\ p \in Seq(S) /\ Len(p) = Len(s)
        /\ \A i \in 1..Len(s) : p[i] = s[i]
    BY <2>1, PrefixFacts
  <2>3. /\ q \in Seq(S) /\ Len(q) = Len(s)
        /\ \A i \in 1..Len(s) : q[i] = t[i]
    BY <2>1, PrefixFacts
  <2> HIDE DEF p, q
  <2>4. p = q <=> \A i \in 1..Len(s) : s[i] = t[i]
    <3>1. ASSUME p = q PROVE \A i \in 1..Len(s) : s[i] = t[i]
      BY <2>2, <2>3, <3>1
    <3>2. ASSUME \A i \in 1..Len(s) : s[i] = t[i] PROVE p = q
      <4>1. Len(p) = Len(q) /\ \A i \in 1..Len(p) : p[i] = q[i]
        BY <2>2, <2>3, <3>2
      <4> QED
        BY ONLY <4>1, <2>2, <2>3, SeqEqual
    <3> QED
      BY <3>1, <3>2
  <2> QED
    BY <1>2, <2>4 DEF IsPrefix, p, q
<1>3. CASE ~(Len(s) <= Len(t))
  BY <1>3 DEF IsPrefix
<1> QED
  BY <1>2, <1>3

(* Cutting a log to the length of one of its prefixes gives that prefix.   *)
LEMMA CutToPrefix ==
    ASSUME NEW S, NEW s \in Seq(S), NEW t \in Seq(S), IsPrefix(s, t)
    PROVE  Len(s) \in 0..Len(t) /\ SubSeq(t, 1, Len(s)) = s
<1>1. /\ Len(s) \in Nat /\ Len(t) \in Nat
      /\ Len(s) <= Len(t)
      /\ \A i \in 1..Len(s) : s[i] = t[i]
  BY LenProperties, PrefixByEntries
<1>2. Len(s) \in 0..Len(t)
  BY <1>1
<1>3. /\ SubSeq(t, 1, Len(s)) \in Seq(S)
      /\ Len(SubSeq(t, 1, Len(s))) = Len(s)
      /\ \A i \in 1..Len(s) : SubSeq(t, 1, Len(s))[i] = t[i]
  BY <1>2, PrefixFacts
<1>4. \A i \in 1..Len(s) : SubSeq(t, 1, Len(s))[i] = s[i]
  BY <1>1, <1>3
<1> QED
  BY <1>2, <1>3, <1>4, SeqEqual

(* A cut of a log is a prefix of it, and a cut to the full length is the   *)
(* log itself.                                                             *)
LEMMA CutIsPrefix ==
    ASSUME NEW S, NEW s \in Seq(S), NEW n \in 0..Len(s)
    PROVE  /\ IsPrefix(SubSeq(s, 1, n), s)
           /\ n = Len(s) => SubSeq(s, 1, n) = s
<1> DEFINE p == SubSeq(s, 1, n)
<1>1. Len(s) \in Nat
  BY LenProperties
<1>2. /\ p \in Seq(S) /\ Len(p) = n
      /\ \A i \in 1..n : p[i] = s[i]
  BY PrefixFacts
<1> HIDE DEF p
<1>3. IsPrefix(p, s)
  <2>1. Len(p) <= Len(s) /\ \A i \in 1..Len(p) : p[i] = s[i]
    BY <1>1, <1>2
  <2> QED
    BY <1>2, <2>1, PrefixByEntries
<1>4. ASSUME n = Len(s) PROVE p = s
  BY <1>2, <1>4, SeqEqual
<1> QED
  BY <1>3, <1>4 DEF p

(* Appending keeps the old entries and adds one at the end.                *)
LEMMA AppendFacts ==
    ASSUME NEW S, NEW s \in Seq(S), NEW e \in S
    PROVE  /\ Append(s, e) \in Seq(S)
           /\ Len(Append(s, e)) = Len(s) + 1
           /\ DOMAIN Append(s, e) = 1..(Len(s) + 1)
           /\ \A i \in 1..Len(s) : Append(s, e)[i] = s[i]
           /\ Append(s, e)[Len(s) + 1] = e
<1>1. /\ Append(s, e) \in Seq(S)
      /\ Len(Append(s, e)) = Len(s) + 1
      /\ \A i \in 1..Len(s) : Append(s, e)[i] = s[i]
      /\ Append(s, e)[Len(s) + 1] = e
  BY AppendProperties
<1> QED
  BY <1>1, LenProperties

(* A set of numbers that is not empty has a least one.                     *)
LEMMA LeastNumber ==
    ASSUME NEW S \in SUBSET Nat, S # {}
    PROVE  \E n \in S : \A m \in S : n <= m
<1> DEFINE R == OpToRel(<, Nat)
<1>1. \E n \in S : \A m \in S : ~(<<m, n>> \in R)
  <2>1. IsWellFoundedOn(R, Nat)
    BY NatLessThanWellFounded
  <2> HIDE DEF R
  <2> QED
    BY <2>1, WFMin
<1>2. ASSUME NEW n \in S, NEW m \in S, ~(<<m, n>> \in R) PROVE n <= m
  BY <1>2 DEF OpToRel
<1> HIDE DEF R
<1> QED
  BY <1>1, <1>2

(* Induction up to a bound.                                                *)
LEMMA StepByStep ==
    ASSUME NEW n \in Nat, NEW S, 0 \in S, \A i \in 0..(n - 1) : i \in S => i + 1 \in S
    PROVE  \A i \in 0..n : i \in S
<1> DEFINE Out == {i \in 0..n : i \notin S}
<1> SUFFICES ASSUME Out # {} PROVE FALSE
  OBVIOUS
<1>1. PICK m \in Out : \A i \in Out : m <= i
  <2>1. Out \in SUBSET Nat
    OBVIOUS
  <2> HIDE DEF Out
  <2> QED
    BY <2>1, LeastNumber
<1>2. m \in 0..n /\ m \notin S /\ m # 0
  OBVIOUS
<1>3. m - 1 \in 0..(n - 1) /\ m - 1 \in 0..n /\ ~(m <= m - 1) /\ (m - 1) + 1 = m
  BY <1>2
<1>4. m - 1 \in S
  BY <1>1, <1>3
<1> QED
  BY <1>2, <1>3, <1>4

(* A set of numbers up to n that holds, with each, all below it, is that   *)
(* of the numbers up to its cardinality.                                   *)
LEMMA DownwardClosed ==
    ASSUME NEW n \in Nat, NEW S \in SUBSET (1..n),
           \A i \in S : \A j \in 1..n : j < i => j \in S
    PROVE  /\ Cardinality(S) \in 0..n
           /\ S = 1..Cardinality(S)
<1> DEFINE Out == {i \in 1..(n + 1) : i \notin S}
<1>1. Out \in SUBSET Nat /\ n + 1 \in Out
  OBVIOUS
<1>2. PICK m \in Out : \A i \in Out : m <= i
  BY <1>1, LeastNumber
<1>3. m \in 1..(n + 1) /\ m \notin S /\ m - 1 \in 0..n
  OBVIOUS
<1>4. S = 1..(m - 1)
  <2>1. ASSUME NEW i \in S PROVE i \in 1..(m - 1)
    <3>1. i \in 1..n /\ i # m
      BY <1>3
    <3>2. CASE m < i
      <4>1. m \in 1..n
        BY <1>3, <3>1, <3>2
      <4> QED
        BY <1>3, <3>2, <4>1
    <3> QED
      BY <1>3, <3>1, <3>2
  <2>2. ASSUME NEW i \in 1..(m - 1) PROVE i \in S
    <3>1. i \in 1..(n + 1) /\ ~(m <= i)
      BY <1>3
    <3> QED
      BY <1>2, <3>1
  <2> QED
    BY <2>1, <2>2
<1>5. Cardinality(1..(m - 1)) = m - 1
  <2>1. 1 \in Int /\ m - 1 \in Int
    BY <1>3
  <2>2. Cardinality(1..(m - 1)) = IF 1 > m - 1 THEN 0 ELSE (m - 1) - 1 + 1
    BY ONLY <2>1, FS_Interval
  <2> QED
    BY <1>3, <2>2
<1> QED
  BY <1>3, <1>4, <1>5

(* Where what follows a cut is.                                            *)
LEMMA SuffixFacts ==
    ASSUME NEW S, NEW s \in Seq(S), NEW i \in 1..(Len(s) + 1)
    PROVE  /\ SubSeq(s, i, Len(s)) \in Seq(S)
           /\ Len(SubSeq(s, i, Len(s))) = Len(s) + 1 - i
           /\ \A j \in 1..(Len(s) + 1 - i) : SubSeq(s, i, Len(s))[j] = s[i + j - 1]
<1>1. Len(s) \in Nat /\ \A j \in 1..Len(s) : s[j] \in S
  BY LenProperties, ElementOfSeq
<1>2. \A j \in i..Len(s) : j \in 1..Len(s)
  BY <1>1
<1>3. \A j \in i..Len(s) : s[j] \in S
  BY <1>1, <1>2
<1>4. i \in Nat /\ Len(s) \in Nat /\ i <= Len(s) + 1
  BY <1>1
<1>5. /\ SubSeq(s, i, Len(s)) \in Seq(S)
      /\ Len(SubSeq(s, i, Len(s))) = IF i <= Len(s) THEN Len(s) - i + 1 ELSE 0
      /\ \A j \in 1..(Len(s) - i + 1) : SubSeq(s, i, Len(s))[j] = s[i + j - 1]
  BY <1>3, <1>4, SubSeqProperties
<1>6. Len(s) - i + 1 = Len(s) + 1 - i
  BY <1>4
<1> QED
  BY <1>4, <1>5, <1>6

(* An element put in at i, and those from there on moved up by one.        *)
LEMMA InsertAtFacts ==
    ASSUME NEW S, NEW s \in Seq(S), NEW e \in S, NEW i \in 1..(Len(s) + 1)
    PROVE  /\ InsertAt(s, i, e) \in Seq(S)
           /\ Len(InsertAt(s, i, e)) = Len(s) + 1
           /\ \A j \in 1..(Len(s) + 1) :
                 InsertAt(s, i, e)[j] = IF j < i THEN s[j]
                                        ELSE IF j = i THEN e ELSE s[j - 1]
<1> DEFINE p == SubSeq(s, 1, i - 1)
           q == SubSeq(s, i, Len(s))
           pe == p \o <<e>>
           t == pe \o q
<1>1. Len(s) \in Nat /\ i - 1 \in 0..Len(s)
  BY LenProperties
<1>2. /\ p \in Seq(S) /\ Len(p) = i - 1
      /\ \A j \in 1..(i - 1) : p[j] = s[j]
  BY <1>1, PrefixFacts
<1>3. /\ q \in Seq(S) /\ Len(q) = Len(s) + 1 - i
      /\ \A j \in 1..(Len(s) + 1 - i) : q[j] = s[i + j - 1]
  BY SuffixFacts
<1>4. <<e>> \in Seq(S) /\ Len(<<e>>) = 1 /\ <<e>>[1] = e
  OBVIOUS
<1>5. InsertAt(s, i, e) = t
  BY DEF InsertAt
<1> HIDE DEF p, q
<1>6. /\ pe \in Seq(S) /\ Len(pe) = i
      /\ \A j \in 1..i : pe[j] = IF j <= i - 1 THEN p[j] ELSE <<e>>[j - (i - 1)]
  <2>1. /\ pe \in Seq(S) /\ Len(pe) = Len(p) + Len(<<e>>)
        /\ \A j \in 1..(Len(p) + Len(<<e>>)) :
              pe[j] = IF j <= Len(p) THEN p[j] ELSE <<e>>[j - Len(p)]
    BY <1>2, <1>4, ConcatProperties
  <2>2. Len(p) + Len(<<e>>) = i
    BY <1>1, <1>2, <1>4
  <2> QED
    BY <1>2, <2>1, <2>2
<1> HIDE DEF pe
<1>7. /\ t \in Seq(S) /\ Len(t) = Len(s) + 1
      /\ \A j \in 1..(Len(s) + 1) : t[j] = IF j <= i THEN pe[j] ELSE q[j - i]
  <2>1. /\ t \in Seq(S) /\ Len(t) = Len(pe) + Len(q)
        /\ \A j \in 1..(Len(pe) + Len(q)) :
              t[j] = IF j <= Len(pe) THEN pe[j] ELSE q[j - Len(pe)]
    BY <1>3, <1>6, ConcatProperties
  <2>2. Len(pe) + Len(q) = Len(s) + 1
    BY <1>1, <1>3, <1>6
  <2> QED
    BY <1>6, <2>1, <2>2
<1> HIDE DEF t
<1>8. ASSUME NEW j \in 1..(Len(s) + 1)
      PROVE  t[j] = IF j < i THEN s[j] ELSE IF j = i THEN e ELSE s[j - 1]
  <2>1. CASE j < i
    <3>1. j \in 1..(i - 1) /\ j \in 1..i /\ j <= i /\ j <= i - 1
      BY <1>1, <2>1
    <3> QED
      BY <1>2, <1>6, <1>7, <2>1, <3>1
  <2>2. CASE j = i
    <3>1. i \in 1..i /\ ~(i <= i - 1) /\ i - (i - 1) = 1 /\ i <= i
      BY <1>1
    <3> QED
      BY <1>4, <1>6, <1>7, <2>2, <3>1
  <2>3. CASE i < j
    <3>1. j - i \in 1..(Len(s) + 1 - i) /\ ~(j <= i) /\ i + (j - i) - 1 = j - 1
      BY <1>1, <2>3
    <3>2. t[j] = q[j - i]
      BY <1>7, <3>1
    <3>3. q[j - i] = s[i + (j - i) - 1]
      BY <1>3, <3>1
    <3>4. ~(j < i) /\ j # i
      BY <1>1, <2>3
    <3> QED
      BY <3>1, <3>2, <3>3, <3>4
  <2> QED
    BY <1>1, <2>1, <2>2, <2>3
<1> QED
  BY <1>5, <1>7, <1>8

(* The same, under a name.                                                 *)
OpenedAt(s, i, e, t) ==
    /\ Len(t) = Len(s) + 1
    /\ \A j \in 1..(Len(s) + 1) :
          t[j] = IF j < i THEN s[j] ELSE IF j = i THEN e ELSE s[j - 1]

LEMMA InsertAtOpens ==
    ASSUME NEW S, NEW s \in Seq(S), NEW e \in S, NEW i \in 1..(Len(s) + 1)
    PROVE  InsertAt(s, i, e) \in Seq(S) /\ OpenedAt(s, i, e, InsertAt(s, i, e))
BY InsertAtFacts DEF OpenedAt

-----------------------------------------------------------------------------
(* A place before another is one wherever the other is.                    *)
LEMMA PlacesBefore ==
    /\ \A n \in Nat : \A i \in 1..n : \A j \in 1..(i - 1) : j \in 1..n
    /\ \A i, j \in Nat : i <= j => \A m \in 1..(i - 1) : m \in 1..(j - 1)
    /\ \A i, j \in Nat : 1 <= i /\ i <= j => i = j \/ i \in 1..(j - 1)
<1>1. ASSUME NEW n \in Nat, NEW i \in 1..n, NEW j \in 1..(i - 1) PROVE j \in 1..n
  OBVIOUS
<1>2. ASSUME NEW i \in Nat, NEW j \in Nat, i <= j, NEW m \in 1..(i - 1)
      PROVE  m \in 1..(j - 1)
  BY <1>2
<1>3. ASSUME NEW i \in Nat, NEW j \in Nat, 1 <= i, i <= j PROVE i = j \/ i \in 1..(j - 1)
  BY <1>3
<1> QED
  BY <1>1, <1>2, <1>3

(* A cut of a string has its leading bytes.                                *)
LEMMA CutBytes ==
    ASSUME NEW s \in Seq(Nat), NEW n \in Nat
    PROVE  /\ Cut(s, n) \in Seq(Nat)
           /\ Len(Cut(s, n)) = IF n < Len(s) THEN n ELSE Len(s)
           /\ \A i \in 1..Len(Cut(s, n)) : Cut(s, n)[i] = s[i]
<1> DEFINE c == IF n < Len(s) THEN n ELSE Len(s)
<1>1. c \in 0..Len(s)
  BY LenProperties
<1>2. Cut(s, n) = SubSeq(s, 1, c)
  BY DEF Cut
<1> HIDE DEF c
<1>3. /\ SubSeq(s, 1, c) \in Seq(Nat)
      /\ Len(SubSeq(s, 1, c)) = c
      /\ \A i \in 1..c : SubSeq(s, 1, c)[i] = s[i]
  BY <1>1, PrefixFacts
<1> QED
  BY <1>2, <1>3 DEF c

(* The order, byte by byte.                                                *)
ShorterPrefix(s, t) == Len(s) < Len(t) /\ \A i \in 1..Len(s) : s[i] = t[i]

LowerAt(s, t, i) ==
    /\ i \in 1..Len(s) /\ i \in 1..Len(t)
    /\ s[i] < t[i]
    /\ \A j \in 1..(i - 1) : s[j] = t[j]

LEMMA LessByBytes ==
    ASSUME NEW s \in Seq(Nat), NEW t \in Seq(Nat)
    PROVE  Less(s, t) <=> ShorterPrefix(s, t) \/ \E i \in Nat : LowerAt(s, t, i)
<1>1. /\ Len(s) \in Nat /\ Len(t) \in Nat
      /\ DOMAIN s = 1..Len(s) /\ DOMAIN t = 1..Len(t)
  BY LenProperties
<1>2. IsStrictPrefix(s, t) <=> ShorterPrefix(s, t)
  <2>1. IsPrefix(s, t) <=> Len(s) <= Len(t) /\ \A i \in 1..Len(s) : s[i] = t[i]
    BY PrefixByEntries
  <2>2. ASSUME Len(s) = Len(t), \A i \in 1..Len(s) : s[i] = t[i] PROVE s = t
    BY <2>2, SeqEqual
  <2>3. ASSUME Len(s) < Len(t) PROVE s # t
    BY <1>1, <2>3
  <2>4. ASSUME IsStrictPrefix(s, t) PROVE ShorterPrefix(s, t)
    <3>1. IsPrefix(s, t) /\ s # t
      BY <2>4 DEF IsStrictPrefix
    <3>2. Len(s) # Len(t)
      BY <2>1, <2>2, <3>1
    <3>3. Len(s) <= Len(t) /\ \A i \in 1..Len(s) : s[i] = t[i]
      BY <2>1, <3>1
    <3>4. Len(s) < Len(t)
      <4>1. Len(s) <= Len(t) /\ Len(s) \in Nat /\ Len(t) \in Nat
        BY <1>1, <3>3
      <4> QED
        BY <3>2, <4>1
    <3> QED
      BY <3>3, <3>4 DEF ShorterPrefix
  <2>5. ASSUME ShorterPrefix(s, t) PROVE IsStrictPrefix(s, t)
    BY <1>1, <2>1, <2>3, <2>5 DEF IsStrictPrefix, ShorterPrefix
  <2> QED
    BY <2>4, <2>5
<1>3. (\E i \in DOMAIN s \intersect DOMAIN t :
          s[i] < t[i] /\ \A j \in 1..(i - 1) : s[j] = t[j])
      <=> \E i \in Nat : LowerAt(s, t, i)
  <2>1. DOMAIN s \intersect DOMAIN t = {i \in Nat : i \in 1..Len(s) /\ i \in 1..Len(t)}
    BY <1>1
  <2>2. \A i \in Nat : LowerAt(s, t, i)
           <=> /\ i \in 1..Len(s) /\ i \in 1..Len(t)
               /\ s[i] < t[i] /\ \A j \in 1..(i - 1) : s[j] = t[j]
    BY DEF LowerAt
  <2> QED
    BY <2>1, <2>2
<1> QED
  BY <1>2, <1>3 DEF Less

(* Cutting two strings at the same place never turns their order around.   *)
LEMMA CutsKeepOrder ==
    ASSUME NEW s \in Seq(Nat), NEW t \in Seq(Nat), NEW n \in Nat,
           Less(Cut(s, n), Cut(t, n))
    PROVE  Less(s, t)
<1> DEFINE a == Cut(s, n)
           b == Cut(t, n)
<1>0. Len(s) \in Nat /\ Len(t) \in Nat
  BY LenProperties
<1>1. /\ a \in Seq(Nat) /\ Len(a) = IF n < Len(s) THEN n ELSE Len(s)
      /\ \A i \in 1..Len(a) : a[i] = s[i]
  BY CutBytes
<1>2. /\ b \in Seq(Nat) /\ Len(b) = IF n < Len(t) THEN n ELSE Len(t)
      /\ \A i \in 1..Len(b) : b[i] = t[i]
  BY CutBytes
<1>3. Less(a, b)
  OBVIOUS
<1> HIDE DEF a, b
<1>4. CASE ShorterPrefix(a, b)
  <2>1. Len(a) < Len(b)
    BY <1>4 DEF ShorterPrefix
  <2>2. Len(a) = Len(s) /\ Len(s) < Len(t)
    BY <1>0, <1>1, <1>2, <2>1
  <2>3. \A i \in 1..Len(s) : i \in 1..Len(b)
    BY <1>0, <1>1, <1>2, <2>1, <2>2
  <2>4. \A i \in 1..Len(s) : s[i] = t[i]
    BY <1>1, <1>2, <1>4, <2>2, <2>3 DEF ShorterPrefix
  <2>5. ShorterPrefix(s, t)
    BY <2>2, <2>4 DEF ShorterPrefix
  <2> QED
    BY <2>5, LessByBytes
<1>5. ASSUME NEW i \in Nat, LowerAt(a, b, i) PROVE Less(s, t)
  <2>1. i \in 1..Len(a) /\ i \in 1..Len(b) /\ a[i] < b[i]
    BY <1>5 DEF LowerAt
  <2>2. i \in 1..Len(s) /\ i \in 1..Len(t)
    BY <1>0, <1>1, <1>2, <2>1
  <2>3. s[i] < t[i]
    BY <1>1, <1>2, <2>1
  <2>4. ASSUME NEW j \in 1..(i - 1) PROVE s[j] = t[j]
    <3>1. j \in 1..Len(a) /\ j \in 1..Len(b)
      <4>1. Len(a) \in Nat /\ Len(b) \in Nat
        BY <1>1, <1>2, LenProperties
      <4> QED
        BY <2>1, <4>1, PlacesBefore
    <3>2. a[j] = b[j]
      BY <1>5 DEF LowerAt
    <3> QED
      BY <1>1, <1>2, <3>1, <3>2
  <2>5. LowerAt(s, t, i)
    BY <2>2, <2>3, <2>4 DEF LowerAt
  <2> QED
    BY <2>5, LessByBytes
<1> QED
  BY <1>1, <1>2, <1>3, <1>4, <1>5, LessByBytes

(* A range never turns away from a subtree that holds a key within its     *)
(* bounds.                                                                 *)
THEOREM EnteredIsSound ==
    ASSUME NEW k \in Seq(Nat), NEW lo \in Seq(Nat), NEW hi \in Seq(Nat),
           NEW n \in 1..Len(k), InRange(k, lo, hi)
    PROVE  Entered(Cut(k, n), lo, hi)
<1>1. n \in Nat /\ Len(Cut(k, n)) = n
  <2>1. Len(k) \in Nat
    BY LenProperties
  <2>2. n \in Nat
    BY <2>1
  <2>3. Len(Cut(k, n)) = IF n < Len(k) THEN n ELSE Len(k)
    BY <2>2, CutBytes
  <2> QED
    BY <2>1, <2>2, <2>3
<1>2. ~Less(k, lo) /\ ~Less(hi, k)
  BY DEF InRange
<1>3. ~Less(Cut(k, n), Cut(lo, n))
  BY <1>1, <1>2, CutsKeepOrder
<1>4. ~Less(Cut(hi, n), Cut(k, n))
  BY <1>1, <1>2, CutsKeepOrder
<1> QED
  BY <1>1, <1>3, <1>4 DEF Entered

(* Where two strings differ in a byte they both have, one of them is lower.*)
LEMMA DifferenceDecides ==
    ASSUME NEW s \in Seq(Nat), NEW t \in Seq(Nat),
           NEW i \in 1..Len(s), i \in 1..Len(t), s[i] # t[i]
    PROVE  \E j \in 1..i : LowerAt(s, t, j) \/ LowerAt(t, s, j)
<1> DEFINE D == {j \in 1..i : s[j] # t[j]}
<1>1. Len(s) \in Nat /\ Len(t) \in Nat
  BY LenProperties
<1>2. i \in Nat /\ i \in D /\ D \in SUBSET Nat
  BY <1>1
<1>3. PICK j \in D : \A m \in D : j <= m
  BY <1>2, LeastNumber
<1>4. j \in 1..i /\ j \in Nat /\ j \in 1..Len(s) /\ j \in 1..Len(t) /\ s[j] # t[j]
  BY <1>1, <1>2, <1>3
<1>5. ASSUME NEW m \in 1..(j - 1) PROVE s[m] = t[m] /\ t[m] = s[m]
  <2>1. m \in 1..i /\ ~(j <= m)
    BY <1>2, <1>4
  <2> QED
    BY <1>3, <2>1
<1>6. s[j] \in Nat /\ t[j] \in Nat
  BY <1>4, ElementOfSeq
<1>7. s[j] < t[j] \/ t[j] < s[j]
  BY <1>4, <1>6
<1> QED
  BY <1>4, <1>5, <1>7 DEF LowerAt

(* A string between two strings that share their leading n bytes shares    *)
(* them too.                                                               *)
LEMMA RangeSharesPrefix ==
    ASSUME NEW k \in Seq(Nat), NEW lo \in Seq(Nat), NEW hi \in Seq(Nat),
           NEW n \in Nat, n <= Len(lo), n <= Len(hi),
           Cut(lo, n) = Cut(hi, n), InRange(k, lo, hi)
    PROVE  Cut(k, n) = Cut(lo, n)
<1> DEFINE c == Cut(lo, n)
           d == Cut(k, n)
<1>1. Len(k) \in Nat /\ Len(lo) \in Nat /\ Len(hi) \in Nat
  BY LenProperties
<1>2. /\ c \in Seq(Nat) /\ Len(c) = n
      /\ \A i \in 1..n : c[i] = lo[i]
  <2>1. /\ c \in Seq(Nat) /\ Len(c) = IF n < Len(lo) THEN n ELSE Len(lo)
        /\ \A i \in 1..Len(c) : c[i] = lo[i]
    BY CutBytes
  <2>2. Len(c) = n
    BY <1>1, <2>1
  <2> QED
    BY <2>1, <2>2
<1>3. /\ d \in Seq(Nat) /\ Len(d) = IF n < Len(k) THEN n ELSE Len(k)
      /\ \A i \in 1..Len(d) : d[i] = k[i]
  BY CutBytes
<1>4. ~Less(k, lo) /\ ~Less(hi, k)
  BY DEF InRange
<1>5. ~Less(d, c)
  BY <1>4, CutsKeepOrder
<1>6. ~Less(c, d)
  <2>1. ~Less(Cut(hi, n), d)
    BY <1>4, CutsKeepOrder
  <2> QED
    BY <2>1
<1> HIDE DEF c, d
<1>7. Len(d) \in Nat /\ Len(d) <= n
  BY <1>1, <1>3
<1>8. ASSUME NEW i \in 1..Len(d), d[i] # c[i] PROVE FALSE
  <2>1. i \in 1..Len(c)
    BY <1>2, <1>7
  <2>2. PICK j \in 1..i : LowerAt(d, c, j) \/ LowerAt(c, d, j)
    BY <1>2, <1>3, <1>8, <2>1, DifferenceDecides
  <2>3. j \in Nat
    BY <1>7
  <2>4. Less(d, c) \/ Less(c, d)
    BY <1>2, <1>3, <2>2, <2>3, LessByBytes
  <2> QED
    BY <1>5, <1>6, <2>4
<1>9. Len(d) = n
  <2>1. ASSUME Len(d) < n PROVE FALSE
    <3>1. ShorterPrefix(d, c)
      BY <1>2, <1>8, <2>1 DEF ShorterPrefix
    <3> QED
      BY <1>2, <1>3, <1>5, <3>1, LessByBytes
  <2> QED
    BY <1>7, <2>1
<1>10. d = c
  BY <1>2, <1>3, <1>8, <1>9, SeqEqual
<1> QED
  BY <1>10 DEF c, d

(* No string comes before itself.                                          *)
LEMMA LessIsStrict == ASSUME NEW s \in Seq(Nat) PROVE ~Less(s, s)
<1>1. Len(s) \in Nat
  BY LenProperties
<1>2. ~ShorterPrefix(s, s)
  BY <1>1 DEF ShorterPrefix
<1>3. \A i \in Nat : ~LowerAt(s, s, i)
  <2> SUFFICES ASSUME NEW i \in Nat, LowerAt(s, s, i) PROVE FALSE
    OBVIOUS
  <2>1. i \in 1..Len(s) /\ s[i] < s[i]
    BY DEF LowerAt
  <2>2. s[i] \in Nat
    BY <2>1, ElementOfSeq
  <2> QED
    BY <2>1, <2>2
<1> QED
  BY <1>2, <1>3, LessByBytes

(* What decides s before t and t before u decides s before u, at the       *)
(* earlier of the two places.                                              *)
LEMMA LessIsTransitive ==
    ASSUME NEW s \in Seq(Nat), NEW t \in Seq(Nat), NEW u \in Seq(Nat),
           Less(s, t), Less(t, u)
    PROVE  Less(s, u)
<1>1. Len(s) \in Nat /\ Len(t) \in Nat /\ Len(u) \in Nat
  BY LenProperties
<1>2. /\ \A i \in 1..Len(s) : s[i] \in Nat
      /\ \A i \in 1..Len(t) : t[i] \in Nat
      /\ \A i \in 1..Len(u) : u[i] \in Nat
  BY ElementOfSeq
<1>3. CASE ShorterPrefix(s, t) /\ ShorterPrefix(t, u)
  <2>1. Len(s) < Len(u) /\ \A i \in 1..Len(s) : i \in 1..Len(t)
    BY <1>1, <1>3 DEF ShorterPrefix
  <2>2. \A i \in 1..Len(s) : s[i] = u[i]
    BY <1>3, <2>1 DEF ShorterPrefix
  <2> QED
    BY <2>1, <2>2, LessByBytes DEF ShorterPrefix
<1>4. ASSUME NEW j \in Nat, ShorterPrefix(s, t), LowerAt(t, u, j) PROVE Less(s, u)
  <2>1. /\ Len(s) < Len(t) /\ \A i \in 1..Len(s) : s[i] = t[i]
        /\ j \in 1..Len(t) /\ j \in 1..Len(u) /\ t[j] < u[j]
        /\ \A i \in 1..(j - 1) : t[i] = u[i]
    BY <1>4 DEF ShorterPrefix, LowerAt
  <2>2. CASE j <= Len(s)
    <3>1. j \in 1..Len(s) /\ \A i \in 1..(j - 1) : i \in 1..Len(s)
      <4>1. j \in 1..Len(t)
        BY <2>1
      <4>2. j \in 1..Len(s)
        BY <1>1, <2>2, <4>1
      <4> QED
        BY <1>1, <4>2, PlacesBefore
    <3>2. LowerAt(s, u, j)
      BY <2>1, <3>1 DEF LowerAt
    <3> QED
      BY <3>2, LessByBytes
  <2>3. CASE Len(s) < j
    <3>1. Len(s) < Len(u) /\ \A i \in 1..Len(s) : i \in 1..(j - 1)
      BY <1>1, <2>1, <2>3
    <3>2. ShorterPrefix(s, u)
      BY <2>1, <3>1 DEF ShorterPrefix
    <3> QED
      BY <3>2, LessByBytes
  <2> QED
    BY <1>1, <2>2, <2>3
<1>5. ASSUME NEW i \in Nat, LowerAt(s, t, i), ShorterPrefix(t, u) PROVE Less(s, u)
  <2>1. /\ i \in 1..Len(s) /\ i \in 1..Len(t) /\ s[i] < t[i]
        /\ \A m \in 1..(i - 1) : s[m] = t[m]
        /\ Len(t) < Len(u) /\ \A m \in 1..Len(t) : t[m] = u[m]
    BY <1>5 DEF ShorterPrefix, LowerAt
  <2>2. i \in 1..Len(u) /\ \A m \in 1..(i - 1) : m \in 1..Len(t)
    <3>1. i \in 1..Len(u)
      <4>1. i \in 1..Len(t) /\ Len(t) < Len(u)
        BY <2>1
      <4> QED
        BY <1>1, <4>1
    <3> QED
      BY <1>1, <2>1, <3>1, PlacesBefore
  <2>3. LowerAt(s, u, i)
    BY <2>1, <2>2 DEF LowerAt
  <2> QED
    BY <2>3, LessByBytes
<1>6. ASSUME NEW i \in Nat, NEW j \in Nat, LowerAt(s, t, i), LowerAt(t, u, j)
      PROVE  Less(s, u)
  <2>1. /\ i \in 1..Len(s) /\ i \in 1..Len(t) /\ s[i] < t[i]
        /\ \A m \in 1..(i - 1) : s[m] = t[m]
        /\ j \in 1..Len(t) /\ j \in 1..Len(u) /\ t[j] < u[j]
        /\ \A m \in 1..(j - 1) : t[m] = u[m]
    BY <1>6 DEF LowerAt
  <2>2. CASE i <= j
    <3>1. /\ i \in 1..Len(u) /\ (i = j \/ i \in 1..(j - 1))
          /\ \A m \in 1..(i - 1) : m \in 1..(j - 1)
      <4>1. 1 <= i /\ j \in 1..Len(u)
        <5>1. i \in 1..Len(s) /\ j \in 1..Len(u)
          BY <2>1
        <5> QED
          BY <1>1, <5>1
      <4>2. i = j \/ i \in 1..(j - 1)
        BY <2>2, <4>1, PlacesBefore
      <4>3. i \in 1..Len(u)
        BY <1>1, <4>1, <4>2, PlacesBefore
      <4> QED
        BY <2>2, <4>2, <4>3, PlacesBefore
    <3>2. s[i] < u[i]
      <4>1. s[i] \in Nat /\ t[i] \in Nat /\ u[i] \in Nat
        BY <1>2, <2>1, <3>1
      <4>2. CASE i = j
        BY <2>1, <4>1, <4>2
      <4>3. CASE i \in 1..(j - 1)
        <5>1. t[i] = u[i] /\ s[i] < t[i]
          BY <2>1, <4>3
        <5> QED
          BY <5>1
      <4> QED
        BY <3>1, <4>2, <4>3
    <3>3. LowerAt(s, u, i)
      BY <2>1, <3>1, <3>2 DEF LowerAt
    <3> QED
      BY <3>3, LessByBytes
  <2>3. CASE j < i
    <3>1. /\ j \in 1..Len(s) /\ j \in 1..(i - 1)
          /\ \A m \in 1..(j - 1) : m \in 1..(i - 1)
      <4>1. 1 <= j /\ i \in 1..Len(s) /\ j <= i /\ i # j
        <5>1. j \in 1..Len(t) /\ i \in 1..Len(s)
          BY <2>1
        <5> QED
          BY <1>1, <2>3, <5>1
      <4>2. j \in 1..(i - 1)
        BY <4>1, PlacesBefore
      <4>3. j \in 1..Len(s)
        BY <1>1, <4>1, <4>2, PlacesBefore
      <4> QED
        BY <4>1, <4>2, <4>3, PlacesBefore
    <3>2. s[j] < u[j]
      <4>1. s[j] = t[j] /\ t[j] < u[j]
        BY <2>1, <3>1
      <4> QED
        BY <4>1
    <3>3. LowerAt(s, u, j)
      BY <2>1, <3>1, <3>2 DEF LowerAt
    <3> QED
      BY <3>3, LessByBytes
  <2> QED
    BY <2>2, <2>3
<1> QED
  BY <1>3, <1>4, <1>5, <1>6, LessByBytes

(* The order of byte strings, in which the trees keep their keys and by    *)
(* which the sharded range sorts, is a strict total order.                 *)
THEOREM LessIsTotal ==
    ASSUME NEW s \in Seq(Nat), NEW t \in Seq(Nat), NEW u \in Seq(Nat)
    PROVE  /\ ~Less(s, s)
           /\ Less(s, t) /\ Less(t, u) => Less(s, u)
           /\ Less(s, t) \/ s = t \/ Less(t, s)
<1>1. Len(s) \in Nat /\ Len(t) \in Nat
  BY LenProperties
<1>2. ASSUME ~Less(s, t), ~Less(t, s) PROVE s = t
  <2>1. ASSUME NEW i \in 1..Len(s), i \in 1..Len(t), s[i] # t[i] PROVE FALSE
    <3>1. PICK j \in 1..i : LowerAt(s, t, j) \/ LowerAt(t, s, j)
      BY <2>1, DifferenceDecides
    <3>2. j \in Nat
      BY <1>1
    <3> QED
      BY <1>2, <3>1, <3>2, LessByBytes
  <2>2. CASE Len(s) = Len(t)
    <3>1. \A i \in 1..Len(s) : s[i] = t[i]
      BY <2>1, <2>2
    <3> QED
      BY <2>2, <3>1, SeqEqual
  <2>3. CASE Len(s) < Len(t)
    <3>1. \A i \in 1..Len(s) : i \in 1..Len(t)
      BY <1>1, <2>3
    <3>2. ShorterPrefix(s, t)
      BY <2>1, <2>3, <3>1 DEF ShorterPrefix
    <3> QED
      BY <1>2, <3>2, LessByBytes
  <2>4. CASE Len(t) < Len(s)
    <3>1. \A i \in 1..Len(t) : i \in 1..Len(s)
      BY <1>1, <2>4
    <3>2. ShorterPrefix(t, s)
      BY <2>1, <2>4, <3>1 DEF ShorterPrefix
    <3> QED
      BY <1>2, <3>2, LessByBytes
  <2> QED
    BY <1>1, <2>2, <2>3, <2>4
<1> QED
  BY <1>2, LessIsStrict, LessIsTransitive
=============================================================================
