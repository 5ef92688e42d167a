----------------------- MODULE ArrayScopedStack_proofs -----------------------
(***************************************************************************)
(* TLAPS proofs about ArrayScopedStack, for every capacity, every set of   *)
(* items and every number of marks.                                        *)
(***************************************************************************)
EXTENDS ArrayScopedStack, SequenceLemmas

Entries == Items \union {None}

(* A mark's length is that of the log it was taken from; the iterator is   *)
(* at or above the length, or there is none.                               *)
MarksKept == \A m \in marks : m.len = Len(m.at)
Iterator == IF draining THEN len <= cur ELSE cur = 0

(* The inductive invariant, the part that speaks of the slots and the part *)
(* that speaks of marks and answers.                                       *)
SlotsOK ==
    /\ slots \in [1..N -> Entries] /\ len \in 0..N
    /\ draining \in BOOLEAN /\ cur \in 0..N
    /\ holed \in 1..(N + 1) /\ left \subseteq 1..N
    /\ Iterator /\ ReachableSlotsFilled /\ ReleasedUnlessAbandoned

RestOK ==
    /\ marks \subseteq [len : Nat, at : Seq(Entries)] /\ MarksKept
    /\ ret \in [tag : Tags, item : Entries]

IInv == SlotsOK /\ RestOK

-----------------------------------------------------------------------------
(* The log is a sequence of as many entries as the length says.            *)
LEMMA LogFacts ==
    ASSUME SlotsOK
    PROVE  /\ Log \in Seq(Entries) /\ Len(Log) = len
           /\ \A i \in 1..len : Log[i] = slots[i]
<1>1. /\ N \in Nat /\ slots \in [1..N -> Entries] /\ len \in 0..N
  BY CapacityAssumption DEF SlotsOK
<1>2. slots \in Seq(Entries) /\ Len(slots) = N
  <2>1. slots \in Seq(Entries)
    BY <1>1, IsASeq
  <2>2. DOMAIN slots = 1..N /\ DOMAIN slots = 1..Len(slots) /\ Len(slots) \in Nat
    BY <1>1, <2>1, LenProperties
  <2> QED
    BY <1>1, <2>1, <2>2
<1> QED
  BY <1>1, <1>2, PrefixFacts DEF Log

(* A length no caller can exceed.                                          *)
LEMMA CutAtFacts ==
    ASSUME SlotsOK, NEW n \in Nat
    PROVE  CutAt(n) \in 0..len
  BY CapacityAssumption DEF SlotsOK, CutAt

-----------------------------------------------------------------------------
(* The steps, one kind at a time.                                          *)
LEMMA InitIInv == Init => IInv
<1> SUFFICES ASSUME Init PROVE IInv
  OBVIOUS
<1>1. SlotsOK
  <2>1. /\ N \in Nat /\ None \in Entries
        /\ slots = [i \in 1..N |-> None] /\ len = 0
        /\ draining = FALSE /\ cur = 0 /\ holed = N + 1 /\ left = {}
    BY CapacityAssumption DEF Init, Entries
  <2>2. slots \in [1..N -> Entries] /\ holed \in 1..(N + 1)
    BY <2>1
  <2>3. len \in 0..N /\ cur \in 0..N
    BY <2>1
  <2>4. left \subseteq 1..N /\ draining \in BOOLEAN
    BY <2>1, Zenon
  <2>5. Iterator /\ ReachableSlotsFilled /\ ReleasedUnlessAbandoned
    BY <2>1 DEF Iterator, ReachableSlotsFilled, ReleasedUnlessAbandoned
  <2> QED
    BY <2>2, <2>3, <2>4, <2>5 DEF SlotsOK
<1>2. RestOK
  BY DEF Init, RestOK, MarksKept, Entries, Unit, Answer, Tags
<1> QED
  BY <1>1, <1>2 DEF IInv

(* A call that changes no mark and answers with an entry.                  *)
LEMMA RestKept ==
    ASSUME RestOK, UNCHANGED marks,
           \E tag \in Tags, x \in Entries : ret' = Answer(tag, x)
    PROVE  RestOK'
  BY DEF RestOK, MarksKept, Answer

(* A call that leaves the slots and the length alone.                      *)
LEMMA SlotsUnchanged ==
    ASSUME SlotsOK, UNCHANGED <<slots, len, draining, cur, holed, left>>
    PROVE  SlotsOK'
  BY DEF SlotsOK, Iterator, ReachableSlotsFilled, ReleasedUnlessAbandoned

LEMMA StoreKeeps ==
    ASSUME SlotsOK, NEW x \in Items, Push(x)
    PROVE  SlotsOK'
<1>1. /\ N \in Nat /\ x # None /\ x \in Entries
      /\ len \in 0..N /\ len < N /\ len' = len + 1
      /\ ~draining /\ draining' = draining /\ cur' = cur /\ cur = 0
      /\ slots \in [1..N -> Entries]
      /\ slots' = [j \in 1..N |-> IF j = len + 1 THEN x ELSE slots[j]]
      /\ holed \in 1..(N + 1) /\ left \subseteq 1..N
      /\ holed' = IF len + 1 < holed THEN N + 1 ELSE holed
      /\ left' = left \ 1..(len + 1)
  BY CapacityAssumption, NoneAssumption
     DEF SlotsOK, Push, Store, Free, Remember, Iterator, Entries
<1>2. slots' \in [1..N -> Entries]
  BY <1>1
<1>3. ReachableSlotsFilled'
  <2> SUFFICES ASSUME NEW i \in 1..N, i <= len + 1, i < holed'
               PROVE  slots'[i] # None
    BY <1>1 DEF ReachableSlotsFilled
  <2>1. CASE i = len + 1
    BY <1>1, <2>1
  <2>2. CASE i <= len
    <3>1. i < holed /\ slots'[i] = slots[i]
      BY <1>1, <2>2
    <3> QED
      BY <2>2, <3>1 DEF SlotsOK, ReachableSlotsFilled
  <2> QED
    BY <1>1, <2>1, <2>2
<1>4. ReleasedUnlessAbandoned'
  <2> SUFFICES ASSUME NEW i \in 1..N, slots'[i] # None, ~(i <= len + 1)
               PROVE  i \in left'
    BY <1>1 DEF ReleasedUnlessAbandoned
  <2>1. slots'[i] = slots[i] /\ ~(i <= len) /\ i \notin 1..(len + 1)
    BY <1>1
  <2> QED
    BY <1>1, <2>1 DEF SlotsOK, ReleasedUnlessAbandoned
<1> QED
  BY <1>1, <1>2, <1>3, <1>4 DEF SlotsOK, Iterator

LEMMA PushUnwindsKeeps ==
    ASSUME SlotsOK, NEW x \in Items, PushUnwinds(x)
    PROVE  SlotsOK'
<1>1. /\ N \in Nat /\ x # None /\ x \in Entries
      /\ len \in 0..N /\ len' = len /\ len + 1 \in 1..N
      /\ ~draining /\ draining' = draining /\ cur' = cur
      /\ slots \in [1..N -> Entries] /\ slots[len + 1] # None
      /\ slots' = [slots EXCEPT ![len + 1] = x]
      /\ holed' = holed /\ left' = left
  BY CapacityAssumption, NoneAssumption DEF SlotsOK, PushUnwinds, Free, Entries
<1>2. slots' \in [1..N -> Entries] /\ \A i \in 1..N : slots'[i] = None <=> slots[i] = None
  BY <1>1
<1>3. ReachableSlotsFilled' /\ ReleasedUnlessAbandoned'
  BY <1>1, <1>2 DEF SlotsOK, ReachableSlotsFilled, ReleasedUnlessAbandoned
<1> QED
  BY <1>1, <1>2, <1>3 DEF SlotsOK, Iterator

(* A whole cut: pop, rollback_to and clear.                                *)
LEMMA CutKeeps ==
    ASSUME SlotsOK, NEW n \in 0..len, ~draining, UNCHANGED <<draining, cur>>,
           slots' = Emptied(n, len), len' = n, Remember(n)
    PROVE  SlotsOK'
<1>1. /\ N \in Nat /\ len \in 0..N /\ n \in 0..N /\ n <= len
      /\ cur = 0 /\ slots \in [1..N -> Entries] /\ None \in Entries
      /\ slots' = [i \in 1..N |-> IF i \in n + 1 .. len THEN None ELSE slots[i]]
      /\ holed \in 1..(N + 1) /\ left \subseteq 1..N
      /\ holed' = IF n < holed THEN N + 1 ELSE holed
      /\ left' = left \ 1..n
  BY CapacityAssumption DEF SlotsOK, Emptied, Remember, Iterator, Entries
<1>2. slots' \in [1..N -> Entries]
  BY <1>1
<1>3. ReachableSlotsFilled'
  <2> SUFFICES ASSUME NEW i \in 1..N, i <= n, i < holed'
               PROVE  slots'[i] # None
    BY DEF ReachableSlotsFilled
  <2>1. i <= len /\ i < holed /\ slots'[i] = slots[i]
    BY <1>1
  <2> QED
    BY <2>1 DEF SlotsOK, ReachableSlotsFilled
<1>4. ReleasedUnlessAbandoned'
  <2> SUFFICES ASSUME NEW i \in 1..N, slots'[i] # None, ~(i <= n)
               PROVE  i \in left'
    BY DEF ReleasedUnlessAbandoned
  <2>1. slots'[i] = slots[i] /\ ~(i <= len) /\ i \notin 1..n
    BY <1>1
  <2> QED
    BY <1>1, <2>1 DEF SlotsOK, ReleasedUnlessAbandoned
<1> QED
  BY <1>1, <1>2, <1>3, <1>4 DEF SlotsOK, Iterator

LEMMA PopKeeps ==
    ASSUME SlotsOK, Pop
    PROVE  SlotsOK' /\ UNCHANGED marks /\ \E x \in Entries : ret' = Answer("pop", x)
<1>1. CASE len = 0
  <2>1. /\ UNCHANGED <<slots, len, draining, cur, marks, holed, left>>
        /\ ret' = Answer("pop", None) /\ None \in Entries
    BY <1>1 DEF Pop, Free, Entries
  <2>2. SlotsOK'
    BY <2>1, SlotsUnchanged
  <2> QED
    BY <2>1, <2>2
<1>2. CASE len > 0
  <2>1. /\ N \in Nat /\ len \in 1..N /\ slots \in [1..N -> Entries]
        /\ ~draining /\ UNCHANGED <<draining, cur, marks>>
        /\ len' = len - 1 /\ Remember(len - 1)
        /\ slots' = [slots EXCEPT ![len] = None]
        /\ ret' = Answer("pop", slots[len])
    BY <1>2, CapacityAssumption DEF Pop, Free, SlotsOK
  <2>2. slots' = Emptied(len - 1, len)
    <3>1. (len - 1) + 1 .. len = {len}
      BY <2>1
    <3> QED
      BY <2>1, <3>1 DEF Emptied
  <2>3. len - 1 \in 0..len
    BY <2>1
  <2>4. SlotsOK'
    BY <2>1, <2>2, <2>3, CutKeeps
  <2>5. slots[len] \in Entries
    BY <2>1
  <2> QED
    BY <2>1, <2>4, <2>5
<1> QED
  BY <1>1, <1>2, CapacityAssumption DEF SlotsOK

(* A cut that a Drop interrupts.                                           *)
LEMMA CutUnwindsKeeps ==
    ASSUME SlotsOK, NEW n \in Lengths, CutUnwinds(n)
    PROVE  SlotsOK'
<1>1. PICK k \in n + 1 .. len : slots[k] # None /\ slots' = Emptied(n, k)
  BY DEF CutUnwinds
<1>2. /\ N \in Nat /\ n \in Nat /\ len \in 0..N /\ n + 1 <= k /\ k <= len /\ k \in Nat
      /\ len' = len /\ ~draining /\ draining' = draining /\ cur' = cur
      /\ slots \in [1..N -> Entries] /\ None \in Entries
      /\ slots' = [i \in 1..N |-> IF i \in n + 1 .. k THEN None ELSE slots[i]]
      /\ holed \in 1..(N + 1) /\ left' = left
      /\ holed' = IF n + 1 < holed THEN n + 1 ELSE holed
  BY <1>1, CapacityAssumption DEF SlotsOK, CutUnwinds, Free, Emptied, Lengths, Entries
<1>3. slots' \in [1..N -> Entries] /\ holed' \in 1..(N + 1)
  BY <1>2
<1>4. ReachableSlotsFilled'
  <2> SUFFICES ASSUME NEW i \in 1..N, i <= len, i < holed'
               PROVE  slots'[i] # None
    BY <1>2 DEF ReachableSlotsFilled
  <2>1. i < holed /\ i \notin n + 1 .. k /\ slots'[i] = slots[i]
    BY <1>2
  <2> QED
    BY <2>1 DEF SlotsOK, ReachableSlotsFilled
<1>5. ReleasedUnlessAbandoned'
  <2> SUFFICES ASSUME NEW i \in 1..N, slots'[i] # None, ~(i <= len)
               PROVE  i \in left
    BY <1>2 DEF ReleasedUnlessAbandoned
  <2>1. slots'[i] = slots[i]
    BY <1>2
  <2> QED
    BY <1>2, <2>1 DEF SlotsOK, ReleasedUnlessAbandoned
<1> QED
  BY <1>2, <1>3, <1>4, <1>5 DEF SlotsOK, Iterator

(* The iterator of drain_since begins, advances and is dropped.            *)
LEMMA DrainSinceKeeps ==
    ASSUME SlotsOK, NEW n \in Lengths, DrainSince(n)
    PROVE  SlotsOK'
<1>1. n \in Nat
  BY CapacityAssumption DEF Lengths
<1>2. /\ N \in Nat /\ len \in 0..N /\ len' \in 0..len /\ cur' = len
      /\ ~draining /\ draining' = TRUE
      /\ slots' = slots /\ holed' = holed /\ left' = left
  BY <1>1, CutAtFacts, CapacityAssumption DEF SlotsOK, DrainSince, StartDrain
<1>3. ReachableSlotsFilled'
  BY <1>2 DEF SlotsOK, ReachableSlotsFilled
<1>4. ReleasedUnlessAbandoned'
  BY <1>2 DEF SlotsOK, ReleasedUnlessAbandoned
<1> QED
  BY <1>2, <1>3, <1>4 DEF SlotsOK, Iterator

LEMMA DrainNextKeeps ==
    ASSUME SlotsOK, DrainNext
    PROVE  SlotsOK' /\ UNCHANGED marks /\ \E x \in Entries : ret' = Answer("yield", x)
<1>1. /\ N \in Nat /\ len \in 0..N /\ cur \in 0..N /\ len <= cur
      /\ draining /\ UNCHANGED <<len, draining, marks, holed, left>>
      /\ slots \in [1..N -> Entries] /\ None \in Entries
  BY CapacityAssumption DEF SlotsOK, DrainNext, Iterator, Entries
<1>2. CASE cur > len
  <2>1. /\ cur' = cur - 1 /\ slots' = [slots EXCEPT ![cur] = None]
        /\ ret' = Answer("yield", slots[cur])
    BY <1>1, <1>2 DEF DrainNext
  <2>2. /\ cur \in 1..N /\ cur' \in 0..N /\ len' <= cur'
        /\ slots' \in [1..N -> Entries] /\ slots[cur] \in Entries
        /\ \A i \in 1..N : i # cur => slots'[i] = slots[i]
        /\ slots'[cur] = None
    BY <1>1, <1>2, <2>1
  <2>3. ReachableSlotsFilled'
    <3> SUFFICES ASSUME NEW i \in 1..N, i <= cur - 1, i < holed
                 PROVE  slots'[i] # None
      BY <1>1, <1>2, <2>1 DEF ReachableSlotsFilled
    <3>1. i <= cur /\ i # cur
      BY <1>1
    <3> QED
      BY <1>1, <2>2, <3>1 DEF SlotsOK, ReachableSlotsFilled
  <2>4. ReleasedUnlessAbandoned'
    <3> SUFFICES ASSUME NEW i \in 1..N, slots'[i] # None, ~(i <= cur - 1), ~(i <= len)
                 PROVE  i \in left
      BY <1>1, <2>1 DEF ReleasedUnlessAbandoned
    <3>1. i # cur /\ slots'[i] = slots[i]
      BY <2>2
    <3>2. ~(i <= cur)
      BY <1>1, <3>1
    <3> QED
      BY <1>1, <3>1, <3>2 DEF SlotsOK, ReleasedUnlessAbandoned
  <2> QED
    BY <1>1, <2>1, <2>2, <2>3, <2>4 DEF SlotsOK, Iterator
<1>3. CASE cur = len
  <2>1. UNCHANGED <<slots, cur>> /\ ret' = Answer("yield", None)
    BY <1>1, <1>3 DEF DrainNext
  <2> QED
    BY <1>1, <2>1 DEF SlotsOK, Iterator, ReachableSlotsFilled, ReleasedUnlessAbandoned
<1> QED
  BY <1>1, <1>2, <1>3

LEMMA DrainDroppedKeeps ==
    ASSUME SlotsOK, DrainDropped
    PROVE  SlotsOK'
<1>1. /\ N \in Nat /\ len \in 0..N /\ cur \in 0..N /\ len <= cur
      /\ draining /\ draining' = FALSE /\ cur' = 0
      /\ UNCHANGED <<slots, len>>
      /\ holed \in 1..(N + 1) /\ left \subseteq 1..N
      /\ holed' = IF len < holed THEN N + 1 ELSE holed
      /\ left' = left \union (len + 1 .. cur)
  BY CapacityAssumption DEF SlotsOK, DrainDropped, Iterator
<1>2. left' \subseteq 1..N /\ holed' \in 1..(N + 1) /\ cur' \in 0..N
  BY <1>1
<1>3. ReachableSlotsFilled'
  BY <1>1 DEF SlotsOK, ReachableSlotsFilled
<1>4. ReleasedUnlessAbandoned'
  BY <1>1 DEF SlotsOK, ReleasedUnlessAbandoned
<1>5. slots' \in [1..N -> Entries] /\ len' \in 0..N /\ draining' \in BOOLEAN
  BY <1>1 DEF SlotsOK
<1>6. Iterator'
  BY <1>1 DEF Iterator
<1> QED
  BY <1>2, <1>3, <1>4, <1>5, <1>6 DEF SlotsOK

(* Marks come and go.                                                      *)
LEMMA MarksKeep ==
    ASSUME SlotsOK, RestOK, TakeMark \/ ForgetMark
    PROVE  SlotsOK' /\ RestOK'
<1>1. UNCHANGED <<slots, len, draining, cur, holed, left, ret>>
  BY DEF TakeMark, ForgetMark, MarksOnly
<1>2. SlotsOK'
  BY <1>1, SlotsUnchanged
<1>3. marks' \subseteq marks \union {[len |-> Len(Log), at |-> Log]}
  BY DEF TakeMark, ForgetMark, Scope!TakeMark, Scope!ForgetMark, Scope!MarkOf
<1>4. Log \in Seq(Entries) /\ Len(Log) \in Nat
  BY LogFacts, LenProperties
<1>5. marks' \subseteq [len : Nat, at : Seq(Entries)] /\ MarksKept'
  BY <1>3, <1>4 DEF RestOK, MarksKept
<1> QED
  BY <1>1, <1>2, <1>5 DEF RestOK

-----------------------------------------------------------------------------
LEMMA NextKeepsIInv == IInv /\ [Next]_vars => IInv'
<1> SUFFICES ASSUME SlotsOK, RestOK, [Next]_vars PROVE SlotsOK' /\ RestOK'
  BY DEF IInv
<1>0. /\ None \in Entries /\ Items \subseteq Entries
      /\ {"unit", "full", "pushed", "pop", "last", "yield", "unwound"} \subseteq Tags
      /\ N \in Nat /\ len \in 0..N /\ slots \in [1..N -> Entries]
  BY CapacityAssumption DEF Entries, Tags, SlotsOK
<1>1. ASSUME NEW x \in Items, Push(x) PROVE SlotsOK' /\ RestOK'
  BY <1>0, <1>1, StoreKeeps, RestKept DEF Push, Store, Free
<1>2. ASSUME NEW x \in Items, TurnDown(x) PROVE SlotsOK' /\ RestOK'
  BY <1>0, <1>2, SlotsUnchanged, RestKept DEF TurnDown, Free
<1>3. ASSUME NEW x \in Items, PushUnwinds(x) PROVE SlotsOK' /\ RestOK'
  BY <1>0, <1>3, PushUnwindsKeeps, RestKept DEF PushUnwinds, Free, Unwound
<1>4. CASE Pop
  BY <1>0, <1>4, PopKeeps, RestKept
<1>5. CASE ReadLast
  <2>1. (IF len = 0 THEN None ELSE slots[len]) \in Entries
    BY <1>0
  <2> QED
    BY <1>0, <1>5, <2>1, SlotsUnchanged, RestKept DEF ReadLast, Free
<1>6. ASSUME NEW n \in 0..len, CutTo(n) PROVE SlotsOK' /\ RestOK'
  BY <1>0, <1>6, CutKeeps, RestKept DEF CutTo, Free, Unit
<1>7. ASSUME NEW n \in Lengths, RollbackTo(n) PROVE SlotsOK' /\ RestOK'
  <2>1. CutAt(n) \in 0..len
    BY <1>0, CutAtFacts DEF Lengths
  <2> QED
    BY <1>6, <1>7, <2>1 DEF RollbackTo
<1>8. ASSUME NEW n \in Lengths, CutUnwinds(n) PROVE SlotsOK' /\ RestOK'
  BY <1>0, <1>8, CutUnwindsKeeps, RestKept DEF CutUnwinds, Free, Unwound
<1>9. ASSUME NEW n \in Lengths, DrainSince(n) PROVE SlotsOK' /\ RestOK'
  BY <1>0, <1>9, DrainSinceKeeps, RestKept DEF DrainSince, StartDrain, Unit
<1>10. CASE Clear
  <2>1. 0 \in 0..len
    BY <1>0
  <2> QED
    BY <1>6, <1>10, <2>1 DEF Clear
<1>11. CASE DrainNext
  BY <1>0, <1>11, DrainNextKeeps, RestKept
<1>12. CASE DrainDropped
  BY <1>0, <1>12, DrainDroppedKeeps, RestKept DEF DrainDropped, Unit
<1>13. CASE TakeMark \/ ForgetMark
  BY <1>13, MarksKeep
<1>14. CASE UNCHANGED vars
  BY <1>14, SlotsUnchanged DEF vars, RestOK, MarksKept
<1> QED
  BY <1>1, <1>2, <1>3, <1>4, <1>5, <1>7, <1>8, <1>9, <1>10, <1>11, <1>12, <1>13, <1>14
     DEF Next

LEMMA AlwaysIInv == Spec => []IInv
  BY InitIInv, NextKeepsIInv, PTL DEF Spec

(* The length, the iterator, the marks and the answers stay in their       *)
(* types: no push goes past the capacity, no cut past the length.          *)
THEOREM TypeCorrect == Spec => []TypeOK
<1>1. IInv => TypeOK
  BY DEF IInv, SlotsOK, RestOK, TypeOK, Entries
<1> QED
  BY <1>1, AlwaysIInv, PTL

(* pop, last and next never answer None for an entry that exists, whatever *)
(* iterators were abandoned; a panicking Drop spoils its own cut only.     *)
THEOREM ReachableStaysFilled == Spec => []ReachableSlotsFilled
<1>1. IInv => ReachableSlotsFilled
  BY DEF IInv, SlotsOK
<1> QED
  BY <1>1, AlwaysIInv, PTL

(* Items out of reach are gone, but for those of abandoned iterators.      *)
THEOREM ItemsAreReleased == Spec => []ReleasedUnlessAbandoned
<1>1. IInv => ReleasedUnlessAbandoned
  BY DEF IInv, SlotsOK
<1> QED
  BY <1>1, AlwaysIInv, PTL

-----------------------------------------------------------------------------
(* Rolling back, silently or not, cuts the log.                            *)
LEMMA RollbackCutsLog ==
    ASSUME SlotsOK, NEW n \in Nat, RollbackTo(n) \/ DrainSince(n)
    PROVE  Log' = SubSeq(Log, 1, CutAt(n))
<1> DEFINE c == CutAt(n)
<1>1. c \in 0..len /\ N \in Nat /\ len \in 0..N /\ slots \in [1..N -> Entries]
  BY CutAtFacts, CapacityAssumption DEF SlotsOK
<1>2. len' = c /\ \A i \in 1..c : slots'[i] = slots[i]
  BY <1>1 DEF RollbackTo, CutTo, DrainSince, StartDrain, Emptied
<1> HIDE DEF c
<1>3. slots' \in [1..N -> Entries]
  BY <1>1 DEF RollbackTo, CutTo, DrainSince, StartDrain, Emptied, Entries
<1>4. /\ Log \in Seq(Entries) /\ Len(Log) = len
      /\ \A i \in 1..len : Log[i] = slots[i]
  BY LogFacts
<1>5. /\ SubSeq(Log, 1, c) \in Seq(Entries)
      /\ Len(SubSeq(Log, 1, c)) = c
      /\ \A i \in 1..c : SubSeq(Log, 1, c)[i] = slots[i]
  BY <1>1, <1>4, PrefixFacts
<1>6. slots' \in Seq(Entries) /\ Len(slots') = N
  <2>1. slots' \in Seq(Entries)
    BY <1>1, <1>3, IsASeq
  <2>2. DOMAIN slots' = 1..N /\ DOMAIN slots' = 1..Len(slots') /\ Len(slots') \in Nat
    BY <1>3, <2>1, LenProperties
  <2> QED
    BY <1>1, <2>1, <2>2
<1>7. /\ SubSeq(slots', 1, c) \in Seq(Entries)
      /\ Len(SubSeq(slots', 1, c)) = c
      /\ \A i \in 1..c : SubSeq(slots', 1, c)[i] = slots'[i]
  BY <1>1, <1>6, PrefixFacts
<1>8. SubSeq(slots', 1, c) = SubSeq(Log, 1, c)
  BY <1>1, <1>2, <1>5, <1>7, SeqEqual
<1> QED
  BY <1>2, <1>8 DEF Log, c

(* The laws of the contract, for every mark a caller can hold.             *)
LEMMA RollbackKeepsLaws ==
    ASSUME IInv, NEW m \in marks, RollbackTo(m.len) \/ DrainSince(m.len)
    PROVE  Scope!Laws(m)
<1>0. SlotsOK /\ RestOK
  BY DEF IInv
<1>1. m.len \in Nat /\ m.len = Len(m.at) /\ m.at \in Seq(Entries)
  BY <1>0 DEF RestOK, MarksKept
<1>2. Log \in Seq(Entries) /\ Len(Log) = len /\ len \in Nat
  BY <1>0, LogFacts, CapacityAssumption DEF SlotsOK
<1>3. PICK c \in 0..Len(Log) :
         c = (IF m.len < len THEN m.len ELSE len) /\ Log' = SubSeq(Log, 1, c)
  BY <1>0, <1>1, <1>2, CutAtFacts, RollbackCutsLog DEF CutAt
<1>4. Scope!Restores(m)
  <2>1. ASSUME IsPrefix(m.at, Log) PROVE Log' = m.at
    <3>1. m.len \in 0..Len(Log) /\ SubSeq(Log, 1, m.len) = m.at
      BY <1>1, <1>2, <2>1, CutToPrefix
    <3>2. c = m.len
      BY <1>2, <1>3, <3>1
    <3> QED
      BY <1>3, <3>1, <3>2
  <2> QED
    BY <2>1 DEF Scope!Restores, Scope!Open, Scope!IsPrefix, IsPrefix
<1>5. Scope!LastInFirstOut
  <2>1. IsPrefix(Log', Log)
    BY <1>2, <1>3, CutIsPrefix
  <2> QED
    BY <2>1 DEF Scope!LastInFirstOut, Scope!IsPrefix, IsPrefix
<1>6. Scope!OvershootIsNoOp(m)
  <2>1. ASSUME m.len >= Len(Log) PROVE Log' = Log
    BY <1>1, <1>2, <1>3, <2>1, CutIsPrefix
  <2> QED
    BY <2>1 DEF Scope!OvershootIsNoOp
<1>7. Scope!IsIdempotent(m)
  <2>1. Len(Log') = c /\ c <= m.len
    BY <1>1, <1>2, <1>3, PrefixFacts
  <2> QED
    BY <2>1 DEF Scope!IsIdempotent
<1> QED
  BY <1>4, <1>5, <1>6, <1>7 DEF Scope!Laws

(* rollback_to and drain_since keep the laws of the rollback contract.     *)
THEOREM RollbackIsLawful == Spec => RollbackRestores
<1>1. IInv /\ [Next]_vars
         => [\A m \in marks :
                RollbackTo(m.len) \/ DrainSince(m.len) => Scope!Laws(m)]_vars
  BY RollbackKeepsLaws
<1> QED
  BY <1>1, AlwaysIInv, PTL DEF Spec, RollbackRestores

-----------------------------------------------------------------------------
(* The array is a stack: what its log and its iterator's rest are.         *)
LEMMA ReverseFacts ==
    ASSUME NEW S, NEW s \in Seq(S)
    PROVE  /\ Reverse(s) \in Seq(S) /\ Len(Reverse(s)) = Len(s)
           /\ \A i \in 1..Len(s) : Reverse(s)[i] = s[Len(s) - i + 1]
<1> DEFINE n == Len(s)
           r == [i \in 1..n |-> s[(n - i) + 1]]
<1>1. n \in Nat /\ \A i \in 1..n : s[i] \in S
  BY LenProperties, ElementOfSeq
<1>2. Reverse(s) = r
  BY DEF Reverse
<1> HIDE DEF n
<1>3. \A i \in 1..n : (n - i) + 1 \in 1..n
  BY <1>1
<1>4. r \in [1..n -> S]
  BY <1>1, <1>3
<1>5. r \in Seq(S)
  BY <1>1, <1>4, SeqDef
<1>6. Len(r) = n
  <2>1. DOMAIN r = 1..n /\ DOMAIN r = 1..Len(r) /\ Len(r) \in Nat
    BY <1>5, LenProperties
  <2> HIDE DEF r
  <2> QED
    BY <1>1, <2>1
<1> QED
  BY <1>1, <1>2, <1>5, <1>6 DEF n

LEMMA StretchFacts ==
    ASSUME NEW f \in [1..N -> Entries], NEW l \in 0..N, NEW c \in 0..N
    PROVE  /\ SubSeq(f, 1, l) \in Seq(Entries) /\ Len(SubSeq(f, 1, l)) = l
           /\ \A i \in 1..l : SubSeq(f, 1, l)[i] = f[i]
           /\ c <= l => Reverse(SubSeq(f, l + 1, c)) = <<>>
           /\ l <= c => /\ Reverse(SubSeq(f, l + 1, c)) \in Seq(Entries)
                        /\ Len(Reverse(SubSeq(f, l + 1, c))) = c - l
                        /\ \A i \in 1..(c - l) :
                              Reverse(SubSeq(f, l + 1, c))[i] = f[c - i + 1]
<1>1. N \in Nat /\ l \in Int /\ c \in Int /\ l + 1 \in Int /\ 1 \in Int
  BY CapacityAssumption
<1>2. (\A i \in 1..l : f[i] \in Entries) /\ (\A i \in (l + 1)..c : f[i] \in Entries)
  BY <1>1
<1>3. /\ SubSeq(f, 1, l) \in Seq(Entries) /\ Len(SubSeq(f, 1, l)) = l
      /\ \A i \in 1..l : SubSeq(f, 1, l)[i] = f[i]
  <2>1. /\ SubSeq(f, 1, l) \in Seq(Entries)
        /\ Len(SubSeq(f, 1, l)) = IF 1 <= l THEN l - 1 + 1 ELSE 0
        /\ \A i \in 1 .. l - 1 + 1 : SubSeq(f, 1, l)[i] = f[1 + i - 1]
    BY <1>1, <1>2, SubSeqProperties
  <2> QED
    BY <1>1, <2>1
<1> DEFINE s == SubSeq(f, l + 1, c)
<1>4. /\ s \in Seq(Entries)
      /\ Len(s) = IF l + 1 <= c THEN c - (l + 1) + 1 ELSE 0
      /\ \A i \in 1 .. c - (l + 1) + 1 : s[i] = f[l + 1 + i - 1]
  BY <1>1, <1>2, SubSeqProperties
<1> HIDE DEF s
<1>5. /\ Reverse(s) \in Seq(Entries) /\ Len(Reverse(s)) = Len(s)
      /\ \A i \in 1..Len(s) : Reverse(s)[i] = s[Len(s) - i + 1]
  BY <1>4, ReverseFacts
<1>6. ASSUME c <= l PROVE Reverse(s) = <<>>
  <2>1. Len(s) = 0
    BY <1>1, <1>4, <1>6
  <2> QED
    BY <1>5, <2>1, EmptySeq
<1>7. ASSUME l <= c
      PROVE  /\ Len(Reverse(s)) = c - l
             /\ \A i \in 1..(c - l) : Reverse(s)[i] = f[c - i + 1]
  <2>1. Len(s) = c - l
    BY <1>1, <1>4, <1>7
  <2>2. ASSUME NEW i \in 1..(c - l) PROVE Reverse(s)[i] = f[c - i + 1]
    <3>1. (c - l) - i + 1 \in 1 .. c - (l + 1) + 1
      BY <1>1, <1>7
    <3>2. Reverse(s)[i] = s[(c - l) - i + 1]
      BY <1>5, <2>1
    <3>3. s[(c - l) - i + 1] = f[l + 1 + ((c - l) - i + 1) - 1]
      BY <1>4, <3>1
    <3>4. l + 1 + ((c - l) - i + 1) - 1 = c - i + 1
      BY <1>1, <3>1
    <3> QED
      BY <3>2, <3>3, <3>4
  <2> QED
    BY <1>5, <2>1, <2>2
<1> QED
  BY <1>3, <1>5, <1>6, <1>7 DEF s

(* The log and the rest of the iterator, before a step and after it.       *)
Views ==
    /\ Log \in Seq(Entries) /\ Len(Log) = len /\ DOMAIN Log = 1..len
    /\ \A i \in 1..len : Log[i] = slots[i]
    /\ cur <= len => Pending = <<>>
    /\ len <= cur => /\ Pending \in Seq(Entries) /\ Len(Pending) = cur - len
                     /\ \A i \in 1..(cur - len) : Pending[i] = slots[cur - i + 1]

LEMMA ViewFacts == SlotsOK => Views
<1> SUFFICES ASSUME SlotsOK PROVE Views
  OBVIOUS
<1>1. slots \in [1..N -> Entries] /\ len \in 0..N /\ cur \in 0..N
  BY DEF SlotsOK
<1>2. DOMAIN Log = 1..Len(Log)
  BY <1>1, StretchFacts, LenProperties DEF Log
<1> QED
  BY <1>1, <1>2, StretchFacts DEF Views, Log, Pending

LEMMA ViewFactsAfter == SlotsOK' => Views'
<1> SUFFICES ASSUME SlotsOK' PROVE Views'
  OBVIOUS
<1>1. slots' \in [1..N -> Entries] /\ len' \in 0..N /\ cur' \in 0..N
  BY DEF SlotsOK
<1>2. DOMAIN Log' = 1..Len(Log')
  BY <1>1, StretchFacts, LenProperties DEF Log
<1> QED
  BY <1>1, <1>2, StretchFacts DEF Views, Log, Pending

(* The calls, each of them a step of the stack that ScopedStack promises.  *)
Before == SlotsOK /\ Views /\ N \in Nat /\ None \in Entries /\ Items \subseteq Entries

LEMMA SameLog ==
    ASSUME Before, Views', len' = len, \A i \in 1..len : slots'[i] = slots[i]
    PROVE  Log' = Log
  BY SeqEqual DEF Before, Views

LEMMA PushRefines ==
    ASSUME Before, Views', NEW x \in Items, Push(x)
    PROVE  ~draining /\ draining' = FALSE /\ Abstract!Push(x)
<1>1. /\ ~draining /\ draining' = FALSE /\ cur = 0 /\ cur' = 0
      /\ len \in 0..N /\ len < N /\ len' = len + 1
      /\ slots' = [j \in 1..N |-> IF j = len + 1 THEN x ELSE slots[j]]
      /\ ret' = Answer("pushed", x)
  BY DEF Before, SlotsOK, Iterator, Push, Store, Free
<1>2. Pending = <<>> /\ Pending' = <<>>
  BY <1>1 DEF Before, Views
<1>3. Log' = Append(Log, x)
  <2>1. x \in Entries /\ Log \in Seq(Entries) /\ Len(Log) = len
    BY DEF Before, Views
  <2>2. /\ Append(Log, x) \in Seq(Entries) /\ Len(Append(Log, x)) = len + 1
        /\ Append(Log, x)[len + 1] = x
        /\ \A i \in 1..len : Append(Log, x)[i] = slots[i]
    BY <2>1, AppendFacts DEF Before, Views
  <2>3. /\ Log' \in Seq(Entries) /\ Len(Log') = len + 1
        /\ \A i \in 1..(len + 1) : Log'[i] = slots'[i]
    BY <1>1 DEF Views
  <2>4. \A i \in 1..(len + 1) : slots'[i] = Append(Log, x)[i]
    BY <1>1, <2>2 DEF Before
  <2> QED
    BY <2>2, <2>3, <2>4, SeqEqual
<1> QED
  BY <1>1, <1>2, <1>3 DEF Abstract!Push, Abstract!Answer, Answer

LEMMA TurnDownRefines ==
    ASSUME Before, Views', NEW x \in Items, TurnDown(x)
    PROVE  ~draining /\ draining' = FALSE /\ Abstract!TurnDown(x)
<1>1. /\ ~draining /\ draining' = FALSE /\ ret' = Answer("full", x)
      /\ UNCHANGED <<slots, len, cur>>
  BY DEF Before, SlotsOK, TurnDown, Free
<1>2. Log' = Log /\ Pending' = Pending
  BY <1>1 DEF Log, Pending
<1> QED
  BY <1>1, <1>2 DEF Abstract!TurnDown, Abstract!Answer, Answer

(* Nothing of the log is hollow when a leftover item's Drop panics.        *)
LEMMA PushUnwindsRefines ==
    ASSUME Before, Views', NEW x \in Items, PushUnwinds(x)
    PROVE  ~draining /\ draining' = FALSE /\ Abstract!Unwind
<1>1. /\ ~draining /\ draining' = FALSE /\ cur = 0 /\ cur' = 0
      /\ len \in 0..N /\ len' = len /\ ret' = Unwound
      /\ slots \in [1..N -> Entries] /\ slots' = [slots EXCEPT ![len + 1] = x]
  BY DEF Before, SlotsOK, Iterator, PushUnwinds, Free
<1>2. Pending = <<>> /\ Pending' = <<>>
  BY <1>1 DEF Before, Views
<1>3. Log' = Log
  <2>1. \A i \in 1..len : slots'[i] = slots[i]
    BY <1>1 DEF Before
  <2> QED
    BY <1>1, <2>1, SameLog
<1>4. Log' = [j \in DOMAIN Log |-> IF 0 < j /\ j <= 0 THEN None ELSE Log[j]]
  <2>1. \A j \in DOMAIN Log : ~(0 < j /\ j <= 0)
    BY <1>1 DEF Before, Views
  <2>2. Log = [j \in DOMAIN Log |-> Log[j]]
    BY DEF Before, Views
  <2> QED
    BY <1>3, <2>1, <2>2
<1>5. 0 \in 0..Len(Log)
  BY <1>1 DEF Before, Views
<1> QED
  BY <1>1, <1>2, <1>4, <1>5 DEF Abstract!Unwind, Abstract!Answer, Answer, Unwound

LEMMA CutUnwindsRefines ==
    ASSUME Before, Views', NEW n \in Lengths, CutUnwinds(n)
    PROVE  ~draining /\ draining' = FALSE /\ Abstract!Unwind
<1>1. PICK k \in n + 1 .. len : slots' = Emptied(n, k)
  BY DEF CutUnwinds
<1>2. /\ ~draining /\ draining' = FALSE /\ cur = 0 /\ cur' = 0
      /\ len \in 0..N /\ len' = len /\ ret' = Unwound
      /\ slots \in [1..N -> Entries] /\ n \in Nat
  BY DEF Before, SlotsOK, Iterator, CutUnwinds, Free, Lengths
<1>3. Pending = <<>> /\ Pending' = <<>>
  BY <1>2 DEF Before, Views
<1>4. n \in 0..Len(Log) /\ k \in 0..Len(Log)
  BY <1>1, <1>2 DEF Before, Views
<1>5. Log' = [j \in DOMAIN Log |-> IF n < j /\ j <= k THEN None ELSE Log[j]]
  <2> DEFINE hollow == [j \in 1..len |-> IF n < j /\ j <= k THEN None ELSE Log[j]]
  <2>1. \A j \in 1..len : Log'[j] = IF n < j /\ j <= k THEN None ELSE Log[j]
    <3>1. ASSUME NEW j \in 1..len
          PROVE  slots'[j] = IF n < j /\ j <= k THEN None ELSE slots[j]
      BY <1>1, <1>2 DEF Emptied, Before
    <3> QED
      BY <1>2, <3>1 DEF Before, Views
  <2>2. Log' \in Seq(Entries) /\ DOMAIN Log' = 1..len
    BY <1>2 DEF Views
  <2>3. Log' = [j \in 1..len |-> Log'[j]]
    BY <2>2
  <2>4. Log' = hollow
    BY <2>1, <2>3
  <2> QED
    BY <2>4 DEF Before, Views
<1> QED
  BY <1>2, <1>3, <1>4, <1>5 DEF Abstract!Unwind, Abstract!Answer, Answer, Unwound

LEMMA PopRefines ==
    ASSUME Before, Views', Pop
    PROVE  ~draining /\ draining' = FALSE /\ Abstract!Pop
<1>1. /\ ~draining /\ draining' = FALSE /\ cur = 0 /\ cur' = 0
      /\ len \in 0..N /\ slots \in [1..N -> Entries]
  BY DEF Before, SlotsOK, Iterator, Pop, Free
<1>2. CASE len = 0
  <2>1. UNCHANGED <<slots, len, cur>> /\ ret' = Answer("pop", None)
    BY <1>1, <1>2 DEF Pop
  <2>2. Log' = Log /\ Pending' = Pending
    BY <2>1 DEF Log, Pending
  <2>3. Log = <<>>
    BY <1>2, EmptySeq DEF Before, Views
  <2> QED
    BY <1>1, <2>1, <2>2, <2>3 DEF Abstract!Pop, Abstract!Answer, Answer
<1>3. CASE len # 0
  <2>1. /\ len' = len - 1 /\ slots' = [slots EXCEPT ![len] = None]
        /\ ret' = Answer("pop", slots[len])
    BY <1>1, <1>3 DEF Pop
  <2>2. Pending = <<>> /\ Pending' = <<>>
    BY <1>1, <1>3, <2>1 DEF Before, Views
  <2>3. Log # <<>> /\ Last(Log) = slots[len]
    <3>1. Len(Log) = len /\ len \in 1..len /\ Log[len] = slots[len]
      BY <1>1, <1>3 DEF Before, Views
    <3>2. Len(<<>>) = 0
      OBVIOUS
    <3> QED
      BY <1>3, <3>1, <3>2 DEF Last
  <2>4. Log' = Front(Log)
    <3>1. len - 1 \in 0..Len(Log) /\ Len(Log) = len /\ Log \in Seq(Entries)
      BY <1>1, <1>3 DEF Before, Views
    <3>2. /\ Front(Log) \in Seq(Entries) /\ Len(Front(Log)) = len - 1
          /\ \A i \in 1..(len - 1) : Front(Log)[i] = Log[i]
      BY <3>1, PrefixFacts DEF Front
    <3>3. /\ Log' \in Seq(Entries) /\ Len(Log') = len - 1
          /\ \A i \in 1..(len - 1) : Log'[i] = slots'[i]
      BY <2>1 DEF Views
    <3>4. \A i \in 1..(len - 1) : slots'[i] = slots[i] /\ Log[i] = slots[i]
      BY <1>1, <1>3, <2>1 DEF Before, Views
    <3> QED
      BY <3>2, <3>3, <3>4, SeqEqual
  <2> QED
    BY <1>1, <2>1, <2>2, <2>3, <2>4
       DEF Abstract!Pop, Abstract!Answer, Answer, Abstract!Last, Abstract!Front, Last, Front
<1> QED
  BY <1>2, <1>3

LEMMA ReadLastRefines ==
    ASSUME Before, Views', ReadLast
    PROVE  ~draining /\ draining' = FALSE /\ Abstract!ReadLast
<1>1. /\ ~draining /\ draining' = FALSE /\ len \in 0..N
      /\ UNCHANGED <<slots, len, cur>>
      /\ ret' = Answer("last", IF len = 0 THEN None ELSE slots[len])
  BY DEF Before, SlotsOK, ReadLast, Free
<1>2. Log' = Log /\ Pending' = Pending
  BY <1>1 DEF Log, Pending
<1>3. CASE len = 0
  <2>1. Log = <<>>
    BY <1>3, EmptySeq DEF Before, Views
  <2> QED
    BY <1>1, <1>2, <1>3, <2>1 DEF Abstract!ReadLast, Abstract!Answer, Answer
<1>4. CASE len # 0
  <2>1. Len(Log) = len /\ len \in 1..len /\ Log[len] = slots[len]
    BY <1>1, <1>4 DEF Before, Views
  <2>2. Len(<<>>) = 0
    OBVIOUS
  <2>3. Log # <<>> /\ Last(Log) = slots[len]
    BY <1>4, <2>1, <2>2 DEF Last
  <2> QED
    BY <1>1, <1>2, <1>4, <2>3
       DEF Abstract!ReadLast, Abstract!Answer, Answer, Abstract!Last, Last
<1> QED
  BY <1>3, <1>4

LEMMA CutRefines ==
    ASSUME Before, Views', NEW n \in Lengths, RollbackTo(n) \/ (n = 0 /\ Clear)
    PROVE  ~draining /\ draining' = FALSE /\ Abstract!RollBack
<1>1. n \in Nat /\ CutAt(n) \in 0..len /\ (n = 0 => CutAt(n) = 0)
  BY CutAtFacts DEF Before, Lengths, CutAt, SlotsOK
<1>2. RollbackTo(n)
  BY <1>1 DEF Clear, RollbackTo
<1>3. /\ ~draining /\ draining' = FALSE /\ cur = 0 /\ cur' = 0 /\ ret' = Unit
      /\ len' \in 0..N
  BY <1>1, <1>2 DEF Before, SlotsOK, Iterator, RollbackTo, CutTo, Free
<1>4. Pending = <<>> /\ Pending' = <<>>
  BY <1>3 DEF Before, SlotsOK, Views
<1>5. Log' = SubSeq(Log, 1, CutAt(n)) /\ CutAt(n) \in 0..Len(Log)
  BY <1>1, <1>2, RollbackCutsLog DEF Before, Views
<1> QED
  BY <1>3, <1>4, <1>5 DEF Abstract!RollBack, Abstract!Unit, Abstract!Answer, Unit, Answer

LEMMA DrainSinceRefines ==
    ASSUME Before, Views', NEW n \in Lengths, DrainSince(n)
    PROVE  ~draining /\ draining' = TRUE /\ Abstract!DrainSince
<1> DEFINE c == CutAt(n)
           s == SubSeq(Log, c + 1, Len(Log))
<1>1. n \in Nat /\ c \in 0..len
  BY CutAtFacts DEF Before, Lengths
<1>2. /\ ~draining /\ draining' = TRUE /\ ret' = Unit /\ slots' = slots
      /\ len \in 0..N /\ len' = c /\ cur' = len
  BY DEF Before, SlotsOK, DrainSince, StartDrain
<1>3. Log' = SubSeq(Log, 1, c) /\ c \in 0..Len(Log) /\ Len(Log) = len
  BY <1>1, RollbackCutsLog DEF Before, Views
<1> HIDE DEF c
<1>4. /\ s \in Seq(Entries) /\ Len(s) = len - c
      /\ \A i \in 1..(len - c) : s[i] = Log[c + i]
  <2>1. \A i \in (c + 1)..len : Log[i] \in Entries
    BY <1>1, <1>2 DEF Before, Views, SlotsOK
  <2>2. /\ s \in Seq(Entries)
        /\ Len(s) = IF c + 1 <= len THEN len - (c + 1) + 1 ELSE 0
        /\ \A i \in 1 .. len - (c + 1) + 1 : s[i] = Log[c + 1 + i - 1]
    BY <1>1, <1>2, <1>3, <2>1, SubSeqProperties
  <2> HIDE DEF s
  <2> QED
    BY <1>1, <1>2, <2>2 DEF Before
<1> HIDE DEF s
<1>5. Pending' = Reverse(s)
  <2>1. /\ Reverse(s) \in Seq(Entries) /\ Len(Reverse(s)) = len - c
        /\ \A i \in 1..(len - c) : Reverse(s)[i] = s[(len - c) - i + 1]
    BY <1>4, ReverseFacts
  <2>2. /\ Pending' \in Seq(Entries) /\ Len(Pending') = len - c
        /\ \A i \in 1..(len - c) : Pending'[i] = slots[len - i + 1]
    BY <1>1, <1>2 DEF Views, Before
  <2>3. ASSUME NEW i \in 1..(len - c) PROVE Reverse(s)[i] = slots[len - i + 1]
    <3>1. /\ (len - c) - i + 1 \in 1..(len - c) /\ len - i + 1 \in 1..len
          /\ c + ((len - c) - i + 1) = len - i + 1
      BY <1>1, <1>2 DEF Before
    <3>2. s[(len - c) - i + 1] = Log[len - i + 1]
      BY <1>4, <3>1
    <3> QED
      BY <2>1, <3>1, <3>2 DEF Before, Views
  <2> QED
    BY <2>1, <2>2, <2>3, SeqEqual
<1> QED
  BY <1>2, <1>3, <1>5
     DEF Abstract!DrainSince, Abstract!Unit, Abstract!Answer, Unit, Answer, s,
         Abstract!Reverse, Reverse

LEMMA DrainNextRefines ==
    ASSUME Before, Views', DrainNext
    PROVE  draining /\ draining' = TRUE /\ Abstract!Yield
<1>1. /\ draining /\ draining' = TRUE /\ len' = len
      /\ len \in 0..N /\ cur \in 0..N /\ len <= cur /\ slots \in [1..N -> Entries]
  BY DEF Before, SlotsOK, Iterator, DrainNext
<1>2. CASE cur = len
  <2>1. UNCHANGED <<slots, cur>> /\ ret' = Answer("yield", None)
    BY <1>1, <1>2 DEF DrainNext
  <2>2. Log' = Log /\ Pending' = Pending
    BY <1>1, <2>1 DEF Log, Pending
  <2>3. Pending = <<>>
    BY <1>1, <1>2 DEF Before, Views
  <2> QED
    BY <1>1, <2>1, <2>2, <2>3 DEF Abstract!Yield, Abstract!Answer, Answer
<1>3. CASE cur # len
  <2>1. /\ cur' = cur - 1 /\ slots' = [slots EXCEPT ![cur] = None]
        /\ ret' = Answer("yield", slots[cur])
    BY <1>1, <1>3 DEF DrainNext
  <2>2. Log' = Log
    <3>1. \A i \in 1..len : slots'[i] = slots[i]
      BY <1>1, <1>3, <2>1 DEF Before
    <3> QED
      BY <1>1, <3>1, SameLog
  <2>3. /\ Pending \in Seq(Entries) /\ Len(Pending) = cur - len
        /\ \A i \in 1..(cur - len) : Pending[i] = slots[cur - i + 1]
    BY <1>1 DEF Before, Views
  <2>4. Pending # <<>> /\ Head(Pending) = slots[cur]
    <3>1. 1 \in 1..(cur - len) /\ cur - 1 + 1 = cur /\ Len(Pending) # 0
      BY <1>1, <1>3, <2>3 DEF Before
    <3>2. Len(<<>>) = 0
      OBVIOUS
    <3>3. Pending[1] = slots[cur]
      BY <2>3, <3>1
    <3> QED
      BY <2>3, <3>1, <3>2, <3>3
  <2>5. /\ Tail(Pending) \in Seq(Entries) /\ Len(Tail(Pending)) = cur - len - 1
        /\ \A i \in 1..(cur - len - 1) : Tail(Pending)[i] = Pending[i + 1]
    BY <2>3, <2>4, HeadTailProperties
  <2>6. /\ Pending' \in Seq(Entries) /\ Len(Pending') = cur - len - 1
        /\ \A i \in 1..(cur - len - 1) : Pending'[i] = slots'[cur - i]
    <3>1. len' <= cur' /\ cur' - len' = cur - len - 1
      BY <1>1, <1>3, <2>1 DEF Before
    <3>2. /\ Pending' \in Seq(Entries) /\ Len(Pending') = cur - len - 1
          /\ \A i \in 1..(cur - len - 1) : Pending'[i] = slots'[cur' - i + 1]
      BY <3>1 DEF Views
    <3>3. \A i \in 1..(cur - len - 1) : cur' - i + 1 = cur - i
      BY <1>1, <2>1 DEF Before
    <3> QED
      BY <3>2, <3>3
  <2>7. ASSUME NEW i \in 1..(cur - len - 1) PROVE Pending'[i] = Tail(Pending)[i]
    <3>1. /\ cur - i \in 1..N /\ cur - i # cur /\ i + 1 \in 1..(cur - len)
          /\ cur - (i + 1) + 1 = cur - i
      BY <1>1 DEF Before
    <3>2. slots'[cur - i] = slots[cur - i]
      BY <1>1, <2>1, <3>1
    <3>3. Pending[i + 1] = slots[cur - i]
      BY <2>3, <3>1
    <3> QED
      BY <2>5, <2>6, <3>2, <3>3
  <2>8. Pending' = Tail(Pending)
    BY <2>5, <2>6, <2>7, SeqEqual
  <2> QED
    BY <1>1, <2>1, <2>2, <2>4, <2>8 DEF Abstract!Yield, Abstract!Answer, Answer
<1> QED
  BY <1>2, <1>3

LEMMA DrainDroppedRefines ==
    ASSUME Before, Views', DrainDropped
    PROVE  draining /\ draining' = FALSE /\ Abstract!EndDrain
<1>1. /\ draining /\ draining' = FALSE /\ cur' = 0 /\ ret' = Unit
      /\ UNCHANGED <<slots, len>> /\ len \in 0..N
  BY DEF Before, SlotsOK, DrainDropped
<1>2. Log' = Log
  BY <1>1 DEF Log
<1>3. Pending' = <<>>
  BY <1>1 DEF Before, Views
<1> QED
  BY <1>1, <1>2, <1>3 DEF Abstract!EndDrain, Abstract!Unit, Abstract!Answer, Unit, Answer

(* The array stack cannot be told from the sequence it stands for, for any *)
(* capacity, whatever iterators are abandoned and whichever Drop panics.   *)
THEOREM ArrayIsAStack == Spec => ImplementsScopedStack
<1>1. ASSUME Init PROVE Abstract!Init
  <2>1. Views
    BY <1>1, InitIInv, ViewFacts DEF IInv
  <2>2. len = 0 /\ cur = 0 /\ draining = FALSE /\ ret = Unit
    BY <1>1 DEF Init
  <2>3. Log = <<>> /\ Pending = <<>>
    BY <2>1, <2>2, EmptySeq DEF Views
  <2> QED
    BY <2>2, <2>3 DEF Abstract!Init, Abstract!Unit, Abstract!Answer, Unit, Answer
<1>2. ASSUME IInv, [Next]_vars PROVE [Abstract!Next]_(Abstract!vars)
  <2>1. SlotsOK' /\ Views' /\ Before
    BY <1>2, NextKeepsIInv, ViewFacts, ViewFactsAfter, CapacityAssumption
       DEF IInv, Before, Entries
  <2>2. ASSUME NEW x \in Items, Push(x) \/ TurnDown(x) \/ PushUnwinds(x) PROVE Abstract!Next
    BY <2>1, <2>2, PushRefines, TurnDownRefines, PushUnwindsRefines DEF Abstract!Next
  <2>3. CASE Pop \/ ReadLast
    BY <2>1, <2>3, PopRefines, ReadLastRefines DEF Abstract!Next
  <2>4. ASSUME NEW n \in Lengths, RollbackTo(n) \/ CutUnwinds(n) \/ DrainSince(n)
        PROVE  Abstract!Next
    BY <2>1, <2>4, CutRefines, CutUnwindsRefines, DrainSinceRefines DEF Abstract!Next
  <2>5. CASE Clear
    <3>1. 0 \in Lengths
      BY <2>1 DEF Before, Lengths
    <3> QED
      BY <2>1, <2>5, <3>1, CutRefines DEF Abstract!Next
  <2>6. CASE DrainNext \/ DrainDropped
    BY <2>1, <2>6, DrainNextRefines, DrainDroppedRefines DEF Abstract!Next
  <2>7. CASE TakeMark \/ ForgetMark \/ UNCHANGED vars
    <3>1. UNCHANGED <<slots, len, draining, cur, ret>>
      BY <2>7 DEF TakeMark, ForgetMark, MarksOnly, vars
    <3>2. Log' = Log /\ Pending' = Pending
      BY <3>1 DEF Log, Pending
    <3> QED
      BY <3>1, <3>2 DEF Abstract!vars
  <2> QED
    BY <1>2, <2>2, <2>3, <2>4, <2>5, <2>6, <2>7 DEF Next
<1> QED
  BY <1>1, <1>2, AlwaysIInv, PTL DEF Spec, ImplementsScopedStack, Abstract!Spec
=============================================================================
