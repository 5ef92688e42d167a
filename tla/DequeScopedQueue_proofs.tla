----------------------- MODULE DequeScopedQueue_proofs -----------------------
(***************************************************************************)
(* TLAPS proofs about DequeScopedQueue, for every set of items, every size *)
(* of the counter and every depth of scopes.                               *)
(***************************************************************************)
EXTENDS DequeScopedQueue, SequenceLemmas, FiniteSetTheorems

Counts == 0..(GenSize - 1)

(* The inductive invariant: until it overflows the counter covers the      *)
(* items and the marks.                                                    *)
IInv == TypeOK /\ CounterCovers

-----------------------------------------------------------------------------
(* The marks of open scopes are counts, nested, and no higher than gen.    *)
MarksBelow(marks, gen) ==
    \A d \in DOMAIN marks :
        marks[d] <= gen /\ \A e \in 1..d : marks[e] <= marks[d]

(* What the items are after the back is peeled off.                        *)
LEMMA PeeledFacts ==
    ASSUME TypeOK, NEW n \in Nat
    PROVE  /\ Peeled(n) \in Nat /\ Peeled(n) <= Len(items) /\ Peeled(n) <= generation
           /\ generation <= n => Peeled(n) = 0
           /\ SubSeq(items, 1, Len(items) - Peeled(n)) \in Seq(Items)
           /\ Len(SubSeq(items, 1, Len(items) - Peeled(n))) = Len(items) - Peeled(n)
           /\ SubSeq(items, Len(items) - Peeled(n) + 1, Len(items)) \in Seq(Items)
<1>1. items \in Seq(Items) /\ Len(items) \in Nat /\ generation \in Nat
  BY GenAssumption, LenProperties DEF TypeOK
<1> DEFINE p == Peeled(n)
<1>2. /\ p \in Nat /\ p <= Len(items)
      /\ generation <= n => p = 0
      /\ p <= generation
  BY <1>1 DEF Peeled
<1> HIDE DEF p
<1>3. Len(items) - p \in 0..Len(items)
  BY <1>1, <1>2
<1>4. /\ SubSeq(items, 1, Len(items) - p) \in Seq(Items)
      /\ Len(SubSeq(items, 1, Len(items) - p)) = Len(items) - p
  BY <1>1, <1>3, PrefixFacts
<1>5. SubSeq(items, Len(items) - p + 1, Len(items)) \in Seq(Items)
  BY <1>1, <1>2, SubSeqProperties
<1> QED
  BY <1>2, <1>4, <1>5 DEF p

(* Nested marks, cut at one of them.                                       *)
LEMMA CutMarks ==
    ASSUME NEW marks \in Seq(Counts), NEW gen \in Nat, MarksBelow(marks, gen),
           NEW d \in 0..Len(marks)
    PROVE  /\ SubSeq(marks, 1, d) \in Seq(Counts)
           /\ MarksBelow(SubSeq(marks, 1, d), gen)
           /\ \A g \in Nat : d > 0 /\ marks[d] <= g => MarksBelow(SubSeq(marks, 1, d), g)
<1>1. Len(marks) \in Nat /\ DOMAIN marks = 1..Len(marks) /\ d \in Nat
  BY LenProperties
<1>2. /\ SubSeq(marks, 1, d) \in Seq(Counts)
      /\ DOMAIN SubSeq(marks, 1, d) = 1..d
      /\ \A i \in 1..d : SubSeq(marks, 1, d)[i] = marks[i]
  BY PrefixFacts
<1>3. \A i \in 1..d : marks[i] \in Nat /\ i \in DOMAIN marks
  <2>1. \A i \in 1..Len(marks) : marks[i] \in Counts
    BY ElementOfSeq
  <2> QED
    BY <1>1, <2>1, GenAssumption DEF Counts
<1>4. \A i \in 1..d : marks[i] <= gen /\ \A e \in 1..i : marks[e] <= marks[i]
  BY <1>3 DEF MarksBelow
<1>5. MarksBelow(SubSeq(marks, 1, d), gen)
  BY <1>2, <1>4 DEF MarksBelow
<1>6. ASSUME NEW g \in Nat, d > 0, marks[d] <= g
      PROVE  MarksBelow(SubSeq(marks, 1, d), g)
  <2>1. \A i \in 1..d : marks[i] <= marks[d]
    BY <1>1, <1>4, <1>6
  <2>2. \A i \in 1..d : marks[i] <= g
    BY <1>1, <1>3, <1>6, <2>1
  <2> QED
    BY <1>2, <1>4, <2>2 DEF MarksBelow
<1> QED
  BY <1>2, <1>5, <1>6

(* Marks stay below a counter that goes up, and the counter may be logged. *)
LEMMA KeepMarks ==
    ASSUME NEW marks \in Seq(Counts), NEW gen \in Nat, MarksBelow(marks, gen)
    PROVE  /\ MarksBelow(marks, gen + 1)
           /\ gen \in Counts => /\ Append(marks, gen) \in Seq(Counts)
                                /\ MarksBelow(Append(marks, gen), gen)
<1>1. /\ Len(marks) \in Nat /\ DOMAIN marks = 1..Len(marks)
      /\ \A i \in 1..Len(marks) : marks[i] \in Nat
  <2>1. \A i \in 1..Len(marks) : marks[i] \in Counts
    BY ElementOfSeq
  <2> QED
    BY <2>1, LenProperties, GenAssumption DEF Counts
<1>2. \A i \in 1..Len(marks) : marks[i] <= gen /\ \A e \in 1..i : marks[e] <= marks[i]
  BY <1>1 DEF MarksBelow
<1>3. MarksBelow(marks, gen + 1)
  BY <1>1, <1>2 DEF MarksBelow
<1>4. ASSUME gen \in Counts
      PROVE  Append(marks, gen) \in Seq(Counts) /\ MarksBelow(Append(marks, gen), gen)
  <2> DEFINE more == Append(marks, gen)
  <2>1. /\ more \in Seq(Counts) /\ DOMAIN more = 1..(Len(marks) + 1)
        /\ \A i \in 1..Len(marks) : more[i] = marks[i]
        /\ more[Len(marks) + 1] = gen
    BY <1>4, AppendFacts
  <2> HIDE DEF more
  <2>2. ASSUME NEW i \in 1..(Len(marks) + 1)
        PROVE  more[i] <= gen /\ \A e \in 1..i : more[e] <= more[i]
    <3>1. CASE i = Len(marks) + 1
      <4>1. ASSUME NEW e \in 1..i PROVE more[e] <= gen
        <5>1. e = Len(marks) + 1 \/ e \in 1..Len(marks)
          BY <1>1, <3>1
        <5> QED
          BY <1>2, <2>1, <5>1
      <4> QED
        BY <2>1, <3>1, <4>1
    <3>2. CASE i \in 1..Len(marks)
      <4>1. \A e \in 1..i : e \in 1..Len(marks)
        BY <1>1, <3>2
      <4> QED
        BY <1>2, <2>1, <3>2, <4>1
    <3> QED
      BY <1>1, <3>1, <3>2
  <2>3. MarksBelow(more, gen)
    BY <2>1, <2>2 DEF MarksBelow
  <2> QED
    BY <2>1, <2>3 DEF more
<1> QED
  BY <1>3, <1>4

-----------------------------------------------------------------------------
Typed ==
    /\ items \in Seq(Items) /\ Len(items) \in Nat
    /\ generation \in Counts /\ generation \in Nat
    /\ scopes \in Seq(Counts) /\ overflowed \in BOOLEAN
    /\ GenSize \in Nat /\ GenSize > 0

AnswerTags == {"unit", "panicked", "pull", "first", "drained"}

(* The parts of TypeOK the proofs below use.                               *)
LEMMA TypedFacts ==
    ASSUME TypeOK
    PROVE  Typed
<1>1. GenSize \in Nat /\ GenSize > 0
  BY GenAssumption
<1> QED
  BY <1>1, LenProperties DEF TypeOK, Typed, Counts

(* CounterCovers, by items and marks.                                      *)
LEMMA CoverFacts == CounterCovers <=> overflowed \/ (Len(items) <= generation
                                                     /\ MarksBelow(scopes, generation))
  BY DEF CounterCovers, MarksBelow

(* What pull and first answer, and what pull leaves.                       *)
LEMMA FrontFacts ==
    ASSUME TypeOK
    PROVE  /\ First \in Seq(Items)
           /\ SubSeq(items, 2, Len(items)) \in Seq(Items)
           /\ Len(SubSeq(items, 2, Len(items))) <= Len(items)
<1>1. items \in Seq(Items) /\ Len(items) \in Nat
  BY LenProperties DEF TypeOK
<1>2. \A i \in 2..Len(items) : items[i] \in Items
  BY <1>1, ElementOfSeq
<1>3. /\ SubSeq(items, 2, Len(items)) \in Seq(Items)
      /\ Len(SubSeq(items, 2, Len(items))) <= Len(items)
  BY <1>1, <1>2, SubSeqProperties
<1>4. First \in Seq(Items)
  <2>1. items # <<>> => Head(items) \in Items
    BY <1>1, HeadTailProperties
  <2> QED
    BY <2>1 DEF First
<1> QED
  BY <1>3, <1>4

-----------------------------------------------------------------------------
(* The invariant holds at the start.                                       *)
LEMMA InitIInv == Init => IInv
<1> SUFFICES ASSUME Init PROVE IInv
  OBVIOUS
<1>1. /\ items = <<>> /\ generation = 0 /\ scopes = <<>> /\ ret = Unit
      /\ overflowed = FALSE /\ slipped = FALSE /\ Len(items) = 0 /\ DOMAIN scopes = {}
  BY DEF Init
<1>2. GenSize \in Nat /\ GenSize > 0
  BY GenAssumption
<1>3. TypeOK
  <2>1. generation \in 0..(GenSize - 1)
    BY <1>1, <1>2
  <2>2. /\ items \in Seq(Items) /\ scopes \in Seq(0..(GenSize - 1))
        /\ ret \in [tag : {"unit", "panicked", "pull", "first", "drained"}, items : Seq(Items)]
    BY <1>1 DEF Unit, Answer
  <2>3. overflowed \in BOOLEAN /\ slipped \in BOOLEAN
    BY <1>1, Zenon
  <2> QED
    BY <2>1, <2>2, <2>3 DEF TypeOK
<1>4. CounterCovers
  BY <1>1 DEF CounterCovers
<1> QED
  BY <1>3, <1>4 DEF IInv

(* Every step leaves the history of slips alone, or starts it, or ends it. *)
LEMMA SlipTyped ==
    ASSUME TypeOK, [Next]_vars
    PROVE  slipped' \in BOOLEAN
<1>1. slipped' = slipped \/ slipped' = TRUE \/ slipped' = FALSE
  <2>1. CASE Next
    <3>1. ASSUME NEW x \in Items, Push(x) \/ PushOverflows(x) PROVE slipped' = slipped
      BY <3>1, Zenon DEF Push, PushOverflows, history
    <3>2. ASSUME NEW d \in DOMAIN scopes, Undo(d) PROVE slipped' = slipped
      BY <3>2, Zenon DEF Undo, RollbackTo, DrainSince, history
    <3>3. ASSUME NEW d \in DOMAIN scopes, RollbackUnwinds(d) PROVE slipped' = TRUE
      BY <3>3, Zenon DEF RollbackUnwinds
    <3>4. CASE Overshoot
      BY <3>4, Zenon DEF Overshoot, RollbackTo, DrainSince, history
    <3>5. CASE Clear
      BY <3>5, Zenon DEF Clear
    <3>6. CASE Pull \/ ReadFirst \/ ClearUnwinds \/ Enter \/ Commit
      BY <3>6, Zenon DEF Pull, ReadFirst, ClearUnwinds, Enter, Commit, history
    <3> QED
      BY <2>1, <3>1, <3>2, <3>3, <3>4, <3>5, <3>6, Zenon DEF Next
  <2>2. CASE UNCHANGED vars
    BY <2>2, Zenon DEF vars
  <2> QED
    BY <2>1, <2>2
<1>2. slipped \in BOOLEAN
  BY Zenon DEF TypeOK
<1> QED
  BY <1>1, <1>2, Zenon

(* A push, whether the counter overflows or not.                           *)
LEMMA PushKeeps ==
    ASSUME IInv, NEW x \in Items, Push(x) \/ PushOverflows(x), slipped' \in BOOLEAN
    PROVE  IInv'
<1>1. Typed
  BY TypedFacts DEF IInv
<1>2. /\ items' = Append(items, x) /\ scopes' = scopes
      /\ items' \in Seq(Items) /\ Len(items') = Len(items) + 1
  <2>1. items' = Append(items, x) /\ scopes' = scopes
    BY Zenon DEF Push, PushOverflows, history
  <2> QED
    BY <1>1, <2>1, AppendFacts DEF Typed
<1>3. CASE Push(x)
  <2>1. /\ generation' = generation + 1 /\ ret' = Unit /\ overflowed' = overflowed
        /\ generation + 1 < GenSize
    BY <1>3 DEF Push, history
  <2>2. TypeOK'
    BY <1>1, <1>2, <2>1 DEF TypeOK, Typed, Counts, Unit, Answer
  <2>3. CounterCovers'
    <3>1. overflowed \/ (Len(items) <= generation /\ MarksBelow(scopes, generation))
      BY CoverFacts DEF IInv
    <3>2. MarksBelow(scopes, generation) => MarksBelow(scopes, generation + 1)
      BY <1>1, KeepMarks DEF Typed
    <3>3. overflowed' \/ (Len(items') <= generation' /\ MarksBelow(scopes', generation'))
      BY <1>1, <1>2, <2>1, <3>1, <3>2 DEF Typed
    <3> QED
      BY <3>3 DEF CounterCovers, MarksBelow
  <2> QED
    BY <2>2, <2>3 DEF IInv
<1>4. CASE PushOverflows(x)
  <2>0. ret' \in {Unit, Answer("panicked", <<>>)} /\ generation' \in {generation, 0}
    BY <1>4, Zenon DEF PushOverflows
  <2>1. overflowed' = TRUE
    BY <1>4, Zenon DEF PushOverflows
  <2>2. TypeOK'
    <3>1. generation' \in 0..(GenSize - 1)
      <4>1. generation \in 0..(GenSize - 1) /\ GenSize \in Nat /\ GenSize > 0
        BY <1>1 DEF Typed, Counts
      <4> QED
        BY <2>0, <4>1
    <3>2. ret' \in [tag : {"unit", "panicked", "pull", "first", "drained"}, items : Seq(Items)]
      <4>1. CASE ret' = Unit
        BY <4>1 DEF Unit, Answer
      <4>2. CASE ret' = Answer("panicked", <<>>)
        BY <4>2 DEF Answer
      <4> QED
        BY <2>0, <4>1, <4>2
    <3>3. overflowed' \in BOOLEAN /\ slipped' \in BOOLEAN
      BY <2>1, Zenon
    <3>4. items' \in Seq(Items) /\ scopes' \in Seq(0..(GenSize - 1))
      BY <1>1, <1>2 DEF Typed, Counts
    <3> QED
      BY <3>1, <3>2, <3>3, <3>4 DEF TypeOK
  <2>3. CounterCovers'
    BY <2>1 DEF CounterCovers
  <2> QED
    BY <2>2, <2>3 DEF IInv
<1> QED
  BY <1>3, <1>4

(* What a cut at n does to the items and to the counter.                   *)
LEMMA CutEffect ==
    ASSUME IInv, NEW n \in Nat, RollbackTo(n) \/ DrainSince(n),
           overflowed \/ n <= generation \/ n = generation + 1
    PROVE  /\ items' \in Seq(Items) /\ generation' \in Counts
           /\ ret' \in [tag : AnswerTags, items : Seq(Items)]
           /\ overflowed' = overflowed
           /\ ~overflowed => /\ Len(items') <= generation'
                             /\ n <= generation => n <= generation'
                             /\ generation < n => generation' = generation
<1> DEFINE p == Peeled(n)
<1>1. Typed /\ TypeOK
  BY TypedFacts DEF IInv
<1>2. ~overflowed => Len(items) <= generation
  BY CoverFacts DEF IInv
<1>3. /\ p \in Nat /\ p <= Len(items) /\ p <= generation
      /\ generation <= n => p = 0
      /\ generation > n => p = IF generation - n < Len(items) THEN generation - n
                                                               ELSE Len(items)
  BY <1>1, PeeledFacts DEF Peeled, Typed
<1>4. /\ items' = SubSeq(items, 1, Len(items) - p) /\ items' \in Seq(Items)
      /\ Len(items') = Len(items) - p
      /\ SubSeq(items, Len(items) - p + 1, Len(items)) \in Seq(Items)
  BY <1>1, PeeledFacts DEF RollbackTo, DrainSince
<1>5. CASE RollbackTo(n)
  <2>1. /\ generation' = (IF n < generation THEN n ELSE generation)
        /\ ret' = Unit /\ overflowed' = overflowed
    BY <1>5 DEF RollbackTo, history
  <2>2. generation' \in Counts
    BY <1>1, <2>1 DEF Typed, Counts
  <2>3. ~overflowed => /\ Len(items') <= generation'
                       /\ n <= generation => n <= generation'
                       /\ generation < n => generation' = generation
    BY <1>1, <1>2, <1>3, <1>4, <2>1 DEF Typed
  <2>4. ret' \in [tag : AnswerTags, items : Seq(Items)]
    BY <2>1 DEF Unit, Answer, AnswerTags
  <2> QED
    BY <1>4, <2>1, <2>2, <2>3, <2>4
<1>6. CASE DrainSince(n)
  <2>1. /\ generation' = generation - p /\ overflowed' = overflowed
        /\ ret' = Answer("drained", SubSeq(items, Len(items) - p + 1, Len(items)))
    BY <1>6 DEF DrainSince, history
  <2>2. generation' \in Counts
    BY <1>1, <1>3, <2>1 DEF Typed, Counts
  <2>3. ~overflowed => /\ Len(items') <= generation'
                       /\ n <= generation => n <= generation'
                       /\ generation < n => generation' = generation
    BY <1>1, <1>2, <1>3, <1>4, <2>1 DEF Typed
  <2>4. ret' \in [tag : AnswerTags, items : Seq(Items)]
    BY <1>4, <2>1 DEF Answer, AnswerTags
  <2> QED
    BY <1>4, <2>1, <2>2, <2>3, <2>4
<1> QED
  BY <1>5, <1>6

(* Undoing an open scope, and overshooting.                                *)
LEMMA UndoKeeps ==
    ASSUME IInv, NEW d \in DOMAIN scopes, Undo(d), slipped' \in BOOLEAN
    PROVE  IInv'
<1>1. Typed /\ (overflowed \/ MarksBelow(scopes, generation))
  BY TypedFacts, CoverFacts DEF IInv
<1>2. /\ d \in 1..Len(scopes) /\ Len(scopes) \in Nat
      /\ scopes[d] \in Counts /\ scopes[d] \in Nat
  <2>1. d \in 1..Len(scopes) /\ Len(scopes) \in Nat
    BY <1>1, LenProperties DEF Typed
  <2>2. scopes[d] \in Counts
    BY <1>1, <2>1, ElementOfSeq DEF Typed
  <2> QED
    BY <1>1, <2>1, <2>2 DEF Counts, Typed
<1>3. overflowed \/ scopes[d] <= generation
  BY <1>1, <1>2 DEF MarksBelow
<1>4. /\ RollbackTo(scopes[d]) \/ DrainSince(scopes[d])
      /\ scopes' = SubSeq(scopes, 1, d)
  BY DEF Undo
<1>5. /\ items' \in Seq(Items) /\ generation' \in Counts
      /\ ret' \in [tag : AnswerTags, items : Seq(Items)]
      /\ overflowed' = overflowed
      /\ ~overflowed => Len(items') <= generation' /\ scopes[d] <= generation'
  BY <1>2, <1>3, <1>4, CutEffect
<1>6. d \in 0..Len(scopes) /\ d > 0 /\ generation' \in Nat
  BY <1>1, <1>2, <1>5 DEF Typed, Counts
<1>7. scopes' \in Seq(Counts)
  BY <1>1, <1>4, <1>6, PrefixFacts DEF Typed
<1>8. ~overflowed => MarksBelow(scopes', generation')
  BY <1>1, <1>4, <1>5, <1>6, CutMarks DEF Typed
<1>9. TypeOK'
  BY <1>1, <1>5, <1>7 DEF TypeOK, Typed, Counts, AnswerTags
<1>10. CounterCovers'
  BY <1>1, <1>5, <1>8 DEF CounterCovers, MarksBelow, Typed
<1> QED
  BY <1>9, <1>10 DEF IInv

(* A rollback cut short by a Drop: k items are gone, k - 1 counted down.   *)
LEMMA RollbackUnwindsKeeps ==
    ASSUME IInv, NEW d \in DOMAIN scopes, RollbackUnwinds(d), slipped' \in BOOLEAN
    PROVE  IInv'
<1>1. Typed /\ TypeOK /\ (overflowed \/ (Len(items) <= generation
                                        /\ MarksBelow(scopes, generation)))
  BY TypedFacts, CoverFacts DEF IInv
<1>2. /\ d \in 1..Len(scopes) /\ Len(scopes) \in Nat
      /\ scopes[d] \in Counts /\ scopes[d] \in Nat
  <2>1. d \in 1..Len(scopes) /\ Len(scopes) \in Nat
    BY <1>1, LenProperties DEF Typed
  <2>2. scopes[d] \in Counts
    BY <1>1, <2>1, ElementOfSeq DEF Typed
  <2> QED
    BY <1>1, <2>1, <2>2 DEF Counts, Typed
<1> DEFINE n == scopes[d]
<1>3. PICK k \in 1..Peeled(n) :
         items' = SubSeq(items, 1, Len(items) - k) /\ generation' = generation - (k - 1)
  BY DEF RollbackUnwinds
<1>4. /\ scopes' = SubSeq(scopes, 1, d) /\ overflowed' = overflowed
      /\ ret' = Answer("panicked", <<>>)
  BY DEF RollbackUnwinds
<1>5. k \in Nat /\ k >= 1 /\ k <= Len(items) /\ n + k <= generation
  <2>1. /\ Peeled(n) \in Nat /\ Peeled(n) <= Len(items)
        /\ generation <= n => Peeled(n) = 0
    BY <1>1, <1>2, PeeledFacts
  <2>2. generation > n => Peeled(n) <= generation - n
    BY <1>1, <1>2 DEF Peeled, Typed
  <2> HIDE DEF n
  <2>3. n \in Nat
    BY <1>2 DEF n
  <2> QED
    BY <1>1, <1>3, <2>1, <2>2, <2>3 DEF Typed
<1>6. items' \in Seq(Items) /\ Len(items') = Len(items) - k
  <2>1. Len(items) - k \in 0..Len(items)
    BY <1>1, <1>5 DEF Typed
  <2> QED
    BY <1>1, <1>3, <2>1, PrefixFacts DEF Typed
<1> HIDE DEF n
<1>7. n \in Nat
  BY <1>2 DEF n
<1>8. generation' \in Counts /\ generation' \in Nat /\ n <= generation'
  BY <1>1, <1>3, <1>5, <1>7 DEF Typed, Counts
<1>9. d \in 0..Len(scopes) /\ d > 0
  BY <1>2
<1>10. scopes' \in Seq(Counts)
  BY <1>1, <1>4, <1>9, PrefixFacts DEF Typed
<1>11. ~overflowed => Len(items') <= generation' /\ MarksBelow(scopes', generation')
  <2>1. ~overflowed => MarksBelow(scopes', generation')
    BY <1>1, <1>4, <1>8, <1>9, CutMarks DEF Typed, n
  <2>2. ~overflowed => Len(items') <= generation'
    BY <1>1, <1>3, <1>5, <1>6 DEF Typed
  <2> QED
    BY <2>1, <2>2
<1>12. TypeOK'
  <2>1. ret' \in [tag : AnswerTags, items : Seq(Items)]
    BY <1>4 DEF Answer, AnswerTags
  <2> QED
    BY <1>1, <1>4, <1>6, <1>8, <1>10, <2>1 DEF TypeOK, Typed, Counts, AnswerTags
<1>13. CounterCovers'
  BY <1>1, <1>4, <1>11 DEF CounterCovers, MarksBelow, Typed
<1> QED
  BY <1>12, <1>13 DEF IInv

(* A rollback to a mark the caller made up changes nothing it rests on.    *)
LEMMA OvershootKeeps ==
    ASSUME IInv, Overshoot, slipped' \in BOOLEAN
    PROVE  IInv'
<1>1. Typed /\ (overflowed \/ MarksBelow(scopes, generation))
  BY TypedFacts, CoverFacts DEF IInv
<1>2. generation + 1 \in Nat /\ generation < generation + 1
  BY <1>1 DEF Typed
<1>3. scopes' = scopes /\ (RollbackTo(generation + 1) \/ DrainSince(generation + 1))
  BY DEF Overshoot
<1>4. /\ items' \in Seq(Items) /\ generation' \in Counts
      /\ ret' \in [tag : AnswerTags, items : Seq(Items)]
      /\ overflowed' = overflowed
      /\ ~overflowed => Len(items') <= generation' /\ generation' = generation
  BY <1>2, <1>3, CutEffect
<1>5. TypeOK'
  BY <1>1, <1>3, <1>4 DEF TypeOK, Typed, Counts, AnswerTags
<1>6. CounterCovers'
  BY <1>1, <1>3, <1>4 DEF CounterCovers, MarksBelow, Typed
<1> QED
  BY <1>5, <1>6 DEF IInv

(* Every step keeps it.                                                    *)
LEMMA NextKeepsIInv == IInv /\ [Next]_vars => IInv'
<1> SUFFICES ASSUME IInv, [Next]_vars PROVE IInv'
  OBVIOUS
<1>0. /\ Typed /\ TypeOK /\ ret \in [tag : AnswerTags, items : Seq(Items)]
      /\ overflowed \/ (Len(items) <= generation /\ MarksBelow(scopes, generation))
  BY TypedFacts, CoverFacts DEF IInv, TypeOK, AnswerTags
<1>10. slipped' \in BOOLEAN
  BY SlipTyped DEF IInv
<1>1. ASSUME NEW x \in Items, Push(x) \/ PushOverflows(x) PROVE IInv'
  BY <1>1, <1>10, PushKeeps
<1>2. CASE Pull
  <2>1. /\ items' \in Seq(Items) /\ Len(items') <= Len(items) /\ Len(items') \in Nat
        /\ ret' \in [tag : AnswerTags, items : Seq(Items)]
        /\ UNCHANGED <<generation, scopes, overflowed>>
    <3>1. /\ items' = SubSeq(items, 2, Len(items)) /\ ret' = Answer("pull", First)
          /\ UNCHANGED <<generation, scopes, overflowed>>
      BY <1>2 DEF Pull, history
    <3>2. items' \in Seq(Items) /\ Len(items') <= Len(items) /\ First \in Seq(Items)
      BY <1>0, <3>1, FrontFacts
    <3> QED
      BY <3>1, <3>2, LenProperties DEF Answer, AnswerTags
  <2>2. TypeOK'
    BY <1>0, <1>10, <2>1 DEF TypeOK, Typed, Counts, AnswerTags
  <2>3. overflowed' \/ (Len(items') <= generation' /\ MarksBelow(scopes', generation'))
    BY <1>0, <2>1 DEF Typed
  <2> QED
    BY <2>2, <2>3 DEF IInv, CounterCovers, MarksBelow
<1>3. CASE ReadFirst
  <2>1. /\ UNCHANGED <<items, generation, scopes, overflowed>>
        /\ ret' \in [tag : AnswerTags, items : Seq(Items)]
    BY <1>0, <1>3, FrontFacts DEF ReadFirst, Answer, AnswerTags, history
  <2> QED
    BY <1>0, <1>10, <2>1 DEF IInv, TypeOK, Typed, Counts, AnswerTags, CounterCovers
<1>4. ASSUME NEW d \in DOMAIN scopes, Undo(d) \/ RollbackUnwinds(d) PROVE IInv'
  BY <1>4, <1>10, UndoKeeps, RollbackUnwindsKeeps
<1>5. CASE Overshoot
  BY <1>5, <1>10, OvershootKeeps
<1>6. CASE Clear
  <2>1. /\ items' = <<>> /\ generation' = 0 /\ scopes' = <<>> /\ ret' = Unit
        /\ overflowed' = FALSE /\ Len(items') = 0 /\ DOMAIN scopes' = {}
    BY <1>6 DEF Clear
  <2>2. overflowed' \in BOOLEAN /\ slipped' \in BOOLEAN
    BY <1>10, <2>1, Zenon
  <2>3. TypeOK'
    BY <1>0, <2>1, <2>2 DEF TypeOK, Typed, Unit, Answer
  <2>4. CounterCovers'
    BY <2>1 DEF CounterCovers
  <2> QED
    BY <2>3, <2>4 DEF IInv
<1>11. CASE ClearUnwinds
  <2>1. /\ items' = <<>> /\ Len(items') = 0 /\ ret' = Answer("panicked", <<>>)
        /\ UNCHANGED <<generation, scopes, overflowed>>
    BY <1>11 DEF ClearUnwinds, history
  <2>2. TypeOK'
    BY <1>0, <1>10, <2>1 DEF TypeOK, Typed, Counts, Answer
  <2>3. overflowed' \/ (Len(items') <= generation' /\ MarksBelow(scopes', generation'))
    BY <1>0, <2>1 DEF Typed
  <2> QED
    BY <2>2, <2>3 DEF IInv, CounterCovers, MarksBelow
<1>7. CASE Enter
  <2>1. scopes' = Append(scopes, generation) /\ UNCHANGED <<items, generation, ret, overflowed>>
    BY <1>7 DEF Enter, history
  <2>2. scopes' \in Seq(Counts) /\ (overflowed \/ MarksBelow(scopes', generation))
    BY <1>0, <2>1, KeepMarks, AppendFacts DEF Typed
  <2>3. TypeOK'
    BY <1>0, <1>10, <2>1, <2>2 DEF TypeOK, Typed, Counts, AnswerTags
  <2>4. overflowed' \/ (Len(items') <= generation' /\ MarksBelow(scopes', generation'))
    BY <1>0, <2>1, <2>2
  <2> QED
    BY <2>3, <2>4 DEF IInv, CounterCovers, MarksBelow
<1>8. CASE Commit
  <2>1. /\ scopes' = SubSeq(scopes, 1, Len(scopes) - 1) /\ scopes # <<>>
        /\ UNCHANGED <<items, generation, ret, overflowed>>
    BY <1>8 DEF Commit, Front, history
  <2>2. Len(scopes) - 1 \in 0..Len(scopes)
    <3>1. Len(scopes) \in Nat /\ Len(scopes) # 0
      BY <1>0, <2>1, LenProperties, EmptySeq DEF Typed
    <3> QED
      BY <3>1
  <2>3. scopes' \in Seq(Counts) /\ (overflowed \/ MarksBelow(scopes', generation))
    BY <1>0, <2>1, <2>2, CutMarks, PrefixFacts DEF Typed
  <2>4. TypeOK'
    BY <1>0, <1>10, <2>1, <2>3 DEF TypeOK, Typed, Counts, AnswerTags
  <2>5. overflowed' \/ (Len(items') <= generation' /\ MarksBelow(scopes', generation'))
    BY <1>0, <2>1, <2>3
  <2> QED
    BY <2>4, <2>5 DEF IInv, CounterCovers, MarksBelow
<1>9. CASE UNCHANGED vars
  BY <1>9 DEF vars, IInv, TypeOK, CounterCovers
<1> QED
  BY <1>1, <1>2, <1>3, <1>4, <1>5, <1>6, <1>7, <1>8, <1>9, <1>11 DEF Next

(* So it always holds.                                                     *)
LEMMA AlwaysIInv == Spec => []IInv
  BY InitIInv, NextKeepsIInv, PTL DEF Spec

(* Items, counter, marks and answers stay in their types: the counter      *)
(* never leaves its width and no cut takes more than there is.             *)
THEOREM TypeCorrect == Spec => []TypeOK
<1>1. IInv => TypeOK
  BY DEF IInv
<1> QED
  BY <1>1, AlwaysIInv, PTL

(* Until it overflows, the counter covers the items and the open scopes'   *)
(* marks, and the marks are nested as the scopes are.                      *)
THEOREM CounterAlwaysCovers == Spec => []CounterCovers
<1>1. IInv => CounterCovers
  BY DEF IInv
<1> QED
  BY <1>1, AlwaysIInv, PTL

-----------------------------------------------------------------------------
(* How many marks are below x: the depth of the scope a push belongs to.   *)
Count(marks, x) == Cardinality({d \in DOMAIN marks : marks[d] < x})

Nested(marks) == \A d \in 1..Len(marks) : \A e \in 1..d : marks[e] <= marks[d]

(* Of nested marks the first are the ones below.                           *)
LEMMA CountIs ==
    ASSUME NEW marks \in Seq(Nat), NEW x \in Int, NEW k \in 0..Len(marks),
           \A d \in 1..Len(marks) : marks[d] < x <=> d <= k
    PROVE  Count(marks, x) = k
<1>1. DOMAIN marks = 1..Len(marks) /\ Len(marks) \in Nat
  BY LenProperties
<1>2. {d \in DOMAIN marks : marks[d] < x} = 1..k
  BY <1>1
<1>3. Cardinality(1..k) = k
  BY FS_Interval
<1> QED
  BY <1>2, <1>3 DEF Count

(* The marks below x are the first of nested marks.                        *)
LEMMA CountFacts ==
    ASSUME NEW marks \in Seq(Nat), Nested(marks), NEW x \in Int
    PROVE  /\ Count(marks, x) \in 0..Len(marks)
           /\ \A d \in 1..Len(marks) : marks[d] < x <=> d <= Count(marks, x)
<1>1. Len(marks) \in Nat /\ \A d \in 1..Len(marks) : marks[d] \in Nat
  BY LenProperties, ElementOfSeq
<1> DEFINE N == {d \in 1..(Len(marks) + 1) : d = Len(marks) + 1 \/ ~(marks[d] < x)}
<1>2. N \in SUBSET Nat /\ Len(marks) + 1 \in N
  BY <1>1
<1>3. PICK least \in N : \A d \in N : least <= d
  BY <1>2, LeastNumber
<1>4. /\ least \in 1..(Len(marks) + 1)
      /\ least = Len(marks) + 1 \/ (least \in 1..Len(marks) /\ ~(marks[least] < x))
  BY <1>1, <1>3
<1>5. ASSUME NEW d \in 1..Len(marks) PROVE marks[d] < x <=> d <= least - 1
  <2>1. CASE d < least
    <3>1. d \notin N
      BY <1>2, <1>3, <1>4, <2>1
    <3> QED
      BY <1>1, <1>4, <2>1, <3>1
  <2>2. CASE least <= d
    <3>1. least \in 1..Len(marks) /\ least \in 1..d
      BY <1>1, <1>4, <2>2
    <3>2. marks[least] <= marks[d] /\ ~(marks[least] < x)
      BY <1>1, <1>4, <3>1 DEF Nested
    <3>3. ~(marks[d] < x)
      BY <1>1, <3>1, <3>2
    <3> QED
      BY <1>4, <2>2, <3>3
  <2> QED
    BY <1>4, <2>1, <2>2
<1> HIDE DEF N
<1>6. least - 1 \in 0..Len(marks)
  BY <1>1, <1>4
<1>7. Count(marks, x) = least - 1
  BY <1>5, <1>6, CountIs
<1> QED
  BY <1>5, <1>6, <1>7

(* An outer scope's marks alone decide for what is older than the mark of  *)
(* the next one.                                                           *)
LEMMA CountOfCut ==
    ASSUME NEW marks \in Seq(Nat), Nested(marks), NEW x \in Int,
           NEW n \in 0..Len(marks)
    PROVE  Count(SubSeq(marks, 1, n), x) = IF Count(marks, x) < n THEN Count(marks, x) ELSE n
<1> DEFINE cut == SubSeq(marks, 1, n)
           c == Count(marks, x)
           k == IF c < n THEN c ELSE n
<1>1. Len(marks) \in Nat /\ n \in Nat
  BY LenProperties
<1>2. /\ cut \in Seq(Nat) /\ Len(cut) = n
      /\ \A i \in 1..n : cut[i] = marks[i]
  BY PrefixFacts
<1>3. c \in 0..Len(marks) /\ \A d \in 1..Len(marks) : marks[d] < x <=> d <= c
  BY CountFacts
<1> HIDE DEF cut, c
<1>4. k \in 0..Len(cut)
  BY <1>1, <1>2, <1>3
<1>5. \A d \in 1..Len(cut) : cut[d] < x <=> d <= k
  <2> SUFFICES ASSUME NEW d \in 1..Len(cut) PROVE cut[d] < x <=> d <= k
    OBVIOUS
  <2>1. d \in 1..n /\ d \in 1..Len(marks)
    BY <1>1, <1>2
  <2>2. cut[d] < x <=> d <= c
    BY <1>2, <1>3, <2>1
  <2> QED
    BY <1>1, <1>3, <2>1, <2>2
<1> HIDE DEF k
<1>6. Count(cut, x) = k
  BY <1>2, <1>4, <1>5, CountIs
<1> QED
  BY <1>6 DEF cut, c, k

(* A new mark does not count for what is no newer than it.                 *)
LEMMA CountWithMore ==
    ASSUME NEW marks \in Seq(Nat), Nested(marks), NEW x \in Int, NEW m \in Nat, x <= m
    PROVE  Count(Append(marks, m), x) = Count(marks, x)
<1> DEFINE more == Append(marks, m)
           c == Count(marks, x)
<1>1. Len(marks) \in Nat
  BY LenProperties
<1>2. /\ more \in Seq(Nat) /\ Len(more) = Len(marks) + 1
      /\ \A i \in 1..Len(marks) : more[i] = marks[i]
      /\ more[Len(marks) + 1] = m
  BY AppendFacts
<1>3. c \in 0..Len(marks) /\ \A d \in 1..Len(marks) : marks[d] < x <=> d <= c
  BY CountFacts
<1> HIDE DEF more, c
<1>4. c \in 0..Len(more)
  BY <1>1, <1>2, <1>3
<1>5. \A d \in 1..Len(more) : more[d] < x <=> d <= c
  <2> SUFFICES ASSUME NEW d \in 1..Len(more) PROVE more[d] < x <=> d <= c
    OBVIOUS
  <2>1. d \in 1..Len(marks) \/ d = Len(marks) + 1
    BY <1>1, <1>2
  <2>2. CASE d \in 1..Len(marks)
    BY <1>2, <1>3, <2>2
  <2>3. CASE d = Len(marks) + 1
    BY <1>1, <1>2, <1>3, <2>3
  <2> QED
    BY <2>1, <2>2, <2>3
<1>6. Count(more, x) = c
  BY <1>2, <1>4, <1>5, CountIs
<1> QED
  BY <1>6 DEF more, c

-----------------------------------------------------------------------------
(* The queue as its specification sees it: the items, the scopes' marks    *)
(* and the number of pushes before the oldest item make it.                *)
EntryOf(x, s) == [item |-> x, scope |-> s]
EntryType == [item : Items, scope : Nat]

Scoped(its, marks, base) ==
    [i \in DOMAIN its |-> EntryOf(its[i], Count(marks, base + i))]

Queue == [i \in DOMAIN items |-> [item |-> items[i], scope |-> ScopeOf(i)]]

(* The mapped queue, before a step                                         *)
LEMMA QueueIsScoped == Queue = Scoped(items, scopes, generation - Len(items))
  BY DEF Queue, Scoped, ScopeOf, Count, EntryOf

(* and after it.                                                           *)
LEMMA QueueThen == Queue' = Scoped(items', scopes', generation' - Len(items'))
  BY DEF Queue, Scoped, ScopeOf, Count, EntryOf

(* Its length and its entries.                                             *)
LEMMA ScopedFacts ==
    ASSUME NEW its \in Seq(Items), NEW marks \in Seq(Nat), Nested(marks), NEW base \in Int
    PROVE  /\ Scoped(its, marks, base) \in Seq(EntryType)
           /\ Len(Scoped(its, marks, base)) = Len(its)
           /\ DOMAIN Scoped(its, marks, base) = 1..Len(its)
           /\ \A i \in 1..Len(its) :
                 Scoped(its, marks, base)[i] = EntryOf(its[i], Count(marks, base + i))
<1>1. /\ Len(its) \in Nat /\ DOMAIN its = 1..Len(its) /\ Len(marks) \in Nat
      /\ \A i \in 1..Len(its) : its[i] \in Items
  BY LenProperties, ElementOfSeq
<1>2. \A i \in 1..Len(its) : Count(marks, base + i) \in Nat
  <2> SUFFICES ASSUME NEW i \in 1..Len(its) PROVE Count(marks, base + i) \in Nat
    OBVIOUS
  <2>1. base + i \in Int
    OBVIOUS
  <2>2. Count(marks, base + i) \in 0..Len(marks)
    BY <2>1, CountFacts
  <2> QED
    BY <1>1, <2>2
<1>3. \A i \in 1..Len(its) : EntryOf(its[i], Count(marks, base + i)) \in EntryType
  BY <1>1, <1>2 DEF EntryOf, EntryType
<1> DEFINE q == Scoped(its, marks, base)
<1>4. q = [i \in 1..Len(its) |-> EntryOf(its[i], Count(marks, base + i))]
  BY <1>1 DEF Scoped
<1>5. q \in [1..Len(its) -> EntryType]
  BY <1>3, <1>4
<1>6. q \in Seq(EntryType)
  BY <1>1, <1>5, SeqDef
<1>7. DOMAIN q = 1..Len(its)
  BY <1>4
<1>8. Len(q) = Len(its)
  BY <1>1, <1>6, <1>7, LenProperties
<1> QED
  BY <1>4, <1>6, <1>7, <1>8

(* Two queues of scoped items are one when they agree entry by entry.      *)
LEMMA SameQueue ==
    ASSUME NEW p \in Seq(EntryType), NEW q \in Seq(EntryType), Len(p) = Len(q),
           \A i \in 1..Len(p) : p[i] = q[i]
    PROVE  p = q
BY SeqEqual

(* A push belongs to the innermost scope.                                  *)
LEMMA ScopedPush ==
    ASSUME NEW its \in Seq(Items), NEW marks \in Seq(Nat), Nested(marks), NEW base \in Int,
           NEW x \in Items, \A d \in 1..Len(marks) : marks[d] <= base + Len(its)
    PROVE  Scoped(Append(its, x), marks, base)
              = Append(Scoped(its, marks, base), EntryOf(x, Len(marks)))
<1> DEFINE more == Append(its, x)
           p == Scoped(more, marks, base)
           q == Scoped(its, marks, base)
           e == EntryOf(x, Len(marks))
<1>1. Len(its) \in Nat /\ Len(marks) \in Nat /\ \A d \in 1..Len(marks) : marks[d] \in Nat
  BY LenProperties, ElementOfSeq
<1>2. /\ more \in Seq(Items) /\ Len(more) = Len(its) + 1
      /\ \A i \in 1..Len(its) : more[i] = its[i]
      /\ more[Len(its) + 1] = x
  BY AppendFacts
<1>3. Count(marks, base + (Len(its) + 1)) = Len(marks)
  <2>1. \A d \in 1..Len(marks) : marks[d] < base + (Len(its) + 1) <=> d <= Len(marks)
    BY <1>1
  <2>2. base + (Len(its) + 1) \in Int /\ Len(marks) \in 0..Len(marks)
    BY <1>1
  <2> QED
    BY <2>1, <2>2, CountIs
<1>4. e \in EntryType
  BY <1>1 DEF EntryOf, EntryType
<1> HIDE DEF more, e
<1>5. /\ p \in Seq(EntryType) /\ Len(p) = Len(its) + 1
      /\ \A i \in 1..(Len(its) + 1) : p[i] = EntryOf(more[i], Count(marks, base + i))
  BY <1>2, ScopedFacts
<1>6. /\ q \in Seq(EntryType) /\ Len(q) = Len(its)
      /\ \A i \in 1..Len(its) : q[i] = EntryOf(its[i], Count(marks, base + i))
  BY ScopedFacts
<1> HIDE DEF p, q
<1>7. /\ Append(q, e) \in Seq(EntryType) /\ Len(Append(q, e)) = Len(its) + 1
      /\ \A i \in 1..Len(its) : Append(q, e)[i] = q[i]
      /\ Append(q, e)[Len(its) + 1] = e
  BY <1>4, <1>6, AppendFacts
<1>8. ASSUME NEW i \in 1..(Len(its) + 1) PROVE p[i] = Append(q, e)[i]
  <2>1. CASE i \in 1..Len(its)
    BY <1>2, <1>5, <1>6, <1>7, <2>1
  <2>2. CASE i = Len(its) + 1
    BY <1>2, <1>3, <1>5, <1>7, <2>2 DEF e
  <2>3. i \in 1..Len(its) \/ i = Len(its) + 1
    BY <1>1
  <2> QED
    BY <2>1, <2>2, <2>3
<1>9. p = Append(q, e)
  BY <1>5, <1>7, <1>8, SameQueue
<1> QED
  BY <1>9 DEF p, q, e, more

(* Pulling an item leaves the scopes of the others alone: the base moves.  *)
LEMMA ScopedPull ==
    ASSUME NEW its \in Seq(Items), NEW marks \in Seq(Nat), Nested(marks), NEW base \in Int,
           its # <<>>
    PROVE  /\ Scoped(SubSeq(its, 2, Len(its)), marks, base + 1) = Tail(Scoped(its, marks, base))
           /\ Scoped(its, marks, base) # <<>>
           /\ Len(SubSeq(its, 2, Len(its))) = Len(its) - 1
           /\ Head(Scoped(its, marks, base)).item = Head(its)
<1> DEFINE rest == SubSeq(its, 2, Len(its))
           p == Scoped(rest, marks, base + 1)
           q == Scoped(its, marks, base)
<1>1. Len(its) \in Nat /\ Len(its) >= 1 /\ Head(its) = its[1]
  BY LenProperties, EmptySeq, HeadTailProperties
<1>2. /\ rest \in Seq(Items) /\ Len(rest) = Len(its) - 1
      /\ \A i \in 1..(Len(its) - 1) : rest[i] = its[i + 1]
  <2>1. rest = Tail(its)
    BY TailIsSubSeq
  <2>2. /\ Tail(its) \in Seq(Items) /\ Len(Tail(its)) = Len(its) - 1
        /\ \A i \in 1..Len(Tail(its)) : Tail(its)[i] = its[i + 1]
    BY HeadTailProperties
  <2> HIDE DEF rest
  <2> QED
    BY <2>1, <2>2
<1> HIDE DEF rest
<1>3. /\ p \in Seq(EntryType) /\ Len(p) = Len(its) - 1
      /\ \A i \in 1..(Len(its) - 1) : p[i] = EntryOf(rest[i], Count(marks, (base + 1) + i))
  BY <1>2, ScopedFacts
<1>4. /\ q \in Seq(EntryType) /\ Len(q) = Len(its)
      /\ \A i \in 1..Len(its) : q[i] = EntryOf(its[i], Count(marks, base + i))
  BY ScopedFacts
<1> HIDE DEF p, q
<1>5. q # <<>>
  BY <1>1, <1>4
<1>6. /\ Tail(q) \in Seq(EntryType) /\ Len(Tail(q)) = Len(its) - 1 /\ Head(q) = q[1]
      /\ \A i \in 1..(Len(its) - 1) : Tail(q)[i] = q[i + 1]
  BY <1>1, <1>4, <1>5, HeadTailProperties
<1>7. ASSUME NEW i \in 1..(Len(its) - 1) PROVE p[i] = Tail(q)[i]
  <2>1. (base + 1) + i = base + (i + 1) /\ i + 1 \in 1..Len(its)
    BY <1>1
  <2>2. p[i] = EntryOf(its[i + 1], Count(marks, base + (i + 1)))
    BY <1>2, <1>3, <2>1
  <2>3. q[i + 1] = EntryOf(its[i + 1], Count(marks, base + (i + 1)))
    BY <1>4, <2>1
  <2> QED
    BY <1>6, <2>2, <2>3
<1>8. p = Tail(q)
  BY <1>3, <1>6, <1>7, SameQueue
<1>9. Head(q).item = Head(its)
  <2>1. 1 \in 1..Len(its) /\ Head(q) = q[1]
    BY <1>1, <1>6
  <2>2. q[1] = EntryOf(its[1], Count(marks, base + 1))
    BY <1>4, <2>1
  <2> QED
    BY <1>1, <2>1, <2>2 DEF EntryOf
<1> QED
  BY <1>2, <1>5, <1>8, <1>9 DEF p, q, rest

(* Undoing the scope of mark d: the items pushed before the mark stay, and *)
(* of these the scopes inside it say nothing.                              *)
LEMMA ScopedCut ==
    ASSUME NEW its \in Seq(Items), NEW marks \in Seq(Nat), Nested(marks), NEW base \in Int,
           NEW d \in 1..Len(marks), NEW n \in 0..Len(its), n > 0 => base + n <= marks[d]
    PROVE  Scoped(SubSeq(its, 1, n), SubSeq(marks, 1, d), base)
              = SubSeq(Scoped(its, marks, base), 1, n)
<1> DEFINE kept == SubSeq(its, 1, n)
           cut == SubSeq(marks, 1, d)
           p == Scoped(kept, cut, base)
           q == Scoped(its, marks, base)
<1>1. Len(its) \in Nat /\ Len(marks) \in Nat /\ \A e \in 1..Len(marks) : marks[e] \in Nat
  BY LenProperties, ElementOfSeq
<1>2. /\ kept \in Seq(Items) /\ Len(kept) = n
      /\ \A i \in 1..n : kept[i] = its[i]
  BY PrefixFacts
<1>3. d \in 0..Len(marks) /\ d \in Nat
  BY <1>1
<1>4. /\ cut \in Seq(Nat) /\ Len(cut) = d
      /\ \A e \in 1..d : cut[e] = marks[e]
  BY <1>3, PrefixFacts
<1>5. \A i \in 1..n : Count(cut, base + i) = Count(marks, base + i)
  <2> SUFFICES ASSUME NEW i \in 1..n PROVE Count(cut, base + i) = Count(marks, base + i)
    OBVIOUS
  <2>1. base + i \in Int /\ ~(marks[d] < base + i)
    BY <1>1
  <2>2. Count(cut, base + i) = IF Count(marks, base + i) < d THEN Count(marks, base + i) ELSE d
    BY <1>3, <2>1, CountOfCut
  <2>3. /\ Count(marks, base + i) \in 0..Len(marks)
        /\ ~(d <= Count(marks, base + i))
    BY <2>1, CountFacts
  <2>4. Count(marks, base + i) < d
    BY <1>1, <1>3, <2>3
  <2> QED
    BY <2>2, <2>4
<1>6. Nested(cut)
  <2> HIDE DEF cut
  <2> SUFFICES ASSUME NEW e \in 1..d, NEW f \in 1..e PROVE cut[f] <= cut[e]
    BY <1>4 DEF Nested
  <2>1. f \in 1..d /\ e \in 1..Len(marks)
    BY <1>1, <1>3
  <2> QED
    BY <1>4, <2>1 DEF Nested
<1> HIDE DEF kept, cut
<1>7. /\ p \in Seq(EntryType) /\ Len(p) = n
      /\ \A i \in 1..n : p[i] = EntryOf(kept[i], Count(cut, base + i))
  BY <1>2, <1>4, <1>6, ScopedFacts
<1>8. /\ q \in Seq(EntryType) /\ Len(q) = Len(its)
      /\ \A i \in 1..Len(its) : q[i] = EntryOf(its[i], Count(marks, base + i))
  BY ScopedFacts
<1> HIDE DEF p, q
<1>9. /\ SubSeq(q, 1, n) \in Seq(EntryType) /\ Len(SubSeq(q, 1, n)) = n
      /\ \A i \in 1..n : SubSeq(q, 1, n)[i] = q[i]
  BY <1>8, PrefixFacts
<1>10. \A i \in 1..n : p[i] = SubSeq(q, 1, n)[i]
  <2>1. \A i \in 1..n : i \in 1..Len(its)
    BY <1>1
  <2> QED
    BY <1>2, <1>5, <1>7, <1>8, <1>9, <2>1
<1>11. p = SubSeq(q, 1, n)
  BY <1>7, <1>9, <1>10, SameQueue
<1> QED
  BY <1>11 DEF p, q, kept, cut

(* The items of the rest of the queue, handed out.                         *)
ItemsIn(q) == [i \in DOMAIN q |-> q[i].item]

(* What is above a cut is, item for item, what the queue holds there.      *)
LEMMA ScopedRest ==
    ASSUME NEW its \in Seq(Items), NEW marks \in Seq(Nat), Nested(marks), NEW base \in Int,
           NEW n \in 0..Len(its)
    PROVE  SubSeq(its, n + 1, Len(its)) = ItemsIn(SubSeq(Scoped(its, marks, base), n + 1, Len(its)))
<1> DEFINE q == Scoped(its, marks, base)
           out == SubSeq(its, n + 1, Len(its))
           rest == SubSeq(q, n + 1, Len(its))
           m == Len(its) - n
<1>1. Len(its) \in Nat /\ m \in Nat /\ n \in Nat
  BY LenProperties
<1>2. /\ q \in Seq(EntryType) /\ Len(q) = Len(its)
      /\ \A i \in 1..Len(its) : q[i].item = its[i]
  <2>1. q \in Seq(EntryType) /\ Len(q) = Len(its)
    BY ScopedFacts
  <2>2. \A i \in 1..Len(its) : q[i] = EntryOf(its[i], Count(marks, base + i))
    BY ScopedFacts
  <2> HIDE DEF q
  <2>3. ASSUME NEW i \in 1..Len(its) PROVE q[i].item = its[i]
    <3>1. \A x, s : EntryOf(x, s).item = x
      BY ONLY DEF EntryOf
    <3> QED
      BY <2>2, <3>1
  <2> QED
    BY <2>1, <2>3
<1> HIDE DEF q
<1>3. /\ out \in Seq(Items) /\ Len(out) = m
      /\ \A i \in 1..m : out[i] = its[i + n]
  <2>1. n + 1 \in 1..(Len(its) + 1) /\ Len(its) \in n..Len(its)
    BY <1>1
  <2>2. /\ out \in Seq(Items) /\ Len(out) = IF n + 1 <= Len(its) THEN Len(its) - (n + 1) + 1 ELSE 0
        /\ \A i \in 1..(Len(its) - (n + 1) + 1) : out[i] = its[(n + 1) + i - 1]
    BY <1>1, <2>1, SubSeqProperties
  <2>3. Len(its) - (n + 1) + 1 = m /\ \A i \in 1..m : (n + 1) + i - 1 = i + n
    BY <1>1
  <2> HIDE DEF out, m
  <2>4. \A i \in 1..m : out[i] = its[(n + 1) + i - 1]
    BY <2>2, <2>3
  <2>5. \A i \in 1..m : out[i] = its[i + n]
    BY <2>3, <2>4
  <2>6. Len(out) = m
    <3>1. Len(out) = IF n + 1 <= Len(its) THEN Len(its) - (n + 1) + 1 ELSE 0
      BY <2>2
    <3>2. n <= Len(its)
      BY <1>1
    <3> QED
      BY <1>1, <3>1, <3>2 DEF m
  <2> QED
    BY <2>2, <2>5, <2>6
<1>4. /\ rest \in Seq(EntryType) /\ Len(rest) = m
      /\ \A i \in 1..m : rest[i] = q[i + n]
  <2>1. n + 1 \in 1..(Len(its) + 1) /\ Len(its) \in n..Len(its) /\ Len(q) = Len(its)
    BY <1>1, <1>2
  <2>2. /\ rest \in Seq(EntryType)
        /\ Len(rest) = IF n + 1 <= Len(its) THEN Len(its) - (n + 1) + 1 ELSE 0
        /\ \A i \in 1..(Len(its) - (n + 1) + 1) : rest[i] = q[(n + 1) + i - 1]
    BY <1>1, <1>2, <2>1, SubSeqProperties
  <2>3. Len(its) - (n + 1) + 1 = m /\ \A i \in 1..m : (n + 1) + i - 1 = i + n
    BY <1>1
  <2> HIDE DEF rest, m
  <2>4. \A i \in 1..m : rest[i] = q[(n + 1) + i - 1]
    BY <2>2, <2>3
  <2>5. \A i \in 1..m : rest[i] = q[i + n]
    BY <2>3, <2>4
  <2>6. Len(rest) = m
    <3>1. Len(rest) = IF n + 1 <= Len(its) THEN Len(its) - (n + 1) + 1 ELSE 0
      BY <2>2
    <3>2. n <= Len(its)
      BY <1>1
    <3> QED
      BY <1>1, <3>1, <3>2 DEF m
  <2> QED
    BY <2>2, <2>5, <2>6
<1>5. \A i \in 1..m : i + n \in 1..Len(its)
  BY <1>1
<1> HIDE DEF m, out, rest
<1>6. DOMAIN rest = 1..m /\ \A i \in 1..m : rest[i].item = its[i + n]
  BY <1>2, <1>4, <1>5, LenProperties
<1>7. out = [i \in DOMAIN rest |-> rest[i].item]
  <2> DEFINE given == [i \in 1..m |-> rest[i].item]
  <2>1. given \in [1..m -> Items]
    <3>1. \A i \in 1..m : its[i + n] \in Items
      BY <1>5, ElementOfSeq
    <3> QED
      BY <1>6, <3>1
  <2>2. given \in Seq(Items) /\ DOMAIN given = 1..m
    BY <1>1, <2>1, SeqDef
  <2>3. Len(given) = m
    BY <1>1, <2>2, LenProperties
  <2>4. \A i \in 1..m : given[i] = out[i]
    BY <1>3, <1>6
  <2> HIDE DEF given
  <2>5. given = out
    BY <1>3, <2>2, <2>3, <2>4, SeqEqual
  <2> QED
    BY <1>6, <2>5 DEF given
<1> QED
  BY <1>7 DEF q, out, rest, ItemsIn

(* Entering a scope moves no item into it.                                 *)
LEMMA ScopedEnter ==
    ASSUME NEW its \in Seq(Items), NEW marks \in Seq(Nat), Nested(marks), NEW base \in Int,
           NEW g \in Nat, base + Len(its) <= g
    PROVE  Scoped(its, Append(marks, g), base) = Scoped(its, marks, base)
<1>1. DOMAIN its = 1..Len(its) /\ Len(its) \in Nat
  BY LenProperties
<1>2. \A i \in 1..Len(its) : Count(Append(marks, g), base + i) = Count(marks, base + i)
  <2> SUFFICES ASSUME NEW i \in 1..Len(its)
               PROVE  Count(Append(marks, g), base + i) = Count(marks, base + i)
    OBVIOUS
  <2>1. base + i \in Int /\ base + i <= g
    BY <1>1
  <2> QED
    BY <2>1, CountWithMore
<1> QED
  BY <1>1, <1>2 DEF Scoped

(* Committing a scope gives its items to the one around it.                *)
LEMMA ScopedCommit ==
    ASSUME NEW its \in Seq(Items), NEW marks \in Seq(Nat), Nested(marks), NEW base \in Int,
           marks # <<>>, NEW q, q = Scoped(its, marks, base)
    PROVE  Scoped(its, SubSeq(marks, 1, Len(marks) - 1), base)
              = [i \in DOMAIN q |-> EntryOf(q[i].item, IF q[i].scope = Len(marks)
                                                       THEN Len(marks) - 1 ELSE q[i].scope)]
<1> DEFINE cut == SubSeq(marks, 1, Len(marks) - 1)
<1>1. /\ DOMAIN its = 1..Len(its) /\ Len(its) \in Nat
      /\ Len(marks) \in Nat /\ Len(marks) >= 1 /\ Len(marks) - 1 \in 0..Len(marks)
  BY LenProperties, EmptySeq
<1>2. /\ DOMAIN q = 1..Len(its)
      /\ \A i \in 1..Len(its) : /\ q[i].item = its[i]
                                /\ q[i].scope = Count(marks, base + i)
  BY <1>1 DEF EntryOf, Scoped
<1>3. \A i \in 1..Len(its) : Count(cut, base + i) = IF Count(marks, base + i) = Len(marks)
                                                    THEN Len(marks) - 1
                                                    ELSE Count(marks, base + i)
  <2> SUFFICES ASSUME NEW i \in 1..Len(its)
               PROVE  Count(cut, base + i) = IF Count(marks, base + i) = Len(marks)
                                             THEN Len(marks) - 1 ELSE Count(marks, base + i)
    OBVIOUS
  <2>1. base + i \in Int
    BY <1>1
  <2>2. Count(cut, base + i) = IF Count(marks, base + i) < Len(marks) - 1
                               THEN Count(marks, base + i) ELSE Len(marks) - 1
    BY <1>1, <2>1, CountOfCut
  <2>3. Count(marks, base + i) \in 0..Len(marks)
    BY <2>1, CountFacts
  <2> HIDE DEF cut
  <2> QED
    BY <1>1, <2>2, <2>3
<1> HIDE DEF cut
<1>4. Scoped(its, cut, base) = [i \in 1..Len(its) |-> EntryOf(its[i], Count(cut, base + i))]
  BY <1>1 DEF Scoped
<1>5. Scoped(its, cut, base)
         = [i \in DOMAIN q |-> EntryOf(q[i].item, IF q[i].scope = Len(marks)
                                                  THEN Len(marks) - 1 ELSE q[i].scope)]
  BY <1>2, <1>3, <1>4
<1> QED
  BY <1>5 DEF cut

-----------------------------------------------------------------------------
(* How many pushes the queue has outlived: those pulled or peeled off.     *)
Base == generation - Len(items)

(* While the count of pushes is right.                                     *)
LEMMA QueueFacts ==
    ASSUME IInv, ~overflowed
    PROVE  /\ items \in Seq(Items) /\ Len(items) \in Nat /\ generation \in Nat
           /\ Base \in Int /\ Base >= 0 /\ generation = Base + Len(items)
           /\ scopes \in Seq(Nat) /\ Nested(scopes) /\ Len(scopes) \in Nat
           /\ DOMAIN scopes = 1..Len(scopes)
           /\ \A d \in 1..Len(scopes) : scopes[d] \in Nat /\ scopes[d] <= generation
           /\ Queue = Scoped(items, scopes, Base)
           /\ Len(Queue) = Len(items) /\ DOMAIN Queue = 1..Len(items)
<1>1. Typed /\ Len(items) <= generation /\ MarksBelow(scopes, generation)
  BY TypedFacts, CoverFacts DEF IInv
<1>2. items \in Seq(Items) /\ Len(items) \in Nat /\ generation \in Nat
  BY <1>1 DEF Typed
<1>3. Base \in Int /\ Base >= 0 /\ generation = Base + Len(items)
  BY <1>1, <1>2 DEF Base
<1>4. scopes \in Seq(Nat)
  <2>1. Counts \subseteq Nat
    BY GenAssumption DEF Counts
  <2> QED
    BY <1>1, <2>1, SeqMonotonic DEF Typed
<1>5. Len(scopes) \in Nat /\ DOMAIN scopes = 1..Len(scopes)
  BY <1>4, LenProperties
<1>6. \A d \in 1..Len(scopes) : scopes[d] \in Nat
  BY <1>4, ElementOfSeq
<1>7. Nested(scopes) /\ \A d \in 1..Len(scopes) : scopes[d] <= generation
  BY <1>1, <1>5 DEF MarksBelow, Nested
<1>8. Queue = Scoped(items, scopes, Base)
  BY QueueIsScoped DEF Base
<1>9. Len(Queue) = Len(items) /\ DOMAIN Queue = 1..Len(items)
  BY <1>2, <1>3, <1>4, <1>7, <1>8, ScopedFacts
<1> QED
  BY <1>2, <1>3, <1>4, <1>5, <1>6, <1>7, <1>8, <1>9

(* Each operation, while nothing is astray, is the queue's.                *)
LEMMA PushIsPush ==
    ASSUME IInv, ~overflowed, NEW x \in Items, Push(x)
    PROVE  Abstract!Push(x)
<1>1. /\ items \in Seq(Items) /\ Len(items) \in Nat /\ generation \in Nat
      /\ Base \in Int /\ generation = Base + Len(items)
      /\ scopes \in Seq(Nat) /\ Nested(scopes)
      /\ \A d \in 1..Len(scopes) : scopes[d] <= generation
      /\ Queue = Scoped(items, scopes, Base)
  BY QueueFacts
<1>2. /\ items' = Append(items, x) /\ generation' = generation + 1
      /\ ret' = Unit /\ scopes' = scopes
  BY DEF Push
<1>3. generation' - Len(items') = Base
  <2>1. Len(items') = Len(items) + 1
    BY <1>1, <1>2, AppendFacts
  <2> QED
    BY <1>1, <1>2, <2>1
<1>4. Queue' = Scoped(Append(items, x), scopes, Base)
  BY <1>2, <1>3, QueueThen
<1>5. Queue' = Append(Queue, EntryOf(x, Len(scopes)))
  BY <1>1, <1>4, ScopedPush
<1> QED
  BY <1>2, <1>5 DEF Abstract!Push, Abstract!Entry, Abstract!Unit, Abstract!Answer,
                    Unit, Answer, EntryOf, Queue

(* What the front of the deque answers for the front of the queue.         *)
LEMMA FirstIsFirst ==
    ASSUME IInv, ~overflowed
    PROVE  First = Abstract!First /\ (Queue = <<>> <=> items = <<>>)
<1>1. /\ items \in Seq(Items) /\ Base \in Int /\ scopes \in Seq(Nat) /\ Nested(scopes)
      /\ Queue = Scoped(items, scopes, Base)
  BY QueueFacts
<1>2. CASE items = <<>>
  <2>1. Queue = <<>>
    BY <1>2 DEF Queue
  <2> QED
    BY <1>2, <2>1 DEF First, Abstract!First, Queue
<1>3. CASE items # <<>>
  <2>1. Queue # <<>> /\ Head(Queue).item = Head(items)
    BY <1>1, <1>3, ScopedPull
  <2> QED
    BY <1>3, <2>1 DEF First, Abstract!First, Queue
<1> QED
  BY <1>2, <1>3

(* A pull, of an item or of none, is the abstract one.                     *)
LEMMA PullIsPull ==
    ASSUME IInv, ~overflowed, Pull
    PROVE  Abstract!Pull
<1>1. /\ items \in Seq(Items) /\ Len(items) \in Nat /\ generation \in Nat
      /\ Base \in Int /\ generation = Base + Len(items)
      /\ scopes \in Seq(Nat) /\ Nested(scopes)
      /\ Queue = Scoped(items, scopes, Base)
  BY QueueFacts
<1>2. /\ items' = SubSeq(items, 2, Len(items)) /\ generation' = generation
      /\ ret' = Answer("pull", First) /\ scopes' = scopes
  BY DEF Pull
<1>3. Queue' = IF Queue = <<>> THEN <<>> ELSE Tail(Queue)
  <2>1. CASE items = <<>>
    <3>1. items' = <<>>
      BY <1>2, <2>1
    <3>2. Queue' = <<>>
      BY <3>1 DEF Queue
    <3> QED
      BY <2>1, <3>2, FirstIsFirst
  <2>2. CASE items # <<>>
    <3>1. /\ Scoped(SubSeq(items, 2, Len(items)), scopes, Base + 1) = Tail(Queue)
          /\ Queue # <<>> /\ Len(items') = Len(items) - 1
      BY <1>1, <1>2, <2>2, ScopedPull
    <3>2. generation' - Len(items') = Base + 1
      <4>1. Len(items) \in Nat /\ Base \in Int /\ generation = Base + Len(items)
        BY <1>1
      <4>2. generation' = generation /\ Len(items') = Len(items) - 1
        BY <1>2, <3>1
      <4> QED
        BY <4>1, <4>2
    <3> QED
      BY <1>2, <3>1, <3>2, QueueThen
  <2> QED
    BY <2>1, <2>2
<1> QED
  BY <1>2, <1>3, FirstIsFirst DEF Abstract!Pull, Abstract!Answer, Answer, Queue

(* So is reading the first item.                                           *)
LEMMA ReadFirstIsReadFirst ==
    ASSUME IInv, ~overflowed, ReadFirst
    PROVE  Abstract!ReadFirst
<1>1. UNCHANGED <<items, generation, scopes>> /\ ret' = Answer("first", First)
  BY DEF ReadFirst
<1>2. Queue' = Queue
  BY <1>1, QueueIsScoped, QueueThen
<1> QED
  BY <1>1, <1>2, FirstIsFirst DEF Abstract!ReadFirst, Abstract!Answer, Answer, Queue

(* Where the cut at an open scope's mark falls.                            *)
LEMMA CutFalls ==
    ASSUME IInv, ~overflowed, NEW d \in 1..Len(scopes), NEW n,
           n = Len(items) - Peeled(scopes[d])
    PROVE  /\ n \in 0..Len(items)
           /\ n > 0 => Base + n <= scopes[d]
           /\ \A i \in 1..Len(items) : scopes[d] < Base + i <=> ~(i <= n)
           /\ generation - Peeled(scopes[d]) = Base + n
           /\ n > 0 => Base + n = IF scopes[d] < generation THEN scopes[d] ELSE generation
<1>1. /\ Len(items) \in Nat /\ generation \in Nat /\ Base \in Int /\ Base >= 0
      /\ generation = Base + Len(items)
      /\ scopes[d] \in Nat /\ scopes[d] <= generation
  BY QueueFacts
<1> DEFINE mark == scopes[d]
           len == Len(items)
           p == Peeled(mark)
<1>2. /\ p = IF generation <= mark THEN 0
             ELSE IF generation - mark < len THEN generation - mark ELSE len
      /\ mark \in Nat /\ mark <= generation /\ len \in Nat /\ n = len - p
      /\ generation = Base + len
  BY <1>1 DEF Peeled
<1> DEFINE base == Base
<1>3. base \in Nat /\ mark \in Nat /\ len \in Nat /\ generation = base + len
  BY <1>1
<1> HIDE DEF mark, len, p, base
<1>7. p \in Nat /\ n \in Int /\ p <= len
  BY <1>2, <1>3
<1>8. \/ p = base + len - mark /\ mark >= base /\ n = mark - base
      \/ p = len /\ n = 0 /\ mark <= base
  BY <1>2, <1>3
<1>4. n \in 0..len /\ (n > 0 => base + n <= mark) /\ generation - p = base + n
  <2>1. CASE p = base + len - mark /\ mark >= base /\ n = mark - base
    <3>1. mark <= base + len
      BY <1>2, <1>3
    <3> QED
      BY <1>3, <2>1, <3>1
  <2>2. CASE p = len /\ n = 0 /\ mark <= base
    BY <1>3, <2>2
  <2> QED
    BY <1>8, <2>1, <2>2
<1>5. \A i \in 1..len : mark < base + i <=> ~(i <= n)
  BY <1>3, <1>8
<1>6. n > 0 => base + n = IF mark < generation THEN mark ELSE generation
  BY <1>2, <1>3, <1>8
<1> QED
  BY <1>4, <1>5, <1>6 DEF mark, len, p, base

(* A rollback to an open mark undoes the scopes from there and no other.   *)
LEMMA UndoIsUndo ==
    ASSUME IInv, ~overflowed, NEW d \in DOMAIN scopes, Undo(d)
    PROVE  d \in 1..Len(scopes) /\ Abstract!Undo(d)
<1> DEFINE n == Len(items) - Peeled(scopes[d])
           kept == SubSeq(items, 1, n)
<1>1. /\ items \in Seq(Items) /\ Len(items) \in Nat /\ generation \in Nat
      /\ Base \in Int /\ generation = Base + Len(items)
      /\ scopes \in Seq(Nat) /\ Nested(scopes) /\ Len(scopes) \in Nat
      /\ Queue = Scoped(items, scopes, Base)
      /\ Len(Queue) = Len(items) /\ DOMAIN Queue = 1..Len(items)
      /\ d \in 1..Len(scopes)
  BY QueueFacts
<1>2. /\ n \in 0..Len(items) /\ (n > 0 => Base + n <= scopes[d])
      /\ \A i \in 1..Len(items) : scopes[d] < Base + i <=> ~(i <= n)
      /\ generation - Peeled(scopes[d]) = Base + n
      /\ n > 0 => Base + n = IF scopes[d] < generation THEN scopes[d] ELSE generation
  BY <1>1, CutFalls
<1>3. /\ items' = kept /\ scopes' = SubSeq(scopes, 1, d)
      /\ generation' \in {IF scopes[d] < generation THEN scopes[d] ELSE generation,
                          generation - Peeled(scopes[d])}
  BY DEF Undo, RollbackTo, DrainSince
<1>4. ret' \in {Unit, Answer("drained", SubSeq(items, n + 1, Len(items)))}
  BY DEF Undo, RollbackTo, DrainSince
<1> HIDE DEF n
<1>5. kept \in Seq(Items) /\ Len(kept) = n
  BY <1>1, <1>2, PrefixFacts
<1>6. Scoped(kept, SubSeq(scopes, 1, d), Base) = SubSeq(Queue, 1, n)
  BY <1>1, <1>2, ScopedCut
<1>7. Queue' = SubSeq(Queue, 1, n)
  <2>1. CASE n = 0
    <3>1. kept = <<>>
      BY <1>5, <2>1, EmptySeq
    <3>2. \A marks, base : Scoped(<<>>, marks, base) = <<>>
      BY DEF Scoped
    <3>3. Queue' = <<>>
      BY <1>3, <3>1, <3>2, QueueThen
    <3> QED
      BY <1>6, <3>1, <3>2, <3>3
  <2>2. CASE n > 0
    <3>1. generation' - Len(items') = Base
      BY <1>1, <1>2, <1>3, <1>5, <2>2
    <3> QED
      BY <1>3, <1>6, <3>1, QueueThen
  <2> QED
    BY <1>1, <1>2, <2>1, <2>2
<1>8. Len(scopes') = d
  <2>1. d \in 0..Len(scopes)
    BY <1>1
  <2> QED
    BY <1>1, <1>3, <2>1, PrefixFacts
<1>9. \A i \in 1..Len(items) : Queue[i].scope < d <=> i <= n
  <2> SUFFICES ASSUME NEW i \in 1..Len(items) PROVE Queue[i].scope < d <=> i <= n
    OBVIOUS
  <2>1. Base + i \in Int
    BY <1>1
  <2>2. Queue[i].scope = Count(scopes, Base + i)
    BY <1>1 DEF Scoped, EntryOf
  <2>3. /\ Count(scopes, Base + i) \in 0..Len(scopes)
        /\ scopes[d] < Base + i <=> d <= Count(scopes, Base + i)
    BY <1>1, <2>1, CountFacts
  <2>4. scopes[d] < Base + i <=> ~(i <= n)
    BY <1>2
  <2>5. Count(scopes, Base + i) < d <=> ~(d <= Count(scopes, Base + i))
    BY <1>1, <2>3
  <2> QED
    BY <2>2, <2>3, <2>4, <2>5
<1>10. SubSeq(items, n + 1, Len(items)) = Abstract!ItemsOf(SubSeq(Queue, n + 1, Len(Queue)))
  <2>1. SubSeq(items, n + 1, Len(items)) = ItemsIn(SubSeq(Queue, n + 1, Len(Queue)))
    BY <1>1, <1>2, ScopedRest
  <2>2. \A q : ItemsIn(q) = Abstract!ItemsOf(q)
    BY DEF ItemsIn, Abstract!ItemsOf
  <2> QED
    BY <2>1, <2>2
<1>11. n \in 0..Len(Queue)
  BY <1>1, <1>2
<1>12. ret' \in {Abstract!Unit,
                 Abstract!Answer("drained",
                                 Abstract!ItemsOf(SubSeq(Queue, n + 1, Len(Queue))))}
  BY <1>4, <1>10 DEF Abstract!Unit, Abstract!Answer, Unit, Answer
<1>13. \A i \in DOMAIN Queue : Queue[i].scope < d <=> i <= n
  BY <1>1, <1>9
<1>14. Abstract!Undo(d)
  <2> SUFFICES \E m \in 0..Len(Queue) :
                  /\ \A i \in DOMAIN Queue : Queue[i].scope < d <=> i <= m
                  /\ Queue' = SubSeq(Queue, 1, m)
                  /\ Len(scopes') = d
                  /\ ret' \in {Abstract!Unit,
                               Abstract!Answer("drained",
                                   Abstract!ItemsOf(SubSeq(Queue, m + 1, Len(Queue))))}
    BY DEF Abstract!Undo, Queue
  <2> QED
    BY <1>7, <1>8, <1>11, <1>12, <1>13
<1> QED
  BY <1>1, <1>14

(* A mark beyond every push peels nothing off.                             *)
LEMMA OvershootIsOvershoot ==
    ASSUME IInv, ~overflowed, Overshoot
    PROVE  Abstract!Overshoot
<1>1. items \in Seq(Items) /\ Len(items) \in Nat /\ generation \in Nat
  BY QueueFacts
<1>2. Peeled(generation + 1) = 0 /\ ~(generation + 1 < generation)
  BY <1>1 DEF Peeled
<1>3. Len(items) - 0 = Len(items) /\ generation - 0 = generation /\ Len(items) \in 0..Len(items)
  BY <1>1
<1>4. SubSeq(items, 1, Len(items)) = items
  BY <1>1, <1>3, CutIsPrefix
<1>5. SubSeq(items, Len(items) + 1, Len(items)) = <<>>
  BY <1>1, SubSeqEmpty
<1>6. UNCHANGED <<items, generation, scopes>>
  BY <1>2, <1>3, <1>4 DEF Overshoot, RollbackTo, DrainSince
<1>7. ret' \in {Unit, Answer("drained", <<>>)}
  BY <1>2, <1>3, <1>5 DEF Overshoot, RollbackTo, DrainSince
<1>8. Queue' = Queue
  BY <1>6, QueueIsScoped, QueueThen
<1> QED
  BY <1>6, <1>7, <1>8
     DEF Abstract!Overshoot, Abstract!Unit, Abstract!Answer, Unit, Answer, Queue

(* An empty deque is an empty queue.                                       *)
LEMMA EmptyQueue == items' = <<>> => Queue' = <<>>
<1>1. \A marks, base : Scoped(<<>>, marks, base) = <<>>
  BY DEF Scoped
<1> QED
  BY <1>1, QueueThen

(* A clear is a clear,                                                     *)
LEMMA ClearIsClear == ASSUME Clear PROVE Abstract!Clear
<1>1. items' = <<>> /\ scopes' = <<>> /\ ret' = Unit /\ Len(<<>>) = 0
  BY DEF Clear
<1>2. Queue' = <<>>
  BY <1>1, EmptyQueue
<1> QED
  BY <1>1, <1>2 DEF Abstract!Clear, Abstract!Unit, Abstract!Answer, Unit, Answer, Queue

(* also when a Drop cuts it short.                                         *)
LEMMA ClearUnwindsIsClearUnwinds == ASSUME ClearUnwinds PROVE Abstract!ClearUnwinds
<1>1. items' = <<>> /\ scopes' = scopes /\ ret' = Answer("panicked", <<>>)
  BY DEF ClearUnwinds
<1>2. Queue' = <<>>
  BY <1>1, EmptyQueue
<1> QED
  BY <1>1, <1>2 DEF Abstract!ClearUnwinds, Abstract!Answer, Answer, Queue

(* A mark that is taken enters a scope;                                    *)
LEMMA EnterIsEnter ==
    ASSUME IInv, ~overflowed, Enter
    PROVE  Abstract!Enter
<1>1. /\ items \in Seq(Items) /\ Len(items) \in Nat /\ generation \in Nat
      /\ Base \in Int /\ generation = Base + Len(items)
      /\ scopes \in Seq(Nat) /\ Nested(scopes)
      /\ Queue = Scoped(items, scopes, Base)
  BY QueueFacts
<1>2. scopes' = Append(scopes, generation) /\ UNCHANGED <<items, generation, ret>>
  BY DEF Enter
<1>3. Queue' = Scoped(items, Append(scopes, generation), Base)
  BY <1>2, QueueThen DEF Base
<1>4. Base + Len(items) <= generation
  BY <1>1
<1>5. Queue' = Queue
  BY <1>1, <1>3, <1>4, ScopedEnter
<1>6. Len(scopes') = Len(scopes) + 1
  BY <1>1, <1>2, AppendFacts
<1> QED
  BY <1>2, <1>5, <1>6 DEF Abstract!Enter, Queue

(* one that is forgotten commits it.                                       *)
LEMMA CommitIsCommit ==
    ASSUME IInv, ~overflowed, Commit
    PROVE  Abstract!Commit
<1>1. /\ items \in Seq(Items) /\ Base \in Int
      /\ scopes \in Seq(Nat) /\ Nested(scopes) /\ Len(scopes) \in Nat
      /\ Queue = Scoped(items, scopes, Base)
  BY QueueFacts
<1>2. /\ scopes # <<>> /\ scopes' = SubSeq(scopes, 1, Len(scopes) - 1)
      /\ UNCHANGED <<items, generation, ret>>
  BY DEF Commit, Front
<1>3. Len(scopes) > 0 /\ Len(scopes) - 1 \in 0..Len(scopes)
  <2>1. Len(scopes) # 0
    BY <1>1, <1>2, EmptySeq
  <2> QED
    BY <1>1, <2>1
<1>4. Len(scopes') = Len(scopes) - 1
  BY <1>1, <1>2, <1>3, PrefixFacts
<1>5. Queue' = Scoped(items, SubSeq(scopes, 1, Len(scopes) - 1), Base)
  BY <1>2, QueueThen DEF Base
<1>6. Queue' = [i \in DOMAIN Queue |->
                   EntryOf(Queue[i].item, IF Queue[i].scope = Len(scopes)
                                          THEN Len(scopes) - 1 ELSE Queue[i].scope)]
  BY <1>1, <1>2, <1>5, ScopedCommit
<1> QED
  BY <1>2, <1>3, <1>4, <1>6 DEF Abstract!Commit, Abstract!Entry, EntryOf, Queue

-----------------------------------------------------------------------------
(* The initial states are those of the abstract queue.                     *)
LEMMA InitIsInit == Init => Abstract!Init
<1> SUFFICES ASSUME Init PROVE Abstract!Init
  OBVIOUS
<1>1. /\ items = <<>> /\ scopes = <<>> /\ ret = Unit /\ Len(<<>>) = 0
      /\ overflowed = FALSE /\ slipped = FALSE
  BY DEF Init
<1>2. (overflowed \/ slipped) = FALSE
  BY <1>1, Zenon
<1>3. \A marks, base : Scoped(<<>>, marks, base) = <<>>
  BY DEF Scoped
<1>4. Queue = <<>>
  BY <1>1, <1>3, QueueIsScoped
<1> QED
  BY <1>1, <1>2, <1>4 DEF Abstract!Init, Abstract!Unit, Abstract!Answer, Unit, Answer, Queue

(* A step that finds and leaves the count right is one of the queue's.     *)
Strayed == overflowed \/ slipped

(* Until the counter overflows or slips, each call is the abstract call.   *)
LEMMA LawfulStep ==
    ASSUME IInv, Next, ~overflowed, ~Clear, ~Strayed'
    PROVE  \/ \E x \in Items : Abstract!Push(x)
           \/ Abstract!Pull \/ Abstract!ReadFirst \/ Abstract!Enter \/ Abstract!Commit
           \/ \E d \in 1..Len(scopes) : Abstract!Undo(d)
           \/ Abstract!Overshoot \/ Abstract!ClearUnwinds
<1>1. ASSUME NEW x \in Items, PushOverflows(x) PROVE Strayed'
  BY <1>1, Zenon DEF PushOverflows, Strayed
<1>2. ASSUME NEW d \in DOMAIN scopes, RollbackUnwinds(d) PROVE Strayed'
  BY <1>2, Zenon DEF RollbackUnwinds, Strayed
<1>3. CASE \E x \in Items : Push(x)
  BY <1>3, PushIsPush
<1>4. CASE Pull
  BY <1>4, PullIsPull
<1>5. CASE ReadFirst
  BY <1>5, ReadFirstIsReadFirst
<1>6. CASE \E d \in DOMAIN scopes : Undo(d)
  BY <1>6, UndoIsUndo
<1>7. CASE Overshoot
  BY <1>7, OvershootIsOvershoot
<1>8. CASE ClearUnwinds
  BY <1>8, ClearUnwindsIsClearUnwinds
<1>9. CASE Enter
  BY <1>9, EnterIsEnter
<1>10. CASE Commit
  BY <1>10, CommitIsCommit
<1> QED
  BY <1>1, <1>2, <1>3, <1>4, <1>5, <1>6, <1>7, <1>8, <1>9, <1>10, Zenon DEF Next

(* After that the abstract queue is astray; a step is one of it or a       *)
(* stutter.                                                                *)
LEMMA StepIsStep == ASSUME IInv, [Next]_vars PROVE [Abstract!Next]_(Abstract!vars)
<1>1. CASE UNCHANGED vars
  <2>1. UNCHANGED <<items, generation, scopes, ret, overflowed, slipped>>
    BY <1>1, Zenon DEF vars
  <2>2. Queue' = Queue
    BY <2>1, QueueIsScoped, QueueThen
  <2>3. UNCHANGED Strayed
    BY <2>1, Zenon DEF Strayed
  <2> QED
    BY <2>1, <2>2, <2>3, Zenon DEF Abstract!vars, Queue, Strayed
<1>2. CASE Clear
  <2>1. Strayed' = FALSE
    BY <1>2, Zenon DEF Clear, Strayed
  <2> QED
    BY <1>2, <2>1, ClearIsClear, Zenon DEF Abstract!Next, Strayed
<1>3. CASE Strayed'
  <2>1. Strayed' = TRUE
    BY <1>3, Zenon DEF Strayed
  <2> QED
    BY <2>1, Zenon DEF Abstract!Next, Strayed
<1>4. CASE Next /\ ~Clear /\ ~Strayed'
  <2>1. ~Strayed
    <3>1. ASSUME overflowed \/ slipped PROVE FALSE
      <4>1. ASSUME NEW x \in Items, Push(x) \/ PushOverflows(x) PROVE Strayed'
        BY <3>1, <4>1, Zenon DEF Push, PushOverflows, history, Strayed
      <4>2. ASSUME NEW d \in DOMAIN scopes, Undo(d) \/ RollbackUnwinds(d) PROVE Strayed'
        BY <3>1, <4>2, Zenon DEF Undo, RollbackTo, DrainSince, RollbackUnwinds, history, Strayed
      <4>3. CASE Overshoot
        <5>1. UNCHANGED history
          BY <4>3, Zenon DEF Overshoot, RollbackTo, DrainSince
        <5>2. overflowed' = overflowed /\ slipped' = slipped
          BY <5>1 DEF history
        <5> QED
          BY <1>4, <3>1, <5>2, Zenon DEF Strayed
      <4>4. CASE Pull \/ ReadFirst \/ ClearUnwinds \/ Enter \/ Commit
        BY <1>4, <3>1, <4>4, Zenon DEF Pull, ReadFirst, ClearUnwinds, Enter, Commit, history, Strayed
      <4> QED
        BY <1>4, <4>1, <4>2, <4>3, <4>4, Zenon DEF Next
    <3> QED
      BY <3>1, Zenon DEF Strayed
  <2>2. Strayed = FALSE /\ Strayed' = Strayed /\ ~overflowed
    BY <1>4, <2>1, Zenon DEF Strayed
  <2>3. \/ \E x \in Items : Abstract!Push(x)
        \/ Abstract!Pull \/ Abstract!ReadFirst \/ Abstract!Enter \/ Abstract!Commit
        \/ \E d \in 1..Len(scopes) : Abstract!Undo(d)
        \/ Abstract!Overshoot \/ Abstract!ClearUnwinds
    BY <1>4, <2>2, LawfulStep
  <2> QED
    BY <2>2, <2>3, Zenon DEF Abstract!Next, Strayed
<1> QED
  BY <1>1, <1>2, <1>3, <1>4, Zenon

(* Until the counter overflows or a Drop panics inside rollback_to, and    *)
(* again after a clear, the deque and its counter are a queue of scoped    *)
(* items: rolling a scope back takes out its items and those of the scopes *)
(* inside it, whatever was pulled meanwhile.                               *)
THEOREM DequeIsAScopedQueue == Spec => ImplementsScopedQueue
  BY InitIsInit, StepIsStep, AlwaysIInv, PTL DEF Spec, ImplementsScopedQueue, Abstract!Spec
=============================================================================
