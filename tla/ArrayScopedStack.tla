-------------------------- MODULE ArrayScopedStack --------------------------
(***************************************************************************)
(* ArrayScopedStack of portable-queues (src/array_scoped_stack.rs): the    *)
(* scoped stack without an allocator, N option slots and a length.  A      *)
(* Rust slot i is slot i + 1 here.  drain_since sets the length at once    *)
(* and empties the slots one by one as its iterator is advanced; the       *)
(* iterator borrows the stack, so nothing else runs until the caller drops *)
(* it, which may be before its end.                                        *)
(*                                                                         *)
(* Dropping an item runs the caller's code and may panic.  Rust writes the *)
(* new value of a slot even when dropping the old one unwinds, so a        *)
(* rollback or a clear cut short has emptied the slots up to that item and *)
(* left the length alone, and a push over a leftover item has stored its   *)
(* item and not counted it.                                                *)
(***************************************************************************)
EXTENDS Naturals, FiniteSets, SequencesExt

CONSTANTS Items, None,
          N,          \* the capacity
          MaxMarks    \* bound: marks the caller holds at once

ASSUME NoneAssumption == None \notin Items
ASSUME CapacityAssumption == N \in Nat

VARIABLES slots,      \* [Option<T>; N]
          len,        \* usize
          draining,   \* whether an iterator of drain_since is alive
          cur,        \* that iterator's cursor; its end is len
          marks,      \* the checkpoints the caller holds
          ret,        \* what the last call returned
          holed,      \* history: the lowest entry an unwound call emptied
                      \* and left below the length; N + 1 for none
          left        \* history: slots left above the length by a dropped
                      \* iterator, until an entry or a rollback covers them

vars == <<slots, len, draining, cur, marks, ret, holed, left>>

(* The items a caller can reach, oldest first.                             *)
Log == SubSeq(slots, 1, len)

(* What the iterator has still to yield.                                   *)
Pending == Reverse(SubSeq(slots, len + 1, cur))

Scope == INSTANCE ScopedRollback WITH log <- Log
Abstract == INSTANCE ScopedStack WITH log <- Log, pending <- Pending

-----------------------------------------------------------------------------
Answer(tag, x) == [tag |-> tag, item |-> x]
Unit == Answer("unit", None)
Unwound == Answer("unwound", None)

(* mark.as_len().min(self.len)                                             *)
CutAt(n) == IF n < len THEN n ELSE len

(* for slot in &mut self.items[from..to] { *slot = None }                  *)
Emptied(from, to) == [i \in 1..N |-> IF i \in from + 1 .. to THEN None ELSE slots[i]]

Init ==
    /\ slots = [i \in 1..N |-> None]
    /\ len = 0
    /\ draining = FALSE /\ cur = 0
    /\ marks = {}
    /\ ret = Unit
    /\ holed = N + 1 /\ left = {}

Free == ~draining /\ UNCHANGED <<draining, cur, marks>>

(* The history of a call that leaves the length at l.                      *)
Remember(l) ==
    /\ holed' = IF l < holed THEN N + 1 ELSE holed
    /\ left' = left \ 1..l

(* push panics on a full stack before it changes anything; try_push        *)
(* returns false.                                                          *)
TurnDown(x) ==
    /\ Free
    /\ len = N
    /\ ret' = Answer("full", x)
    /\ UNCHANGED <<slots, len, holed, left>>

(* One item more, written to the slot i when there is one.                 *)
Store(x, i) ==
    /\ Free
    /\ slots' = [j \in 1..N |-> IF j = i THEN x ELSE slots[j]]
    /\ len' = len + 1
    /\ ret' = Answer("pushed", x)
    /\ Remember(len + 1)

(* Mutant: the slot above the new length is written.                       *)
Push_AfterLen(x) == len < N /\ Store(x, IF len + 1 < N THEN len + 2 ELSE N)

(* Mutant: nobody looks at the capacity.                                   *)
Push_NoCeiling(x) == Store(x, len + 1)

(* push and try_push with room left.                                       *)
Push(x) == len < N /\ Store(x, len + 1)

(* Dropping the leftover item that a push overwrites panics.               *)
PushUnwinds(x) ==
    /\ Free
    /\ len < N /\ slots[len + 1] # None
    /\ slots' = [slots EXCEPT ![len + 1] = x]
    /\ ret' = Unwound
    /\ UNCHANGED <<len, holed, left>>

(* Mutant: the top item is copied out of its slot.                         *)
Pop_Copies ==
    /\ Free
    /\ len > 0 /\ len' = len - 1
    /\ ret' = Answer("pop", slots[len])
    /\ Remember(len - 1)
    /\ UNCHANGED slots

(* pop: the length goes down, then the slot is taken.                      *)
Pop ==
    /\ Free
    /\ \/ /\ len = 0
          /\ ret' = Answer("pop", None)
          /\ UNCHANGED <<slots, len, holed, left>>
       \/ /\ len > 0
          /\ len' = len - 1
          /\ slots' = [slots EXCEPT ![len] = None]
          /\ ret' = Answer("pop", slots[len])
          /\ Remember(len - 1)

ReadLast ==
    /\ Free
    /\ ret' = Answer("last", IF len = 0 THEN None ELSE slots[len])
    /\ UNCHANGED <<slots, len, holed, left>>

CutTo(n) ==
    /\ Free
    /\ slots' = Emptied(n, len)
    /\ len' = n
    /\ ret' = Unit
    /\ Remember(n)

(* Mutant: the mark is not checked against the length.                     *)
RollbackTo_Overshoots(n) == n <= N /\ CutTo(n)

RollbackTo(n) == CutTo(CutAt(n))

Clear == CutTo(0)

(* Emptying the slots from n on, an item's Drop panics: slots up to and    *)
(* including its own are empty, the length has not moved.                  *)
CutUnwinds(n) ==
    /\ Free
    /\ \E i \in n + 1 .. len :
          slots[i] # None /\ slots' = Emptied(n, i)
    /\ holed' = IF n + 1 < holed THEN n + 1 ELSE holed
    /\ ret' = Unwound
    /\ UNCHANGED <<len, left>>

(* The iterator of drain_since starts at top.                              *)
StartDrain(n, top) ==
    /\ ~draining /\ draining' = TRUE
    /\ cur' = top
    /\ len' = CutAt(n)
    /\ ret' = Unit
    /\ UNCHANGED <<slots, marks, holed, left>>

(* Mutant: the iterator starts one slot below the top.                     *)
DrainSince_SkipsTop(n) == StartDrain(n, IF CutAt(n) < len THEN len - 1 ELSE len)

(* drain_since: the length is cut up front, the slots are left to the      *)
(* iterator.                                                               *)
DrainSince(n) == StartDrain(n, len)

(* next() of that iterator.                                                *)
DrainNext ==
    /\ draining
    /\ \/ /\ cur > len
          /\ cur' = cur - 1
          /\ slots' = [slots EXCEPT ![cur] = None]
          /\ ret' = Answer("yield", slots[cur])
       \/ /\ cur = len
          /\ ret' = Answer("yield", None)
          /\ UNCHANGED <<slots, cur>>
    /\ UNCHANGED <<len, draining, marks, holed, left>>

(* The caller drops the iterator; the slots it did not reach keep their    *)
(* items.                                                                  *)
DrainDropped ==
    /\ draining /\ draining' = FALSE
    /\ cur' = 0
    /\ ret' = Unit
    /\ holed' = IF len < holed THEN N + 1 ELSE holed
    /\ left' = left \union (len + 1 .. cur)
    /\ UNCHANGED <<slots, len, marks>>

MarksOnly == UNCHANGED <<slots, len, draining, cur, ret, holed, left>>
TakeMark == ~draining /\ MarksOnly /\ Scope!TakeMark
ForgetMark == MarksOnly /\ Scope!ForgetMark

-----------------------------------------------------------------------------
Lengths == 0..(N + 1)    \* every cut, and an overshoot of any of them

Next ==
    \/ \E x \in Items : Push(x) \/ TurnDown(x) \/ PushUnwinds(x)
    \/ Pop
    \/ ReadLast
    \/ \E n \in Lengths : RollbackTo(n) \/ CutUnwinds(n) \/ DrainSince(n)
    \/ Clear
    \/ DrainNext
    \/ DrainDropped
    \/ TakeMark
    \/ ForgetMark

Spec == Init /\ [][Next]_vars

-----------------------------------------------------------------------------
Tags == {"unit", "full", "pushed", "pop", "last", "yield", "unwound"}

(* The length stays within the capacity, the iterator within the slots.    *)
TypeOK ==
    /\ slots \in [1..N -> Items \union {None}]
    /\ len \in 0..N
    /\ draining \in BOOLEAN
    /\ cur \in 0..N
    /\ marks \subseteq [len : Nat, at : Seq(Items \union {None})]
    /\ ret \in [tag : Tags, item : Items \union {None}]
    /\ holed \in 1..(N + 1)
    /\ left \subseteq 1..N

(* Whatever slots an abandoned iterator left behind, those below the       *)
(* length, and those it has still to yield, all hold an item: pop, last    *)
(* and next never answer None for an entry that exists.  A Drop that       *)
(* panicked spoils the entries from its rollback's mark on and none below, *)
(* and once the length is back at that mark nothing of it is left.         *)
ReachableSlotsFilled ==
    \A i \in 1..N : (i <= len \/ (draining /\ i <= cur)) /\ i < holed => slots[i] # None

(* Items are released when they leave the log: a slot nobody can reach     *)
(* holds one only where an iterator was dropped before it got there, and   *)
(* clear, which stops at the length, does not release those.               *)
ReleasedUnlessAbandoned ==
    \A i \in 1..N : slots[i] # None => i <= len \/ (draining /\ i <= cur) \/ i \in left

(* rollback_to and its yielding twin keep the contract's laws for every    *)
(* mark the caller holds, after pops below it, pushes over it and          *)
(* abandoned iterators.                                                    *)
RollbackRestores ==
    [][\A m \in marks :
          RollbackTo(m.len) \/ DrainSince(m.len) => Scope!Laws(m)]_vars

(* The array cannot be told from a sequence: every pop, last and drained   *)
(* item is the one VecScopedStack would answer, newest first.              *)
ImplementsScopedStack == Abstract!Spec
=============================================================================
