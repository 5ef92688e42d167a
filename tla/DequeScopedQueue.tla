-------------------------- MODULE DequeScopedQueue --------------------------
(***************************************************************************)
(* DequeScopedQueue of portable-queues (src/deque_scoped_queue.rs): items  *)
(* are pushed at the back of a deque and pulled at its front, and a        *)
(* checkpoint is the number of pushes so far, which pulls do not lower.    *)
(* rollback_to pops the difference off the back, as far as it goes.        *)
(*                                                                         *)
(* The caller keeps its checkpoints on a stack of scopes.  The counter is  *)
(* a usize of GenSize values and never comes down by pulling: a queue that *)
(* lives long enough overflows it.                                         *)
(*                                                                         *)
(* Dropping an item runs the caller's code and may panic.  rollback_to has *)
(* then popped an item it does not count down; VecDeque's own clear and    *)
(* Drain go on dropping the rest.                                          *)
(***************************************************************************)
EXTENDS Naturals, SequencesExt, FiniteSets

CONSTANTS Items,
          GenSize,          \* usize::MAX + 1
          OverflowChecks,   \* the build profiles: with overflow checks or not
          MaxItems,         \* bound: items in the queue
          MaxDepth          \* bound: scopes open at once

ASSUME GenAssumption == GenSize \in Nat \ {0} /\ OverflowChecks \subseteq BOOLEAN

VARIABLES items,        \* VecDeque<T>, front first
          generation,   \* usize
          scopes,       \* the open scopes' checkpoints, outermost first
          ret,          \* what the last call returned
          overflowed,   \* history: generation += 1 overflowed
          slipped       \* history: an item was popped and not counted down

vars == <<items, generation, scopes, ret, overflowed, slipped>>
history == <<overflowed, slipped>>

(* The scope an item was pushed in, read off the counter.                  *)
ScopeOf(i) ==
    Cardinality({d \in DOMAIN scopes : scopes[d] < generation - Len(items) + i})

Abstract == INSTANCE ScopedQueue
              WITH queue <- [i \in DOMAIN items |-> [item |-> items[i], scope |-> ScopeOf(i)]],
                   depth <- Len(scopes),
                   astray <- overflowed \/ slipped

-----------------------------------------------------------------------------
Answer(tag, its) == [tag |-> tag, items |-> its]
Unit == Answer("unit", <<>>)

(* front(), as an option.                                                  *)
First == IF items = <<>> THEN <<>> ELSE <<Head(items)>>

Init ==
    /\ items = <<>> /\ generation = 0
    /\ scopes = <<>>
    /\ ret = Unit
    /\ overflowed = FALSE /\ slipped = FALSE

(* push: the item goes to the back, then the counter goes up.              *)
Push(x) ==
    /\ Len(items) < MaxItems
    /\ generation + 1 < GenSize
    /\ items' = Append(items, x)
    /\ generation' = generation + 1
    /\ ret' = Unit
    /\ UNCHANGED <<scopes, history>>

(* The item is in when the counter overflows: the call panics and leaves   *)
(* the counter, or the counter wraps.                                      *)
PushOverflows(x) ==
    /\ Len(items) < MaxItems
    /\ generation + 1 = GenSize
    /\ items' = Append(items, x)
    /\ \/ /\ TRUE \in OverflowChecks
          /\ ret' = Answer("panicked", <<>>)
          /\ UNCHANGED generation
       \/ /\ FALSE \in OverflowChecks
          /\ ret' = Unit
          /\ generation' = 0
    /\ overflowed' = TRUE
    /\ UNCHANGED <<scopes, slipped>>

(* Mutant: pulling lowers the counter.                                     *)
Pull_LowersGeneration ==
    /\ ret' = Answer("pull", First)
    /\ items' = SubSeq(items, 2, Len(items))
    /\ generation' = IF items = <<>> THEN generation ELSE generation - 1
    /\ UNCHANGED <<scopes, history>>

(* pop_front, of an empty queue None.                                      *)
Pull ==
    /\ ret' = Answer("pull", First)
    /\ items' = SubSeq(items, 2, Len(items))
    /\ UNCHANGED <<generation, scopes, history>>

ReadFirst ==
    /\ ret' = Answer("first", First)
    /\ UNCHANGED <<items, generation, scopes, history>>

(* Mutant: the difference wraps instead of saturating.                     *)
Peeled_Wrapping(n) ==
    LET pushes == (generation - n) % GenSize
    IN  IF pushes < Len(items) THEN pushes ELSE Len(items)

(* The number of pushes after a mark that are still in the queue.          *)
Peeled(n) ==
    IF generation <= n THEN 0
    ELSE IF generation - n < Len(items) THEN generation - n ELSE Len(items)

(* Pop the back until the counter is down at n, or the queue is empty and  *)
(* the counter is set to n.                                                *)
RollbackTo(n) ==
    /\ items' = SubSeq(items, 1, Len(items) - Peeled(n))
    /\ generation' = IF n < generation THEN n ELSE generation
    /\ ret' = Unit
    /\ UNCHANGED history

(* Mutant: the counter is set to the mark even when less is peeled off.    *)
DrainSince_KeepsGeneration(n) ==
    /\ ret' = Answer("drained", SubSeq(items, Len(items) - Peeled(n) + 1, Len(items)))
    /\ items' = SubSeq(items, 1, Len(items) - Peeled(n))
    /\ UNCHANGED <<generation, history>>

(* The same items, handed out in push order; the counter comes down by     *)
(* their number only.  The iterator is a VecDeque's: what its caller does  *)
(* not take is dropped with it.                                            *)
DrainSince(n) ==
    /\ ret' = Answer("drained", SubSeq(items, Len(items) - Peeled(n) + 1, Len(items)))
    /\ items' = SubSeq(items, 1, Len(items) - Peeled(n))
    /\ generation' = generation - Peeled(n)
    /\ UNCHANGED history

(* Rolling back to an open scope's mark ends the scopes inside it.         *)
Undo(d) ==
    /\ RollbackTo(scopes[d]) \/ DrainSince(scopes[d])
    /\ scopes' = SubSeq(scopes, 1, d)

(* An item's Drop panics in rollback_to, after pop_back and before the     *)
(* counter comes down for it.                                              *)
RollbackUnwinds(d) ==
    /\ \E k \in 1..Peeled(scopes[d]) :
          /\ items' = SubSeq(items, 1, Len(items) - k)
          /\ generation' = generation - (k - 1)
    /\ scopes' = SubSeq(scopes, 1, d)
    /\ ret' = Answer("panicked", <<>>)
    /\ slipped' = TRUE
    /\ UNCHANGED overflowed

(* A mark beyond every push, taken from another collection; marks are of   *)
(* the counter's own type.                                                 *)
Overshoot ==
    /\ generation + 1 < GenSize
    /\ RollbackTo(generation + 1) \/ DrainSince(generation + 1)
    /\ UNCHANGED scopes

(* clear also resets the counter: the caller's marks mean nothing more,    *)
(* and whatever went wrong with the count before is over.                  *)
Clear ==
    /\ items' = <<>> /\ generation' = 0
    /\ scopes' = <<>>
    /\ ret' = Unit
    /\ overflowed' = FALSE /\ slipped' = FALSE

(* An item's Drop panics inside items.clear(): every item is gone, and the *)
(* counter is not reset.                                                   *)
ClearUnwinds ==
    /\ items # <<>> /\ items' = <<>>
    /\ ret' = Answer("panicked", <<>>)
    /\ UNCHANGED <<generation, scopes, history>>

(* checkpoint, kept on the scope stack.                                    *)
Enter ==
    /\ Len(scopes) < MaxDepth
    /\ scopes' = Append(scopes, generation)
    /\ UNCHANGED <<items, generation, ret, history>>

(* The innermost scope's mark is dropped, its pushes stay.                 *)
Commit ==
    /\ scopes # <<>>
    /\ scopes' = Front(scopes)
    /\ UNCHANGED <<items, generation, ret, history>>

-----------------------------------------------------------------------------
Next ==
    \/ \E x \in Items : Push(x) \/ PushOverflows(x)
    \/ Pull
    \/ ReadFirst
    \/ \E d \in DOMAIN scopes : Undo(d) \/ RollbackUnwinds(d)
    \/ Overshoot
    \/ Clear \/ ClearUnwinds
    \/ Enter
    \/ Commit

Spec == Init /\ [][Next]_vars

-----------------------------------------------------------------------------
(* The counter is a usize, and so are the marks.  Once it has overflowed,  *)
(* the queue may hold more items than it counts: what rollback_to and      *)
(* drain_since take off then must not bring it below zero, for drain_since *)
(* subtracts without a test.                                               *)
TypeOK ==
    /\ items \in Seq(Items)
    /\ generation \in 0..(GenSize - 1)
    /\ scopes \in Seq(0..(GenSize - 1))
    /\ ret \in [tag : {"unit", "panicked", "pull", "first", "drained"}, items : Seq(Items)]
    /\ overflowed \in BOOLEAN /\ slipped \in BOOLEAN

(* Until it overflows, the counter never falls behind the items in the     *)
(* queue or an open scope's mark, and the marks are nested as the scopes   *)
(* are: checkpoint never hands out a mark below an outer one, and a Drop   *)
(* that panics leaves the counter too high, never too low.                 *)
CounterCovers ==
    overflowed \/
        /\ Len(items) <= generation
        /\ \A d \in DOMAIN scopes :
              /\ scopes[d] <= generation
              /\ \A e \in 1..d : scopes[e] <= scopes[d]

(* Until it overflows or a Drop panics inside rollback_to, "rollback_to /  *)
(* drain_since undo exactly the pushes made after the mark" (lines 29-30), *)
(* in nested scopes, with pulls in between, after a scope pulled its own   *)
(* items, and again after a clear; what pull, first and drain_since answer *)
(* is what the queue of scoped items answers.                              *)
ImplementsScopedQueue == Abstract!Spec
=============================================================================
