----------------------------- MODULE ScopedStack -----------------------------
(***************************************************************************)
(* What a scoped LIFO log promises (the ScopedStack trait of               *)
(* primitives/scoped_log.rs), in the form VecScopedStack gives it          *)
(* (portable-queues, src/vec_scoped_stack.rs): the log is a sequence, and  *)
(* drain_since cuts its end off at once and hands it out, newest first,    *)
(* through an iterator that borrows the stack until it is dropped.  An     *)
(* item's Drop may panic inside a rollback: then some of the entries being *)
(* removed may be left behind as None.                                     *)
(***************************************************************************)
EXTENDS Naturals, SequencesExt

CONSTANTS Items, None

VARIABLES log,        \* the logged items, oldest first
          draining,   \* whether an iterator of drain_since is alive
          pending,    \* what that iterator has still to yield
          ret         \* what the last call returned

vars == <<log, draining, pending, ret>>

-----------------------------------------------------------------------------
Answer(tag, x) == [tag |-> tag, item |-> x]
Unit == Answer("unit", None)

Init == log = <<>> /\ draining = FALSE /\ pending = <<>> /\ ret = Unit

Push(x) ==
    /\ log' = Append(log, x)
    /\ ret' = Answer("pushed", x)
    /\ UNCHANGED pending

(* A stack of fixed capacity may turn a push down, never change for it.    *)
TurnDown(x) == ret' = Answer("full", x) /\ UNCHANGED <<log, pending>>

Pop ==
    /\ \/ log = <<>> /\ ret' = Answer("pop", None) /\ UNCHANGED log
       \/ log # <<>> /\ ret' = Answer("pop", Last(log)) /\ log' = Front(log)
    /\ UNCHANGED pending

ReadLast ==
    /\ ret' = Answer("last", IF log = <<>> THEN None ELSE Last(log))
    /\ UNCHANGED <<log, pending>>

(* rollback_to, and clear: the end of the log is gone.                     *)
RollBack ==
    /\ \E n \in 0..Len(log) : log' = SubSeq(log, 1, n)
    /\ ret' = Unit
    /\ UNCHANGED pending

(* A call that unwinds: entries of one stretch are hollow, or nothing      *)
(* happened.                                                               *)
Unwind ==
    /\ \E n, i \in 0..Len(log) :
          log' = [j \in DOMAIN log |-> IF n < j /\ j <= i THEN None ELSE log[j]]
    /\ ret' = Answer("unwound", None)
    /\ UNCHANGED pending

DrainSince ==
    /\ \E n \in 0..Len(log) :
          /\ log' = SubSeq(log, 1, n)
          /\ pending' = Reverse(SubSeq(log, n + 1, Len(log)))
    /\ ret' = Unit

Yield ==
    /\ \/ pending = <<>> /\ ret' = Answer("yield", None) /\ UNCHANGED pending
       \/ pending # <<>> /\ ret' = Answer("yield", Head(pending)) /\ pending' = Tail(pending)
    /\ UNCHANGED log

EndDrain ==
    /\ pending' = <<>>
    /\ ret' = Unit
    /\ UNCHANGED log

Next ==
    \/ /\ ~draining /\ draining' = FALSE
       /\ \/ \E x \in Items : Push(x) \/ TurnDown(x)
          \/ Pop \/ ReadLast \/ RollBack \/ Unwind
    \/ ~draining /\ draining' = TRUE /\ DrainSince
    \/ draining /\ draining' = TRUE /\ Yield
    \/ draining /\ draining' = FALSE /\ EndDrain

Spec == Init /\ [][Next]_vars
=============================================================================
