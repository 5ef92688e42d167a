----------------------------- MODULE ScopedQueue -----------------------------
(***************************************************************************)
(* What a scoped FIFO log promises (the ScopedQueue trait of               *)
(* primitives/scoped_log.rs and the doc of DequeScopedQueue): every item   *)
(* belongs to the scope it was pushed in, and rolling a scope back takes   *)
(* out of the queue the items of that scope and of those inside it, no     *)
(* others, whatever was pulled meanwhile.                                  *)
(*                                                                         *)
(* astray is raised by a call that spoils the count of pushes: from then   *)
(* on nothing is promised, until a clear.                                  *)
(***************************************************************************)
EXTENDS Naturals, SequencesExt

CONSTANT Items

VARIABLES queue,       \* the items, oldest first, each with its scope
          depth,       \* how many scopes are open; 0 is outside all of them
          ret,         \* what the last call returned
          astray

vars == <<queue, depth, ret, astray>>

-----------------------------------------------------------------------------
Entry(x, d) == [item |-> x, scope |-> d]
ItemsOf(q) == [i \in DOMAIN q |-> q[i].item]

Answer(tag, items) == [tag |-> tag, items |-> items]
Unit == Answer("unit", <<>>)

First == IF queue = <<>> THEN <<>> ELSE <<Head(queue).item>>

Init == queue = <<>> /\ depth = 0 /\ ret = Unit /\ astray = FALSE

Push(x) ==
    /\ queue' = Append(queue, Entry(x, depth))
    /\ ret' = Unit
    /\ UNCHANGED depth

Pull ==
    /\ ret' = Answer("pull", First)
    /\ queue' = IF queue = <<>> THEN <<>> ELSE Tail(queue)
    /\ UNCHANGED depth

ReadFirst ==
    /\ ret' = Answer("first", First)
    /\ UNCHANGED <<queue, depth>>

Enter == depth' = depth + 1 /\ UNCHANGED <<queue, ret>>

(* The innermost scope is kept: its items now belong to the one around it. *)
Commit ==
    /\ depth > 0
    /\ depth' = depth - 1
    /\ queue' = [i \in DOMAIN queue |->
                    Entry(queue[i].item, IF queue[i].scope = depth THEN depth - 1
                                                                   ELSE queue[i].scope)]
    /\ UNCHANGED ret

(* Scope d is undone, silently or handing out its items in push order: the *)
(* first n items are older than d, all after them were pushed in d or in   *)
(* the scopes inside it.  The mark of d stays good, those inside do not.   *)
Undo(d) ==
    \E n \in 0..Len(queue) :
       /\ \A i \in DOMAIN queue : queue[i].scope < d <=> i <= n
       /\ queue' = SubSeq(queue, 1, n)
       /\ depth' = d
       /\ ret' \in {Unit, Answer("drained", ItemsOf(SubSeq(queue, n + 1, Len(queue))))}

(* A mark beyond every push changes nothing.                               *)
Overshoot ==
    /\ ret' \in {Unit, Answer("drained", <<>>)}
    /\ UNCHANGED <<queue, depth>>

Clear == queue' = <<>> /\ depth' = 0 /\ ret' = Unit

(* Every item is gone, but the caller's scopes are still open.             *)
ClearUnwinds == queue' = <<>> /\ ret' = Answer("panicked", <<>>) /\ UNCHANGED depth

Next ==
    \/ /\ astray = FALSE /\ UNCHANGED astray
       /\ \/ \E x \in Items : Push(x)
          \/ Pull \/ ReadFirst \/ Enter \/ Commit
          \/ \E d \in 1..depth : Undo(d)
          \/ Overshoot \/ ClearUnwinds
    \/ Clear /\ astray' = FALSE
    \/ astray' = TRUE

Spec == Init /\ [][Next]_vars
=============================================================================
