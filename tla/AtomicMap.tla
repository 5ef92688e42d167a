------------------------------ MODULE AtomicMap ------------------------------
(***************************************************************************)
(* What a concurrent map promises its writers: every insert takes effect   *)
(* at one moment between its call and its return, and whoever reads the    *)
(* map reads what the last such moment left.  A call that panics has had   *)
(* no effect.                                                              *)
(***************************************************************************)
CONSTANTS Threads, Keys, Values, NoValue

VARIABLES map,     \* what a read of each key finds
          calls    \* the insert each thread is in

vars == <<map, calls>>

NoCall == [stage |-> "none"]
CallOf(k, v, stage) == [stage |-> stage, key |-> k, value |-> v]

Init == map = [k \in Keys |-> NoValue] /\ calls = [t \in Threads |-> NoCall]

Invoke(t, k, v) ==
    /\ calls[t] = NoCall
    /\ calls' = [calls EXCEPT ![t] = CallOf(k, v, "called")]
    /\ UNCHANGED map

TakeEffect(t) ==
    /\ calls[t].stage = "called"
    /\ map' = [map EXCEPT ![calls[t].key] = calls[t].value]
    /\ calls' = [calls EXCEPT ![t].stage = "done"]

GiveUp(t) ==
    /\ calls[t].stage = "called"
    /\ calls' = [calls EXCEPT ![t] = NoCall]
    /\ UNCHANGED map

Return(t) ==
    /\ calls[t].stage = "done"
    /\ calls' = [calls EXCEPT ![t] = NoCall]
    /\ UNCHANGED map

Next ==
    \E t \in Threads :
        \/ \E k \in Keys, v \in Values : Invoke(t, k, v)
        \/ TakeEffect(t)
        \/ GiveUp(t)
        \/ Return(t)

Spec == Init /\ [][Next]_vars
=============================================================================
