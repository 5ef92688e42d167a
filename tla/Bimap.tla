------------------------------- MODULE Bimap -------------------------------
(***************************************************************************)
(* What a scoped bijection promises (the Bimap trait of                    *)
(* primitives/bijection.rs): a log of pairs in insertion order, no key and *)
(* no value twice, every lookup in either direction answered from the log, *)
(* and rollback as a cut of its end.  The implementations keep two         *)
(* redundant indexes beside the log; they are correct when nobody can tell.*)
(*                                                                         *)
(* unwound is raised by a panic of the elements' own Clone or Ord that     *)
(* leaves a call half done: from then on only the log is promised.         *)
(***************************************************************************)
EXTENDS Naturals, SequencesExt

CONSTANTS Keys, Vals, None

VARIABLES log,       \* sequence of <<key, value>>, the order log
          ret,       \* what the last call returned
          unwound    \* whether a call was left half done by a panic

vars == <<log, ret, unwound>>

-----------------------------------------------------------------------------
Pairs == ToSet(log)
KeyBound(k) == \E v \in Vals : <<k, v>> \in Pairs
ValueBound(v) == \E k \in Keys : <<k, v>> \in Pairs

Answer(tag, k, v) == [tag |-> tag, key |-> k, val |-> v]
Unit == Answer("unit", None, None)

-----------------------------------------------------------------------------
Init == log = <<>> /\ ret = Unit /\ unwound = FALSE

(* insert refuses a bound key first, a bound value second, and otherwise   *)
(* adds the pair at the end.                                               *)
Insert(k, v) ==
    \/ /\ KeyBound(k)
       /\ ret' = Answer("DuplicateKey", k, v)
       /\ UNCHANGED log
    \/ /\ ~KeyBound(k) /\ ValueBound(v)
       /\ ret' = Answer("DuplicateValue", k, v)
       /\ UNCHANGED log
    \/ /\ ~KeyBound(k) /\ ~ValueBound(v)
       /\ ret' = Answer("Ok", k, v)
       /\ log' = Append(log, <<k, v>>)

GetByKey(k) ==
    /\ \/ \E v \in Vals : <<k, v>> \in Pairs /\ ret' = Answer("get", k, v)
       \/ ~KeyBound(k) /\ ret' = Answer("get", k, None)
    /\ UNCHANGED log

GetByValue(v) ==
    /\ \/ \E k \in Keys : <<k, v>> \in Pairs /\ ret' = Answer("get_key", k, v)
       \/ ~ValueBound(v) /\ ret' = Answer("get_key", None, v)
    /\ UNCHANGED log

(* truncate, rollback_to and clear: a prefix of the log stays.             *)
RollBack ==
    /\ \E n \in 0..Len(log) : log' = SubSeq(log, 1, n)
    /\ ret' = Unit

(* A call that panics before it changed anything anyone can see.           *)
Unwind ==
    /\ \E k \in Keys \union {None}, v \in Vals \union {None} :
          ret' = Answer("Unwound", k, v)
    /\ UNCHANGED log

(* A call cut short by a panic, and every call after one.                  *)
HalfDone ==
    /\ unwound' = TRUE
    /\ \/ \E n \in 0..Len(log) : log' = SubSeq(log, 1, n)
       \/ \E k \in Keys, v \in Vals : log' = Append(log, <<k, v>>)

Next ==
    \/ /\ unwound = FALSE /\ UNCHANGED unwound
       /\ \/ \E k \in Keys, v \in Vals : Insert(k, v)
          \/ \E k \in Keys : GetByKey(k)
          \/ \E v \in Vals : GetByValue(v)
          \/ RollBack
          \/ Unwind
    \/ HalfDone

Spec == Init /\ [][Next]_vars
=============================================================================
