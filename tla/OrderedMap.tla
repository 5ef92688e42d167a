----------------------------- MODULE OrderedMap -----------------------------
(***************************************************************************)
(* What a single-threaded ordered map promises about its contents (the     *)
(* traits OrderedMap, MapReadShim, MapRefKeyInsertShim and Container): an  *)
(* insert changes its key and no other, clear empties the map, and len     *)
(* counts the keys.                                                        *)
(*                                                                         *)
(* A map that needs prefix-free keys refuses, with a panic that changes    *)
(* nothing, a key that is a proper prefix of a stored one, or extends one, *)
(* and no other.                                                           *)
(***************************************************************************)
EXTENDS Naturals, FiniteSets, SequencesExt

CONSTANTS Keys, None,
          PrefixFree    \* whether the map needs prefix-free keys

VARIABLES map,    \* key -> value or None
          size    \* what len answers

-----------------------------------------------------------------------------
Stored == {k \in Keys : map[k] # None}

Clashes(k) ==
    PrefixFree /\ \E q \in Stored : IsStrictPrefix(k, q) \/ IsStrictPrefix(q, k)

Init == map = [k \in Keys |-> None] /\ size = 0

Insert(k, v) ==
    \/ /\ ~Clashes(k)
       /\ map' = [map EXCEPT ![k] = v]
       /\ size' = Cardinality(Stored \union {k})
    \/ /\ Clashes(k)
       /\ UNCHANGED <<map, size>>

Clear == map' = [k \in Keys |-> None] /\ size' = 0
=============================================================================
