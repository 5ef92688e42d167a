----------------------------- MODULE BTreeBimap -----------------------------
(***************************************************************************)
(* BTreeBimap of portable-bijectives (src/btree_bimap.rs): a bijection     *)
(* kept as two ordered maps, fwd and rev, beside the order log that drives *)
(* rollback.  A call takes &mut self, so calls never overlap; inside one   *)
(* call the three stores change one after the other, and the elements' own *)
(* Clone and Ord run in between and may panic.  ElementsPanic lets them:   *)
(* the action ends where the panic unwinds and the map stays in use, as    *)
(* after catch_unwind.  unwound says that a panic left a call half done.   *)
(* Drop is taken not to panic.                                             *)
(***************************************************************************)
EXTENDS Naturals, FiniteSets, SequencesExt

CONSTANTS Keys, Vals,
          None,           \* Option::None
          MaxMarks,       \* bound: marks the caller holds at once
          ElementsPanic   \* whether Clone and Ord of the elements may panic

ASSUME NoneAssumption == None \notin Keys \union Vals
ASSUME PanicAssumption == ElementsPanic \in BOOLEAN

VARIABLES fwd,       \* BTreeMap<K, V>: a key's value, or None
          rev,       \* BTreeMap<V, K>: a value's key, or None
          order,     \* Vec<(K, V)>: insertion order, the rollback log
          marks,     \* the checkpoints the caller holds
          ret,       \* what the last call returned
          unwound    \* whether a panic left a call half done

stores == <<fwd, rev, order>>
vars == <<fwd, rev, order, marks, ret, unwound>>

Scope == INSTANCE ScopedRollback WITH log <- order
Abstract == INSTANCE Bimap WITH log <- order

-----------------------------------------------------------------------------
Answer(tag, k, v) == [tag |-> tag, key |-> k, val |-> v]
Unit == Answer("unit", None, None)

(* BTreeMap::remove for a set of entries; removing an absent one is legal. *)
Without(map, gone) == [x \in DOMAIN map |-> IF x \in gone THEN None ELSE map[x]]

KeysOf(entries) == {e[1] : e \in entries}
ValsOf(entries) == {e[2] : e \in entries}

-----------------------------------------------------------------------------
Init ==
    /\ fwd = [k \in Keys |-> None]
    /\ rev = [v \in Vals |-> None]
    /\ order = <<>>
    /\ marks = {}
    /\ ret = Unit
    /\ unwound = FALSE

Refuse(tag, k, v) ==
    /\ ret' = Answer(tag, k, v)
    /\ UNCHANGED <<fwd, rev, order, marks, unwound>>

(* Mutant: the log entry is written (value, key).                          *)
Bind_Swapped(k, v) ==
    /\ fwd' = [fwd EXCEPT ![k] = v]
    /\ rev' = [rev EXCEPT ![v] = k]
    /\ order' = Append(order, <<v, k>>)
    /\ ret' = Answer("Ok", k, v)
    /\ UNCHANGED <<marks, unwound>>

(* The successful end of insert: forward map, reverse map, order log.      *)
Bind(k, v) ==
    /\ fwd' = [fwd EXCEPT ![k] = v]
    /\ rev' = [rev EXCEPT ![v] = k]
    /\ order' = Append(order, <<k, v>>)
    /\ ret' = Answer("Ok", k, v)
    /\ UNCHANGED <<marks, unwound>>

(* Mutant: the value is looked up before the key.                          *)
Insert_ValueFirst(k, v) ==
    \/ rev[v] # None /\ Refuse("DuplicateValue", k, v)
    \/ rev[v] = None /\ fwd[k] # None /\ Refuse("DuplicateKey", k, v)
    \/ fwd[k] = None /\ rev[v] = None /\ Bind(k, v)

(* Mutant: only the forward map is consulted.                              *)
Insert_NoValueGuard(k, v) ==
    \/ fwd[k] # None /\ Refuse("DuplicateKey", k, v)
    \/ fwd[k] = None /\ Bind(k, v)

Insert(k, v) ==
    \/ fwd[k] # None /\ Refuse("DuplicateKey", k, v)
    \/ fwd[k] = None /\ rev[v] # None /\ Refuse("DuplicateValue", k, v)
    \/ fwd[k] = None /\ rev[v] = None /\ Bind(k, v)

(* A comparison or a clone panics before fwd.insert takes effect ...       *)
InsertUnwindsEarly(k, v) == ElementsPanic /\ Refuse("Unwound", k, v)

(* ... or value.clone(), key.clone() or a comparison of rev's after it.    *)
InsertUnwindsLate(k, v) ==
    /\ ElementsPanic
    /\ fwd[k] = None /\ rev[v] = None
    /\ fwd' = [fwd EXCEPT ![k] = v]
    /\ ret' = Answer("Unwound", k, v)
    /\ unwound' = TRUE
    /\ UNCHANGED <<rev, order, marks>>

Get(k) ==
    /\ ret' = Answer("get", k, fwd[k])
    /\ UNCHANGED <<fwd, rev, order, marks, unwound>>

GetKey(v) ==
    /\ ret' = Answer("get_key", rev[v], v)
    /\ UNCHANGED <<fwd, rev, order, marks, unwound>>

(* Mutant: the reverse map is forgotten.                                   *)
Truncate_KeepsReverse(n) ==
    /\ order' = Scope!Kept(n)
    /\ fwd' = Without(fwd, KeysOf(Scope!Dropped(n)))
    /\ ret' = Unit
    /\ UNCHANGED <<rev, marks, unwound>>

(* Mutant: the loop stops one entry early.                                 *)
Truncate_StopsEarly(n) ==
    /\ order' = Scope!Kept(n + 1)
    /\ fwd' = Without(fwd, KeysOf(Scope!Dropped(n + 1)))
    /\ rev' = Without(rev, ValsOf(Scope!Dropped(n + 1)))
    /\ ret' = Unit
    /\ UNCHANGED <<marks, unwound>>

(* Pop entries off the log until n are left, removing each from both maps. *)
Truncate(n) ==
    /\ order' = Scope!Kept(n)
    /\ fwd' = Without(fwd, KeysOf(Scope!Dropped(n)))
    /\ rev' = Without(rev, ValsOf(Scope!Dropped(n)))
    /\ ret' = Unit
    /\ UNCHANGED <<marks, unwound>>

(* A comparison panics while entry i is being removed: it has left the log *)
(* already, reverse it has not left, forward it has or has not.            *)
TruncateUnwinds(n) ==
    /\ ElementsPanic
    /\ \E i \in (n + 1)..Len(order), fwdDone \in BOOLEAN :
          /\ order' = Scope!Kept(i - 1)
          /\ fwd' = Without(fwd, KeysOf(Scope!Dropped(IF fwdDone THEN i - 1 ELSE i)))
          /\ rev' = Without(rev, ValsOf(Scope!Dropped(i)))
    /\ ret' = Answer("Unwound", None, None)
    /\ unwound' = TRUE
    /\ UNCHANGED marks

(* rollback_to hands the mark's length to truncate.                        *)
RollbackTo(m) == Truncate(m.len)

Clear ==
    /\ fwd' = [k \in Keys |-> None]
    /\ rev' = [v \in Vals |-> None]
    /\ order' = <<>>
    /\ ret' = Unit
    /\ UNCHANGED <<marks, unwound>>

TakeMark == Scope!TakeMark /\ UNCHANGED <<fwd, rev, ret, unwound>>
ForgetMark == Scope!ForgetMark /\ UNCHANGED <<fwd, rev, ret, unwound>>

-----------------------------------------------------------------------------
Lengths == 0..(Len(order) + 1)    \* every cut, and one overshoot

Next ==
    \/ \E k \in Keys, v \in Vals : 
        \/ Insert(k, v)
        \/ InsertUnwindsEarly(k, v)
        \/ InsertUnwindsLate(k, v)
    \/ \E k \in Keys : Get(k)
    \/ \E v \in Vals : GetKey(v)
    \/ \E n \in Lengths :
        \/ Truncate(n)
        \/ TruncateUnwinds(n)
    \/ \E m \in marks : RollbackTo(m)
    \/ Clear
    \/ TakeMark
    \/ ForgetMark

Spec == Init /\ [][Next]_vars

-----------------------------------------------------------------------------
Tags == {"unit", "Ok", "DuplicateKey", "DuplicateValue", "Unwound", "get", "get_key"}

(* The stores and the caller's marks stay in their types.                  *)
TypeOK ==
    /\ fwd \in [Keys -> Vals \union {None}]
    /\ rev \in [Vals -> Keys \union {None}]
    /\ order \in Seq(Keys \X Vals)
    /\ marks \subseteq [len : Nat, at : Seq(Keys \X Vals)]
    /\ \A m \in marks : m.len = Len(m.at)
    /\ ret \in [tag : Tags, key : Keys \union {None}, val : Vals \union {None}]
    /\ unwound \in BOOLEAN

(* The log holds no key and no value twice.                                *)
OrderDistinct ==
    \A i, j \in DOMAIN order :
        order[i][1] = order[j][1] \/ order[i][2] = order[j][2] => i = j

(* Every logged pair is bound in both directions.                          *)
OrderBound ==
    \A i \in DOMAIN order :
        /\ fwd[order[i][1]] = order[i][2]
        /\ rev[order[i][2]] = order[i][1]

(* Whatever panicked before, each logged pair is still found from its key  *)
(* and from its value, and belongs to no other pair: a panic can leave too *)
(* much in the maps, never too little (insert and truncate, which change   *)
(* the log last and first).                                                *)
OrderCovered == OrderDistinct /\ OrderBound

(* The two maps and the log say the same thing: a binding found in either  *)
(* direction is a logged pair.                                             *)
NoOrphans ==
    /\ \A k \in Keys : fwd[k] # None => <<k, fwd[k]>> \in ToSet(order)
    /\ \A v \in Vals : rev[v] # None => <<rev[v], v>> \in ToSet(order)

(* The module doc's "only ever mutated together, so they can never desync" *)
(* (btree_bimap.rs, lines 14-16), taken for every element type.            *)
InSync == OrderCovered /\ NoOrphans

(* The same promise as the code keeps it: as long as no call was left half *)
(* done by a panicking element.                                            *)
InSyncUntilUnwound == unwound \/ InSync

(* rollback_to keeps the contract's laws for open and stale marks alike,   *)
(* and from an intact map it leaves both directions agreeing with the log: *)
(* after an open mark, every lookup answers as it did at the checkpoint.   *)
RollbackRestores ==
    [][\A m \in marks :
          RollbackTo(m) => Scope!Laws(m) /\ (unwound \/ InSync')]_vars

(* Law 2 of ScopedRollback word for word (checkpointing.rs, lines 71-72):  *)
(* after rollback_to(m) nothing added since m is left, whatever happened   *)
(* between the checkpoint and the rollback.                                *)
NothingSinceMarkSurvives ==
    [][\A m \in marks : RollbackTo(m) => Scope!NothingAddedSince(m)]_vars

(* The map with its two indexes cannot be told from the log that Bimap     *)
(* promises.                                                               *)
ImplementsBimap == Abstract!Spec
=============================================================================
