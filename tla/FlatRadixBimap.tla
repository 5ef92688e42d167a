--------------------------- MODULE FlatRadixBimap ---------------------------
(***************************************************************************)
(* FlatRadixBimap of portable-bijectives (src/flat_radix_bimap.rs): the    *)
(* bijection for dense integer ids, whose two indexes are vectors of       *)
(* options addressed by the id itself and grown on demand.                 *)
(*                                                                         *)
(* The machine's limits are constants: usize has UsizeSize values, an id   *)
(* wider than usize is cut by "as usize", ki + 1 wraps in a build without  *)
(* overflow checks, and a vector longer than MaxVecLen is refused with a   *)
(* capacity panic.  Indexing past the end panics.  A Rust vector slot i is *)
(* element i + 1 of the sequence.                                          *)
(***************************************************************************)
EXTENDS Integers, FiniteSets, SequencesExt

CONSTANTS KeyIds, ValIds,   \* the ids of each side, natural numbers
          None,             \* Option::None
          UsizeSize,        \* usize::MAX + 1
          MaxVecLen,        \* isize::MAX bytes, in slots
          OverflowChecks,   \* a build profile with overflow checks
          MaxMarks,         \* bound: marks the caller holds at once, and of
                            \* an intact bimap only
          MaxEntries        \* bound: pairs in the log, which has no other
                            \* limit once a wrapped resize lost its slots

ASSUME IdAssumption == KeyIds \subseteq Nat /\ ValIds \subseteq Nat
ASSUME NoneAssumption == None \notin Nat
ASSUME SizeAssumption == /\ UsizeSize \in Nat \ {0}
                         /\ MaxVecLen \in Nat /\ MaxVecLen < UsizeSize
                         /\ OverflowChecks \in BOOLEAN

VARIABLES fwd,       \* Vec<Option<V>> indexed by key
          rev,       \* Vec<Option<K>> indexed by value
          order,     \* Vec<(K, V)>: insertion order, the rollback log
          marks,     \* the checkpoints the caller holds
          ret,       \* what the last call returned
          unwound    \* whether a panic left a call half done

vars == <<fwd, rev, order, marks, ret, unwound>>

Scope == INSTANCE ScopedRollback WITH log <- order

-----------------------------------------------------------------------------
(* self as usize, for every unsigned integer.                              *)
ToIndex(id) == id % UsizeSize

(* What the slots can tell of a pair and of an answer: two ids of the same *)
(* index are one key, whichever of them a caller has in hand.              *)
Index(id) == IF id = None THEN None ELSE ToIndex(id)
IndexLog == [i \in DOMAIN order |-> <<ToIndex(order[i][1]), ToIndex(order[i][2])>>]
IndexRet == [ret EXCEPT !.key = Index(@), !.val = Index(@)]

Abstract == INSTANCE Bimap WITH log <- IndexLog, ret <- IndexRet,
                Keys <- 0..(UsizeSize - 1), Vals <- 0..(UsizeSize - 1)

(* vec.get(i)?.as_ref(): a slot past the end reads as None.                *)
Slot(vec, i) == IF i < Len(vec) THEN vec[i + 1] ELSE None

(* Vec::resize(n, None), which cuts the vector when n is below its length. *)
Resized(vec, n) == [j \in 1..n |-> IF j <= Len(vec) THEN vec[j] ELSE None]

NeedsSlot(vec, i) == i >= Len(vec)

(* Mutant: resized without the test, which cuts the slots above i away.    *)
WithSlot_Cuts(vec, i) == Resized(vec, (i + 1) % UsizeSize)

(* if i >= vec.len() { vec.resize(i + 1, None) }, the sum wrapping.        *)
WithSlot(vec, i) ==
    IF NeedsSlot(vec, i) THEN Resized(vec, (i + 1) % UsizeSize) ELSE vec

(* That statement panics: on the sum, or on the capacity it asks for.      *)
SlotPanics(vec, i) ==
    /\ NeedsSlot(vec, i)
    /\ IF i + 1 = UsizeSize THEN OverflowChecks ELSE i + 1 > MaxVecLen

(* The slots of a set of indexes emptied; all of them exist.               *)
Emptied(vec, idxs) ==
    [j \in DOMAIN vec |-> IF j - 1 \in idxs THEN None ELSE vec[j]]

(* Mutant: the index of a popped key is not cut to usize.                  *)
KeySlots_Uncut(entries) == {e[1] : e \in entries}

KeySlots(entries) == {ToIndex(e[1]) : e \in entries}

ValSlots(entries) == {ToIndex(e[2]) : e \in entries}

Answer(tag, k, v) == [tag |-> tag, key |-> k, val |-> v]
Unit == Answer("unit", None, None)

-----------------------------------------------------------------------------
Init ==
    /\ fwd = <<>> /\ rev = <<>> /\ order = <<>>
    /\ marks = {}
    /\ ret = Unit
    /\ unwound = FALSE

(* From here on the slots are wrong; truncate to every length goes on, for *)
(* marks of any length.                                                    *)
Broken == unwound' = TRUE /\ marks' = {}

Refuse(tag, k, v) ==
    /\ ret' = Answer(tag, k, v)
    /\ UNCHANGED <<fwd, rev, order, marks, unwound>>

KeyTaken(k) == Slot(fwd, ToIndex(k)) # None
ValTaken(v) == Slot(rev, ToIndex(v)) # None

InsertRefused(k, v) ==
    \/ KeyTaken(k) /\ Refuse("DuplicateKey", k, v)
    \/ ~KeyTaken(k) /\ ValTaken(v) /\ Refuse("DuplicateValue", k, v)

(* Both vectors grow, both slots are written, the pair is logged.          *)
InsertBinds(k, v) ==
    LET ki == ToIndex(k)
        vi == ToIndex(v)
        grownFwd == WithSlot(fwd, ki)
        grownRev == WithSlot(rev, vi)
    IN  /\ Len(order) < MaxEntries
        /\ ~KeyTaken(k) /\ ~ValTaken(v)
        /\ ~SlotPanics(fwd, ki) /\ ki < Len(grownFwd)
        /\ ~SlotPanics(rev, vi) /\ vi < Len(grownRev)
        /\ fwd' = [grownFwd EXCEPT ![ki + 1] = v]
        /\ rev' = [grownRev EXCEPT ![vi + 1] = k]
        /\ order' = Append(order, <<k, v>>)
        /\ ret' = Answer("Ok", k, v)
        /\ UNCHANGED <<marks, unwound>>

(* A vector cannot be grown: the call panics with the other one, if it     *)
(* came first, longer by slots that hold None.                             *)
InsertCannotGrow(k, v) ==
    LET ki == ToIndex(k)
        vi == ToIndex(v)
    IN  /\ ~KeyTaken(k) /\ ~ValTaken(v)
        /\ \/ SlotPanics(fwd, ki) /\ UNCHANGED <<fwd, unwound>>
           \/ /\ ~SlotPanics(fwd, ki) /\ SlotPanics(rev, vi)
              /\ fwd' = WithSlot(fwd, ki)
              /\ unwound' = (unwound \/ Len(fwd') < Len(fwd))
        /\ marks' = IF unwound' THEN {} ELSE marks
        /\ ret' = Answer("Unwound", k, v)
        /\ UNCHANGED <<rev, order>>

(* ki + 1 or vi + 1 wrapped to zero: resize(0) emptied that vector, and    *)
(* writing the slot panics.                                                *)
InsertWraps(k, v) ==
    LET ki == ToIndex(k)
        vi == ToIndex(v)
        grownFwd == WithSlot(fwd, ki)
        grownRev == WithSlot(rev, vi)
    IN  /\ ~KeyTaken(k) /\ ~ValTaken(v)
        /\ ~SlotPanics(fwd, ki) /\ ~SlotPanics(rev, vi)
        /\ \/ /\ ki >= Len(grownFwd)
              /\ fwd' = grownFwd
           \/ /\ ki < Len(grownFwd) /\ vi >= Len(grownRev)
              /\ fwd' = [grownFwd EXCEPT ![ki + 1] = v]
        /\ rev' = grownRev
        /\ ret' = Answer("Unwound", k, v)
        /\ Broken
        /\ UNCHANGED order

Get(k) ==
    /\ ret' = Answer("get", k, Slot(fwd, ToIndex(k)))
    /\ UNCHANGED <<fwd, rev, order, marks, unwound>>

GetKey(v) ==
    /\ ret' = Answer("get_key", Slot(rev, ToIndex(v)), v)
    /\ UNCHANGED <<fwd, rev, order, marks, unwound>>

(* An entry whose slots a wrapped insert has cut away.                     *)
SlotLost(e) == ToIndex(e[1]) >= Len(fwd) \/ ToIndex(e[2]) >= Len(rev)

(* Pop entries off the log until n are left, emptying both slots of each.  *)
Truncate(n) ==
    /\ \A e \in Scope!Dropped(n) : ~SlotLost(e)
    /\ order' = Scope!Kept(n)
    /\ fwd' = Emptied(fwd, KeySlots(Scope!Dropped(n)))
    /\ rev' = Emptied(rev, ValSlots(Scope!Dropped(n)))
    /\ ret' = Unit
    /\ UNCHANGED <<marks, unwound>>

(* The loop panics at the last entry that lost a slot: it is off the log,  *)
(* and its forward slot, when it exists, is empty already.                 *)
TruncateFaults(n) ==
    /\ \E i \in (n + 1)..Len(order) :
          /\ SlotLost(order[i]) /\ \A e \in Scope!Dropped(i) : ~SlotLost(e)
          /\ order' = Scope!Kept(i - 1)
          /\ fwd' = Emptied(fwd, KeySlots(Scope!Dropped(i - 1)))
          /\ rev' = Emptied(rev, ValSlots(Scope!Dropped(i)))
    /\ ret' = Answer("Unwound", None, None)
    /\ Broken

(* Mutant: the mark is taken for an index, not a length.                   *)
RollbackTo_MarkIsIndex(m) == Truncate(m.len + 1) \/ TruncateFaults(m.len + 1)

RollbackTo(m) == Truncate(m.len) \/ TruncateFaults(m.len)

(* Mutant: the log survives a clear.                                       *)
Clear_KeepsOrder ==
    /\ fwd' = <<>> /\ rev' = <<>>
    /\ ret' = Unit
    /\ UNCHANGED <<order, marks, unwound>>

Clear ==
    /\ fwd' = <<>> /\ rev' = <<>> /\ order' = <<>>
    /\ ret' = Unit
    /\ UNCHANGED <<marks, unwound>>

TakeMark == ~unwound /\ Scope!TakeMark /\ UNCHANGED <<fwd, rev, ret, unwound>>
ForgetMark == Scope!ForgetMark /\ UNCHANGED <<fwd, rev, ret, unwound>>

-----------------------------------------------------------------------------
Lengths == 0..(Len(order) + 1)    \* every cut, and one overshoot

Next ==
    \/ \E k \in KeyIds, v \in ValIds :
        \/ InsertRefused(k, v)
        \/ InsertBinds(k, v)
        \/ InsertCannotGrow(k, v)
        \/ InsertWraps(k, v)
    \/ \E k \in KeyIds : Get(k)
    \/ \E v \in ValIds : GetKey(v)
    \/ \E n \in Lengths : Truncate(n) \/ TruncateFaults(n)
    \/ \E m \in marks : RollbackTo(m)
    \/ Clear
    \/ TakeMark
    \/ ForgetMark

Spec == Init /\ [][Next]_vars

-----------------------------------------------------------------------------
Tags == {"unit", "Ok", "DuplicateKey", "DuplicateValue", "Unwound", "get", "get_key"}

(* The vectors hold options of ids, within what a build can allocate.      *)
Typed ==
    /\ fwd \in Seq(ValIds \union {None}) /\ Len(fwd) <= MaxVecLen
    /\ rev \in Seq(KeyIds \union {None}) /\ Len(rev) <= MaxVecLen
    /\ order \in Seq(KeyIds \X ValIds)
    /\ marks \subseteq [len : Nat, at : Seq(KeyIds \X ValIds)]
    /\ \A m \in marks : m.len = Len(m.at)
    /\ ret \in [tag : Tags, key : KeyIds \union {None}, val : ValIds \union {None}]
    /\ unwound \in BOOLEAN

(* The vectors have their types, and they reach as far as the log needs:   *)
(* truncate indexes both slots of a logged pair without a test, so until a *)
(* resize wrapped neither vector may ever be shorter than a logged index,  *)
(* whichever of the two grew last and whatever refused to grow.            *)
TypeOK ==
    /\ Typed
    /\ unwound \/ \A e \in ToSet(order) : ~SlotLost(e)

(* What the slots say is exactly what the log says, both ways, for ids in  *)
(* and beyond the vectors: the slots found from either side are those of   *)
(* the logged pairs, and no two pairs share one, wide ids included.        *)
InSync ==
    /\ {p \in (0..(UsizeSize - 1)) \X ValIds : Slot(fwd, p[1]) = p[2]}
           = {<<ToIndex(e[1]), e[2]>> : e \in ToSet(order)}
    /\ {p \in KeyIds \X (0..(UsizeSize - 1)) : Slot(rev, p[2]) = p[1]}
           = {<<e[1], ToIndex(e[2])>> : e \in ToSet(order)}

(* The promise as the code keeps it: a panic of an allocation that was     *)
(* refused leaves the bimap intact, and only a wrapped resize breaks it.   *)
InSyncUntilUnwound == unwound \/ InSync

(* rollback_to keeps the contract's laws for open and stale marks alike    *)
(* and leaves both vectors agreeing with the log; it never panics on a     *)
(* bimap that is intact.                                                   *)
RollbackRestores ==
    [][\A m \in marks :
          RollbackTo(m) => unwound \/ (Scope!Laws(m) /\ InSync')]_vars

(* The two vectors cannot be told from the log that Bimap promises, over   *)
(* ids as usize sees them: an id wider than usize is refused as a          *)
(* duplicate, looked up and rolled back as the id it is cut to.            *)
ImplementsBimap == Abstract!Spec
=============================================================================
