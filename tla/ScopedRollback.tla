--------------------------- MODULE ScopedRollback ---------------------------
(***************************************************************************)
(* The scope checkpoint / rollback contract of                             *)
(* portable-collection-primitives (primitives/checkpointing.rs), stated    *)
(* once over an insertion log and the marks a caller holds.  A collection  *)
(* instantiates this module WITH log <- its own order log or item vector.  *)
(*                                                                         *)
(* A Checkpoint is a length and nothing else: two marks of equal length    *)
(* are the same Rust value.  The field  at  is a history variable: what    *)
(* the log held when the mark was taken, which the laws of the contract    *)
(* speak about and the code cannot see.                                    *)
(***************************************************************************)
EXTENDS Naturals, FiniteSets, SequencesExt

CONSTANT MaxMarks    \* bound: how many marks the caller holds at once

VARIABLES log,       \* what the collection holds, oldest entry first
          marks      \* the marks the caller still holds

-----------------------------------------------------------------------------
(* Checkpoint::from_len of the current length, with its history field.     *)
MarkOf(l) == [len |-> Len(l), at |-> l]

(* The entries a truncation to n keeps: all of them when n overshoots.     *)
Kept(n) == SubSeq(log, 1, IF n < Len(log) THEN n ELSE Len(log))

(* The entries a truncation to n drops.                                    *)
Dropped(n) == {log[i] : i \in (n + 1)..Len(log)}

(* c.checkpoint(): the collection is only read.                            *)
TakeMark ==
    /\ Cardinality(marks) < MaxMarks
    /\ marks' = marks \union {MarkOf(log)}
    /\ UNCHANGED log

(* Marks are Copy values: the caller may forget one at any time.           *)
ForgetMark ==
    \E m \in marks : /\ marks' = marks \ {m}
                     /\ UNCHANGED log

-----------------------------------------------------------------------------
(* A mark is open while everything it covers is still in place; rolling    *)
(* back past it, or clearing, makes it stale.                              *)
Open(m) == IsPrefix(m.at, log)

(* Laws 1 and 2, for a mark whose scope is open: rolling back leaves       *)
(* exactly what was there when the mark was taken.                         *)
Restores(m) == Open(m) => log' = m.at

(* Law 3: entries leave from the back.                                     *)
LastInFirstOut == IsPrefix(log', log)

(* Law 4: a mark at or beyond the current size changes nothing.            *)
OvershootIsNoOp(m) == m.len >= Len(log) => log' = log

(* Law 5: a second rollback to the same mark would be an overshoot.        *)
IsIdempotent(m) == Len(log') <= m.len

(* What every rollback of this workspace does, for open and stale marks.   *)
Laws(m) == Restores(m) /\ LastInFirstOut /\ OvershootIsNoOp(m) /\ IsIdempotent(m)

(* Law 2 word for word, "nothing added since m is observable", for every   *)
(* mark the caller may hold.                                               *)
NothingAddedSince(m) == ToSet(log') \subseteq ToSet(m.at)
=============================================================================
