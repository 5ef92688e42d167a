---------------------------- MODULE ByteStrings ----------------------------
(***************************************************************************)
(* Byte strings as the radix maps of portable-maps-and-sets use them: keys *)
(* and range bounds, compared as Rust compares slices of u8.               *)
(***************************************************************************)
EXTENDS Naturals, SequencesExt

(* &s[..n.min(s.len())]                                                    *)
Cut(s, n) == SubSeq(s, 1, IF n < Len(s) THEN n ELSE Len(s))

(* The order of slices: a proper prefix comes first, else the first byte   *)
(* that differs decides.                                                   *)
Less(s, t) ==
    \/ IsStrictPrefix(s, t)
    \/ \E i \in DOMAIN s \intersect DOMAIN t :
          s[i] < t[i] /\ \A j \in 1..(i - 1) : s[j] = t[j]

(* Bounds are inclusive.                                                   *)
InRange(s, lo, hi) == ~Less(s, lo) /\ ~Less(hi, s)

(* Mutant: a subtree is entered only at or above the whole lower bound.    *)
Entered_WholeBound(path, lo, hi) ==
    ~Less(path, lo) /\ ~Less(Cut(hi, Len(path)), path)

(* A range goes down to the subtree at path unless all its keys are out of *)
(* bounds: the path is compared with as much of each bound.                *)
Entered(path, lo, hi) ==
    ~Less(path, Cut(lo, Len(path))) /\ ~Less(Cut(hi, Len(path)), path)
=============================================================================
