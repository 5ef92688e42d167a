---------------------------- MODULE MCBTreeBimap ----------------------------
(* BTreeBimap on a small instance, for TLC.                                *)
EXTENDS BTreeBimap, TLC

CONSTANTS k1, k2, k3, v1, v2

MCKeys == {k1, k2, k3}
MCVals == {v1, v2}

(* Keys are only compared with keys and values with values.                *)
Symmetry == Permutations(MCKeys) \union Permutations(MCVals)
=============================================================================
