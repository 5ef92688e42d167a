---------------------------- MODULE MCRadixMaps ----------------------------
(* RadixMaps on a small instance, for TLC: five keys under one prefix of   *)
(* two bytes make a node grow through all its kinds; two keys split that   *)
(* prefix, in its middle and at its start; one is a prefix of most of      *)
(* them, and the empty key is one of all.                                  *)
EXTENDS RadixMapsWalked, TLC

MCKeys == {<<1, 1, b>> : b \in 0..4} \union {<<1, 2>>, <<2>>, <<1>>, <<>>}

(* Two keys are overwritten with another value, the others with the same.  *)
MCWrites == (MCKeys \X {1}) \union ({<<1, 1, 3>>, <<1>>} \X {2})

MCBounds == {<<>>, <<1, 0>>, <<1, 1>>, <<1, 1, 2>>, <<1, 1, 2, 0>>, <<1, 3>>, <<2>>, <<2, 0>>}
=============================================================================
