-------------------------- MODULE RadixMapsWalked --------------------------
(***************************************************************************)
(* What the walks over the trees of RadixMaps show of them: the ranges and *)
(* the counters.                                                           *)
(***************************************************************************)
EXTENDS RadixMaps

RadixTree == INSTANCE RadixWalks WITH root <- radixRoot, len <- radixLen
ArtTree == INSTANCE ArtWalks WITH root <- artRoot, len <- artLen
ShardTree == INSTANCE ShardWalks WITH root <- radixRoot

-----------------------------------------------------------------------------
KeysInOrder ==
    [i \in 1..Cardinality(Keys) |->
        CHOOSE k \in Keys : Cardinality({q \in Keys : Less(q, k)}) = i - 1]

(* The pairs of a plain map within the bounds, in key order.               *)
Pairs(map, lo, hi) ==
    LET found == SelectSeq(KeysInOrder, LAMBDA k : map[k] # None /\ InRange(k, lo, hi))
    IN  [i \in DOMAIN found |-> <<found[i], map[found[i]]>>]

(* Whatever the bounds, the visitor and the lazy iterator of the trie      *)
(* yield the pairs within them, all of them, in key order: pruning loses   *)
(* nothing and the iterator's stack and path stay in step (cow.rs); and so *)
(* does the range of a shard, on a trie of the same shape, collected and   *)
(* then sorted (concurrent.rs).                                            *)
RadixRangesExact ==
    \A lo, hi \in Bounds :
        LET pairs == Pairs(plain, lo, hi)
        IN  /\ RadixTree!ForEachRange(lo, hi) = pairs
            /\ RadixTree!RangeRef(lo, hi) = pairs
            /\ ShardTree!RangeOf(lo, hi) = pairs

(* The same of the ART, where a frame of the iterator stands for several   *)
(* bytes of the path and every kind of node has its own order to keep.     *)
ArtRangesExact ==
    \A lo, hi \in Bounds :
        LET pairs == Pairs(plainFree, lo, hi)
        IN  ArtTree!ForEachRange(lo, hi) = pairs /\ ArtTree!RangeRef(lo, hi) = pairs

(* The bytes that follow path p in the keys of S, and the paths where they *)
(* part.                                                                   *)
Following(p, S) == {k[Len(p) + 1] : k \in {q \in S : IsStrictPrefix(p, q)}}
Paths(S) == UNION {{Cut(k, n) : n \in 0..Len(k)} : k \in S}
Forks(S) == {p \in Paths(S) : Cardinality(Following(p, S)) > 1}

(* The kinds, and how many children each takes at most and at least.       *)
Fits(kind, n) ==
    CASE kind = "N4" -> n <= Cap4
      [] kind = "N16" -> Cap4 < n /\ n <= Cap16
      [] kind = "N48" -> Cap16 < n /\ n <= Cap48
      [] kind = "N256" -> Cap48 < n

(* The trees forget the order their keys came in: the ART has a leaf for   *)
(* each key and an inner node, of the least kind that holds it, for each   *)
(* path where keys part, whatever was split or grown on the way; the trie  *)
(* a node for each path.  The counters of nodes, of depths and of kinds,   *)
(* and the fresh count of the trie's values, report just that (art.rs,     *)
(* cow.rs).                                                                *)
ShapesForgetHistory ==
    LET stored == PlainFree!Stored
        forks == Forks(stored)
        depth(k) == 1 + Cardinality({p \in forks : IsStrictPrefix(p, k)})
    IN  /\ ArtTree!NodeCount = Cardinality(stored) + Cardinality(forks)
        /\ \A kind \in ArtTree!Kinds :
              ArtTree!Histogram[kind] =
                 Cardinality({p \in forks : Fits(kind, Cardinality(Following(p, stored)))})
        /\ ArtTree!DepthStats.leaves = Cardinality(stored)
        /\ ArtTree!DepthStats.sum = MapThenSumSet(depth, stored)
        /\ ArtTree!DepthStats.max = Max({0} \union {depth(k) : k \in stored})
        /\ RadixTree!NodeCount = Cardinality(Paths(Plain!Stored) \union {<<>>})
        /\ RadixTree!Count(radixRoot) = radixLen
=============================================================================
