----------------------------- MODULE RadixMaps -----------------------------
(***************************************************************************)
(* The trees of portable-maps-and-sets side by side: the same calls made   *)
(* on a RadixOrderedMap, on an ArtOrderedMap, and on the plain maps of     *)
(* OrderedMap that neither may be told apart from, as the differential     *)
(* test of src/radix/art.rs makes them on an ART and on a BTreeMap.  The   *)
(* ART needs prefix-free keys.                                             *)
(*                                                                         *)
(* The tree of a shard of ShardedRadixOrderedMap is the same trie written  *)
(* again: ByteTrie stands for both, and radixRoot for a shard's root too.  *)
(***************************************************************************)
EXTENDS ByteStrings, FiniteSets

CONSTANTS Keys,     \* the byte strings inserted
          Writes,   \* pairs of a key and a value: the inserts that are made; a
                    \* value is a number, as an op_seq is
          Bounds,   \* bounds of ranges, and keys looked up
          None, Panicked,
          NumBytes, Cap4, Cap16, Cap48

Values == {w[2] : w \in Writes}

ASSUME KeysAssumption == Keys \union Bounds \subseteq Seq(0..(NumBytes - 1))
ASSUME WritesAssumption == Writes \subseteq Keys \X Values
ASSUME ValueAssumption ==
    Values \subseteq Nat /\ None # Panicked /\ {None, Panicked} \intersect Values = {}
ASSUME CapAssumption ==
    /\ {Cap4, Cap16, Cap48, NumBytes} \subseteq Nat
    /\ 2 <= Cap4 /\ Cap4 < Cap16 /\ Cap16 < Cap48 /\ Cap48 < NumBytes

VARIABLES radixRoot, radixLen, artRoot, artLen,
          plain, plainSize,           \* a plain map
          plainFree, plainFreeSize    \* one that needs prefix-free keys

Radix == INSTANCE RadixOrderedMap WITH root <- radixRoot, len <- radixLen
Art == INSTANCE ArtOrderedMap WITH root <- artRoot, len <- artLen

Plain == INSTANCE OrderedMap
           WITH map <- plain, size <- plainSize, PrefixFree <- FALSE
PlainFree == INSTANCE OrderedMap
               WITH map <- plainFree, size <- plainFreeSize, PrefixFree <- TRUE

vars == <<radixRoot, radixLen, artRoot, artLen, plain, plainSize, plainFree, plainFreeSize>>

-----------------------------------------------------------------------------
Init == Radix!Init /\ Art!Init /\ Plain!Init /\ PlainFree!Init

Insert(k, v) ==
    /\ Radix!Insert(k, v) /\ Art!Insert(k, v)
    /\ Plain!Insert(k, v) /\ PlainFree!Insert(k, v)

Clear == Radix!Clear /\ Art!Clear /\ Plain!Clear /\ PlainFree!Clear

Next ==
    \/ \E w \in Writes : Insert(w[1], w[2])
    \/ Clear

Spec == Init /\ [][Next]_vars

-----------------------------------------------------------------------------
(* A lookup may panic instead of finding nothing.                          *)
Found(answer) == IF answer = Panicked THEN None ELSE answer

(* Both roots are trees, wherever the keys lead: edges sorted, containers  *)
(* within the capacity of their kind with bytes and children paired, every *)
(* leaf on the path its key spells.                                        *)
TypeOK ==
    /\ radixLen \in Nat /\ artLen \in Nat
    /\ \A k \in Keys : \A n \in 0..Len(k) :
          LET children == Radix!Down(radixRoot, k)[n].children
          IN  \A i, j \in DOMAIN children : i < j => children[i].byte < children[j].byte
    /\ artRoot # Art!Absent =>
          \A k \in Keys : \A n \in 0..Len(k) :
              Art!WellPlaced(Art!Down(artRoot, 0, k)[n], k)

(* The trie cannot be told from a plain map by get and len, for keys that  *)
(* are prefixes of others as well: binary search finds every edge again,   *)
(* in whatever order the edges came (cow.rs, and get and insert_copy of    *)
(* concurrent.rs).                                                         *)
RadixIsAMap ==
    /\ \A k \in Keys : Radix!Get(k) = plain[k]
    /\ \A b \in Bounds \ Keys : Radix!Get(b) = None
    /\ radixLen = plainSize

(* The ART cannot be told from a plain map that refuses exactly the keys   *)
(* that are a prefix of a stored one or extend one, and is left as it was  *)
(* by the panic: through splits of leaves and of prefixes, and growth      *)
(* through all four kinds of node (art.rs).  The insert that keeps a       *)
(* resident value at least as new is a no-op then and only then, and else  *)
(* builds the tree the plain one does (insert_mono of concurrent_art.rs).  *)
ArtIsAMap ==
    /\ \A k \in Keys : Found(Art!Get(k)) = plainFree[k]
    /\ \A w \in Writes : Art!InsertPanics(w[1], w[2]) <=> PlainFree!Clashes(w[1])
    /\ artLen = plainFreeSize
    /\ \A w \in Writes :
          LET resident == plainFree[w[1]]
          IN  Art!InsertMono(w[1], w[2]) =
                 IF PlainFree!Clashes(w[1]) THEN Art!Panics
                 ELSE IF resident # None /\ resident >= w[2] THEN Art!Absent
                 ELSE Art!NewRoot(w[1], w[2])

(* A lookup in the ART panics for proper prefixes of stored keys only: no  *)
(* caller that keeps to prefix-free keys meets the panic, whatever it      *)
(* looks up among keys of other lengths (get, contains_key).               *)
ArtGetPanicsOnPrefixesOnly ==
    \A k \in Keys \union Bounds :
        Art!Get(k) = Panicked => \E q \in PlainFree!Stored : IsStrictPrefix(k, q)
=============================================================================
