-------------------------- MODULE RadixOrderedMap --------------------------
(***************************************************************************)
(* RadixOrderedMap of portable-maps-and-sets (src/radix/cow.rs): a byte    *)
(* trie beside a cached length.  A snapshot, the clone of the root pointer *)
(* and of the length, is the pair of both.                                 *)
(***************************************************************************)
EXTENDS ByteTrie

VARIABLES root,   \* Arc<Node<V>>
          len     \* usize: the cached length

-----------------------------------------------------------------------------
Get(key) == Down(root, key)[Len(key)].value

Init == root = Empty /\ len = 0

(* What insert returns: the value that was at the end of the path.         *)
Old(key) == Down(root, key)[Len(key)].value

Insert(key, v) ==
    /\ root' = Inserted(root, key, v)
    /\ len' = IF Old(key) = None THEN len + 1 ELSE len

Clear == root' = Empty /\ len' = 0
=============================================================================
