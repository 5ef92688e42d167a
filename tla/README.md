# Verification of portable-collections

TLA+ models of the collections in `src/`, TLC configurations that check them on
small instances, and TLAPS proofs that hold for every instance.  Definitions
are translated from the source; `PROJECT.json` ("map") names the lines behind
each one.

## 1. Inventory

The repository is a Rust workspace of four crates.  `portable-collection-primitives`
holds the traits; the other three implement them.  Except for the two sharded
maps every mutating method takes `&mut self`: calls on one value never overlap,
and what is hard is a call that ends half way (a panic, an iterator dropped
early), a mark used late, and the edges of integers and capacities.

| component | state | operations | what makes it hard | what makes it correct |
|---|---|---|---|---|
| Scope rollback contract (`primitives/checkpointing.rs`) | a mark is a bare length | `checkpoint`, `rollback_to`, `truncate` | marks are `Copy`: they outlive the scope they were taken in | the five laws of the trait's doc |
| `Bimap` trait, `BTreeBimap` | two ordered maps, order log | `insert`, `get`, `get_key`, `truncate`, `rollback_to`, `clear` | three stores change one after the other, the elements' `Clone` and `Ord` run in between and may panic | both directions always agree with the log; lookups cannot be told from those of a plain log of pairs |
| `FlatRadixBimap`, `DenseIndex` | two vectors of options addressed by id, order log | the same | `ki + 1` may wrap, a vector may refuse to grow, slots may be gone when `truncate` indexes them | the same |
| `ScopedStack`, `VecScopedStack`, `ArrayScopedStack` | items; for the array, N slots and a length | `push`, `try_push`, `pop`, `last`, `rollback_to`, `drain_since`, `clear` | capacity, a drain iterator abandoned half way, pops below a mark, an item's `Drop` that panics inside a rollback | the array cannot be told from a vector and releases what leaves it |
| `ScopedQueue`, `DequeScopedQueue` | deque, count of pushes | `push`, `pull`, `first`, `rollback_to`, `drain_since`, `clear` | marks count pushes while pulls remove from the other end; the counter may overflow, an item's `Drop` may panic before it is counted down | rolling back a scope removes the pushes of that scope and of no other |
| `ShardedArtOrderedMap`, its snapshot | one atomic root per shard, a max op_seq per shard and one overall, a sequence | `insert`, `apply`, `apply_batch`, `get`, `key_seq`, `shard_max_seq`, `max_seq`, `snapshot` | real threads: swaps that fail and retry, op_seqs that arrive out of order, batches over several shards, counters raised after the swap, a closure that panics between two shards | no lost update, the same result in any order, batches atomic per shard, counters never ahead of the trees |
| `ShardedRadixOrderedMap` | one atomic root per shard, a retry counter | `insert`, `get`, `range`, `snapshot` | the same, and ranges and snapshots that read several shards while they change | inserts are atomic, ranges exact, snapshots complete, retries counted |
| `RadixOrderedMap` (`radix/cow.rs`) | a copy-on-write byte trie, cached length | `insert`, `get`, `range`, `snapshot`, `clear`, node count | prefix keys, path copies, the cached length | a plain ordered map |
| `ArtOrderedMap` (`radix/art.rs`) | an adaptive radix tree, cached length | the same, `insert_mono`, lazy ranges, node counts, depths, kinds | splits of compressed prefixes, nodes that change kind, a key that is a prefix of another | a plain ordered map, in a shape that depends on the keys alone |
| `OrderedMap`, `SnapshotMap` facade | none | signatures | | |
| Map/Set facade, macros, feature tiers, build scripts | none | forwarding to std types | | |
| benches, examples, tests | none | clients | | |

How they interact: the bimaps, the stacks and the queue implement the rollback
contract, each over its own log; a caller holds marks and hands them back.
`FlatRadixBimap` addresses its vectors through `DenseIndex`.  The sharded maps
keep their shards in the trees of `radix/`, and reach them only through the
atomic pointer of the external crate arc-swap (`load`, `rcu`).

The hazards of the code, each at its line with the properties that cover it,
are listed in `PROJECT.json`.

## 2. Modules

    ScopedRollback        the contract: mark, cut, laws     <- instantiated by BTreeBimap,
                                                               FlatRadixBimap, ArrayScopedStack
    Bimap                 abstract bijection                <= BTreeBimap, FlatRadixBimap
    ScopedStack           abstract stack (VecScopedStack)   <= ArrayScopedStack
    ScopedQueue           abstract queue of scoped items    <= DequeScopedQueue
    AtomicMap             abstract map, atomic inserts      <= ShardedRadixOrderedMap
    OrderedMap            a plain map                       compared with the trees
    ByteStrings           keys, bounds, their order         <- ShardedRadixOrderedMap, the trees
    ByteTrie              lookup and copying insert         <- RadixOrderedMap, ShardWalks
    RadixOrderedMap, ArtOrderedMap              the two trees
    RadixWalks, ArtWalks, ShardWalks            their ranges and counters
    RadixMaps             the trees and their plain maps, given the same calls
    RadixMapsWalked       the same, with what the walks show
    ShardedArtOrderedMap  threads over sharded roots
    BTreeBimap_proofs, FlatRadixBimap_proofs, ArrayScopedStack_proofs, DequeScopedQueue_proofs,
    ShardedArtOrderedMap_proofs, ShardedRadixOrderedMap_proofs,
    RadixMaps_proofs      the proofs of each component
    SequenceLemmas        lemmas that several of them use: logs, least numbers, byte strings
    MC*                   constants of the TLC instances

(`<=` reads "is implemented by": checked by TLC as a refinement, and proved.)  Definitions
named `X_something` that follow a "Mutant" comment are plausible bugs of `X`:
with the body of `X` replaced by one of them TLC finds the property named in
`PROJECT.json` violated.  They take no part in any specification.

**ScopedRollback.**  `log` is the collection's insertion log, `marks` the marks
the caller still holds.  A mark carries, beside the length the code keeps, a
history field `at` with the log at that moment, so that the laws can be stated:
a mark is *open* while `at` is a prefix of the log; rolling back to an open mark
restores `at`; to a stale one, it is still a cut of the end, idempotent, and a
no-op on overshoot.

**BTreeBimap.**  `fwd`, `rev`, `order` are the three fields.  `Insert` has the
code's three outcomes in the code's order; `Truncate`, `RollbackTo`, `Clear`,
`Get`, `GetKey` are the methods.  `InsertUnwindsEarly`, `InsertUnwindsLate` and
`TruncateUnwinds` are the states a panicking `Clone` or `Ord` of an element can
leave behind when the caller catches the unwind: `insert` binds `fwd` before it
clones again for `rev`, `truncate` pops the log before it compares in the maps.
`unwound` is a history variable that says such a half done call happened.
`ret` is what the last call answered; the refinement compares it.

**FlatRadixBimap.**  The vectors are sequences, slot `i` at `i + 1`.  `usize`
has `UsizeSize` values, a vector at most `MaxVecLen` slots, `OverflowChecks`
is the build profile.  `InsertCannotGrow` is a panic while growing (capacity,
or the checked sum), `InsertWraps` the unchecked `ki + 1` that becomes 0, and
`TruncateFaults` the panic of `truncate` on a slot such an insert cut away.
`ToIndex` is `as usize`: an id is cut modulo `UsizeSize`, so on a narrow machine
a wide id shares its slots with a small one.  `SlotLost` says that a logged pair is not
within the vectors, which `TypeOK` rules out until a resize wrapped.  The vectors store the ids
themselves, and what they answer is compared with the abstract bimap over
indexes: `IndexLog` and `IndexRet` cut the ids of log and answers.  The caller
takes marks of an intact bimap only; `truncate` to any length goes on afterwards.

**ArrayScopedStack.**  `slots`, `len`; `drain_since` is three actions
(`DrainSince`, `DrainNext`, `DrainDropped`) because its iterator borrows the
stack between steps of the caller and may be dropped at any of them.  An item's
`Drop` is the caller's code: `CutUnwinds` is a `rollback_to` or `clear` that it
ends between two slots (the slot is written even so, the length is not), and
`PushUnwinds` a push over an item that an abandoned iterator left.  The history
`holed` is the lowest entry such a call emptied below the length, `left` the
slots dropped iterators did not reach.  In the abstract stack that is `Unwind`:
entries of one stretch read as `None`.

**DequeScopedQueue.**  `items`, `generation`; the caller's marks are the stack
`scopes`, entered, committed and undone in nesting order, as the trait's doc
describes.  `RollbackUnwinds` is a rollback that an item's `Drop` ends after
`pop_back` and before the counter comes down, `ClearUnwinds` the same inside
`items.clear()`, which empties the deque all the same and does not reset the
counter.  In the abstract queue every item is tagged with its scope; `Undo` keeps the
items that are older than the scope, which are always the first of the queue, and
hands out the rest in order.  The
refinement derives the tags from the counter and the marks, and gives up
(`astray`) when the counter overflows or slips, until a clear.

**ShardedArtOrderedMap, ShardedRadixOrderedMap.**  One action per atomic step
of a thread: load of a root, successful swap, failed swap with reload, each
`fetch_max`/`fetch_add`.  A shard's tree is the map it stores.  Comparing roots
by contents is comparing them by pointer, because no shard ever holds the same
contents twice: in the first map a swap installs new contents only with a
higher op_seq, and every insert of the second writes a value of its own.  A
write that lands nothing hands `rcu` the pointer it loaded, so the root stays
the same in both senses.  `Folded` says in one expression what the
loop of `apply_batch`'s closure computes; the assumption `FoldedIsTheLoop` in
`MCShardedArtOrderedMap` has TLC compare the two on every small root and batch.
`ClosurePanics` is a closure that unwinds out of `rcu` (a `Clone` of a value, a key
that is a proper prefix of a stored one): the shards already swapped stay as they
are, the counters not yet raised are not raised.  Both snapshots load one root per
step; the radix map's `range` and `snapshot` share their beginning (`StartScan`) and
the histories `first` and `held`, what was there at the beginning and what was
there at any moment since.  `AtomicMap` is the map a caller of the radix map is
entitled to: each insert takes effect in one step of its own, between its call and
its return, and one that panics has no effect.

**ByteTrie, RadixOrderedMap, ArtOrderedMap.**  Nodes are immutable in the code
and values in the models.  The recursion of a lookup and of an insert follows the bytes of
a key, and is a recursive function here: `Down` is the way from a node, step by step to
where it stops, and `Copies` what an insert builds from there upwards.  In the trie a
step takes one byte, and a lookup or an insert that misses an edge goes on through empty
nodes, which gives `None` and the chain of `build_chain`.  In the ART a step takes a prefix and
one byte more; a way that has stopped stays where it is.  So `Answer` is the arms of `get_rec` that
do not recurse and `Changed` those of `insert_rec_with`.

In the trie a node is its value and the sorted sequence of its
edges.  `cow.rs` and `concurrent.rs` each define it, in the same terms; `ByteTrie` is both, and
its map entries name lines of both files.  `RadixOrderedMap` adds the cached length; the tree of a
shard has nothing to add, so what is shown of `radixRoot` in `RadixMaps` is shown of it.  In the ART a node is a leaf or
an inner node with a prefix and one of the
four containers, kept as the code keeps them (parallel sorted sequences, slot
numbers beside children in order of arrival, an array of options), because what
can go wrong is the pairing of bytes and children.  `Grown` and `CapOf` are the four kinds.
`Panicked` is the answer of a lookup that reads `key[d]` past the end of the key, `Panics` that
outcome of an insert, `Absent` no node, and as the outcome of an insert the `None` of
`insert_rec_with`: nothing to change.  `InsertMono` is the policy under which
`concurrent_art.rs` inserts.

**RadixWalks, ArtWalks, ShardWalks.**  What visits a whole tree, written as the recursive
operators it is in the code: `Visit` is the visitor `for_each_range`;
`Drained` is the loop of the lazy iterator's `next` with its stack and path, run
to the end (the iterator borrows the map, so nothing changes meanwhile);
`Collect` and `RangeOf` are the range of a shard with its pruning and final sort;
`NodeCount`, `DepthStats` and `Histogram` are the walks behind the metrics.  They are modules
of their own because the proofs cannot use a module with a recursive operator.

**RadixMaps, RadixMapsWalked.**  `RadixMaps` gives each call to the two trees and to a plain
map each, as the
differential test of `art.rs` does with a `BTreeMap`; the ART's plain map refuses
keys that are prefixes of stored ones or extend them.  `RadixMapsWalked` adds the properties
of ranges and shapes.  The assumptions on the constants: keys and
bounds are strings of bytes (`KeysAssumption`), values are numbers (`ValueAssumption`: an
op_seq is one, and `insert_mono` compares them), and the capacities of the kinds rise from at least 2 to
less than the number of bytes (`CapAssumption`), as 4, 16, 48 and 256 do.
A snapshot is the clone of
root and length, which in a model of values is the pair itself: that later
inserts leave it alone is Rust's ownership, not something a check could refute.

## 3. Runs

| run | instance | what it shows |
|---|---|---|
| `btree` | 3 keys, 2 values, 2 marks, panicking elements, symmetry | `OrderCovered`: whatever panicked, a logged pair is found from both sides; `InSyncUntilUnwound`: without a half done call, no binding beyond the log; `RollbackRestores`; `ImplementsBimap` |
| `flat` | ids 0..3 and 5 for keys, 0..3 for values, `usize` of 4 values, vectors of at most 2 slots, no overflow checks, 1 mark, 2 pairs | `TypeOK` (a logged pair keeps its slots), `InSyncUntilUnwound`, `RollbackRestores`, `ImplementsBimap` at the edges of the machine: ids that fit, ids the vector cannot hold, `usize::MAX`, and an id wider than `usize` (5, cut to 1) |
| `array_stack` | capacity 3, 2 items, 1 mark | `ReachableSlotsFilled`, `ReleasedUnlessAbandoned`, `RollbackRestores`, `ImplementsScopedStack` with iterators abandoned half way and `Drop`s that panic |
| `deque` | counter of 6 values, at most 4 items, 3 nested scopes, both build profiles | `TypeOK`: the counter stays one after it overflowed, with more items than it counts; `CounterCovers`, `ImplementsScopedQueue`: a scope's rollback undoes that scope and nothing else, until the counter overflows or a `Drop` panics inside a rollback, and again after a clear |
| `sharded_art` | 2 threads, 2 shards, 3 keys (two on one shard), 3 ops and snapshots in all, batches of up to 2, 1 panic | `NoLostUpdate`, `Converged`, `GenerationsTrail`, `BatchAtomicPerShard`, `LastInsertWins`, `SnapshotPerShard`, `ReadsMoveForward`, `CallsReturn` |
| `sharded_radix` | 2 threads, 2 shards, prefix of 2 bytes, 4 keys of 1 to 3 bytes, 3 inserts (a panic uses up one), 1 range or snapshot | `InsertsAreAtomic`, `RetriesCounted`, `RangeOfPrefixIsExact`, `SnapshotHoldsTheMap`, `CallsReturn` |
| `radix_maps` | 9 keys of 0 to 3 bytes, 8 bounds, bytes 0..4, node capacities 2, 3, 4 and 5 for 4, 16, 48 and 256 | `RadixIsAMap`, `ArtIsAMap`, `RadixRangesExact`, `ArtRangesExact` (visitor and lazy iterator), `ArtGetPanicsOnPrefixesOnly`, `ShapesForgetHistory` |

Why the bounds suffice.  A bimap's interesting states need a pair that clashes
on the key, one that clashes on the value and one on both (3 x 2 elements), an
outer and an inner mark, and a stale one.  In `flat` four of the ids are one that
every vector holds, one at its limit, one beyond it, and the one whose
successor wraps; the fifth key is cut to the second.  In the array stack three
slots are a scope of two entries over one that must survive, or an iterator
dropped after one of two; one mark is enough because each mark is judged by
itself.  In the queue the counter must be able to exceed the number
of items by more than a scope's pushes; six values and four items do.  The five
keys under one prefix take a node through all four kinds, with the fourth child
arriving in any place; two keys split that prefix in its middle and at its
start, one is a prefix of most of the others and the empty key of all, so every
branch of `insert_rec_with` and both of its panics are taken.  The capacities
keep the order of the real ones; nothing else depends on them.  In the
maps two threads are enough for every pairwise race of load and swap, three
ops for a batch against an insert or two inserts against each other and a
third call after them; `MaxOps`, `MaxInserts`, `MaxScans`, `MaxPanics`
bound how many calls are made and how many of them panic, `MaxEntries`, `MaxItems`, `MaxDepth`, `MaxMarks`
how much is held.

The runs that must end in a violation show where the code departs from what a
comment of the repository says:

| run | the comment | what happens |
|---|---|---|
| `btree_stale_mark` | `checkpointing.rs:71-72`: after `rollback_to(m)` nothing added since `m` is observable | a mark held across an outer rollback covers entries added after it was taken |
| `flat_wrap` | `flat_radix_bimap.rs:186-188`: both index Vecs and the log gain the entry together | inserting id `usize::MAX` without overflow checks empties a slot vector and panics; the log keeps its pairs |
| `sharded_art_snapshot` | `concurrent_art.rs:180`: an immutable, isolated point-in-time view | shards are loaded one after the other; the view may be a state the map never had |
| `sharded_art_recovery` | `concurrent_art.rs:161-164`: recovery need only reconcile ops above `shard_max_seq` | an op draws its number before it lands; a later one may raise the counter first |
| `sharded_radix_range` | `concurrent.rs:167`: single-shard when lo/hi share the shard prefix | with a bound shorter than the prefix one shard is read and the keys of the others are missed |

More observations the models make visible.

- `BTreeBimap`'s "can never desync" (`btree_bimap.rs:14-16`) holds only for elements
  whose `Clone` and `Ord` do not panic: a panic between `fwd.insert` and the end
  leaves a forward binding the log does not know, which is why the invariant is
  `InSyncUntilUnwound`.
- An abandoned drain of `ArrayScopedStack` leaves items above `len`, and `clear` does
  not release them; they live until they are overwritten.  `ReleasedUnlessAbandoned`
  says that nothing else leaks, and `ReachableSlotsFilled` that nothing reachable is
  affected.
- `ShardedRadixOrderedMap::snapshot` calls itself point-in-time as well
  (`concurrent.rs:200`) and loads its shards in the same way; `SnapshotHoldsTheMap` is
  what it does keep.
- A `Drop` that panics inside `DequeScopedQueue::rollback_to` (`deque_scoped_queue.rs:102`)
  has taken its item off the queue and not counted it down.  Rolling back to the same
  mark again takes one item too many, from outside the scope; hence `slipped`.  The counter
  stays at or above what it covers (`CounterCovers`), and a clear mends it.
- `integrated_generation` is documented as the highest op_seq ever applied
  (`concurrent_art.rs:141`).  A closure that panics in the second shard of a batch
  leaves the first shard's ops applied and the generation where it was; hence
  `Converged` measures it against the calls that returned.

### Fairness

Only the two concurrent maps have liveness properties.  `Fairness` is weak
fairness of each thread's `Step`, the actions inside a call: the scheduler runs
every thread again and again.  Nobody has to begin a call, drop a snapshot or
let go of a range's result (`Call`), and the bounds make the number of calls
finite, which is what lock freedom needs: a swap fails only because another
succeeded.  `CallsReturn` says that again and again no thread is inside a call.
The maps' cfgs say `CHECK_DEADLOCK FALSE`: when all calls allowed by the bounds
are made the system rests.

## 4. Proofs

Every run that must pass has its theorems: every safety property and every refinement
that it checks is proved for all values of the constants, but for three properties of
`radix_maps` that speak of whole trees.  Every proof follows one
pattern: an inductive invariant (`IInv`; `TrieInv` and `ArtInv` for the trees), one lemma
per kind of step, a lemma that it always holds, and the theorems from it.

### BTreeBimap

`BTreeBimap_proofs` proves, for all sets `Keys` and `Vals`, every `MaxMarks`
and either value of `ElementsPanic`:

| theorem | statement |
|---|---|
| `TypeCorrect` | `Spec => []TypeOK` |
| `LoggedPairsAreFound` | `Spec => []OrderCovered` |
| `NeverDesync` | `Spec => []InSyncUntilUnwound` |
| `RollbackIsAtomic` | `Spec => RollbackRestores` |
| `BTreeBimapIsABimap` | `Spec => ImplementsBimap` |

The assumptions are those of `BTreeBimap`: `None` is neither a key nor a value,
`ElementsPanic` is a Boolean.

The inductive invariant is

    IInv == TypeOK /\ OrderCovered /\ (unwound \/ NoOrphans)

`InSync` alone is not inductive: a panic breaks it.  `NoOrphans` guarded by
`unwound` is not inductive alone either: `insert` tests the maps and writes the
log, so "a fresh key is in no logged pair" needs `OrderBound` (every logged pair
is bound in both maps), and `truncate` removes bindings by key and by value, so
"the pairs that stay logged stay bound" needs `OrderDistinct`.  Both halves must
survive panics, hence the unguarded `OrderCovered`.  All cuts of the log, whole
or interrupted, are instances of `CutTo(c, a, b)`: the log keeps `c` entries,
`fwd` loses those after `a`, `rev` those after `b`.  `CutKeepsCovered` needs only
`c <= a, b`, which is the order in which `truncate` works: log first, maps after.
`SequenceLemmas` holds the facts about prefixes and appended sequences.

The refinement takes `log <- order`: each step of `BTreeBimap` is, under `IInv`,
a step of `Bimap` or a stutter (`NoOrphans` turns a lookup in a map into a
lookup in the log).

### FlatRadixBimap

`FlatRadixBimap_proofs`, for all sets of ids, every width `UsizeSize`, every capacity
`MaxVecLen` below it, with and without overflow checks (`IdAssumption`,
`NoneAssumption`, `SizeAssumption`):

| theorem | statement |
|---|---|
| `TypeCorrect` | `Spec => []TypeOK` |
| `NeverDesync` | `Spec => []InSyncUntilUnwound` |
| `RollbackIsAtomic` | `Spec => RollbackRestores` |
| `FlatRadixBimapIsABimap` | `Spec => ImplementsBimap` |

`IInv == Typed /\ (unwound \/ Intact)`.  `Typed` is the part of `TypeOK` that also holds after a
wrapped resize; that the vectors reach every logged pair follows from `Intact`, whose slots hold
something (`SlotsReach`), and is why `truncate` cannot fault (`NoFaultWhileIntact`).  `InSync` compares sets of pairs, so it cannot
tell a pair logged twice from a pair logged once, and truncating one of the two would
empty the slots of the other: hence `OrderDistinct`, over *slots*, because two ids wider
than `usize` may share one.  `OrderBound` and `NoOrphans` say which slots are in use.
Since the vectors are read by slot, one lemma for
each way a vector changes (`GrownVector`, `WrittenSlot`, `EmptiedSlot`) says what every slot
reads afterwards; cuts are `CutTo(c, a, b)` as in `BTreeBimap`.  An insert that would wrap
raises `unwound`; every other one grows its vectors and loses no slot.  For the refinement the log and the answers are read by
index (`ByIndex`), and a cut or an append of the one is a cut or an append of the other.

### ArrayScopedStack

`ArrayScopedStack_proofs`, for every capacity `N` in `Nat`, all `Items` and every
`MaxMarks`, assuming that `None` is no item (`NoneAssumption`, `CapacityAssumption`):

| theorem | statement |
|---|---|
| `TypeCorrect` | `Spec => []TypeOK` |
| `ReachableStaysFilled` | `Spec => []ReachableSlotsFilled` |
| `ItemsAreReleased` | `Spec => []ReleasedUnlessAbandoned` |
| `RollbackIsLawful` | `Spec => RollbackRestores` |
| `ArrayIsAStack` | `Spec => ImplementsScopedStack` |

`IInv == SlotsOK /\ RestOK`.  `SlotsOK` joins the two invariants about slots and adds
`Iterator`: while one is alive its cursor is at or above the length, and otherwise
it is 0.  Without it a step of `DrainNext` could empty a slot of the log.  `RestOK` keeps
that a mark's length is the length of the log it was taken from (`MarksKept`), which
the laws of the contract compare.  For the refinement `Views` says what the two
abstract sequences are in terms of slots: the log has `len` entries and the i-th is
slot i, the pending ones are the slots from the cursor down to the length.  Each call then has
a lemma that compares both sequences entry by entry.

### DequeScopedQueue

`DequeScopedQueue_proofs`, for every width `GenSize` of the counter and both build
profiles (`GenAssumption`):

| theorem | statement |
|---|---|
| `TypeCorrect` | `Spec => []TypeOK` |
| `CounterAlwaysCovers` | `Spec => []CounterCovers` |
| `DequeIsAScopedQueue` | `Spec => ImplementsScopedQueue` |

`IInv` is `TypeOK /\ CounterCovers`: until the counter
overflows there are no more items than it counts, and the open scopes' marks are
nested below it; a rollback subtracts what it peels off the back, never more than
was counted since the mark (`PeeledFacts`), and one cut short by a `Drop` subtracts one
less than it took.

The refinement derives an item's scope from its place in the count of pushes: it is the
number of marks below `generation - Len(items) + i`.  Over nested marks those are
the first ones (`CountFacts`, by a least counterexample), so the scopes rise
along the queue and a cut at a mark keeps exactly the items of the scopes outside
(`UndoIsUndo`).  A pull moves the base of the count by one and no item's scope
(`ScopedPull`); entering a scope puts no item into it (`ScopedEnter`); forgetting the
last mark lowers the scope of that mark's items by one (`ScopedCommit`).

### ShardedArtOrderedMap

`ShardedArtOrderedMap_proofs`, for all threads, keys, numbers of shards, hashes, op_seqs,
and bounds on calls, batches and panics (`ShardAssumption`, `SeqAssumption`,
`BoundAssumption`):

| theorem | statement |
|---|---|
| `TypeCorrect` | `Spec => []TypeOK` |
| `NoUpdateIsLost` | `Spec => []NoLostUpdate` |
| `BatchesAreWhole` | `Spec => []BatchAtomicPerShard` |
| `GenerationsNeverLead` | `Spec => []GenerationsTrail` |
| `SnapshotsAreOfTheirCall` | `Spec => []SnapshotPerShard` |
| `LastInsertIsResident` | `Spec => []LastInsertWins` |
| `AlwaysConverges` | `Spec => []Converged` |
| `ReadsOnlyMoveForward` | `Spec => ReadsMoveForward` |

The inductive invariant has these parts, each for a reason:

- `Types`, with `moments` typed as well.
- `Numbered`, `AutoOrdered`: ops are numbered as they are issued, no two share a number,
  calls share no ops, and the op_seqs of inserts rise with their numbers.  That is why an
  entry of a tree identifies its op, and why the later insert wins.
- `Flow`: where each writing thread stands (`ThreadOK`).  The ops of the shards behind it
  have landed and are counted, those of the shard it is counting have landed; no two
  threads run the same call.  Without it a thread that raises `maxSeq` could do so
  for an op that is nowhere.
- `Resident`: `NoLostUpdate` and `BatchAtomicPerShard`, and that every root, in the map or
  in a snapshot, holds only issued ops: a batch issued later is in none of them.
- `SnapOK`: a snapshot in progress has the current roots among its `moments`, and has
  loads left to make.
- `Counted`: the values the counters have (`Trailing`), that each landed op is covered by its
  shard's counter or its thread is about to see to it, and that `maxSeq` was raised by a call
  that is over.  Together they give `GenerationsTrail`: the op behind `maxSeq` has no thread
  left that could owe its shard's counter anything.  `Converged` follows when no thread
  is inside a call.

`FoldedFacts` is the lemma about the closure: an entry of the new root is the old one
or that of an op of the shard with a higher op_seq, and every op of the shard is
covered.  That the highest op exists (`HasBest`, behind `Winner` and `MaxOf`) would be an
induction over a finite set; it is proved by a least counterexample, with
`WFMin` of the library, which has no operator as parameter.

### ShardedRadixOrderedMap

`ShardedRadixOrderedMap_proofs`, for all threads, keys and bounds that are strings of
bytes, all numbers of shards, lengths of the shard prefix and hashes (`ShardAssumption`,
`ByteAssumption`, `BoundAssumption`):

| theorem | statement |
|---|---|
| `TypeCorrect` | `Spec => []TypeOK` |
| `NoRetryForgotten` | `Spec => []RetriesCounted` |
| `SnapshotsMissNothing` | `Spec => []SnapshotHoldsTheMap` |
| `RangesOfAPrefixAreExact` | `Spec => []RangeOfPrefixIsExact` |
| `InsertsTakeEffectOnce` | `Spec => InsertsAreAtomic` |

The parts of the inductive invariant:

- `Types`, `LocalsOK`: the locals of a thread where it uses them.  An insert under way
  has a key, a range between two shards has shards left to read, a snapshot fewer
  roots than there are shards.
- `RetriesAddUp`: each failed swap is in the counter, lost to a panic, or one of
  `Pending`, the set of attempts beyond the first of inserts under way.  A set with one
  element per attempt, because a sum over the threads would be a fold, of which the provers
  know nothing; a failed swap adds one element, the end of an insert takes
  `tries - 1` of them out.
- `Placed`: a shard holds keys that hash to it.  Without it a range that reads one shard
  could find a key of another, and a snapshot one key twice.
- `HistoryHolds`: `held` has whatever the map has now, and the keys of `first` never go.
  So what a scan loads at its next step is already in its history.
- `RangeSoFar`, `SnapshotSoFar`: of the shards visited so far the result is right.
  `RangeKeeps` needs that a shard is visited once, or a key might be found with two values.

A range that reads one shard is exact because a key between two bounds that share their
first `ShardPrefix` bytes shares them too (`RangeSharesPrefix`, `TargetsAreEnough`).  For
`InsertsAreAtomic` the swap is the step that takes effect, with the stages of a
thread mapped to a call, its effect and its end.

### Byte strings

`SequenceLemmas`, for strings of any length:

| theorem | statement |
|---|---|
| `EnteredIsSound` | the subtree of every prefix of a key within the bounds is entered |
| `LessIsTotal` | the order is irreflexive, transitive and total |

The first is the pruning that `collect` of the sharded map, the trie and the ART's visitor
share; it follows from `CutsKeepOrder`: cutting two strings at one place never turns their
order around.  `LessByBytes` states the order in terms of one deciding byte, and
`DifferenceDecides` finds that byte as the least of those that differ.

### The trees

`RadixMaps_proofs`, for every set of keys and bounds, every number of bytes and all capacities
that rise (`KeysAssumption`, `WritesAssumption`, `ValueAssumption`, `CapAssumption`):

| theorem | statement |
|---|---|
| `TrieIsAMap` | `Spec => []RadixIsAMap` |
| `ArtTreeIsAMap` | `Spec => []ArtIsAMap` |
| `ArtPanicsOnPrefixesOnly` | `Spec => []ArtGetPanicsOnPrefixesOnly` |
| `TreesAreWellFormed` | `Spec => []TypeOK` |

None of the invariants is inductive: an insert takes the tree apart along one way, and
what it does depends on nodes that no key of the map leads to.  So both
inductive invariants quantify over all strings of bytes, not over `Keys`.

*Ways.*  A recursive function of this kind is a `CHOOSE`; that some function fits its definition is
shown by a least counterexample (`DownIsDefined`, `CopiesIsDefined`; `WayIsDefined`, `CopiesAreDefined`),
and everything else unfolds it one step at a time.

*The trie.*  `TrieInv`: it is sound (wherever a string leads, edges are sorted),
every string of numbers leads to what the plain map has for it, and the cached length is the
number of keys.  `InsertedFacts` is the lemma: an insert changes what one string leads to.
`PosOfSplits` is binary search on sorted edges, by cardinalities; `WithChildFacts` says that
putting a child under one byte changes what is below that byte and no other.

*Containers.*  `Kept(ch)`: the container is as the code keeps its kind, with no more children
than the kind holds.  Then `ChildOf` makes it a finite function of the bytes, whatever
the kind, and the rest of the proof knows no kinds: growth changes nothing
(`GrownIfFullFacts`) and makes room after at most three times (`RoomFacts`), `Added` and `Replaced`
change one byte (`AddedFacts`, `ReplacedFacts`).

*Nodes.*  `Sound(n, d, k)`: every place on every way below `n`, itself `d` bytes down the way of
`k`, is either a leaf whose key spells the bytes that lead there or an inner node that forks over a
`Kept` container, and some key is found below it.  The last part is needed for the panics: an
insert panics where its key ends inside a prefix or at a fork, and that this is a clash, the
key being a prefix of a stored one, takes a key that is stored below (`InnerClash`).

*Inserts.*  `Outcome` says what an insert comes to: a panic, and then the key clashes with one found
below; or a sound node under which that key has the new value and every other string what
it had.  `Mono` compares the insert that keeps values as new.  They are proved
where the way stops (`LeafChanged`: replaced or split; `InnerChanged`: prefix split, panic or child
added), and carried from a child to its parent (`ChildInserted`).  `InsertFacts` is the induction
over the number of bytes of the key that are left, with `StepByStep`, a least counterexample again.

*The state machine.*  `ArtInv`: no root or a sound one, under every string what the plain
map has, the plain map well formed, and the cached length its size.  The three theorems on the
ART follow: `Clashes` is about stored keys, `Outcome` about found ones, and the invariant says
they are the same.

### Only model-checked

- `CallsReturn` of both sharded maps: liveness under fairness, out of the prover's reach.
- `RadixRangesExact`, `ArtRangesExact` and `ShapesForgetHistory`: the walks over whole trees are
  recursive operators, through which the provers do not see.  What is proved of ranges is the
  order and the pruning they use (`EnteredIsSound`, `LessIsTotal`).
- `FoldedIsTheLoop`, for the same reason.
- The inductive invariants `TrieInv` and `ArtInv` speak of infinitely many strings; TLC checks
  what follows from them.
- The runs that end in a violation, which TLC's counterexamples settle.

## 5. Not modelled, and taken as given

- The sharded maps use the trees as the maps that `RadixMaps_proofs` proves them to be,
  for lookups and inserts, and that `radix_maps` checks them to be for ranges.
  `ShardedRadixOrderedMap` repeats the pruning of `collect` (`Collected`), because that
  and the choice of shards together decide what a range finds.
- The trees' estimate of bytes: sums of `size_of`, which have no counterpart here.
- The Map/Set facade and the macros behind it (`group!`, `implgroup_for!`, the wrappers
  of `lib.rs`): they forward to std collections and keep no state.  Feature tiers and
  build scripts choose what is compiled.
- The twins of the implementations under the unstable allocator feature: the same
  text with an allocator parameter, except that they put `clear` into an `impl` of
  `Container`, which does not declare it.
- `arc-swap` and `AtomicU64` are external: one atomic step per operation, and the models
  are sequentially consistent.  The code's counters are `Relaxed`: on a weakly ordered
  machine a reader may see a raised counter before the root it speaks of.  No property
  covers that.
- `VecDeque` and `Vec` iterators behave as documented.
- An item's `Drop` panics in `ArrayScopedStack` and `DequeScopedQueue`; in `VecScopedStack`
  the cut is `Vec`'s own, which sets its length first and goes on dropping the rest.  The
  elements of `BTreeBimap` panic in `Clone` and `Ord`, not in `Drop` (a `clear` cut short by one
  would leave `fwd` empty beside a full `rev` and log).
- In both sharded maps a panicking call is one whose closure panics inside `rcu`, before its
  swap.  A swap may also release the last hold on the old root, and a `Drop` of a replaced value
  that panics there ends the call after the swap and before it has raised its counters or added
  its retries (`concurrent_art.rs:86` and `113`, `concurrent.rs:151`).  That is not modelled: who
  lets go of a root last is up to arc-swap and the readers, and roots are values here.  What
  `Converged`, `GenerationsTrail` and `RetriesCounted` say of a call that panicked does not extend to it.
- That an insert after an `apply` with a much higher op_seq lands nothing
  (`concurrent_art.rs:78`) is what the code does, and no property forbids it; `NoLostUpdate` and
  `LastInsertWins` say that nothing but an op_seq at least as high has that effect.
- Past the overflow of its counter a `DequeScopedQueue` promises nothing about scopes until a
  clear; only `TypeOK` goes on.
- Benches, examples and tests are clients, read for how the library is used.

## 6. Plan

What is left, most important first.

1. The walks over whole trees without recursive operators: as functions of the paths
   that keys spell, so that `RadixRangesExact`, `ArtRangesExact` and `ShapesForgetHistory`
   come within reach of the proofs.  `TrieInv` and `ArtInv` already say what is under every path.
2. Three threads in the sharded maps, if the state space allows; the proofs already hold
   for any number.

## Running

    tlc -config BTreeBimap.cfg MCBTreeBimap.tla     # one run; the list is in PROJECT.json
    tlapm BTreeBimap_proofs.tla                     # the proofs of one component;
                                                    # the other *_proofs and SequenceLemmas alike
