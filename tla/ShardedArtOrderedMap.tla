------------------------ MODULE ShardedArtOrderedMap ------------------------
(***************************************************************************)
(* ShardedArtOrderedMap of portable-maps-and-sets                          *)
(* (src/radix/concurrent_art.rs): a concurrent map whose keys are spread   *)
(* over shards, each an immutable tree behind one atomic root pointer.     *)
(* Every value carries an op_seq and a write lands only over a lower one.  *)
(* Writers load a root, build a new one and swap it in if the pointer has  *)
(* not moved (rcu of the external crate arc-swap); then they raise two     *)
(* counters, one atomic step each.                                         *)
(*                                                                         *)
(* A tree is the map it stores.  A new root is built only when a write     *)
(* lands, and writes only raise a key's op_seq, so no two roots of a shard *)
(* have equal contents: comparing contents is comparing pointers.          *)
(* apply is apply_batch of one op: same steps, same order.  A thread's     *)
(* dead locals are reset, so that states differ only where the program's   *)
(* do.                                                                     *)
(*                                                                         *)
(* The closure of an rcu may panic: a key that is a proper prefix of a     *)
(* stored one indexes past its end, and V's Clone is the caller's code.    *)
(* The call unwinds with the shards it has swapped left as they are and    *)
(* the counters it had still to raise left alone.                          *)
(***************************************************************************)
EXTENDS Integers, FiniteSets, SequencesExt

CONSTANTS Threads, Keys,
          NumShards,
          ShardOf,       \* the shard of a key: a hash of its leading bytes
          Seqs,          \* op_seqs a caller of apply may supply
          MaxOps,        \* bound: ops issued and snapshots begun, in all
          MaxBatch,      \* bound: ops in one batch
          MaxPanics      \* bound: calls that panic, in all

Shards == 1..NumShards

ASSUME ShardAssumption == NumShards \in Nat \ {0} /\ ShardOf \in [Keys -> Shards]
ASSUME SeqAssumption == Seqs \subseteq Nat
ASSUME BoundAssumption == MaxOps \in Nat /\ MaxBatch \in Nat /\ MaxPanics \in Nat

VARIABLES roots,      \* the root of each shard: key -> entry
          shardMax,   \* Vec<AtomicU64>: max applied op_seq of each shard
          maxSeq,     \* AtomicU64: max applied op_seq of all
          seqGen,     \* AtomicU64: the next op_seq of insert
          pc,         \* what each thread does next
          ops,        \* the ops of the call a thread is in
          cur,        \* the shard that call is at
          seen,       \* the root its rcu loaded last
          view,       \* the roots its snapshot holds so far, in shard order
          calls,      \* history: the set of ops of every write call
          landed,     \* history: the ops whose root swap is done
          unwound,    \* history: the ops of the calls that panicked
          moments,    \* history: all roots at each moment of a snapshot call
          snapshots   \* how many snapshots were begun, for the bound

shared == <<roots, shardMax, maxSeq, seqGen>>
locals == <<pc, ops, cur, seen, view>>
history == <<calls, landed, unwound, moments, snapshots>>
vars == <<shared, locals, history>>

-----------------------------------------------------------------------------
(* An op carries the number of its value, counted as calls begin: no two   *)
(* ops write the same value.  auto: insert chose the op_seq, not a caller. *)
Op(k, id, seq, auto) == [key |-> k, id |-> id, seq |-> seq, auto |-> auto]

(* What a tree holds for a key: (op_seq, value), or nothing.               *)
Absent == [seq |-> -1, id |-> 0]
EntryOf(op) == [seq |-> op.seq, id |-> op.id]
EmptyRoot == [k \in Keys |-> Absent]

Issued == UNION calls
MaxOf(S) == CHOOSE n \in S : \A m \in S : m <= n

InShard(ops_t, s) == {i \in DOMAIN ops_t : ShardOf[ops_t[i].key] = s}
ShardsHit(ops_t) == {ShardOf[ops_t[i].key] : i \in DOMAIN ops_t}

(* insert_mono: an op lands on an absent key or over a lower op_seq.       *)
Lands(entry, op) == op.seq > entry.seq

(* Of a batch's ops on k, the one the loop leaves resident: the first of   *)
(* those with the highest op_seq.                                          *)
Winner(ops_t, k) ==
    CHOOSE i \in DOMAIN ops_t :
        /\ ops_t[i].key = k
        /\ \A j \in DOMAIN ops_t :
              ops_t[j].key = k => \/ ops_t[j].seq < ops_t[i].seq
                                  \/ ops_t[j].seq = ops_t[i].seq /\ i <= j

(* The root the rcu closure builds: the ops of shard s folded in, in order. *)
Folded(root, ops_t, s) ==
    [k \in Keys |->
        IF \E i \in InShard(ops_t, s) : ops_t[i].key = k /\ Lands(root[k], ops_t[i])
        THEN EntryOf(ops_t[Winner(ops_t, k)])
        ELSE root[k]]

(* get and key_seq: one load of the key's shard, one lookup.               *)
Get(k) == roots[ShardOf[k]][k]
KeySeq(k) == Get(k).seq

-----------------------------------------------------------------------------
Init ==
    /\ roots = [s \in Shards |-> EmptyRoot]
    /\ shardMax = [s \in Shards |-> 0]
    /\ maxSeq = 0
    /\ seqGen = 1
    /\ pc = [t \in Threads |-> "idle"]
    /\ ops = [t \in Threads |-> <<>>]
    /\ cur = [t \in Threads |-> 1]
    /\ seen = [t \in Threads |-> EmptyRoot]
    /\ view = [t \in Threads |-> <<>>]
    /\ calls = {} /\ landed = {} /\ unwound = {}
    /\ moments = [t \in Threads |-> {}]
    /\ snapshots = 0

Goto(t, from, to) == pc[t] = from /\ pc' = [pc EXCEPT ![t] = to]

(* A write call begins: its ops are grouped by shard, lowest shard first.  *)
StartWrite(t, ops_t) ==
    /\ Goto(t, "idle", "load")
    /\ ops' = [ops EXCEPT ![t] = ops_t]
    /\ cur' = [cur EXCEPT ![t] = CHOOSE s \in ShardsHit(ops_t) :
                                     \A r \in ShardsHit(ops_t) : s <= r]
    /\ calls' = calls \union {ToSet(ops_t)}
    /\ UNCHANGED <<roots, shardMax, maxSeq, seen, view, landed, unwound, moments, snapshots>>

NextId == Cardinality(Issued) + 1
Budget(n) == Cardinality(Issued) + snapshots + n <= MaxOps

(* Mutant: seq_gen is read, not advanced.                                  *)
Insert_NoAdvance(t, k) ==
    /\ Budget(1)
    /\ StartWrite(t, <<Op(k, NextId, seqGen, TRUE)>>)
    /\ UNCHANGED seqGen

(* insert: take the next op_seq (fetch_add), then apply.                   *)
Insert(t, k) ==
    /\ Budget(1)
    /\ seqGen' = seqGen + 1
    /\ StartWrite(t, <<Op(k, NextId, seqGen, TRUE)>>)

(* apply_batch, and apply with a batch of one: the op_seqs are the         *)
(* caller's, in any order.                                                 *)
ApplyBatch(t, n, keys, seqs) ==
    /\ Budget(n)
    /\ StartWrite(t, [i \in 1..n |-> Op(keys[i], NextId + i - 1, seqs[i], FALSE)])
    /\ UNCHANGED seqGen

Raised(counter, seq) == IF seq > counter THEN seq ELSE counter

(* shard_max.fetch_max with the highest of the call's op_seqs there.       *)
CountShard(t) ==
    shardMax' = [shardMax EXCEPT ![cur[t]] =
                    Raised(@, MaxOf({ops[t][i].seq : i \in InShard(ops[t], cur[t])}))]

(* Mutant: the shard's counter is raised before the swap.                  *)
Load_CountsFirst(t) ==
    /\ Goto(t, "load", "swap")
    /\ seen' = [seen EXCEPT ![t] = roots[cur[t]]]
    /\ CountShard(t)
    /\ UNCHANGED <<roots, maxSeq, seqGen, ops, cur, view, history>>

(* rcu begins: load the shard's root.                                      *)
Load(t) ==
    /\ Goto(t, "load", "swap")
    /\ seen' = [seen EXCEPT ![t] = roots[cur[t]]]
    /\ UNCHANGED <<shared, ops, cur, view, history>>

(* The shard's pointer now leads to root.                                  *)
Install(t, root) ==
    /\ Goto(t, "swap", "shard_max")
    /\ roots' = [roots EXCEPT ![cur[t]] = root]
    /\ seen' = [seen EXCEPT ![t] = EmptyRoot]
    /\ landed' = landed \union {ops[t][i] : i \in InShard(ops[t], cur[t])}
    /\ moments' = [u \in Threads |->
                      IF pc[u] = "snapshot" THEN moments[u] \union {roots'} ELSE moments[u]]
    /\ UNCHANGED <<shardMax, maxSeq, seqGen, ops, cur, view, calls, unwound, snapshots>>

(* Mutant: the swap does not compare.                                      *)
Swap_Blind(t) == Install(t, Folded(seen[t], ops[t], cur[t]))

(* Mutant: the closure folds in the first of the shard's ops only.         *)
Swap_FirstOnly(t) ==
    LET first == CHOOSE i \in InShard(ops[t], cur[t]) :
                     \A j \in InShard(ops[t], cur[t]) : i <= j
    IN  /\ roots[cur[t]] = seen[t]
        /\ Install(t, Folded(seen[t], <<ops[t][first]>>, cur[t]))

(* Mutant: a root is built from nothing, not from the one loaded.          *)
Swap_FromEmpty(t) ==
    roots[cur[t]] = seen[t] /\ Install(t, Folded(EmptyRoot, ops[t], cur[t]))

(* The root has not moved: the new one goes in.                            *)
Swap(t) == roots[cur[t]] = seen[t] /\ Install(t, Folded(seen[t], ops[t], cur[t]))

(* Mutant: the failed swap keeps comparing with the root it loaded first.  *)
Retry_KeepsStale(t) ==
    /\ pc[t] = "swap"
    /\ roots[cur[t]] # seen[t]
    /\ UNCHANGED vars

(* The root has moved: start over from the one found.                      *)
Retry(t) ==
    /\ pc[t] = "swap"
    /\ roots[cur[t]] # seen[t]
    /\ seen' = [seen EXCEPT ![t] = roots[cur[t]]]
    /\ UNCHANGED <<shared, pc, ops, cur, view, history>>

LaterShards(t) == {s \in ShardsHit(ops[t]) : s > cur[t]}

(* Mutant: the walk over the shards takes one too many.                    *)
RaiseShardMax_WalksOn(t) ==
    /\ Goto(t, "shard_max", "load")
    /\ CountShard(t)
    /\ cur' = [cur EXCEPT ![t] = @ + 1]
    /\ UNCHANGED <<roots, maxSeq, seqGen, ops, seen, view, history>>

(* The shard's counter goes up; on to the next shard of the batch, if any. *)
RaiseShardMax(t) ==
    /\ pc[t] = "shard_max"
    /\ CountShard(t)
    /\ \/ /\ LaterShards(t) # {}
          /\ Goto(t, "shard_max", "load")
          /\ cur' = [cur EXCEPT ![t] = CHOOSE s \in LaterShards(t) :
                                           \A r \in LaterShards(t) : s <= r]
       \/ /\ LaterShards(t) = {}
          /\ Goto(t, "shard_max", "max_seq")
          /\ UNCHANGED cur
    /\ UNCHANGED <<roots, maxSeq, seqGen, ops, seen, view, history>>

(* The call is over, and its locals with it.                               *)
Leave(t, from) ==
    /\ Goto(t, from, "idle")
    /\ ops' = [ops EXCEPT ![t] = <<>>]
    /\ cur' = [cur EXCEPT ![t] = 1]

HighestOf(t) == MaxOf({ops[t][i].seq : i \in DOMAIN ops[t]})

(* Mutant: a plain store of the call's maximum.                            *)
RaiseMaxSeq_Stores(t) ==
    /\ Leave(t, "max_seq")
    /\ maxSeq' = HighestOf(t)
    /\ UNCHANGED <<roots, shardMax, seqGen, seen, view, history>>

(* max_seq.fetch_max, and the call returns.                                *)
RaiseMaxSeq(t) ==
    /\ Leave(t, "max_seq")
    /\ maxSeq' = Raised(maxSeq, HighestOf(t))
    /\ UNCHANGED <<roots, shardMax, seqGen, seen, view, history>>

(* The closure panics on some op of the shard: nothing is swapped there.   *)
ClosurePanics(t) ==
    /\ Cardinality({c \in calls : c \subseteq unwound}) < MaxPanics
    /\ Leave(t, "swap")
    /\ seen' = [seen EXCEPT ![t] = EmptyRoot]
    /\ unwound' = unwound \union ToSet(ops[t])
    /\ UNCHANGED <<shared, view, calls, landed, moments, snapshots>>

(* snapshot begins; the history notes the roots of that moment.            *)
StartSnapshot(t) ==
    /\ Budget(1)
    /\ snapshots' = snapshots + 1
    /\ Goto(t, "idle", "snapshot")
    /\ moments' = [moments EXCEPT ![t] = {roots}]
    /\ UNCHANGED <<shared, ops, cur, seen, view, calls, landed, unwound>>

LoadRoot(t, root) ==
    /\ pc[t] = "snapshot"
    /\ view' = [view EXCEPT ![t] = Append(@, root)]
    /\ \/ Len(view'[t]) < NumShards /\ Goto(t, "snapshot", "snapshot")
       \/ Len(view'[t]) = NumShards /\ Goto(t, "snapshot", "view")
    /\ UNCHANGED <<shared, ops, cur, seen, history>>

(* Mutant: the first shard is loaded for all of them.                      *)
LoadForSnapshot_First(t) == LoadRoot(t, roots[1])

(* The roots are loaded one shard after the other.                         *)
LoadForSnapshot(t) == LoadRoot(t, roots[Len(view[t]) + 1])

(* The caller lets go of its snapshot.                                     *)
DropSnapshot(t) ==
    /\ Goto(t, "view", "idle")
    /\ view' = [view EXCEPT ![t] = <<>>]
    /\ moments' = [moments EXCEPT ![t] = {}]
    /\ UNCHANGED <<shared, ops, cur, seen, calls, landed, unwound, snapshots>>

-----------------------------------------------------------------------------
(* A thread inside a call; and what its caller may make it do next.        *)
Step(t) ==
    \/ Load(t) \/ Swap(t) \/ Retry(t) \/ RaiseShardMax(t) \/ RaiseMaxSeq(t)
    \/ LoadForSnapshot(t)

Call(t) ==
    \/ \E k \in Keys : Insert(t, k)
    \/ \E n \in 1..MaxBatch : \E keys \in [1..n -> Keys], seqs \in [1..n -> Seqs] :
          ApplyBatch(t, n, keys, seqs)
    \/ StartSnapshot(t)
    \/ DropSnapshot(t)

Next == \E t \in Threads : Step(t) \/ Call(t) \/ ClosurePanics(t)

(* Each thread that is inside a call is scheduled again and again; nobody  *)
(* has to make a call, let go of a snapshot or panic.                      *)
Fairness == \A t \in Threads : WF_vars(Step(t))

Spec == Init /\ [][Next]_vars /\ Fairness

-----------------------------------------------------------------------------
PCs == {"idle", "load", "swap", "shard_max", "max_seq", "snapshot", "view"}
Entries == [seq : Nat \union {-1}, id : Nat]
RootType == [Keys -> Entries]
OpType == [key : Keys, id : Nat, seq : Nat, auto : BOOLEAN]

SeqsIn(opSet) == {op.seq : op \in opSet}
OnKey(k) == {op \in Issued : op.key = k}
OnShard(s) == {op \in Issued : ShardOf[op.key] = s}

(* If root holds the write of one op of a call on shard s, it holds those  *)
(* of its other ops there, or later ones.                                  *)
WholeBatch(root, s) ==
    \A c \in calls :
        \A op, other \in c :
            /\ ShardOf[op.key] = s /\ ShardOf[other.key] = s
            /\ root[op.key] = EntryOf(op)
            => root[other.key].seq >= other.seq

(* Roots, counters and the threads' locals stay in their types.            *)
TypeOK ==
    /\ roots \in [Shards -> RootType]
    /\ shardMax \in [Shards -> Nat] /\ maxSeq \in Nat /\ seqGen \in Nat
    /\ pc \in [Threads -> PCs]
    /\ ops \in [Threads -> Seq(OpType)]
    /\ cur \in [Threads -> Shards]
    /\ seen \in [Threads -> RootType]
    /\ view \in [Threads -> Seq(RootType)]
    /\ \A c \in calls : c \subseteq OpType
    /\ landed \subseteq Issued /\ unwound \subseteq Issued

(* No lost update, whatever races: once an op's swap is done its key never *)
(* again reads with a lower op_seq, and what is resident was written by an *)
(* op that landed on that key (apply, apply_batch and their rcu).          *)
NoLostUpdate ==
    /\ \A op \in landed : KeySeq(op.key) >= op.seq
    /\ \A k \in Keys : Get(k) = Absent \/ \E op \in landed : op.key = k /\ Get(k) = EntryOf(op)

(* "order-independent": when no call is under way each key holds a write   *)
(* with the highest op_seq of those that landed on it, in whatever order   *)
(* the calls and their retries ran, every op of a call that returned has   *)
(* landed, and each shard's counter says the same of the shard.  The       *)
(* counter of the whole map stands at the highest op_seq of the calls that *)
(* returned: a batch that panicked half way has landed ops above it.       *)
Converged ==
    (\A t \in Threads : pc[t] \in {"idle", "snapshot", "view"}) =>
        /\ Issued \ unwound \subseteq landed
        /\ \A k \in Keys : KeySeq(k) = MaxOf({-1} \union SeqsIn(landed \intersect OnKey(k)))
        /\ \A s \in Shards :
              shardMax[s] = MaxOf({0} \union SeqsIn(landed \intersect OnShard(s)))
        /\ maxSeq = MaxOf({0} \union SeqsIn(Issued \ unwound))

(* The generations never run ahead of the trees: a value of shard_max is   *)
(* the op_seq of an op that has landed in that shard, one of max_seq of an *)
(* op that has landed and that its shard's counter already covers.         *)
GenerationsTrail ==
    /\ \A s \in Shards : shardMax[s] \in {0} \union SeqsIn(landed \intersect OnShard(s))
    /\ \/ maxSeq = 0
       \/ \E o \in landed : o.seq = maxSeq /\ maxSeq <= shardMax[ShardOf[o.key]]

(* "Atomic per shard (one CAS)": no root, current or held by a snapshot,   *)
(* shows one op of a batch without the others of that shard.               *)
BatchAtomicPerShard ==
    /\ \A s \in Shards : WholeBatch(roots[s], s)
    /\ \A t \in Threads : \A s \in DOMAIN view[t] : WholeBatch(view[t][s], s)

(* "insert (auto op_seq, monotone last-writer-wins)", among inserts: of    *)
(* the inserts that landed on a key, none resident is older than another.  *)
LastInsertWins ==
    \A o, p \in landed :
        o.auto /\ p.auto /\ o.key = p.key /\ Get(o.key) = EntryOf(o) => p.id <= o.id

(* What a reader finds for a key only moves forward: its op_seq never      *)
(* falls, and its value changes only with a higher op_seq.                 *)
ReadsMoveForward ==
    [][\A k \in Keys : Get(k)' = Get(k) \/ KeySeq(k)' > KeySeq(k)]_vars

(* Every shard of a snapshot is the root that shard had at some moment of  *)
(* the snapshot call.                                                      *)
SnapshotPerShard ==
    \A t \in Threads : \A s \in DOMAIN view[t] : \E m \in moments[t] : view[t][s] = m[s]

(* "An immutable, isolated point-in-time view" (concurrent_art.rs, line    *)
(* 180): some one moment of the call had all these roots.                  *)
SnapshotIsPointInTime ==
    \A t \in Threads : pc[t] = "view" => \E m \in moments[t] : view[t] = m

(* "recovery scans shard s need only reconcile cached ops with seq >       *)
(* shard_max_seq(s)" (concurrent_art.rs, lines 161-164): an issued op at   *)
(* or below its shard's maximum is in the shard, or a later write of its   *)
(* key is.                                                                 *)
RecoveryBoundIsSafe ==
    \A op \in Issued : op.seq <= shardMax[ShardOf[op.key]] => KeySeq(op.key) >= op.seq

(* Every call returns, as long as the others make finitely many: a swap    *)
(* fails only because another one succeeded, so again and again no thread  *)
(* is inside a call.                                                       *)
CallsReturn == []<>(\A t \in Threads : pc[t] \in {"idle", "view"})
=============================================================================
