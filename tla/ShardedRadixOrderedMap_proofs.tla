-------------------- MODULE ShardedRadixOrderedMap_proofs --------------------
(***************************************************************************)
(* TLAPS proofs about ShardedRadixOrderedMap, for any threads, any byte    *)
(* strings as keys and bounds, any number of shards, any length of the     *)
(* shard prefix and any hash of it.                                        *)
(***************************************************************************)
EXTENDS ShardedRadixOrderedMap, SequenceLemmas, FiniteSetTheorems

Inserting(t) == pc[t] \in {"load", "swap", "count"}
Scanning(t) == pc[t] \in {"range", "snapshot"}
Ranging(t) == pc[t] \in {"range", "ranged"}
Viewing(t) == pc[t] \in {"snapshot", "snapped"}

QueryType == [lo : Bounds \union {<<>>}, hi : Bounds \union {<<>>}, todo : Seq(Shards)]
OpType == [key : Keys \union {<<>>}, id : Nat]
PairType == Keys \X (Nat \ {0})
Stages == {"idle", "load", "swap", "count", "range", "ranged", "snapshot", "snapped"}

(* The types, those TypeOK leaves open included.                           *)
Types ==
    /\ roots \in [Shards -> RootType] /\ retries \in Nat
    /\ pc \in [Threads -> Stages]
    /\ op \in [Threads -> OpType]
    /\ seen \in [Threads -> RootType]
    /\ tries \in [Threads -> Nat]
    /\ query \in [Threads -> QueryType]
    /\ got \in [Threads -> SUBSET PairType]
    /\ view \in [Threads -> Seq(RootType)]
    /\ held \in [Threads -> SUBSET PairType]
    /\ first \in [Threads -> SUBSET Keys]
    /\ failed \in Nat /\ lost \in Nat /\ inserts \in Nat /\ panics \in Nat

(* What a thread's locals hold where it uses them.                         *)
ThreadOK(t) ==
    /\ Inserting(t) => op[t].key \in Keys /\ op[t].id \in 1..MaxInserts
    /\ pc[t] \in {"swap", "count"} => tries[t] >= 1
    /\ Ranging(t) => query[t].lo \in Bounds /\ query[t].hi \in Bounds
    /\ pc[t] = "range" => query[t].todo # <<>>
    /\ pc[t] = "ranged" => query[t].todo = <<>>
    /\ ~Ranging(t) => got[t] = {}
    /\ ~Viewing(t) => view[t] = <<>>
    /\ pc[t] = "snapshot" => Len(view[t]) < NumShards
    /\ pc[t] = "snapped" => Len(view[t]) = NumShards

LocalsOK == \A t \in Threads : ThreadOK(t)

(* The attempts beyond the first of inserts that are still under way, one  *)
(* element for each.                                                       *)
Pending ==
    {a \in Threads \X Nat : /\ pc[a[1]] \in {"swap", "count"}
                            /\ a[2] >= 1 /\ a[2] < tries[a[1]]}

(* Every failed swap is in the counter, lost, or with a thread.            *)
RetriesAddUp ==
    /\ IsFiniteSet(Pending)
    /\ failed = retries + lost + Cardinality(Pending)

(* A shard holds keys of its own only.                                     *)
Placed == \A s \in Shards, k \in Keys : roots[s][k] # 0 => ShardOf(k) = s

(* While a scan runs, nothing it could load was missed by its history, and *)
(* no key that was there when it began has gone.                           *)
HistoryHolds ==
    \A t \in Threads : Scanning(t) =>
        /\ AllPairs \subseteq held[t]
        /\ \A k \in first[t] : Get(k) # 0

(* The shards a range visits, and those it has visited.                    *)
Targets(q) == IF OneShard(q.lo, q.hi) THEN {ShardOf(q.lo)} ELSE Shards
Visited(q) == Targets(q) \ ToSet(q.todo)

(* A range has, of the shards it visited, each key that was there when it  *)
(* began, with one of its values; it visits a shard once.                  *)
RangeKeeps(t, q) ==
    /\ ToSet(q.todo) \subseteq Targets(q)
    /\ \A i, j \in 1..Len(q.todo) : q.todo[i] = q.todo[j] => i = j
    /\ \A p \in got[t] : /\ InRange(p[1], q.lo, q.hi)
                         /\ p \in held[t]
                         /\ ShardOf(p[1]) \in Visited(q)
    /\ \A k \in first[t] : InRange(k, q.lo, q.hi) /\ ShardOf(k) \in Visited(q)
                              => \E p \in got[t] : p[1] = k
    /\ \A p1, p2 \in got[t] : p1[1] = p2[1] => p1 = p2

RangeSoFar == \A t \in Threads : Ranging(t) => RangeKeeps(t, query[t])

(* A snapshot holds, of the shards it loaded, values of its history.       *)
Remembered(t, k, v) == IF v = 0 THEN k \notin first[t] ELSE <<k, v>> \in held[t]

SnapshotSoFar ==
    \A t \in Threads : Viewing(t) =>
        \A k \in Keys : ShardOf(k) <= Len(view[t]) => Remembered(t, k, SnapshotGet(t, k))

(* The inductive invariant.                                                *)
IInv == /\ Types /\ LocalsOK /\ RetriesAddUp /\ Placed
        /\ HistoryHolds /\ RangeSoFar /\ SnapshotSoFar

-----------------------------------------------------------------------------
(* A key or a bound has a shard.                                           *)
LEMMA ShardFacts ==
    /\ NumShards \in Nat \ {0} /\ ShardPrefix \in Nat \ {0}
    /\ \A k \in Keys : ShardOf(k) \in Shards /\ k \in Seq(Nat)
    /\ \A b \in Bounds : ShardOf(b) \in Shards /\ b \in Seq(Nat)
<1>1. \A k \in Keys \union Bounds : HashOf[Cut(k, ShardPrefix)] \in Shards
  BY ShardAssumption
<1>2. \A k \in Keys \union Bounds : k \in Seq(Nat)
  <2> SUFFICES ASSUME NEW k \in Keys \union Bounds PROVE k \in Seq(Nat)
    OBVIOUS
  <2>1. k \in Seq(0..255) /\ (0..255) \subseteq Nat
    BY ByteAssumption
  <2> QED
    BY <2>1, SeqMonotonic
<1> QED
  BY <1>1, <1>2, ShardAssumption DEF ShardOf

(* The pairs of one shard, and of all of them.                             *)
LEMMA PairFacts ==
    /\ \A root, p : p \in PairsOf(root)
                       <=> \E k \in Keys : root[k] # 0 /\ p = <<k, root[k]>>
    /\ \A p : p \in AllPairs
                 <=> \E s \in Shards, k \in Keys : /\ roots[s][k] # 0
                                                   /\ p = <<k, roots[s][k]>>
<1>1. ASSUME NEW root, NEW p
      PROVE  p \in PairsOf(root) <=> \E k \in Keys : root[k] # 0 /\ p = <<k, root[k]>>
  BY DEF PairsOf
<1>2. \A p : p \in AllPairs <=> \E s \in Shards : p \in PairsOf(roots[s])
  BY DEF AllPairs
<1> QED
  BY <1>1, <1>2

(* A pair of a root has a key and a value that is one of the inserts.      *)
LEMMA PairTypes ==
    ASSUME Types
    PROVE  AllPairs \subseteq PairType /\ {p[1] : p \in AllPairs} \subseteq Keys
<1>1. \A s \in Shards, k \in Keys : roots[s][k] \in Nat
  BY DEF Types, RootType
<1>2. ASSUME NEW p \in AllPairs PROVE p \in PairType /\ p[1] \in Keys
  <2>1. PICK s \in Shards, k \in Keys : roots[s][k] # 0 /\ p = <<k, roots[s][k]>>
    BY PairFacts
  <2>2. roots[s][k] \in Nat \ {0}
    BY <1>1, <2>1
  <2> QED
    BY <2>1, <2>2 DEF PairType
<1> QED
  BY <1>2

(* The pieces of a step.                                                   *)
Acts(t) == Step(t) \/ Call(t) \/ ClosurePanics(t)

(* A step of one thread leaves the locals of the others alone.             *)
LEMMA OthersRest ==
    ASSUME Types, NEW t \in Threads, Acts(t), NEW u \in Threads, u # t
    PROVE  /\ pc'[u] = pc[u] /\ op'[u] = op[u] /\ seen'[u] = seen[u]
           /\ tries'[u] = tries[u] /\ query'[u] = query[u] /\ got'[u] = got[u]
           /\ view'[u] = view[u] /\ first'[u] = first[u]
<1>1. CASE Load(t) \/ Retry(t)
  BY <1>1 DEF Types, Load, Retry, Goto, Attempt, shared
<1>2. CASE Swap(t)
  BY <1>2 DEF Types, Swap, Install, Goto
<1>3. CASE CountRetries(t) \/ ClosurePanics(t)
  BY <1>3 DEF Types, CountRetries, ClosurePanics, Leave, Goto
<1>4. CASE Scan(t)
  BY <1>4 DEF Types, Scan, Goto, history, shared
<1>5. CASE LoadForSnapshot(t)
  BY <1>5 DEF Types, LoadForSnapshot, LoadRoot, Goto, history, shared
<1>6. CASE \E k \in Keys : StartInsert(t, k)
  BY <1>6 DEF Types, StartInsert, Goto, shared
<1>7. CASE (\E lo, hi \in Bounds : StartRange(t, lo, hi)) \/ StartSnapshot(t)
  BY <1>7 DEF Types, StartRange, StartSnapshot, StartScan, Goto, shared
<1>8. CASE EndScan(t)
  BY <1>8 DEF Types, EndScan, Goto, shared
<1> QED
  BY <1>1, <1>2, <1>3, <1>4, <1>5, <1>6, <1>7, <1>8 DEF Acts, Step, Call

(* A step of one thread leaves the locals of the others as they were.      *)
LEMMA OthersKeepThreadOK ==
    ASSUME Types, LocalsOK, NEW t \in Threads, Acts(t), NEW u \in Threads, u # t
    PROVE  ThreadOK(u)'
<1>1. /\ pc'[u] = pc[u] /\ op'[u] = op[u] /\ tries'[u] = tries[u]
      /\ query'[u] = query[u] /\ got'[u] = got[u] /\ view'[u] = view[u]
  BY OthersRest
<1>2. ThreadOK(u)
  BY DEF LocalsOK
<1> QED
  BY <1>1, <1>2 DEF ThreadOK, Inserting, Ranging, Viewing

-----------------------------------------------------------------------------
(* Each operation keeps the types and leaves its thread's locals fit for   *)
(* where it goes next.                                                     *)
LEMMA StartInsertTypes ==
    ASSUME Types, LocalsOK, NEW t \in Threads, NEW k \in Keys, StartInsert(t, k)
    PROVE  Types' /\ ThreadOK(t)'
<1>1. /\ inserts + panics < MaxInserts
      /\ pc[t] = "idle" /\ pc' = [pc EXCEPT ![t] = "load"]
      /\ inserts' = inserts + 1
      /\ op' = [op EXCEPT ![t] = [key |-> k, id |-> inserts + 1]]
      /\ UNCHANGED <<roots, retries, seen, tries, query, got, view,
                     failed, lost, held, first, panics>>
  BY DEF StartInsert, Goto, shared
<1>2. inserts + 1 \in 1..MaxInserts /\ inserts + 1 \in Nat
  BY <1>1, BoundAssumption DEF Types
<1>3. [key |-> k, id |-> inserts + 1] \in OpType
  BY <1>2 DEF OpType
<1>4. Types'
  BY <1>1, <1>2, <1>3 DEF Types, Stages
<1>5. /\ pc'[t] = "load" /\ op'[t].key = k /\ op'[t].id = inserts + 1
      /\ got'[t] = got[t] /\ view'[t] = view[t]
  BY <1>1 DEF Types
<1>6. ThreadOK(t)
  BY DEF LocalsOK
<1>7. ThreadOK(t)'
  BY <1>1, <1>2, <1>5, <1>6 DEF ThreadOK, Inserting, Ranging, Viewing
<1> QED
  BY <1>4, <1>7

(* Loading a root, first or after a failed swap, keeps the types.          *)
LEMMA AttemptTypes ==
    ASSUME Types, LocalsOK, NEW t \in Threads, Load(t) \/ Retry(t)
    PROVE  Types' /\ ThreadOK(t)'
<1>1. PICK n \in Nat \ {0} :
         /\ Inserting(t) /\ pc' = [pc EXCEPT ![t] = "swap"]
         /\ seen' = [seen EXCEPT ![t] = roots[ShardOf(op[t].key)]]
         /\ tries' = [tries EXCEPT ![t] = n]
         /\ failed' \in Nat
         /\ UNCHANGED <<roots, retries, op, query, got, view, lost, held, first, inserts, panics>>
  <2>1. CASE Load(t)
    <3>1. 1 \in Nat \ {0} /\ failed \in Nat
      BY DEF Types
    <3> QED
      BY <2>1, <3>1 DEF Load, Goto, Attempt, shared, Inserting
  <2>2. CASE Retry(t)
    <3>1. tries[t] + 1 \in Nat \ {0} /\ failed + 1 \in Nat
      BY DEF Types
    <3> QED
      BY <2>2, <3>1 DEF Retry, Goto, Attempt, shared, Inserting
  <2> QED
    BY <2>1, <2>2
<1>2. ThreadOK(t)
  BY DEF LocalsOK
<1>3. roots[ShardOf(op[t].key)] \in RootType
  BY <1>1, <1>2, ShardFacts DEF ThreadOK, Types
<1>4. Types'
  BY <1>1, <1>3 DEF Types, Stages
<1>5. pc'[t] = "swap" /\ tries'[t] = n
  BY <1>1 DEF Types
<1>6. ThreadOK(t)'
  BY <1>1, <1>2, <1>5 DEF ThreadOK, Inserting, Ranging, Viewing
<1> QED
  BY <1>4, <1>6

(* What a swap writes, shard by shard and key by key.                      *)
LEMMA SwapWrites ==
    ASSUME Types, LocalsOK, NEW t \in Threads, Swap(t)
    PROVE  /\ op[t].key \in Keys /\ op[t].id \in 1..MaxInserts
           /\ op[t].id \in Nat \ {0}
           /\ roots' \in [Shards -> RootType]
           /\ \A s \in Shards, k \in Keys :
                 roots'[s][k] = IF s = ShardOf(op[t].key) /\ k = op[t].key
                                THEN op[t].id ELSE roots[s][k]
<1>1. /\ pc[t] = "swap"
      /\ seen[t] = roots[ShardOf(op[t].key)]
      /\ roots' = [roots EXCEPT ![ShardOf(op[t].key)]
                     = [seen[t] EXCEPT ![op[t].key] = op[t].id]]
  BY DEF Swap, Install, RootMoved, Goto
<1>2. op[t].key \in Keys /\ op[t].id \in 1..MaxInserts
  BY <1>1 DEF LocalsOK, ThreadOK, Inserting
<1>3. op[t].id \in Nat \ {0}
  BY <1>2, BoundAssumption
<1>4. /\ ShardOf(op[t].key) \in Shards
      /\ roots \in [Shards -> [Keys -> Nat]]
  BY <1>2, ShardFacts DEF Types, RootType
<1> DEFINE s0 == ShardOf(op[t].key)
           key == op[t].key
           id == op[t].id
<1>5. roots' = [roots EXCEPT ![s0] = [roots[s0] EXCEPT ![key] = id]]
  BY <1>1
<1>6. s0 \in Shards /\ key \in Keys /\ id \in Nat
  BY <1>2, <1>3, <1>4
<1> HIDE DEF s0, key, id
<1>7. [roots[s0] EXCEPT ![key] = id] \in [Keys -> Nat]
  BY <1>4, <1>6
<1>8. roots' \in [Shards -> [Keys -> Nat]]
  BY <1>4, <1>5, <1>7
<1>9. \A s \in Shards, k \in Keys :
         roots'[s][k] = IF s = s0 /\ k = key THEN id ELSE roots[s][k]
  BY <1>4, <1>5, <1>6
<1> QED
  BY <1>2, <1>3, <1>8, <1>9 DEF s0, key, id, RootType

(* So does a swap that succeeds,                                           *)
LEMMA SwapTypes ==
    ASSUME Types, LocalsOK, NEW t \in Threads, Swap(t)
    PROVE  Types' /\ ThreadOK(t)'
<1>1. /\ pc[t] = "swap" /\ pc' = [pc EXCEPT ![t] = "count"]
      /\ seen' = [seen EXCEPT ![t] = Empty]
      /\ held' = [u \in Threads |-> IF pc[u] \in {"range", "snapshot"}
                                    THEN held[u] \union {<<op[t].key, op[t].id>>}
                                    ELSE held[u]]
      /\ UNCHANGED <<retries, op, tries, query, got, view,
                     failed, lost, first, inserts, panics>>
  BY DEF Swap, Install, Goto
<1>2. roots' \in [Shards -> RootType] /\ <<op[t].key, op[t].id>> \in PairType
  BY SwapWrites DEF PairType
<1>3. Empty \in RootType
  BY DEF Empty, RootType
<1>4. held' \in [Threads -> SUBSET PairType]
  <2>1. \A u \in Threads : held[u] \in SUBSET PairType
    BY DEF Types
  <2>2. \A u \in Threads : held[u] \union {<<op[t].key, op[t].id>>} \in SUBSET PairType
    BY <1>2, <2>1
  <2> QED
    BY <1>1, <2>1, <2>2
<1>5. Types'
  BY <1>1, <1>2, <1>3, <1>4 DEF Types, Stages
<1>6. ThreadOK(t) /\ pc'[t] = "count"
  BY <1>1 DEF LocalsOK, Types
<1>7. ThreadOK(t)'
  BY <1>1, <1>6 DEF ThreadOK, Inserting, Ranging, Viewing
<1> QED
  BY <1>5, <1>7

(* and the end of an insert.                                               *)
LEMMA LeaveTypes ==
    ASSUME Types, LocalsOK, NEW t \in Threads, CountRetries(t) \/ ClosurePanics(t)
    PROVE  Types' /\ ThreadOK(t)'
<1>1. /\ pc[t] \in {"swap", "count"} /\ pc' = [pc EXCEPT ![t] = "idle"]
      /\ op' = [op EXCEPT ![t] = NoOp]
      /\ seen' = [seen EXCEPT ![t] = Empty]
      /\ tries' = [tries EXCEPT ![t] = 0]
      /\ UNCHANGED <<roots, query, got, view, failed, held, first, inserts>>
  BY DEF CountRetries, ClosurePanics, Leave, Goto
<1>2. ThreadOK(t)
  BY DEF LocalsOK
<1>3. tries[t] - 1 \in Nat
  BY <1>1, <1>2 DEF ThreadOK, Types
<1>4. retries' \in Nat /\ lost' \in Nat /\ panics' \in Nat
  <2>1. retries \in Nat /\ lost \in Nat /\ panics \in Nat
    BY DEF Types
  <2>2. CASE CountRetries(t)
    BY <1>3, <2>1, <2>2 DEF CountRetries
  <2>3. CASE ClosurePanics(t)
    BY <1>3, <2>1, <2>3 DEF ClosurePanics
  <2> QED
    BY <2>2, <2>3
<1>5. Empty \in RootType /\ NoOp \in OpType
  BY DEF Empty, RootType, NoOp, OpType
<1>6. Types'
  BY <1>1, <1>4, <1>5 DEF Types, Stages
<1>7. pc'[t] = "idle"
  BY <1>1 DEF Types
<1>8. ThreadOK(t)'
  BY <1>1, <1>2, <1>7 DEF ThreadOK, Inserting, Ranging, Viewing
<1> QED
  BY <1>6, <1>8

(* The shards a range queues up: its targets, none of them twice.          *)
Queued(lo, hi) == IF OneShard(lo, hi) THEN <<ShardOf(lo)>> ELSE [s \in Shards |-> s]

(* The queue of shards a range begins with holds each target once.         *)
LEMMA QueuedFacts ==
    ASSUME NEW lo \in Bounds, NEW hi \in Bounds
    PROVE  /\ Queued(lo, hi) \in Seq(Shards) /\ Queued(lo, hi) # <<>>
           /\ ToSet(Queued(lo, hi))
                 = Targets([lo |-> lo, hi |-> hi, todo |-> Queued(lo, hi)])
           /\ \A i, j \in 1..Len(Queued(lo, hi)) :
                 Queued(lo, hi)[i] = Queued(lo, hi)[j] => i = j
<1>1. ShardOf(lo) \in Shards /\ NumShards \in Nat \ {0}
  BY ShardFacts
<1>2. CASE OneShard(lo, hi)
  <2>1. Queued(lo, hi) = <<ShardOf(lo)>>
    BY <1>2 DEF Queued
  <2>2. Len(<<ShardOf(lo)>>) = 1 /\ <<ShardOf(lo)>>[1] = ShardOf(lo)
    OBVIOUS
  <2>3. ToSet(<<ShardOf(lo)>>) = {ShardOf(lo)}
    BY <2>2 DEF ToSet
  <2> QED
    BY <1>1, <1>2, <2>1, <2>2, <2>3 DEF Targets
<1>3. CASE ~OneShard(lo, hi)
  <2> DEFINE all == [s \in 1..NumShards |-> s]
  <2>1. Queued(lo, hi) = all
    BY <1>3 DEF Queued, Shards
  <2>2. all \in Seq(1..NumShards) /\ Len(all) = NumShards /\ DOMAIN all = 1..NumShards
    BY <1>1
  <2>3. ToSet(all) = 1..NumShards /\ \A i \in 1..NumShards : all[i] = i
    BY <2>2 DEF ToSet
  <2> HIDE DEF all
  <2>4. all # <<>>
    BY <1>1, <2>2
  <2> QED
    BY <1>3, <2>1, <2>2, <2>3, <2>4 DEF Targets, Shards
<1> QED
  BY <1>2, <1>3

(* Beginning a range keeps the types.                                      *)
LEMMA StartRangeTypes ==
    ASSUME Types, LocalsOK, NEW t \in Threads, NEW lo \in Bounds, NEW hi \in Bounds,
           StartRange(t, lo, hi)
    PROVE  Types' /\ ThreadOK(t)'
<1>1. /\ pc[t] = "idle" /\ pc' = [pc EXCEPT ![t] = "range"]
      /\ held' = [held EXCEPT ![t] = AllPairs]
      /\ first' = [first EXCEPT ![t] = {p[1] : p \in AllPairs}]
      /\ query' = [query EXCEPT ![t] = [lo |-> lo, hi |-> hi, todo |-> Queued(lo, hi)]]
      /\ UNCHANGED <<roots, retries, op, seen, tries, got, view, failed, lost,
                     inserts, panics>>
  BY DEF StartRange, StartScan, Goto, shared, Queued
<1>2. [lo |-> lo, hi |-> hi, todo |-> Queued(lo, hi)] \in QueryType
  BY QueuedFacts DEF QueryType
<1>3. AllPairs \in SUBSET PairType /\ {p[1] : p \in AllPairs} \in SUBSET Keys
  BY PairTypes
<1>4. Types'
  BY <1>1, <1>2, <1>3 DEF Types, Stages
<1>5. pc'[t] = "range" /\ query'[t] = [lo |-> lo, hi |-> hi, todo |-> Queued(lo, hi)]
  BY <1>1 DEF Types
<1>6. Queued(lo, hi) # <<>>
  BY QueuedFacts
<1>7. ThreadOK(t)
  BY DEF LocalsOK
<1>8. ThreadOK(t)'
  BY <1>1, <1>5, <1>6, <1>7 DEF ThreadOK, Inserting, Ranging, Viewing
<1> QED
  BY <1>4, <1>8

(* So does beginning a snapshot,                                           *)
LEMMA StartSnapshotTypes ==
    ASSUME Types, LocalsOK, NEW t \in Threads, StartSnapshot(t)
    PROVE  Types' /\ ThreadOK(t)'
<1>1. /\ pc[t] = "idle" /\ pc' = [pc EXCEPT ![t] = "snapshot"]
      /\ held' = [held EXCEPT ![t] = AllPairs]
      /\ first' = [first EXCEPT ![t] = {p[1] : p \in AllPairs}]
      /\ UNCHANGED <<roots, retries, op, seen, tries, query, got, view, failed, lost,
                     inserts, panics>>
  BY DEF StartSnapshot, StartScan, Goto, shared
<1>2. AllPairs \in SUBSET PairType /\ {p[1] : p \in AllPairs} \in SUBSET Keys
  BY PairTypes
<1>3. Types'
  BY <1>1, <1>2 DEF Types, Stages
<1>4. pc'[t] = "snapshot"
  BY <1>1 DEF Types
<1>5. ThreadOK(t)
  BY DEF LocalsOK
<1>6. view[t] = <<>> /\ got[t] = {} /\ 0 < NumShards /\ Len(<<>>) = 0
  BY <1>1, <1>5, ShardFacts DEF ThreadOK, Viewing, Ranging
<1>7. ThreadOK(t)'
  BY <1>1, <1>4, <1>6 DEF ThreadOK, Inserting, Ranging, Viewing
<1> QED
  BY <1>3, <1>7

(* The rest of a queue that holds nothing twice: all but its head.         *)
LEMMA TailFacts ==
    ASSUME NEW S, NEW q \in Seq(S), q # <<>>,
           \A i, j \in 1..Len(q) : q[i] = q[j] => i = j
    PROVE  /\ Head(q) \in S /\ Tail(q) \in Seq(S)
           /\ ToSet(q) = {Head(q)} \union ToSet(Tail(q))
           /\ Head(q) \notin ToSet(Tail(q))
           /\ \A i, j \in 1..Len(Tail(q)) : Tail(q)[i] = Tail(q)[j] => i = j
<1>1. /\ Len(q) \in Nat /\ Len(q) >= 1 /\ Head(q) = q[1] /\ Head(q) \in S
      /\ Tail(q) \in Seq(S) /\ Len(Tail(q)) = Len(q) - 1
  BY LenProperties, HeadTailProperties, EmptySeq
<1>2. \A i \in 1..Len(Tail(q)) : Tail(q)[i] = q[i + 1]
  BY HeadTailProperties
<1>3. DOMAIN q = 1..Len(q) /\ DOMAIN Tail(q) = 1..Len(Tail(q))
  BY <1>1, LenProperties
<1> DEFINE T == Tail(q)
<1>4. /\ T \in Seq(S) /\ Len(T) = Len(q) - 1 /\ DOMAIN T = 1..Len(T)
      /\ \A i \in 1..Len(T) : T[i] = q[i + 1]
  BY <1>1, <1>2, <1>3
<1> HIDE DEF T
<1>5. ToSet(q) = {q[1]} \union ToSet(T)
  <2>1. \A x : x \in ToSet(q) <=> \E i \in 1..Len(q) : x = q[i]
    BY <1>3 DEF ToSet
  <2>2. \A x : x \in ToSet(T) <=> \E i \in 1..Len(T) : x = q[i + 1]
    BY <1>4 DEF ToSet
  <2>3. \A i \in 1..Len(q) : i = 1 \/ (i - 1 \in 1..Len(T) /\ i = (i - 1) + 1)
    BY <1>1, <1>4
  <2>4. 1 \in 1..Len(q) /\ \A i \in 1..Len(T) : i + 1 \in 1..Len(q)
    BY <1>1, <1>4
  <2>5. ASSUME NEW x \in ToSet(q) PROVE x = q[1] \/ x \in ToSet(T)
    <3>1. PICK i \in 1..Len(q) : x = q[i]
      BY <2>1
    <3>2. CASE i # 1
      <4>1. PICK j \in 1..Len(T) : i = j + 1
        BY <2>3, <3>2
      <4> QED
        BY <2>2, <3>1, <4>1
    <3> QED
      BY <3>1, <3>2
  <2>6. ASSUME NEW x, x = q[1] \/ x \in ToSet(T) PROVE x \in ToSet(q)
    BY <2>1, <2>2, <2>4, <2>6
  <2> QED
    BY <2>5, <2>6
<1>6. q[1] \notin ToSet(T)
  <2> SUFFICES ASSUME NEW i \in 1..Len(T), q[1] = T[i] PROVE FALSE
    BY <1>4 DEF ToSet
  <2>1. i + 1 \in 1..Len(q) /\ 1 \in 1..Len(q) /\ i + 1 # 1
    BY <1>1, <1>4
  <2> QED
    BY <1>4, <2>1
<1>7. ASSUME NEW i \in 1..Len(T), NEW j \in 1..Len(T), T[i] = T[j] PROVE i = j
  <2>1. i + 1 \in 1..Len(q) /\ j + 1 \in 1..Len(q) /\ i \in Nat /\ j \in Nat
    BY <1>1, <1>4
  <2>2. i + 1 = j + 1
    BY <1>4, <1>7, <2>1
  <2> QED
    BY <2>1, <2>2
<1> QED
  BY <1>1, <1>4, <1>5, <1>6, <1>7 DEF T

(* What a range does with the next shard.                                  *)
LEMMA ScanFacts ==
    ASSUME Types, LocalsOK, NEW t \in Threads, Scan(t)
    PROVE  /\ pc[t] = "range"
           /\ query[t].todo \in Seq(Shards) /\ query[t].todo # <<>>
           /\ query[t].lo \in Bounds /\ query[t].hi \in Bounds
           /\ got'[t] = got[t] \union Collected(roots[Head(query[t].todo)],
                                                query[t].lo, query[t].hi)
           /\ query'[t] = [lo |-> query[t].lo, hi |-> query[t].hi,
                           todo |-> Tail(query[t].todo)]
           /\ pc'[t] = IF Tail(query[t].todo) = <<>> THEN "ranged" ELSE "range"
           /\ UNCHANGED <<roots, retries, op, seen, tries, view, failed, lost,
                          held, first, inserts, panics>>
<1>1. /\ pc[t] = "range" /\ query[t] \in QueryType /\ ThreadOK(t)
  BY DEF Scan, Types, LocalsOK
<1>2. query[t].todo # <<>> /\ query[t].lo \in Bounds /\ query[t].hi \in Bounds
  BY <1>1 DEF ThreadOK, Ranging
<1>3. /\ got' = [got EXCEPT ![t] = @ \union Collected(roots[Head(query[t].todo)],
                                                      query[t].lo, query[t].hi)]
      /\ query' = [query EXCEPT ![t].todo = Tail(@)]
      /\ pc' = [pc EXCEPT ![t] = IF Tail(query[t].todo) = <<>> THEN "ranged" ELSE "range"]
      /\ UNCHANGED <<roots, retries, op, seen, tries, view, failed, lost,
                     held, first, inserts, panics>>
  BY DEF Scan, Goto, shared, history
<1>4. query'[t] = [lo |-> query[t].lo, hi |-> query[t].hi, todo |-> Tail(query[t].todo)]
  BY <1>1, <1>3 DEF Types, QueryType
<1> QED
  BY <1>1, <1>2, <1>3, <1>4 DEF Types, QueryType

(* What a shard yields: its pairs within the bounds, all of them.          *)
LEMMA CollectedFacts ==
    ASSUME NEW root \in RootType, NEW lo \in Bounds, NEW hi \in Bounds
    PROVE  /\ Collected(root, lo, hi) \subseteq PairType
           /\ \A p : p \in Collected(root, lo, hi)
                        <=> p \in PairsOf(root) /\ InRange(p[1], lo, hi)
<1>1. \A p : p \in PairsOf(root) => p \in PairType /\ p[1] \in Keys
  <2> SUFFICES ASSUME NEW k \in Keys, root[k] # 0
               PROVE  <<k, root[k]>> \in PairType
    BY PairFacts
  <2> QED
    BY DEF RootType, PairType
<1>2. ASSUME NEW p \in PairsOf(root), InRange(p[1], lo, hi), NEW n \in 1..Len(p[1])
      PROVE  Entered(Cut(p[1], n), lo, hi)
  <2>1. p[1] \in Seq(Nat) /\ lo \in Seq(Nat) /\ hi \in Seq(Nat)
    BY <1>1, ShardFacts
  <2> QED
    BY <1>2, <2>1, EnteredIsSound
<1>3. \A p : p \in Collected(root, lo, hi)
                <=> p \in PairsOf(root) /\ InRange(p[1], lo, hi)
  BY <1>2 DEF Collected
<1> QED
  BY <1>1, <1>3

(* a range that reads a shard,                                             *)
LEMMA ScanTypes ==
    ASSUME Types, LocalsOK, NEW t \in Threads, Scan(t)
    PROVE  Types' /\ ThreadOK(t)'
<1> DEFINE todo == query[t].todo
           lo == query[t].lo
           hi == query[t].hi
<1>1. /\ pc[t] = "range" /\ todo \in Seq(Shards) /\ todo # <<>>
      /\ lo \in Bounds /\ hi \in Bounds
      /\ query'[t] = [lo |-> lo, hi |-> hi, todo |-> Tail(todo)]
      /\ pc'[t] = IF Tail(todo) = <<>> THEN "ranged" ELSE "range"
      /\ UNCHANGED <<roots, retries, op, seen, tries, view, failed, lost,
                     held, first, inserts, panics>>
  BY ScanFacts
<1>2. PICK new : /\ got' = [got EXCEPT ![t] = @ \union new]
                 /\ new = Collected(roots[Head(todo)], lo, hi)
  BY DEF Scan
<1>3. Head(todo) \in Shards /\ Tail(todo) \in Seq(Shards)
  BY <1>1, HeadTailProperties, EmptySeq
<1>4. new \subseteq PairType
  <2>1. roots[Head(todo)] \in RootType
    BY <1>3 DEF Types
  <2> HIDE DEF todo, lo, hi
  <2>2. Collected(roots[Head(todo)], lo, hi) \subseteq PairType
    BY <1>1, <2>1, CollectedFacts
  <2> QED
    BY <1>2, <2>2
<1>5. PICK q : /\ q = [lo |-> lo, hi |-> hi, todo |-> Tail(todo)]
               /\ query' = [query EXCEPT ![t] = q]
  <2>1. query[t] \in QueryType /\ query' = [query EXCEPT ![t].todo = Tail(@)]
    BY DEF Scan, Types
  <2>2. ASSUME NEW r \in QueryType, NEW rest
        PROVE  [r EXCEPT !.todo = rest] = [lo |-> r.lo, hi |-> r.hi, todo |-> rest]
    BY DEF QueryType
  <2> QED
    BY <2>1, <2>2
<1>6. q \in QueryType
  BY <1>1, <1>3, <1>5 DEF QueryType
<1>7. PICK c \in {"range", "ranged"} : pc' = [pc EXCEPT ![t] = c]
  BY DEF Scan, Goto
<1> HIDE DEF todo, lo, hi
<1>8. got' \in [Threads -> SUBSET PairType]
  BY <1>2, <1>4 DEF Types
<1>9. Types'
  BY <1>1, <1>5, <1>6, <1>7, <1>8 DEF Types, Stages
<1>10. ThreadOK(t)
  BY DEF LocalsOK
<1>11. ThreadOK(t)'
  BY <1>1, <1>10 DEF ThreadOK, Inserting, Ranging, Viewing
<1> QED
  BY <1>9, <1>11

(* A snapshot loads the next root.                                         *)
LEMMA LoadRootFacts ==
    ASSUME Types, LocalsOK, NEW t \in Threads, LoadForSnapshot(t)
    PROVE  /\ pc[t] = "snapshot"
           /\ Len(view[t]) \in Nat /\ Len(view[t]) + 1 \in Shards
           /\ view' = [view EXCEPT ![t] = Append(view[t], roots[Len(view[t]) + 1])]
           /\ pc' = [pc EXCEPT ![t] = IF Len(view[t]) + 1 = NumShards
                                      THEN "snapped" ELSE "snapshot"]
           /\ UNCHANGED <<roots, retries, op, seen, tries, query, got, failed, lost,
                          held, first, inserts, panics>>
<1>1. pc[t] = "snapshot" /\ ThreadOK(t) /\ view[t] \in Seq(RootType)
  BY DEF LoadForSnapshot, LoadRoot, LocalsOK, Types
<1>2. Len(view[t]) \in Nat /\ Len(view[t]) < NumShards /\ NumShards \in Nat
  BY <1>1, ShardFacts, LenProperties DEF ThreadOK
<1>3. Len(view[t]) + 1 \in Shards
  BY <1>2 DEF Shards
<1> DEFINE root == roots[Len(view[t]) + 1]
<1>4. /\ view' = [view EXCEPT ![t] = Append(view[t], root)]
      /\ \/ Len(view'[t]) < NumShards /\ pc' = [pc EXCEPT ![t] = "snapshot"]
         \/ Len(view'[t]) = NumShards /\ pc' = [pc EXCEPT ![t] = "snapped"]
      /\ UNCHANGED <<roots, retries, op, seen, tries, query, got, failed, lost,
                     held, first, inserts, panics>>
  BY DEF LoadForSnapshot, LoadRoot, Goto, shared, history
<1>5. root \in RootType
  BY <1>3 DEF Types
<1> HIDE DEF root
<1>6. Len(view'[t]) = Len(view[t]) + 1
  <2>1. view'[t] = Append(view[t], root)
    BY <1>4 DEF Types
  <2> QED
    BY <1>1, <1>5, <2>1, AppendProperties
<1>7. pc' = [pc EXCEPT ![t] = IF Len(view[t]) + 1 = NumShards
                              THEN "snapped" ELSE "snapshot"]
  BY <1>2, <1>4, <1>6
<1> QED
  BY <1>1, <1>2, <1>3, <1>4, <1>7 DEF root

(* a snapshot that loads one,                                              *)
LEMMA LoadForSnapshotTypes ==
    ASSUME Types, LocalsOK, NEW t \in Threads, LoadForSnapshot(t)
    PROVE  Types' /\ ThreadOK(t)'
<1> DEFINE n == Len(view[t])
           v == Append(view[t], roots[Len(view[t]) + 1])
<1>1. /\ pc[t] = "snapshot" /\ n \in Nat /\ n + 1 \in Shards
      /\ view' = [view EXCEPT ![t] = v]
      /\ pc' = [pc EXCEPT ![t] = IF n + 1 = NumShards THEN "snapped" ELSE "snapshot"]
      /\ UNCHANGED <<roots, retries, op, seen, tries, query, got, failed, lost,
                     held, first, inserts, panics>>
  BY LoadRootFacts
<1>2. v \in Seq(RootType) /\ Len(v) = n + 1
  <2>1. roots[n + 1] \in RootType /\ view[t] \in Seq(RootType)
    BY <1>1 DEF Types
  <2> QED
    BY <2>1, AppendProperties
<1> HIDE DEF n, v
<1>3. Types'
  BY <1>1, <1>2 DEF Types, Stages
<1>4. /\ view'[t] = v /\ got'[t] = got[t]
      /\ pc'[t] = IF n + 1 = NumShards THEN "snapped" ELSE "snapshot"
  BY <1>1 DEF Types
<1>5. n + 1 # NumShards => n + 1 < NumShards
  BY <1>1, ShardFacts DEF Shards
<1>6. ThreadOK(t)
  BY DEF LocalsOK
<1>7. ThreadOK(t)'
  BY <1>1, <1>2, <1>4, <1>5, <1>6 DEF ThreadOK, Inserting, Ranging, Viewing
<1> QED
  BY <1>3, <1>7

(* and letting go of the result.                                           *)
LEMMA EndScanTypes ==
    ASSUME Types, LocalsOK, NEW t \in Threads, EndScan(t)
    PROVE  Types' /\ ThreadOK(t)'
<1>1. /\ pc' = [pc EXCEPT ![t] = "idle"]
      /\ query' = [query EXCEPT ![t] = NoQuery]
      /\ got' = [got EXCEPT ![t] = {}]
      /\ view' = [view EXCEPT ![t] = <<>>]
      /\ held' = [held EXCEPT ![t] = {}]
      /\ first' = [first EXCEPT ![t] = {}]
      /\ UNCHANGED <<roots, retries, op, seen, tries, failed, lost, inserts, panics>>
  BY DEF EndScan, Goto, shared
<1>2. NoQuery \in QueryType /\ <<>> \in Seq(RootType)
  BY EmptySeq DEF NoQuery, QueryType
<1>3. Types'
  BY <1>1, <1>2 DEF Types, Stages
<1>4. pc'[t] = "idle" /\ got'[t] = {} /\ view'[t] = <<>>
  BY <1>1 DEF Types
<1>5. ThreadOK(t)'
  BY <1>4 DEF ThreadOK, Inserting, Ranging, Viewing
<1> QED
  BY <1>3, <1>5

(* No step of any thread leaves the types.                                 *)
LEMMA TypesKept == ASSUME Types, LocalsOK, Next PROVE Types' /\ LocalsOK'
<1>1. PICK t \in Threads : Acts(t)
  BY DEF Next, Acts
<1>2. Types' /\ ThreadOK(t)'
  <2>1. CASE Load(t) \/ Retry(t)
    BY <2>1, AttemptTypes
  <2>2. CASE Swap(t)
    BY <2>2, SwapTypes
  <2>3. CASE CountRetries(t) \/ ClosurePanics(t)
    BY <2>3, LeaveTypes
  <2>4. CASE Scan(t)
    BY <2>4, ScanTypes
  <2>5. CASE LoadForSnapshot(t)
    BY <2>5, LoadForSnapshotTypes
  <2>6. CASE \E k \in Keys : StartInsert(t, k)
    BY <2>6, StartInsertTypes
  <2>7. CASE \E lo, hi \in Bounds : StartRange(t, lo, hi)
    BY <2>7, StartRangeTypes
  <2>8. CASE StartSnapshot(t)
    BY <2>8, StartSnapshotTypes
  <2>9. CASE EndScan(t)
    BY <2>9, EndScanTypes
  <2> QED
    BY <1>1, <2>1, <2>2, <2>3, <2>4, <2>5, <2>6, <2>7, <2>8, <2>9 DEF Acts, Step, Call
<1>3. \A u \in Threads : u # t => ThreadOK(u)'
  BY <1>1, OthersKeepThreadOK
<1>4. LocalsOK'
  BY <1>2, <1>3 DEF LocalsOK
<1> QED
  BY <1>2, <1>4

-----------------------------------------------------------------------------
(* The attempts of one thread, counted.                                    *)
LEMMA CountsOne ==
    ASSUME NEW P, IsFiniteSet(P), NEW t, NEW n \in Nat, {t} \X (1..n) \subseteq P
    PROVE  /\ IsFiniteSet(P \ ({t} \X (1..n)))
           /\ Cardinality(P) = Cardinality(P \ ({t} \X (1..n))) + n
<1> DEFINE A == {t} \X (1..n)
<1>1. IsFiniteSet({t}) /\ Cardinality({t}) = 1
  BY FS_Singleton
<1>2. IsFiniteSet(1..n) /\ Cardinality(1..n) = n
  BY FS_Interval
<1>3. IsFiniteSet(A) /\ Cardinality(A) = n
  <2>1. IsFiniteSet(A) /\ Cardinality(A) = Cardinality({t}) * Cardinality(1..n)
    BY <1>1, <1>2, FS_Product
  <2> QED
    BY <1>1, <1>2, <2>1
<1>4. P \intersect A = A
  OBVIOUS
<1> HIDE DEF A
<1>5. IsFiniteSet(P \ A) /\ Cardinality(P \ A) = Cardinality(P) - Cardinality(P \intersect A)
  BY FS_Difference
<1>6. Cardinality(P) \in Nat
  BY FS_CardinalityType
<1>7. Cardinality(P \ A) = Cardinality(P) - n
  BY <1>3, <1>4, <1>5
<1>8. Cardinality(P) = Cardinality(P \ A) + n
  <2>1. \A c \in Nat : c = (c - n) + n
    OBVIOUS
  <2> QED
    BY <1>6, <1>7, <2>1
<1> QED
  BY <1>5, <1>8 DEF A

(* Pending, thread by thread; then after a step.                           *)
LEMMA PendingFacts ==
    /\ Pending \subseteq Threads \X Nat
    /\ \A u \in Threads, i \in Nat :
          <<u, i>> \in Pending <=> pc[u] \in {"swap", "count"} /\ i >= 1 /\ i < tries[u]
BY DEF Pending

(* The attempts under way after a step, from those of the threads.         *)
LEMMA PendingThen ==
    /\ Pending' \subseteq Threads \X Nat
    /\ \A u \in Threads, i \in Nat :
          <<u, i>> \in Pending' <=> pc'[u] \in {"swap", "count"} /\ i >= 1 /\ i < tries'[u]
BY DEF Pending

(* The threads a step leaves alone have the same attempts as before.       *)
LEMMA PendingOfOthers ==
    ASSUME Types, NEW t \in Threads, Acts(t), NEW u \in Threads, u # t, NEW i \in Nat
    PROVE  <<u, i>> \in Pending' <=> <<u, i>> \in Pending
<1>1. pc'[u] = pc[u] /\ tries'[u] = tries[u]
  BY OthersRest
<1> QED
  BY <1>1, PendingFacts, PendingThen

(* Only a failed swap and the end of an insert change what is pending.     *)
LEMMA PendingSame ==
    ASSUME Types, NEW t \in Threads, Acts(t),
           \A i \in Nat : <<t, i>> \in Pending' <=> <<t, i>> \in Pending
    PROVE  Pending' = Pending
<1>1. \A u \in Threads, i \in Nat : <<u, i>> \in Pending' <=> <<u, i>> \in Pending
  BY PendingOfOthers
<1>2. \A a \in Threads \X Nat : a = <<a[1], a[2]>> /\ a[1] \in Threads /\ a[2] \in Nat
  OBVIOUS
<1>3. \A a \in Threads \X Nat : a \in Pending' <=> a \in Pending
  BY <1>1, <1>2
<1> QED
  BY <1>3, PendingFacts, PendingThen

(* A failed swap is one more failure and one more attempt under way.       *)
LEMMA RetryAddsUp ==
    ASSUME Types, LocalsOK, RetriesAddUp, NEW t \in Threads, Retry(t)
    PROVE  RetriesAddUp'
<1>1. /\ pc[t] = "swap" /\ pc'[t] = "swap" /\ tries'[t] = tries[t] + 1
      /\ failed' = failed + 1 /\ UNCHANGED <<retries, lost>>
  BY DEF Retry, Goto, Attempt, shared, Types
<1>2. tries[t] \in Nat /\ tries[t] >= 1
  BY <1>1 DEF Types, LocalsOK, ThreadOK
<1>3. \A i \in Nat : <<t, i>> \in Pending' <=> <<t, i>> \in Pending \/ i = tries[t]
  BY <1>1, <1>2, PendingFacts, PendingThen
<1>4. Acts(t)
  BY DEF Acts, Step
<1>5. \A u \in Threads, i \in Nat :
         <<u, i>> \in Pending' <=> <<u, i>> \in Pending \/ (u = t /\ i = tries[t])
  BY <1>3, <1>4, PendingOfOthers
<1>6. Pending' = Pending \union {<<t, tries[t]>>}
  <2>1. \A a \in Threads \X Nat :
           /\ a = <<a[1], a[2]>> /\ a[1] \in Threads /\ a[2] \in Nat
           /\ a = <<t, tries[t]>> <=> a[1] = t /\ a[2] = tries[t]
    BY <1>2
  <2>2. \A a \in Threads \X Nat : a \in Pending' <=> a \in Pending \/ a = <<t, tries[t]>>
    BY <1>5, <2>1
  <2>3. <<t, tries[t]>> \in Threads \X Nat
    BY <1>2
  <2> QED
    BY <2>2, <2>3, PendingFacts, PendingThen
<1>7. <<t, tries[t]>> \notin Pending
  BY <1>2, PendingFacts
<1>8. /\ IsFiniteSet(Pending')
      /\ Cardinality(Pending') = Cardinality(Pending) + 1
  BY <1>6, <1>7, FS_AddElement DEF RetriesAddUp
<1>9. Cardinality(Pending) \in Nat /\ retries \in Nat /\ lost \in Nat
  BY FS_CardinalityType DEF RetriesAddUp, Types
<1> QED
  BY <1>1, <1>8, <1>9 DEF RetriesAddUp

(* An insert that ends hands its attempts to the counter, or loses them.   *)
LEMMA LeaveAddsUp ==
    ASSUME Types, LocalsOK, RetriesAddUp, NEW t \in Threads,
           CountRetries(t) \/ ClosurePanics(t)
    PROVE  RetriesAddUp'
<1> DEFINE n == tries[t] - 1
<1>1. /\ pc[t] \in {"swap", "count"} /\ pc'[t] = "idle" /\ failed' = failed
  BY DEF CountRetries, ClosurePanics, Leave, Goto, Types
<1>2. tries[t] \in Nat /\ tries[t] >= 1 /\ n \in Nat
  BY <1>1 DEF Types, LocalsOK, ThreadOK
<1>3. retries' + lost' = retries + lost + n
  <2>1. retries \in Nat /\ lost \in Nat
    BY DEF Types
  <2>2. CASE CountRetries(t)
    BY <1>2, <2>1, <2>2 DEF CountRetries
  <2>3. CASE ClosurePanics(t)
    BY <1>2, <2>1, <2>3 DEF ClosurePanics
  <2> QED
    BY <2>2, <2>3
<1>4. Acts(t)
  BY DEF Acts, Step
<1>5. \A u \in Threads, i \in Nat :
         <<u, i>> \in Pending' <=> <<u, i>> \in Pending /\ u # t
  BY <1>1, <1>4, PendingOfOthers, PendingThen
<1>6. \A i \in Nat : <<t, i>> \in Pending <=> i \in 1..n
  BY <1>1, <1>2, PendingFacts
<1> HIDE DEF n
<1>7. {t} \X (1..n) \subseteq Pending
  <2>1. \A i \in 1..n : i \in Nat
    BY <1>2
  <2> QED
    BY <1>6, <2>1
<1>8. Pending' = Pending \ ({t} \X (1..n))
  <2>1. \A a \in Threads \X Nat :
           /\ a = <<a[1], a[2]>> /\ a[1] \in Threads /\ a[2] \in Nat
           /\ a \in {t} \X (1..n) <=> a[1] = t /\ a[2] \in 1..n
    OBVIOUS
  <2>2. \A a \in Threads \X Nat :
           a \in Pending' <=> a \in Pending /\ ~(a \in {t} \X (1..n))
    BY <1>5, <1>6, <2>1
  <2> QED
    BY <2>2, PendingFacts, PendingThen
<1>9. /\ IsFiniteSet(Pending')
      /\ Cardinality(Pending) = Cardinality(Pending') + n
  BY <1>2, <1>7, <1>8, CountsOne DEF RetriesAddUp
<1>10. /\ Cardinality(Pending') \in Nat
       /\ retries \in Nat /\ lost \in Nat
       /\ failed = retries + lost + Cardinality(Pending)
  BY <1>9, FS_CardinalityType DEF RetriesAddUp, Types
<1>11. retries' \in Nat /\ lost' \in Nat
  BY LeaveTypes DEF Types
<1>12. failed' = retries' + lost' + Cardinality(Pending')
  <2>1. PICK c \in Nat : c = Cardinality(Pending')
    BY <1>10
  <2>2. PICK s \in Nat : s = retries + lost
    BY <1>10
  <2>3. failed = s + (c + n)
    BY <1>9, <1>10, <2>1, <2>2
  <2>4. retries' + lost' = s + n
    BY <1>3, <2>2
  <2>5. s + (c + n) = (s + n) + c
    BY <1>2
  <2> QED
    BY <1>1, <2>1, <2>3, <2>4, <2>5
<1> QED
  BY <1>9, <1>12 DEF RetriesAddUp

(* Any other step leaves failures and attempts alone.                      *)
LEMMA RestAddsUp ==
    ASSUME Types, LocalsOK, RetriesAddUp, NEW t \in Threads, Acts(t),
           UNCHANGED <<retries, lost, failed>>,
           tries'[t] = tries[t] \/ tries'[t] = 1,
           \/ pc'[t] \in {"swap", "count"} /\ pc[t] \in {"swap", "count"} /\ tries'[t] = tries[t]
           \/ pc'[t] \notin {"swap", "count"} /\ pc[t] \notin {"swap", "count"}
           \/ tries'[t] = 1 /\ pc[t] \notin {"swap", "count"}
    PROVE  RetriesAddUp'
<1>1. \A i \in Nat : <<t, i>> \in Pending' <=> <<t, i>> \in Pending
  BY PendingFacts, PendingThen
<1>2. Pending' = Pending
  BY <1>1, PendingSame
<1> QED
  BY <1>2 DEF RetriesAddUp

(* So the sum holds after every step.                                      *)
LEMMA RetriesKept ==
    ASSUME Types, LocalsOK, RetriesAddUp, Next
    PROVE  RetriesAddUp'
<1>1. PICK t \in Threads : Acts(t)
  BY DEF Next, Acts
<1>2. CASE Load(t)
  <2>1. pc[t] = "load" /\ tries'[t] = 1 /\ UNCHANGED <<retries, lost, failed>>
    BY <1>2 DEF Load, Goto, Attempt, shared, Types
  <2> QED
    BY <1>1, <2>1, RestAddsUp
<1>3. CASE Swap(t)
  <2>1. /\ pc[t] = "swap" /\ pc'[t] = "count" /\ tries'[t] = tries[t]
        /\ UNCHANGED <<retries, lost, failed>>
    BY <1>3 DEF Swap, Install, Goto, Types
  <2> QED
    BY <1>1, <2>1, RestAddsUp
<1>4. CASE Scan(t) \/ LoadForSnapshot(t) \/ (\E k \in Keys : StartInsert(t, k))
           \/ (\E lo, hi \in Bounds : StartRange(t, lo, hi)) \/ StartSnapshot(t) \/ EndScan(t)
  <2>1. /\ pc[t] \in Stages \ {"swap", "count"} /\ pc'[t] \in Stages \ {"swap", "count"}
        /\ UNCHANGED <<tries, retries, lost, failed>>
    <3>1. CASE Scan(t)
      BY <3>1, ScanFacts DEF Stages
    <3>2. CASE LoadForSnapshot(t)
      BY <3>2, LoadRootFacts DEF Stages, Types
    <3>3. CASE \E k \in Keys : StartInsert(t, k)
      BY <3>3 DEF StartInsert, Goto, shared, Stages, Types
    <3>4. CASE (\E lo, hi \in Bounds : StartRange(t, lo, hi)) \/ StartSnapshot(t)
      BY <3>4 DEF StartRange, StartSnapshot, StartScan, Goto, shared, Stages, Types
    <3>5. CASE EndScan(t)
      BY <3>5 DEF EndScan, Goto, shared, Stages, Types
    <3> QED
      BY <1>4, <3>1, <3>2, <3>3, <3>4, <3>5
  <2> QED
    BY <1>1, <2>1, RestAddsUp
<1>5. CASE Retry(t)
  BY <1>5, RetryAddsUp
<1>6. CASE CountRetries(t) \/ ClosurePanics(t)
  BY <1>6, LeaveAddsUp
<1> QED
  BY <1>1, <1>2, <1>3, <1>4, <1>5, <1>6 DEF Acts, Step, Call

-----------------------------------------------------------------------------
(* Only a swap changes what is stored, or the history of others' scans.    *)
LEMMA OnlySwapsWrite ==
    ASSUME Types, LocalsOK, NEW t \in Threads, Acts(t), ~Swap(t)
    PROVE  roots' = roots /\ \A u \in Threads : u # t => held'[u] = held[u]
<1>1. CASE Load(t) \/ Retry(t)
  BY <1>1 DEF Load, Retry, Attempt, shared
<1>2. CASE CountRetries(t) \/ ClosurePanics(t)
  BY <1>2 DEF CountRetries, ClosurePanics, Leave
<1>3. CASE Scan(t)
  BY <1>3 DEF Scan, shared, history
<1>4. CASE LoadForSnapshot(t)
  BY <1>4 DEF LoadForSnapshot, LoadRoot, shared, history
<1>5. CASE \E k \in Keys : StartInsert(t, k)
  BY <1>5 DEF StartInsert, shared
<1>6. CASE (\E lo, hi \in Bounds : StartRange(t, lo, hi)) \/ StartSnapshot(t)
  BY <1>6 DEF Types, StartRange, StartSnapshot, StartScan, shared
<1>7. CASE EndScan(t)
  BY <1>7 DEF Types, EndScan, shared
<1> QED
  BY <1>1, <1>2, <1>3, <1>4, <1>5, <1>6, <1>7 DEF Acts, Step, Call

Starts(t) == (\E lo, hi \in Bounds : StartRange(t, lo, hi)) \/ StartSnapshot(t)

(* A thread is in a scan because it was, or because it starts one.         *)
LEMMA ScanningSince ==
    ASSUME Types, LocalsOK, NEW t \in Threads, Acts(t), pc'[t] \in {"range", "snapshot"}
    PROVE  \/ Starts(t)
           \/ Scanning(t) /\ held' = held /\ first' = first /\ roots' = roots
<1>1. CASE Load(t) \/ Retry(t)
  BY <1>1 DEF Types, Load, Retry, Goto
<1>2. CASE Swap(t)
  BY <1>2 DEF Types, Swap, Install, Goto
<1>3. CASE CountRetries(t) \/ ClosurePanics(t)
  BY <1>3 DEF Types, CountRetries, ClosurePanics, Leave, Goto
<1>4. CASE Scan(t)
  BY <1>4, ScanFacts DEF Scanning
<1>5. CASE LoadForSnapshot(t)
  BY <1>5, LoadRootFacts DEF Scanning
<1>6. CASE \E k \in Keys : StartInsert(t, k)
  BY <1>6 DEF Types, StartInsert, Goto
<1>7. CASE EndScan(t)
  BY <1>7 DEF Types, EndScan, Goto
<1> QED
  BY <1>1, <1>2, <1>3, <1>4, <1>5, <1>6, <1>7 DEF Acts, Step, Call, Starts

(* What AllPairs holds after a step.                                       *)
LEMMA PairsThen ==
    \A p : p \in AllPairs'
              <=> \E s \in Shards, k \in Keys : /\ roots'[s][k] # 0
                                              /\ p = <<k, roots'[s][k]>>
<1>1. \A p : p \in AllPairs' <=> \E s \in Shards : p \in PairsOf(roots'[s])
  BY DEF AllPairs
<1> QED
  BY <1>1, PairFacts

(* A swap installs the key of its insert in the shard of that key.         *)
LEMMA PlacedKept ==
    ASSUME Types, LocalsOK, Placed, Next
    PROVE  Placed'
<1>1. PICK t \in Threads : Acts(t)
  BY DEF Next, Acts
<1>2. CASE Swap(t)
  <2>1. \A s \in Shards, k \in Keys :
           roots'[s][k] = IF s = ShardOf(op[t].key) /\ k = op[t].key
                          THEN op[t].id ELSE roots[s][k]
    BY <1>2, SwapWrites
  <2> QED
    BY <2>1 DEF Placed
<1>3. CASE ~Swap(t)
  <2>1. roots' = roots
    BY <1>1, <1>3, OnlySwapsWrite
  <2> QED
    BY <2>1 DEF Placed
<1> QED
  BY <1>2, <1>3

(* What is there belongs to its shard, and a lookup finds it.              *)
LEMMA StoredIsFound ==
    ASSUME Types, Placed
    PROVE  /\ \A p \in AllPairs : p[1] \in Keys /\ Get(p[1]) # 0
           /\ \A p \in AllPairs : p = <<p[1], Get(p[1])>>
           /\ \A k \in Keys : Get(k) # 0 => <<k, Get(k)>> \in AllPairs
<1>1. ASSUME NEW p \in AllPairs
      PROVE  p[1] \in Keys /\ Get(p[1]) # 0 /\ p = <<p[1], Get(p[1])>>
  <2>1. PICK s \in Shards, k \in Keys : roots[s][k] # 0 /\ p = <<k, roots[s][k]>>
    BY PairFacts
  <2>2. ShardOf(k) = s
    BY <2>1 DEF Placed
  <2> QED
    BY <2>1, <2>2 DEF Get
<1>2. ASSUME NEW k \in Keys, Get(k) # 0 PROVE <<k, Get(k)>> \in AllPairs
  BY <1>2, PairFacts, ShardFacts DEF Get
<1> QED
  BY <1>1, <1>2

(* What a scan's history holds when a swap is done.                        *)
LEMMA SwapInHistory ==
    ASSUME Types, LocalsOK, NEW t \in Threads, Swap(t), NEW u \in Threads
    PROVE  /\ pc[u] \in {"range", "snapshot"} =>
                 held'[u] = held[u] \union {<<op[t].key, op[t].id>>}
           /\ pc[u] \notin {"range", "snapshot"} => held'[u] = held[u]
           /\ first' = first /\ pc'[t] = "count" /\ pc[t] = "swap"
BY DEF Swap, Install, Goto, Types

(* Histories follow the map while it changes, and no key ever goes.        *)
LEMMA HistoryKept ==
    ASSUME Types, LocalsOK, Placed, HistoryHolds, Next
    PROVE  HistoryHolds'
<1>1. PICK t \in Threads : Acts(t)
  BY DEF Next, Acts
<1> SUFFICES ASSUME NEW u \in Threads, pc'[u] \in {"range", "snapshot"}
             PROVE  /\ AllPairs' \subseteq held'[u]
                    /\ \A k \in first'[u] : Get(k)' # 0
  BY DEF HistoryHolds, Scanning
<1>2. CASE Swap(t)
  <2>1. u # t
    BY <1>2, SwapInHistory
  <2>2. pc[u] \in {"range", "snapshot"}
    BY <1>1, <2>1, OthersRest
  <2>3. AllPairs \subseteq held[u] /\ \A k \in first[u] : Get(k) # 0
    BY <2>2 DEF HistoryHolds, Scanning
  <2>4. held'[u] = held[u] \union {<<op[t].key, op[t].id>>} /\ first'[u] = first[u]
    BY <1>2, <2>2, SwapInHistory
  <2>5. /\ op[t].key \in Keys /\ op[t].id # 0
        /\ \A s \in Shards, k \in Keys :
              roots'[s][k] = IF s = ShardOf(op[t].key) /\ k = op[t].key
                             THEN op[t].id ELSE roots[s][k]
    BY <1>2, SwapWrites
  <2>6. ASSUME NEW p \in AllPairs' PROVE p \in held'[u]
    <3>1. PICK s \in Shards, k \in Keys : roots'[s][k] # 0 /\ p = <<k, roots'[s][k]>>
      BY PairsThen
    <3>2. CASE s = ShardOf(op[t].key) /\ k = op[t].key
      BY <2>4, <2>5, <3>1, <3>2
    <3>3. CASE ~(s = ShardOf(op[t].key) /\ k = op[t].key)
      <4>1. p = <<k, roots[s][k]>> /\ roots[s][k] # 0
        BY <2>5, <3>1, <3>3
      <4>2. p \in AllPairs
        BY <4>1, PairFacts
      <4> QED
        BY <2>3, <2>4, <4>2
    <3> QED
      BY <3>2, <3>3
  <2>7. ASSUME NEW k \in first'[u] PROVE Get(k)' # 0
    <3>1. k \in Keys /\ k \in first[u]
      BY <2>4 DEF Types
    <3>2. ShardOf(k) \in Shards
      BY <3>1, ShardFacts
    <3> QED
      BY <2>3, <2>5, <3>1, <3>2 DEF Get
  <2> QED
    BY <2>6, <2>7
<1>3. CASE ~Swap(t) /\ u # t
  <2>1. roots' = roots /\ held'[u] = held[u] /\ first'[u] = first[u] /\ pc'[u] = pc[u]
    BY <1>1, <1>3, OnlySwapsWrite, OthersRest
  <2> QED
    BY <2>1 DEF HistoryHolds, Scanning, AllPairs, Get
<1>4. CASE u = t /\ Starts(t)
  <2>1. /\ held'[t] = AllPairs /\ first'[t] = {p[1] : p \in AllPairs}
        /\ roots' = roots
    BY <1>4 DEF Starts, StartRange, StartSnapshot, StartScan, shared, Types
  <2>2. \A k \in first'[t] : Get(k) # 0
    BY <2>1, StoredIsFound
  <2> QED
    BY <1>4, <2>1, <2>2 DEF AllPairs, Get
<1>5. CASE u = t /\ ~Starts(t)
  <2>1. Scanning(t) /\ held' = held /\ first' = first /\ roots' = roots
    BY <1>1, <1>5, ScanningSince
  <2> QED
    BY <1>5, <2>1 DEF HistoryHolds, AllPairs, Get
<1> QED
  BY <1>2, <1>3, <1>4, <1>5

-----------------------------------------------------------------------------
(* A thread has collected, or holds roots, by steps of its own scan.       *)
LEMMA ScanStepsOnly ==
    ASSUME Types, LocalsOK, NEW t \in Threads, Acts(t)
    PROVE  /\ pc'[t] \in {"range", "ranged"} =>
                 Scan(t) \/ \E lo, hi \in Bounds : StartRange(t, lo, hi)
           /\ pc'[t] \in {"snapshot", "snapped"} => LoadForSnapshot(t) \/ StartSnapshot(t)
<1>1. CASE Load(t) \/ Retry(t)
  BY <1>1 DEF Types, Load, Retry, Goto
<1>2. CASE Swap(t)
  BY <1>2 DEF Types, Swap, Install, Goto
<1>3. CASE CountRetries(t) \/ ClosurePanics(t)
  BY <1>3 DEF Types, CountRetries, ClosurePanics, Leave, Goto
<1>4. CASE \E k \in Keys : StartInsert(t, k)
  BY <1>4 DEF Types, StartInsert, Goto
<1>5. CASE EndScan(t)
  BY <1>5 DEF Types, EndScan, Goto
<1>6. CASE Scan(t)
  BY <1>6, ScanFacts
<1>7. CASE LoadForSnapshot(t)
  BY <1>7, LoadRootFacts DEF Types
<1>8. CASE \E lo, hi \in Bounds : StartRange(t, lo, hi)
  BY <1>8 DEF Types, StartRange, StartScan, Goto
<1>9. CASE StartSnapshot(t)
  BY <1>9 DEF Types, StartSnapshot, StartScan, Goto
<1> QED
  BY <1>1, <1>2, <1>3, <1>4, <1>5, <1>6, <1>7, <1>8, <1>9 DEF Acts, Step, Call

(* Of another thread's scan a step changes the history only, and adds.     *)
LEMMA HistoryGrows ==
    ASSUME Types, LocalsOK, NEW t \in Threads, Acts(t), NEW u \in Threads, u # t
    PROVE  held[u] \subseteq held'[u]
<1>1. CASE Swap(t)
  BY <1>1, SwapInHistory
<1>2. CASE ~Swap(t)
  BY <1>2, OnlySwapsWrite
<1> QED
  BY <1>1, <1>2

(* A root that a snapshot loads is in its history at that moment.          *)
LEMMA SnapshotKept ==
    ASSUME Types, LocalsOK, Placed, HistoryHolds, SnapshotSoFar, Next
    PROVE  SnapshotSoFar'
<1>1. PICK t \in Threads : Acts(t)
  BY DEF Next, Acts
<1> SUFFICES ASSUME NEW u \in Threads, pc'[u] \in {"snapshot", "snapped"},
                    NEW k \in Keys, ShardOf(k) <= Len(view'[u])
             PROVE  IF view'[u][ShardOf(k)][k] = 0
                    THEN k \notin first'[u]
                    ELSE <<k, view'[u][ShardOf(k)][k]>> \in held'[u]
  BY DEF SnapshotSoFar, Viewing, Remembered, SnapshotGet
<1>2. ShardOf(k) \in Shards /\ ShardOf(k) \in Nat /\ ShardOf(k) >= 1
  BY ShardFacts DEF Shards
<1>3. CASE u # t
  <2>1. pc'[u] = pc[u] /\ view'[u] = view[u] /\ first'[u] = first[u]
    BY <1>1, <1>3, OthersRest
  <2>2. Remembered(u, k, SnapshotGet(u, k))
    BY <2>1 DEF SnapshotSoFar, Viewing
  <2>3. held[u] \subseteq held'[u]
    BY <1>1, <1>3, HistoryGrows
  <2> QED
    BY <2>1, <2>2, <2>3 DEF Remembered, SnapshotGet
<1>4. CASE u = t /\ StartSnapshot(t)
  <2>1. view'[t] = view[t] /\ pc[t] = "idle" /\ ThreadOK(t)
    BY <1>4 DEF StartSnapshot, StartScan, Goto, LocalsOK
  <2>2. view'[t] = <<>>
    BY <2>1 DEF ThreadOK, Viewing
  <2>3. Len(<<>>) = 0
    OBVIOUS
  <2> QED
    BY <1>2, <1>4, <2>2, <2>3
<1>5. CASE u = t /\ LoadForSnapshot(t)
  <2> DEFINE n == Len(view[t])
             root == roots[n + 1]
  <2>1. /\ pc[t] = "snapshot" /\ n \in Nat /\ n + 1 \in Shards
        /\ view'[t] = Append(view[t], root)
        /\ held' = held /\ first' = first
    BY <1>5, LoadRootFacts DEF Types
  <2>2. view[t] \in Seq(RootType) /\ root \in RootType
    BY <2>1 DEF Types
  <2> HIDE DEF root
  <2>3. /\ Len(view'[t]) = n + 1 /\ view'[t][n + 1] = root
        /\ \A i \in 1..n : view'[t][i] = view[t][i]
    BY <2>1, <2>2, AppendProperties
  <2>4. CASE ShardOf(k) <= n
    <3>1. view'[t][ShardOf(k)] = view[t][ShardOf(k)]
      BY <1>2, <2>1, <2>3, <2>4
    <3>2. Remembered(t, k, SnapshotGet(t, k))
      BY <2>1, <2>4 DEF SnapshotSoFar, Viewing
    <3> QED
      BY <1>5, <2>1, <3>1, <3>2 DEF Remembered, SnapshotGet
  <2>5. CASE ShardOf(k) = n + 1
    <3>1. view'[t][ShardOf(k)][k] = Get(k)
      BY <2>3, <2>5 DEF root, Get
    <3>2. AllPairs \subseteq held[t] /\ \A x \in first[t] : Get(x) # 0
      BY <2>1 DEF HistoryHolds, Scanning
    <3>3. Get(k) # 0 => <<k, Get(k)>> \in held[t]
      BY <3>2, StoredIsFound
    <3> QED
      BY <1>5, <2>1, <3>1, <3>2, <3>3
  <2>6. ShardOf(k) <= n + 1
    BY <1>5, <2>3
  <2>7. ShardOf(k) <= n \/ ShardOf(k) = n + 1
    BY <1>2, <2>1, <2>6
  <2> HIDE DEF n
  <2> QED
    BY <2>4, <2>5, <2>7, Zenon
<1> QED
  BY <1>1, <1>3, <1>4, <1>5, ScanStepsOnly

(* A range step: the next shard's pairs join, the shard leaves the queue.  *)
LEMMA ScanKeepsRange ==
    ASSUME Types, LocalsOK, Placed, HistoryHolds, RangeSoFar,
           NEW t \in Threads, Scan(t)
    PROVE  RangeKeeps(t, query[t])'
<1> DEFINE q == query[t]
           lo == q.lo
           hi == q.hi
           todo == q.todo
           h == Head(todo)
           T == Tail(todo)
           new == Collected(roots[h], lo, hi)
           r == [lo |-> lo, hi |-> hi, todo |-> T]
<1>1. /\ pc[t] = "range" /\ todo \in Seq(Shards) /\ todo # <<>>
      /\ lo \in Bounds /\ hi \in Bounds
      /\ got'[t] = got[t] \union new
      /\ query'[t] = r
      /\ held' = held /\ first' = first
  BY ScanFacts
<1>2. RangeKeeps(t, q)
  BY <1>1 DEF RangeSoFar, Ranging
<1>3. /\ h \in Shards /\ T \in Seq(Shards)
      /\ ToSet(todo) = {h} \union ToSet(T) /\ h \notin ToSet(T)
      /\ \A i, j \in 1..Len(T) : T[i] = T[j] => i = j
  BY <1>1, <1>2, TailFacts DEF RangeKeeps
<1>4. /\ ToSet(todo) \subseteq Targets(q)
      /\ \A p \in got[t] : InRange(p[1], lo, hi) /\ p \in held[t] /\ ShardOf(p[1]) \in Visited(q)
      /\ \A k \in first[t] : InRange(k, lo, hi) /\ ShardOf(k) \in Visited(q)
                                => \E p \in got[t] : p[1] = k
      /\ \A p1, p2 \in got[t] : p1[1] = p2[1] => p1 = p2
  BY <1>2 DEF RangeKeeps
<1>5. Targets(r) = Targets(q)
  BY DEF Targets
<1>6. ToSet(r.todo) \subseteq Targets(r) /\ Visited(r) = Visited(q) \union {h} /\ h \notin Visited(q)
  BY <1>3, <1>4, <1>5 DEF Visited
<1>7. roots[h] \in RootType
  BY <1>3 DEF Types
<1>8. \A p : p \in new <=> p \in PairsOf(roots[h]) /\ InRange(p[1], lo, hi)
  BY <1>1, <1>7, CollectedFacts
<1>9. \A p : p \in PairsOf(roots[h])
                <=> \E k \in Keys : roots[h][k] # 0 /\ p = <<k, roots[h][k]>>
  BY PairFacts
<1>10. AllPairs \subseteq held[t] /\ \A k \in first[t] : Get(k) # 0
  BY <1>1 DEF HistoryHolds, Scanning
<1> HIDE DEF new, r, h, T, q
<1>11. ASSUME NEW p \in new
       PROVE  /\ InRange(p[1], lo, hi) /\ p \in held[t] /\ ShardOf(p[1]) = h
              /\ p = <<p[1], roots[h][p[1]]>>
  <2>1. PICK k \in Keys : roots[h][k] # 0 /\ p = <<k, roots[h][k]>>
    BY <1>8, <1>9, <1>11
  <2>2. p \in AllPairs
    BY <1>3, <2>1, PairFacts
  <2>3. ShardOf(k) = h
    BY <1>3, <2>1 DEF Placed
  <2>4. p[1] = k
    BY <2>1
  <2> QED
    BY <1>8, <1>10, <1>11, <2>1, <2>2, <2>3, <2>4
<1>12. ASSUME NEW k \in first[t], InRange(k, lo, hi), ShardOf(k) = h
       PROVE  \E p \in new : p[1] = k
  <2>1. k \in Keys /\ roots[h][k] # 0
    BY <1>10, <1>12 DEF Types, Get
  <2>2. <<k, roots[h][k]>> \in new /\ <<k, roots[h][k]>>[1] = k
    BY <1>8, <1>9, <1>12, <2>1
  <2> QED
    BY <2>2
<1>13. \A p \in got[t] \union new :
          InRange(p[1], lo, hi) /\ p \in held[t] /\ ShardOf(p[1]) \in Visited(r)
  BY <1>4, <1>6, <1>11
<1>14. \A k \in first[t] : InRange(k, lo, hi) /\ ShardOf(k) \in Visited(r)
                              => \E p \in got[t] \union new : p[1] = k
  <2> SUFFICES ASSUME NEW k \in first[t], InRange(k, lo, hi), ShardOf(k) \in Visited(r)
               PROVE  \E p \in got[t] \union new : p[1] = k
    OBVIOUS
  <2>1. ShardOf(k) \in Visited(q) \/ ShardOf(k) = h
    BY <1>6
  <2>2. CASE ShardOf(k) \in Visited(q)
    BY <1>4, <2>2
  <2>3. CASE ShardOf(k) = h
    BY <1>12, <2>3
  <2> QED
    BY <2>1, <2>2, <2>3
<1>15. ASSUME NEW p1 \in got[t] \union new, NEW p2 \in got[t] \union new, p1[1] = p2[1]
       PROVE  p1 = p2
  <2>1. CASE p1 \in got[t] /\ p2 \in got[t]
    BY <1>4, <1>15, <2>1
  <2>2. CASE p1 \in new /\ p2 \in new
    BY <1>11, <1>15, <2>2
  <2>3. CASE p1 \in got[t] /\ p2 \in new
    BY <1>4, <1>6, <1>11, <1>15, <2>3
  <2>4. CASE p1 \in new /\ p2 \in got[t]
    BY <1>4, <1>6, <1>11, <1>15, <2>4
  <2> QED
    BY <2>1, <2>2, <2>3, <2>4
<1>16. r.lo = lo /\ r.hi = hi /\ r.todo = T
  BY DEF r
<1>17. got'[t] = got[t] \union new /\ query'[t] = r /\ held'[t] = held[t] /\ first'[t] = first[t]
  BY <1>1
<1> QED
  BY <1>3, <1>6, <1>13, <1>14, <1>15, <1>16, <1>17 DEF RangeKeeps

(* A shard that a range reads adds the keys of that shard and no other.    *)
LEMMA RangeKept ==
    ASSUME Types, LocalsOK, Placed, HistoryHolds, RangeSoFar, Next
    PROVE  RangeSoFar'
<1>1. PICK t \in Threads : Acts(t)
  BY DEF Next, Acts
<1> SUFFICES ASSUME NEW u \in Threads, pc'[u] \in {"range", "ranged"}
             PROVE  RangeKeeps(u, query[u])'
  BY DEF RangeSoFar, Ranging
<1>2. CASE u # t
  <2>1. /\ pc'[u] = pc[u] /\ query'[u] = query[u] /\ got'[u] = got[u]
        /\ first'[u] = first[u]
    BY <1>1, <1>2, OthersRest
  <2>2. RangeKeeps(u, query[u])
    BY <2>1 DEF RangeSoFar, Ranging
  <2>3. held[u] \subseteq held'[u]
    BY <1>1, <1>2, HistoryGrows
  <2> QED
    BY <2>1, <2>2, <2>3 DEF RangeKeeps
<1>3. ASSUME u = t, NEW lo \in Bounds, NEW hi \in Bounds, StartRange(t, lo, hi)
      PROVE  RangeKeeps(u, query[u])'
  <2> DEFINE r == [lo |-> lo, hi |-> hi, todo |-> Queued(lo, hi)]
  <2>1. query'[t] = r /\ got'[t] = got[t] /\ pc[t] = "idle" /\ ThreadOK(t)
    BY <1>3 DEF StartRange, StartScan, Goto, Queued, Types, LocalsOK
  <2>2. got'[t] = {}
    BY <2>1 DEF ThreadOK, Ranging
  <2>3. /\ ToSet(Queued(lo, hi)) = Targets(r)
        /\ \A i, j \in 1..Len(Queued(lo, hi)) :
              Queued(lo, hi)[i] = Queued(lo, hi)[j] => i = j
    BY QueuedFacts
  <2>4. r.todo = Queued(lo, hi)
    OBVIOUS
  <2> HIDE DEF r
  <2>5. Visited(r) = {}
    BY <2>3, <2>4 DEF Visited
  <2> QED
    BY <1>3, <2>1, <2>2, <2>3, <2>4, <2>5 DEF RangeKeeps
<1>4. CASE u = t /\ Scan(t)
  BY <1>4, ScanKeepsRange
<1> QED
  BY <1>1, <1>2, <1>3, <1>4, ScanStepsOnly

-----------------------------------------------------------------------------
(* The invariant holds at the start and after every step.                  *)
LEMMA InitIInv == Init => IInv
<1> SUFFICES ASSUME Init PROVE IInv
  OBVIOUS
<1>1. Types
  <2>1. Empty \in RootType /\ NoOp \in OpType /\ <<>> \in Seq(RootType)
    BY EmptySeq DEF Empty, RootType, NoOp, OpType
  <2>2. NoQuery \in QueryType
    BY EmptySeq DEF NoQuery, QueryType
  <2> QED
    BY <2>1, <2>2 DEF Init, Types, Stages
<1>2. LocalsOK
  BY DEF Init, LocalsOK, ThreadOK, Inserting, Ranging, Viewing
<1>3. RetriesAddUp
  <2>1. Pending = {}
    BY DEF Init, Pending
  <2> QED
    BY <2>1, FS_EmptySet DEF Init, RetriesAddUp
<1>4. Placed
  BY DEF Init, Placed, Empty
<1>5. HistoryHolds /\ RangeSoFar /\ SnapshotSoFar
  BY DEF Init, HistoryHolds, RangeSoFar, SnapshotSoFar, Scanning, Ranging, Viewing
<1> QED
  BY <1>1, <1>2, <1>3, <1>4, <1>5 DEF IInv

(* Every step keeps the inductive invariant.                               *)
LEMMA NextKeepsIInv == IInv /\ [Next]_vars => IInv'
<1> SUFFICES ASSUME IInv, [Next]_vars PROVE IInv'
  OBVIOUS
<1>1. CASE Next
  <2>1. /\ Types /\ LocalsOK /\ RetriesAddUp /\ Placed
        /\ HistoryHolds /\ RangeSoFar /\ SnapshotSoFar
    BY DEF IInv
  <2>2. Types' /\ LocalsOK'
    BY <1>1, <2>1, TypesKept
  <2>3. RetriesAddUp'
    BY <1>1, <2>1, RetriesKept
  <2>4. Placed' /\ HistoryHolds'
    BY <1>1, <2>1, PlacedKept, HistoryKept
  <2>5. RangeSoFar' /\ SnapshotSoFar'
    BY <1>1, <2>1, RangeKept, SnapshotKept
  <2> QED
    BY <2>2, <2>3, <2>4, <2>5 DEF IInv
<1>2. CASE UNCHANGED vars
  <2>1. UNCHANGED <<roots, retries, pc, op, seen, tries, query, got, view,
                    failed, lost, held, first, inserts, scans, panics>>
    BY <1>2 DEF vars, shared, locals, history
  <2>2. Types' /\ LocalsOK'
    BY <2>1 DEF IInv, Types, LocalsOK, ThreadOK, Inserting, Ranging, Viewing
  <2>3. RetriesAddUp'
    BY <2>1 DEF IInv, RetriesAddUp, Pending
  <2>4. Placed' /\ HistoryHolds'
    BY <2>1 DEF IInv, Placed, HistoryHolds, Scanning, AllPairs, Get
  <2>5. RangeSoFar'
    BY <2>1 DEF IInv, RangeSoFar, Ranging, RangeKeeps
  <2>6. SnapshotSoFar'
    BY <2>1 DEF IInv, SnapshotSoFar, Viewing, Remembered, SnapshotGet
  <2> QED
    BY <2>2, <2>3, <2>4, <2>5, <2>6 DEF IInv
<1> QED
  BY <1>1, <1>2

(* It holds from the start and is kept.                                    *)
LEMMA AlwaysIInv == Spec => []IInv
  BY InitIInv, NextKeepsIInv, PTL DEF Spec

(* Roots, counters and locals stay in their types.                         *)
THEOREM TypeCorrect == Spec => []TypeOK
<1>1. ASSUME IInv PROVE TypeOK
  <2>1. Types
    BY <1>1 DEF IInv
  <2>2. ASSUME NEW t \in Threads PROVE ToSet(query[t].todo) \subseteq Shards
    <3>1. query[t].todo \in Seq(Shards)
      BY <2>1 DEF Types, QueryType
    <3>2. DOMAIN query[t].todo = 1..Len(query[t].todo)
      BY <3>1, LenProperties
    <3>3. \A i \in 1..Len(query[t].todo) : query[t].todo[i] \in Shards
      BY <3>1, ElementOfSeq
    <3> QED
      BY <3>2, <3>3 DEF ToSet
  <2>3. \A t \in Threads : got[t] \subseteq Keys \X (Nat \ {0})
    BY <2>1 DEF Types, PairType
  <2> QED
    BY <2>1, <2>2, <2>3 DEF Types, TypeOK, Stages, OpType
<1> QED
  BY <1>1, AlwaysIInv, PTL

(* Every failed swap is counted once: at rest by the counter of retries or *)
(* as lost to a panic, and never before it happened.                       *)
THEOREM NoRetryForgotten == Spec => []RetriesCounted
<1>1. ASSUME IInv PROVE RetriesCounted
  <2>1. Types /\ LocalsOK /\ RetriesAddUp
    BY <1>1 DEF IInv
  <2>2. /\ Cardinality(Pending) \in Nat /\ retries \in Nat /\ lost \in Nat
        /\ failed = retries + lost + Cardinality(Pending)
    BY <2>1, FS_CardinalityType DEF RetriesAddUp, Types
  <2>3. ASSUME \A t \in Threads : pc[t] \in Resting PROVE retries + lost = failed
    <3>1. Pending = {}
      BY <2>3 DEF Pending, Resting
    <3>2. Cardinality(Pending) = 0
      BY <3>1, FS_EmptySet
    <3> QED
      BY <2>2, <3>2
  <2>4. retries + lost <= failed
    BY <2>2
  <2> QED
    BY <2>3, <2>4 DEF RetriesCounted
<1> QED
  BY <1>1, AlwaysIInv, PTL

(* A snapshot misses no key that was there when it began and holds only    *)
(* what the map held during the call.                                      *)
THEOREM SnapshotsMissNothing == Spec => []SnapshotHoldsTheMap
<1>1. ASSUME IInv PROVE SnapshotHoldsTheMap
  <2> SUFFICES ASSUME NEW t \in Threads, pc[t] = "snapped", NEW k \in Keys
               PROVE  Remembered(t, k, SnapshotGet(t, k))
    BY DEF SnapshotHoldsTheMap, Remembered
  <2>1. ThreadOK(t) /\ SnapshotSoFar
    BY <1>1 DEF IInv, LocalsOK
  <2>2. Len(view[t]) = NumShards
    BY <2>1 DEF ThreadOK
  <2>3. ShardOf(k) <= Len(view[t])
    BY <2>2, ShardFacts DEF Shards
  <2> QED
    BY <2>1, <2>3 DEF SnapshotSoFar, Viewing
<1> QED
  BY <1>1, AlwaysIInv, PTL

(* Bounds that share the whole shard prefix pick the shard of every key    *)
(* between them.                                                           *)
LEMMA TargetsAreEnough ==
    ASSUME NEW lo \in Bounds, NEW hi \in Bounds, NEW k \in Keys, InRange(k, lo, hi),
           NEW todo,
           ~OneShard(lo, hi) \/ (Len(lo) >= ShardPrefix /\ Len(hi) >= ShardPrefix)
    PROVE  ShardOf(k) \in Targets([lo |-> lo, hi |-> hi, todo |-> todo])
<1>1. ShardPrefix \in Nat /\ ShardOf(k) \in Shards
  BY ShardFacts
<1>2. lo \in Seq(Nat) /\ hi \in Seq(Nat) /\ k \in Seq(Nat)
  BY ShardFacts
<1>3. Len(lo) \in Nat /\ Len(hi) \in Nat
  BY <1>2, LenProperties
<1>4. CASE ~OneShard(lo, hi)
  BY <1>1, <1>4 DEF Targets
<1>5. CASE OneShard(lo, hi)
  <2>1. Len(lo) >= ShardPrefix /\ Len(hi) >= ShardPrefix
    BY <1>5
  <2> DEFINE Fits(n) == n <= ShardPrefix /\ n <= Len(lo) /\ n <= Len(hi)
             p == CHOOSE n \in {ShardPrefix, Len(lo), Len(hi)} : Fits(n)
  <2>2. Fits(ShardPrefix)
    BY <1>1, <2>1
  <2>3. p \in {ShardPrefix, Len(lo), Len(hi)} /\ Fits(p)
    BY <2>2
  <2>4. Cut(lo, p) = Cut(hi, p)
    BY <1>5 DEF OneShard
  <2> HIDE DEF p
  <2>5. p = ShardPrefix
    BY <1>1, <1>3, <2>1, <2>3
  <2>6. Cut(k, ShardPrefix) = Cut(lo, ShardPrefix)
    BY <1>1, <1>2, <2>1, <2>4, <2>5, RangeSharesPrefix
  <2> QED
    BY <1>5, <2>6 DEF Targets, ShardOf
<1> QED
  BY <1>4, <1>5

(* A range over bounds that share the shard prefix, or differ within it,   *)
(* is exact.                                                               *)
THEOREM RangesOfAPrefixAreExact == Spec => []RangeOfPrefixIsExact
<1>1. ASSUME IInv PROVE RangeOfPrefixIsExact
  <2> SUFFICES ASSUME NEW t \in Threads, pc[t] = "ranged",
                      \/ ~OneShard(query[t].lo, query[t].hi)
                      \/ Len(query[t].lo) >= ShardPrefix /\ Len(query[t].hi) >= ShardPrefix
               PROVE  RangeExact(t)
    BY DEF RangeOfPrefixIsExact
  <2> DEFINE q == query[t]
  <2>1. Types /\ ThreadOK(t) /\ RangeKeeps(t, q)
    BY <1>1 DEF IInv, LocalsOK, RangeSoFar, Ranging
  <2>2. q.todo = <<>> /\ q.lo \in Bounds /\ q.hi \in Bounds
    BY <2>1 DEF ThreadOK, Ranging
  <2>3. Visited(q) = Targets(q)
    <3>1. ToSet(<<>>) = {}
      BY DEF ToSet
    <3> QED
      BY <2>2, <3>1 DEF Visited
  <2>4. /\ \A p \in got[t] : InRange(p[1], q.lo, q.hi) /\ p \in held[t]
        /\ \A p1, p2 \in got[t] : p1[1] = p2[1] => p1 = p2
        /\ \A k \in first[t] : InRange(k, q.lo, q.hi) /\ ShardOf(k) \in Visited(q)
                                  => \E p \in got[t] : p[1] = k
    BY <2>1 DEF RangeKeeps
  <2>5. ASSUME NEW k \in first[t], InRange(k, q.lo, q.hi)
        PROVE  k \in {p[1] : p \in got[t]}
    <3>1. k \in Keys
      BY <2>1 DEF Types
    <3>2. ShardOf(k) \in Targets([lo |-> q.lo, hi |-> q.hi, todo |-> q.todo])
      BY <2>2, <2>5, <3>1, TargetsAreEnough
    <3>3. ShardOf(k) \in Targets(q)
      BY <3>2 DEF Targets
    <3> QED
      BY <2>3, <2>4, <2>5, <3>3
  <2> QED
    BY <2>4, <2>5 DEF RangeExact
<1> QED
  BY <1>1, AlwaysIInv, PTL

-----------------------------------------------------------------------------
(* The map and the inserts, as their specification sees them.              *)
Contents == [k \in Keys |-> Get(k)]
Calls == [t \in Threads |-> InsertOf(t)]

(* What the abstract map sees of a thread inside an insert,                *)
LEMMA InsertStages ==
    ASSUME NEW t \in Threads
    PROVE  /\ pc[t] \in {"load", "swap"} => InsertOf(t) = CallOf(op[t].key, op[t].id, "called")
           /\ pc[t] = "count" => InsertOf(t) = CallOf(op[t].key, op[t].id, "done")
           /\ pc[t] \in Resting => InsertOf(t) = NoCall
BY DEF InsertOf, Resting

(* and what it sees after a step.                                          *)
LEMMA InsertStagesThen ==
    ASSUME NEW t \in Threads
    PROVE  /\ pc'[t] \in {"load", "swap"} => InsertOf(t)' = CallOf(op'[t].key, op'[t].id, "called")
           /\ pc'[t] = "count" => InsertOf(t)' = CallOf(op'[t].key, op'[t].id, "done")
           /\ pc'[t] \in Resting => InsertOf(t)' = NoCall
BY DEF InsertOf, Resting

(* A step moves the insert of its own thread at most.                      *)
LEMMA OneCallMoves ==
    ASSUME Types, NEW t \in Threads, Acts(t)
    PROVE  Calls' = [Calls EXCEPT ![t] = InsertOf(t)']
<1>1. ASSUME NEW u \in Threads, u # t PROVE InsertOf(u)' = InsertOf(u)
  <2>1. pc'[u] = pc[u] /\ op'[u] = op[u]
    BY <1>1, OthersRest
  <2> QED
    BY <2>1 DEF InsertOf
<1>2. Calls' = [u \in Threads |-> InsertOf(u)']
  BY DEF Calls
<1> QED
  BY <1>1, <1>2 DEF Calls

(* Equal roots are equal contents.                                         *)
LEMMA SameContents ==
    ASSUME roots' = roots PROVE Contents' = Contents
BY DEF Contents, Get

(* Operations that do not move the insert.                                 *)
LEMMA RestStutters ==
    ASSUME Types, LocalsOK, NEW t \in Threads, Acts(t), roots' = roots,
           \/ pc[t] \in Resting /\ pc'[t] \in Resting
           \/ pc[t] \in {"load", "swap"} /\ pc'[t] = "swap" /\ op' = op
    PROVE  UNCHANGED <<Contents, Calls>>
<1>1. InsertOf(t)' = InsertOf(t)
  BY InsertStages, InsertStagesThen
<1>2. Calls' = [Calls EXCEPT ![t] = InsertOf(t)]
  BY <1>1, OneCallMoves
<1>3. Calls' = Calls
  BY <1>2 DEF Calls
<1> QED
  BY <1>3, SameContents

(* The beginning of an insert is an invocation of the abstract map.        *)
LEMMA StartInsertInvokes ==
    ASSUME Types, LocalsOK, NEW t \in Threads, NEW k \in Keys, StartInsert(t, k)
    PROVE  \E v \in 1..MaxInserts : Atomic!Invoke(t, k, v)
<1>1. /\ inserts + panics < MaxInserts /\ roots' = roots
      /\ pc[t] = "idle" /\ pc'[t] = "load"
      /\ op'[t] = [key |-> k, id |-> inserts + 1]
  BY DEF StartInsert, Goto, shared, Types
<1>2. inserts + 1 \in 1..MaxInserts
  BY <1>1, BoundAssumption DEF Types
<1>3. Acts(t)
  BY DEF Acts, Call
<1>4. Calls[t] = NoCall
  BY <1>1, InsertStages DEF Calls, Resting
<1>5. InsertOf(t)' = CallOf(k, inserts + 1, "called")
  BY <1>1, InsertStagesThen
<1>6. Calls' = [Calls EXCEPT ![t] = CallOf(k, inserts + 1, "called")]
  BY <1>3, <1>5, OneCallMoves
<1>7. Contents' = Contents
  BY <1>1, SameContents
<1>8. Atomic!Invoke(t, k, inserts + 1)
  BY <1>4, <1>6, <1>7
     DEF Atomic!Invoke, Atomic!NoCall, Atomic!CallOf, NoCall, CallOf, Contents, Calls
<1> QED
  BY <1>2, <1>8

(* A successful swap is the step in which the insert takes effect.         *)
LEMMA SwapTakesEffect ==
    ASSUME Types, LocalsOK, NEW t \in Threads, Swap(t)
    PROVE  Atomic!TakeEffect(t)
<1> DEFINE key == op[t].key
           id == op[t].id
<1>1. pc[t] = "swap" /\ pc'[t] = "count" /\ op' = op
  BY DEF Swap, Install, Goto, Types
<1>2. Acts(t)
  BY DEF Acts, Step
<1>3. Calls[t] = CallOf(key, id, "called")
  BY <1>1, InsertStages DEF Calls
<1>4. InsertOf(t)' = CallOf(key, id, "done")
  BY <1>1, InsertStagesThen
<1>5. Calls' = [Calls EXCEPT ![t] = CallOf(key, id, "done")]
  BY <1>2, <1>4, OneCallMoves
<1>6. /\ key \in Keys
      /\ \A s \in Shards, k \in Keys :
            roots'[s][k] = IF s = ShardOf(key) /\ k = key THEN id ELSE roots[s][k]
  BY SwapWrites
<1>7. Contents' = [Contents EXCEPT ![key] = id]
  <2>1. \A k \in Keys : Get(k)' = IF k = key THEN id ELSE Get(k)
    BY <1>6, ShardFacts DEF Get
  <2>2. Contents' = [k \in Keys |-> Get(k)']
    BY DEF Contents
  <2> QED
    BY <1>6, <2>1, <2>2 DEF Contents
<1> HIDE DEF key, id
<1>8. Calls' = [Calls EXCEPT ![t].stage = "done"]
  <2>1. [CallOf(key, id, "called") EXCEPT !.stage = "done"] = CallOf(key, id, "done")
    BY DEF CallOf
  <2>2. [Calls EXCEPT ![t].stage = "done"] = [Calls EXCEPT ![t] = [Calls[t] EXCEPT !.stage = "done"]]
    OBVIOUS
  <2> QED
    BY <1>3, <1>5, <2>1, <2>2
<1>9. /\ Calls[t].stage = "called" /\ Calls[t].key = key /\ Calls[t].value = id
  BY <1>3 DEF CallOf
<1> QED
  BY <1>7, <1>8, <1>9 DEF Atomic!TakeEffect, Contents, Calls

(* The end of an insert is its return, or its end without effect.          *)
LEMMA LeaveEnds ==
    ASSUME Types, LocalsOK, NEW t \in Threads
    PROVE  /\ CountRetries(t) => Atomic!Return(t)
           /\ ClosurePanics(t) => Atomic!GiveUp(t)
<1> SUFFICES ASSUME CountRetries(t) \/ ClosurePanics(t)
             PROVE  /\ CountRetries(t) => Atomic!Return(t)
                    /\ ClosurePanics(t) => Atomic!GiveUp(t)
  OBVIOUS
<1>1. /\ CountRetries(t) => pc[t] = "count"
      /\ ClosurePanics(t) => pc[t] = "swap"
      /\ pc'[t] = "idle" /\ roots' = roots
  BY DEF CountRetries, ClosurePanics, Leave, Goto, Types
<1>2. Acts(t)
  BY DEF Acts, Step
<1>3. Calls' = [Calls EXCEPT ![t] = NoCall]
  BY <1>1, <1>2, InsertStagesThen, OneCallMoves DEF Resting
<1>4. Contents' = Contents
  BY <1>1, SameContents
<1>5. /\ CountRetries(t) => Calls[t].stage = "done"
      /\ ClosurePanics(t) => Calls[t].stage = "called"
  BY <1>1, InsertStages DEF Calls, CallOf
<1> QED
  BY <1>3, <1>4, <1>5 DEF Atomic!Return, Atomic!GiveUp, Atomic!NoCall, NoCall, Contents, Calls

(* The initial states are those of the abstract map.                       *)
LEMMA InitIsAtomic == Init => Atomic!Init
<1> SUFFICES ASSUME Init PROVE Atomic!Init
  OBVIOUS
<1>1. \A t \in Threads : InsertOf(t) = NoCall
  BY InsertStages DEF Init, Resting
<1>2. \A k \in Keys : Get(k) = 0
  BY ShardFacts DEF Init, Get, Empty
<1> QED
  BY <1>1, <1>2 DEF Atomic!Init, Atomic!NoCall, NoCall

(* Every step is one of the abstract map or leaves it unchanged.           *)
LEMMA StepIsAtomic ==
    ASSUME IInv, [Next]_vars PROVE [Atomic!Next]_(Atomic!vars)
<1>0. Types /\ LocalsOK
  BY DEF IInv
<1>1. ASSUME UNCHANGED <<Contents, Calls>> PROVE UNCHANGED Atomic!vars
  BY <1>1 DEF Atomic!vars, Contents, Calls
<1>2. CASE UNCHANGED vars
  <2>1. roots' = roots /\ pc' = pc /\ op' = op
    BY <1>2 DEF vars, shared, locals
  <2>2. Calls' = Calls
    BY <2>1 DEF Calls, InsertOf
  <2> QED
    BY <1>1, <2>1, <2>2, SameContents
<1>3. ASSUME NEW t \in Threads, Acts(t) PROVE Atomic!Next \/ UNCHANGED <<Contents, Calls>>
  <2>1. CASE \E k \in Keys : StartInsert(t, k)
    BY <1>0, <2>1, StartInsertInvokes DEF Atomic!Next
  <2>2. CASE Swap(t)
    BY <1>0, <2>2, SwapTakesEffect DEF Atomic!Next
  <2>3. CASE CountRetries(t) \/ ClosurePanics(t)
    BY <1>0, <2>3, LeaveEnds DEF Atomic!Next
  <2>4. CASE Load(t) \/ Retry(t)
    <3>1. /\ pc[t] \in {"load", "swap"} /\ pc'[t] = "swap" /\ op' = op /\ roots' = roots
      BY <1>0, <2>4 DEF Load, Retry, Goto, Attempt, shared, Types
    <3> QED
      BY <1>0, <1>3, <3>1, RestStutters
  <2>5. CASE Scan(t) \/ LoadForSnapshot(t)
    <3>1. pc[t] \in Resting /\ pc'[t] \in Resting /\ roots' = roots
      BY <1>0, <2>5, ScanFacts, LoadRootFacts DEF Resting, Types
    <3> QED
      BY <1>0, <1>3, <3>1, RestStutters
  <2>6. CASE (\E lo, hi \in Bounds : StartRange(t, lo, hi)) \/ StartSnapshot(t) \/ EndScan(t)
    <3>1. pc[t] \in Resting /\ pc'[t] \in Resting /\ roots' = roots
      BY <1>0, <2>6
         DEF StartRange, StartSnapshot, StartScan, EndScan, Goto, shared, Resting, Types
    <3> QED
      BY <1>0, <1>3, <3>1, RestStutters
  <2> QED
    BY <1>3, <2>1, <2>2, <2>3, <2>4, <2>5, <2>6 DEF Acts, Step, Call
<1>4. CASE Next
  <2>1. PICK t \in Threads : Acts(t)
    BY <1>4 DEF Next, Acts
  <2> QED
    BY <1>1, <1>3, <2>1
<1> QED
  BY <1>2, <1>4

(* Loads, failed swaps and retries of any number of threads are, to every  *)
(* reader, inserts done one at a time, each at its own swap.               *)
THEOREM InsertsTakeEffectOnce == Spec => InsertsAreAtomic
  BY InitIsAtomic, StepIsAtomic, AlwaysIInv, PTL DEF Spec, InsertsAreAtomic, Atomic!Spec
=============================================================================
