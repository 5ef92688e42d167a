----------------------- MODULE ShardedRadixOrderedMap -----------------------
(***************************************************************************)
(* ShardedRadixOrderedMap of portable-maps-and-sets                        *)
(* (src/radix/concurrent.rs): a concurrent ordered map, its keys spread    *)
(* over shards by a hash of their leading bytes, each shard an immutable   *)
(* radix tree behind one atomic pointer.  insert copies the path to its    *)
(* key and swaps the new root in, starting over when the pointer moved     *)
(* (rcu of the external crate arc-swap); range reads one shard or all of   *)
(* them, one after the other, and snapshot keeps the roots it loads.  The  *)
(* closure of an rcu clones a value, which is the caller's code and may    *)
(* panic: insert unwinds and nothing is swapped.                           *)
(*                                                                         *)
(* A tree is the map it stores, and each insert writes a value of its own, *)
(* so a shard never holds the same contents twice: comparing contents is   *)
(* comparing pointers.  A thread's dead locals are reset.                  *)
(***************************************************************************)
EXTENDS ByteStrings, Integers, FiniteSets

CONSTANTS Threads,
          Keys,          \* byte strings
          Bounds,        \* byte strings a caller of range gives
          NumShards,
          ShardPrefix,   \* how many leading bytes pick the shard
          HashOf,        \* the hash of those bytes, modulo the shards
          MaxInserts,    \* bound: inserts in all, one less for each panic
          MaxScans       \* bound: ranges and snapshots in all

Shards == 1..NumShards

ASSUME ShardAssumption ==
    /\ NumShards \in Nat \ {0} /\ ShardPrefix \in Nat \ {0}
    /\ \A k \in Keys \union Bounds : HashOf[Cut(k, ShardPrefix)] \in Shards
ASSUME ByteAssumption == Keys \union Bounds \subseteq Seq(0..255)
ASSUME BoundAssumption == MaxInserts \in Nat /\ MaxScans \in Nat

VARIABLES roots,     \* what the tree of each shard stores: key -> value or 0
          retries,   \* AtomicU64: rcu attempts beyond the first, of all inserts
          pc,        \* what each thread does next
          op,        \* the key and value of its insert
          seen,      \* the root its rcu loaded last
          tries,     \* how often its rcu ran the closure
          query,     \* the bounds of its range and the shards it has to visit
          got,       \* the pairs its range collected
          view,      \* the roots its snapshot holds so far, in shard order
          failed,    \* history: how many swaps failed in all
          lost,      \* history: how many of them by inserts that panicked
          held,      \* history: the pairs any shard held during its scan
          first,     \* history: the keys present when its scan began
          inserts,   \* how many inserts were begun, for the bound
          scans,     \* how many ranges and snapshots were begun
          panics     \* how many inserts panicked

shared == <<roots, retries>>
locals == <<op, seen, tries, query, got, view>>
history == <<failed, lost, held, first, inserts, scans, panics>>
vars == <<shared, pc, locals, history>>

-----------------------------------------------------------------------------
ShardOf(key) == HashOf[Cut(key, ShardPrefix)]

Empty == [k \in Keys |-> 0]
NoOp == [key |-> <<>>, id |-> 0]
NoQuery == [lo |-> <<>>, hi |-> <<>>, todo |-> <<>>]

(* get: one load of the key's shard, one lookup.                           *)
Get(k) == roots[ShardOf(k)][k]

PairsOf(root) == {<<k, root[k]>> : k \in {k \in Keys : root[k] # 0}}
AllPairs == UNION {PairsOf(roots[s]) : s \in Shards}

(* What collect finds in a shard, the subtrees it does not enter left out. *)
Collected(root, lo, hi) ==
    {p \in PairsOf(root) : /\ InRange(p[1], lo, hi)
                           /\ \A n \in 1..Len(p[1]) : Entered(Cut(p[1], n), lo, hi)}

(* Bounds that agree on the prefix bytes they both have: one shard is      *)
(* scanned, that of the lower bound.                                       *)
OneShard(lo, hi) ==
    LET p == CHOOSE n \in {ShardPrefix, Len(lo), Len(hi)} :
                 n <= ShardPrefix /\ n <= Len(lo) /\ n <= Len(hi)
    IN  Cut(lo, p) = Cut(hi, p)

-----------------------------------------------------------------------------
Init ==
    /\ roots = [s \in Shards |-> Empty]
    /\ retries = 0
    /\ pc = [t \in Threads |-> "idle"]
    /\ op = [t \in Threads |-> NoOp]
    /\ seen = [t \in Threads |-> Empty]
    /\ tries = [t \in Threads |-> 0]
    /\ query = [t \in Threads |-> NoQuery]
    /\ got = [t \in Threads |-> {}]
    /\ view = [t \in Threads |-> <<>>]
    /\ failed = 0 /\ lost = 0
    /\ held = [t \in Threads |-> {}]
    /\ first = [t \in Threads |-> {}]
    /\ inserts = 0 /\ scans = 0 /\ panics = 0

Goto(t, from, to) == pc[t] = from /\ pc' = [pc EXCEPT ![t] = to]

StartInsert(t, k) ==
    /\ inserts + panics < MaxInserts
    /\ Goto(t, "idle", "load")
    /\ inserts' = inserts + 1
    /\ op' = [op EXCEPT ![t] = [key |-> k, id |-> inserts']]
    /\ UNCHANGED <<shared, seen, tries, query, got, view,
                   failed, lost, held, first, scans, panics>>

(* The closure runs once more, on the root found.                          *)
Attempt(t, n) ==
    /\ seen' = [seen EXCEPT ![t] = roots[ShardOf(op[t].key)]]
    /\ tries' = [tries EXCEPT ![t] = n]
    /\ UNCHANGED <<shared, op, query, got, view, lost, held, first, inserts, scans, panics>>

(* Mutant: the first attempt is not counted.                               *)
Load_CountsFromZero(t) == Goto(t, "load", "swap") /\ Attempt(t, 0) /\ UNCHANGED failed

(* rcu loads the root and runs the closure.                                *)
Load(t) == Goto(t, "load", "swap") /\ Attempt(t, 1) /\ UNCHANGED failed

(* The shard's pointer now leads to the copy with the new pair.            *)
Install(t) ==
    /\ Goto(t, "swap", "count")
    /\ roots' = [roots EXCEPT ![ShardOf(op[t].key)] = [seen[t] EXCEPT ![op[t].key] = op[t].id]]
    /\ seen' = [seen EXCEPT ![t] = Empty]
    /\ held' = [u \in Threads |-> IF pc[u] \in {"range", "snapshot"}
                                  THEN held[u] \union {<<op[t].key, op[t].id>>}
                                  ELSE held[u]]
    /\ UNCHANGED <<retries, op, tries, query, got, view,
                   failed, lost, first, inserts, scans, panics>>

RootMoved(t) == roots[ShardOf(op[t].key)] # seen[t]

(* Mutant: the swap does not compare.                                      *)
Swap_Blind(t) == Install(t)

(* The pointer has not moved: the copy goes in.                            *)
Swap(t) == ~RootMoved(t) /\ Install(t)

(* Mutant: a failed swap goes on with the root it loaded first.            *)
Retry_KeepsStale(t) == pc[t] = "swap" /\ RootMoved(t) /\ UNCHANGED vars

(* It has moved: run the closure again.                                    *)
Retry(t) ==
    /\ RootMoved(t)
    /\ Goto(t, "swap", "swap")
    /\ Attempt(t, tries[t] + 1)
    /\ failed' = failed + 1

(* insert is over, and its locals with it.                                 *)
Leave(t, from) ==
    /\ Goto(t, from, "idle")
    /\ op' = [op EXCEPT ![t] = NoOp]
    /\ seen' = [seen EXCEPT ![t] = Empty]
    /\ tries' = [tries EXCEPT ![t] = 0]
    /\ UNCHANGED <<roots, query, got, view, failed, held, first, inserts, scans>>

(* The closure panics: the attempts it counted so far are forgotten.       *)
ClosurePanics(t) ==
    /\ inserts + panics < MaxInserts /\ panics' = panics + 1
    /\ Leave(t, "swap")
    /\ lost' = lost + (tries[t] - 1)
    /\ UNCHANGED retries

(* Mutant: the attempts are added, not those beyond the first.             *)
CountRetries_All(t) ==
    /\ Leave(t, "count")
    /\ retries' = retries + (IF tries[t] > 1 THEN tries[t] ELSE 0)
    /\ UNCHANGED <<lost, panics>>

(* retries.fetch_add, when there were any, and insert returns.             *)
CountRetries(t) ==
    /\ Leave(t, "count")
    /\ retries' = retries + (tries[t] - 1)
    /\ UNCHANGED <<lost, panics>>

(* A range or a snapshot begins; the history notes what is there.          *)
StartScan(t, stage) ==
    /\ scans < MaxScans
    /\ Goto(t, "idle", stage)
    /\ scans' = scans + 1
    /\ held' = [held EXCEPT ![t] = AllPairs]
    /\ first' = [first EXCEPT ![t] = {p[1] : p \in AllPairs}]
    /\ UNCHANGED <<shared, op, seen, tries, got, view, failed, lost, inserts, panics>>

(* range picks its shards.                                                 *)
StartRange(t, lo, hi) ==
    /\ StartScan(t, "range")
    /\ query' = [query EXCEPT ![t] =
           [lo |-> lo, hi |-> hi,
            todo |-> IF OneShard(lo, hi) THEN <<ShardOf(lo)>> ELSE [s \in Shards |-> s]]]

(* The next shard's root is loaded and collected from.                     *)
Scan(t) ==
    /\ pc[t] = "range"
    /\ LET q == query[t]
       IN  /\ got' = [got EXCEPT ![t] = @ \union Collected(roots[Head(q.todo)], q.lo, q.hi)]
           /\ query' = [query EXCEPT ![t].todo = Tail(@)]
           /\ \/ Tail(q.todo) # <<>> /\ Goto(t, "range", "range")
              \/ Tail(q.todo) = <<>> /\ Goto(t, "range", "ranged")
    /\ UNCHANGED <<shared, op, seen, tries, view, history>>

StartSnapshot(t) == StartScan(t, "snapshot") /\ UNCHANGED query

(* The root of shard s joins the snapshot.                                 *)
LoadRoot(t, s) ==
    /\ pc[t] = "snapshot"
    /\ view' = [view EXCEPT ![t] = Append(@, roots[s])]
    /\ \/ Len(view'[t]) < NumShards /\ Goto(t, "snapshot", "snapshot")
       \/ Len(view'[t]) = NumShards /\ Goto(t, "snapshot", "snapped")
    /\ UNCHANGED <<shared, op, seen, tries, query, got, history>>

(* Mutant: the first shard is loaded for all of them.                      *)
LoadForSnapshot_First(t) == LoadRoot(t, 1)

(* The roots are loaded one shard after the other.                         *)
LoadForSnapshot(t) == LoadRoot(t, Len(view[t]) + 1)

(* get of the snapshot.                                                    *)
SnapshotGet(t, k) == view[t][ShardOf(k)][k]

(* The caller is done with the pairs, or with the snapshot.                *)
EndScan(t) ==
    /\ \/ Goto(t, "ranged", "idle")
       \/ Goto(t, "snapped", "idle")
    /\ query' = [query EXCEPT ![t] = NoQuery]
    /\ got' = [got EXCEPT ![t] = {}]
    /\ view' = [view EXCEPT ![t] = <<>>]
    /\ held' = [held EXCEPT ![t] = {}]
    /\ first' = [first EXCEPT ![t] = {}]
    /\ UNCHANGED <<shared, op, seen, tries, failed, lost, inserts, scans, panics>>

-----------------------------------------------------------------------------
Step(t) ==
    \/ Load(t) \/ Swap(t) \/ Retry(t) \/ CountRetries(t) \/ Scan(t)
    \/ LoadForSnapshot(t)

Call(t) ==
    \/ \E k \in Keys : StartInsert(t, k)
    \/ \E lo, hi \in Bounds : StartRange(t, lo, hi)
    \/ StartSnapshot(t)
    \/ EndScan(t)

Next == \E t \in Threads : Step(t) \/ Call(t) \/ ClosurePanics(t)

(* A thread inside a call is scheduled again and again; nobody has to make *)
(* a call or panic.                                                        *)
Fairness == \A t \in Threads : WF_vars(Step(t))

Spec == Init /\ [][Next]_vars /\ Fairness

-----------------------------------------------------------------------------
RootType == [Keys -> Nat]

(* What a writer sees of its insert, and a reader of the map.              *)
NoCall == [stage |-> "none"]
CallOf(k, v, stage) == [stage |-> stage, key |-> k, value |-> v]

InsertOf(t) ==
    CASE pc[t] \in {"load", "swap"} -> CallOf(op[t].key, op[t].id, "called")
      [] pc[t] = "count" -> CallOf(op[t].key, op[t].id, "done")
      [] OTHER -> NoCall

Atomic == INSTANCE AtomicMap
            WITH Values <- 1..MaxInserts, NoValue <- 0,
                 map <- [k \in Keys |-> Get(k)],
                 calls <- [t \in Threads |-> InsertOf(t)]

(* What a range returned: every key within the bounds that was there when  *)
(* it began, each with a value it held during the call, and nothing else.  *)
RangeExact(t) ==
    LET within(k) == InRange(k, query[t].lo, query[t].hi)
    IN  /\ {k \in first[t] : within(k)} \subseteq {p[1] : p \in got[t]}
        /\ \A p \in got[t] : within(p[1]) /\ p \in held[t]
        /\ \A p, q \in got[t] : p[1] = q[1] => p = q

(* Roots, counters and the threads' locals stay in their types.            *)
TypeOK ==
    /\ roots \in [Shards -> RootType] /\ retries \in Nat
    /\ pc \in [Threads -> {"idle", "load", "swap", "count",
                             "range", "ranged", "snapshot", "snapped"}]
    /\ op \in [Threads -> [key : Keys \union {<<>>}, id : Nat]]
    /\ seen \in [Threads -> RootType]
    /\ tries \in [Threads -> Nat]
    /\ \A t \in Threads : got[t] \subseteq Keys \X (Nat \ {0})
    /\ \A t \in Threads : ToSet(query[t].todo) \subseteq Shards
    /\ view \in [Threads -> Seq(RootType)]
    /\ lost \in Nat

(* The inserts of any number of threads, with their loads, failed swaps    *)
(* and retries, look to every reader like inserts done one at a time,      *)
(* each at its own swap; no insert is lost or done twice.                  *)
InsertsAreAtomic == Atomic!Spec

Resting == {"idle", "range", "ranged", "snapshot", "snapped"}

(* The counter of retries counts the swaps that failed, never more: when   *)
(* no insert is under way all but those of inserts that panicked, whose    *)
(* attempts were still in a local.                                         *)
RetriesCounted ==
    /\ retries + lost <= failed
    /\ (\A t \in Threads : pc[t] \in Resting) => retries + lost = failed

(* range as the code keeps it: bounds that differ within the shard prefix, *)
(* or are both at least that long, get an exact answer, whatever is        *)
(* inserted while the shards are read.                                     *)
RangeOfPrefixIsExact ==
    \A t \in Threads :
        /\ pc[t] = "ranged"
        /\ \/ ~OneShard(query[t].lo, query[t].hi)
           \/ Len(query[t].lo) >= ShardPrefix /\ Len(query[t].hi) >= ShardPrefix
        => RangeExact(t)

(* "Ordered range scan; single-shard when lo/hi share the shard prefix"    *)
(* (concurrent.rs, line 167), for any bounds.                              *)
RangeIsExact == \A t \in Threads : pc[t] = "ranged" => RangeExact(t)

(* A snapshot misses no key that was there when it began and holds, for    *)
(* every key, a value the map had during the call and nothing of what was  *)
(* inserted after it.                                                      *)
SnapshotHoldsTheMap ==
    \A t \in Threads : pc[t] = "snapped" =>
        \A k \in Keys :
            IF SnapshotGet(t, k) = 0 THEN k \notin first[t]
                                     ELSE <<k, SnapshotGet(t, k)>> \in held[t]

(* Every call returns, as long as the others make finitely many: a swap    *)
(* fails only because another one succeeded.                               *)
CallsReturn == []<>(\A t \in Threads : pc[t] \in {"idle", "ranged", "snapped"})
=============================================================================
