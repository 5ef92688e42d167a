--------------------- MODULE ShardedArtOrderedMap_proofs ---------------------
(***************************************************************************)
(* TLAPS proofs about ShardedArtOrderedMap, for every set of threads and   *)
(* keys, every number of shards, every hash of the keys and every batch    *)
(* size.                                                                   *)
(***************************************************************************)
EXTENDS ShardedArtOrderedMap, FiniteSetTheorems, FunctionTheorems,
        SequenceTheorems, WellFoundedInduction, TLAPS

-----------------------------------------------------------------------------
(* Least and greatest elements.                                            *)
LEMMA LeastOf ==
    ASSUME NEW S \in SUBSET Nat, S # {}
    PROVE  \E n \in S : \A m \in S : n <= m
<1> DEFINE R == OpToRel(<, Nat)
<1>1. \E n \in S : \A m \in S : ~(<<m, n>> \in R)
  <2>1. IsWellFoundedOn(R, Nat)
    BY NatLessThanWellFounded
  <2> HIDE DEF R
  <2> QED
    BY <2>1, WFMin
<1>2. ASSUME NEW n \in S, NEW m \in S, ~(<<m, n>> \in R) PROVE n <= m
  BY <1>2 DEF OpToRel
<1> HIDE DEF R
<1> QED
  BY <1>1, <1>2

(* Of the indices in T, one whose value is highest and which comes first   *)
(* among its equals.                                                       *)
Best(f, T, i) ==
    i \in T /\ \A j \in T : f[j] < f[i] \/ (f[j] = f[i] /\ i <= j)

LEMMA HasBest ==
    ASSUME NEW n \in Nat, NEW f \in [1..n -> Int], NEW T, T \subseteq 1..n, T # {}
    PROVE  \E i \in T : Best(f, T, i)
<1> DEFINE Upto(m) == {j \in T : j <= m}
           Bad == {m \in 1..n : Upto(m) # {} /\ \A i \in Upto(m) : ~Best(f, Upto(m), i)}
<1>1. \A j \in T : j \in 1..n
  OBVIOUS
<1> HIDE DEF Upto
<1>2. /\ Bad \subseteq 1..n
      /\ \A m \in 1..n : m \in Bad <=> Upto(m) # {} /\ \A i \in Upto(m) : ~Best(f, Upto(m), i)
  BY Zenon
<1> HIDE DEF Bad
<1>3. SUFFICES ASSUME \A i \in T : ~Best(f, T, i) PROVE FALSE
  OBVIOUS
<1>4. n \in Bad
  <2>1. n \in 1..n
    <3>1. PICK x \in T : TRUE
      OBVIOUS
    <3> QED
      BY <1>1, <3>1
  <2>2. Upto(n) = T
    <3>1. \A j \in T : j <= n
      BY <1>1
    <3> QED
      BY <3>1 DEF Upto
  <2> QED
    BY <1>2, <1>3, <2>1, <2>2, Zenon
<1>5. PICK m \in Bad : \A l \in Bad : m <= l
  <2>1. Bad \in SUBSET Nat /\ Bad # {}
    BY <1>2, <1>4
  <2> QED
    BY <2>1, LeastOf
<1>6. /\ m \in 1..n /\ m - 1 \notin Bad /\ m - 1 \in Nat
      /\ Upto(m) # {} /\ \A i \in Upto(m) : ~Best(f, Upto(m), i)
  <2>1. m \in 1..n
    BY <1>2
  <2>2. m - 1 \notin Bad /\ m - 1 \in Nat
    BY <1>5, <2>1
  <2>3. Upto(m) # {} /\ \A i \in Upto(m) : ~Best(f, Upto(m), i)
    BY <1>2, <2>1, Zenon
  <2> QED
    BY <2>1, <2>2, <2>3
<1>7. /\ \A j \in Upto(m) : j \in T /\ j \in 1..n /\ j <= m
      /\ \A j \in T : j <= m => j \in Upto(m)
  BY <1>6, <1>1 DEF Upto
<1>8. /\ \A j \in Upto(m - 1) : j \in T /\ j \in 1..n /\ j <= m - 1
      /\ \A j \in T : j <= m - 1 => j \in Upto(m - 1)
  BY <1>6, <1>1 DEF Upto
<1>9. CASE Upto(m - 1) = {}
  <2>1. \A j \in Upto(m) : j = m
    BY <1>6, <1>9, <1>7, <1>8
  <2>3. m \in Upto(m)
    BY <1>6, <2>1
  <2>2. Best(f, Upto(m), m)
    BY <1>6, <2>1, <2>3 DEF Best
  <2> QED
    BY <1>6, <2>2, <2>3, Zenon
<1>10. CASE Upto(m - 1) # {}
  <2>1. m - 1 \in 1..n
    BY <1>6, <1>10, <1>8
  <2>2. PICK b \in Upto(m - 1) : Best(f, Upto(m - 1), b)
    BY <1>2, <1>6, <1>10, <2>1
  <2>3. b \in Upto(m) /\ b \in 1..n /\ b < m /\ b \in T
    BY <1>6, <1>7, <1>8, <2>1, <2>2
  <2>4. \A j \in Upto(m) : j = m \/ j \in Upto(m - 1)
    BY <1>6, <1>7, <1>8
  <2>5. \A j \in Upto(m - 1) : f[j] < f[b] \/ (f[j] = f[b] /\ b <= j)
    BY <2>2 DEF Best
  <2>6. f[m] \in Int /\ f[b] \in Int /\ \A j \in Upto(m - 1) : f[j] \in Int
    BY <1>6, <1>7, <1>8, <2>1, <2>3
  <2>7. CASE m \in T /\ f[m] > f[b]
    <3>1. m \in Upto(m)
      BY <1>6, <1>1, <1>7, <2>7
    <3>2. ASSUME NEW j \in Upto(m) PROVE f[j] < f[m] \/ (f[j] = f[m] /\ m <= j)
      <4>1. CASE j = m
        BY <1>6, <2>6, <4>1
      <4>2. CASE j \in Upto(m - 1)
        BY <2>5, <2>6, <2>7, <4>2
      <4> QED
        BY <2>4, <4>1, <4>2
    <3>3. Best(f, Upto(m), m)
      BY <3>1, <3>2 DEF Best
    <3> QED
      BY <1>6, <3>1, <3>3
  <2>8. CASE ~(m \in T /\ f[m] > f[b])
    <3>1. ASSUME NEW j \in Upto(m) PROVE f[j] < f[b] \/ (f[j] = f[b] /\ b <= j)
      <4>1. CASE j = m
        BY <1>6, <1>1, <1>7, <2>3, <2>6, <2>8, <4>1
      <4>2. CASE j \in Upto(m - 1)
        BY <2>5, <4>2
      <4> QED
        BY <2>4, <4>1, <4>2
    <3>2. Best(f, Upto(m), b)
      BY <2>3, <3>1 DEF Best
    <3> QED
      BY <1>6, <2>3, <3>2
  <2> QED
    BY <2>7, <2>8
<1> QED
  BY <1>9, <1>10

LEMMA MaxOfIs ==
    ASSUME NEW S \in SUBSET Int, NEW n \in S, \A m \in S : m <= n
    PROVE  MaxOf(S) = n
<1>1. \E x \in S : \A m \in S : m <= x
  OBVIOUS
<1>2. MaxOf(S) \in S /\ \A m \in S : m <= MaxOf(S)
  BY <1>1 DEF MaxOf
<1>3. n \in Int /\ MaxOf(S) \in Int
  BY <1>2
<1>4. n <= MaxOf(S) /\ MaxOf(S) <= n
  BY <1>2
<1> QED
  BY <1>3, <1>4

(* The highest op_seq of some of a call's ops is that of one of them.      *)
LEMMA HighestSeq ==
    ASSUME NEW q \in Seq(OpType), NEW I \in SUBSET DOMAIN q, I # {}
    PROVE  \E i \in I : /\ MaxOf({q[j].seq : j \in I}) = q[i].seq
                        /\ \A j \in I : q[j].seq <= q[i].seq
<1>1. Len(q) \in Nat /\ DOMAIN q = 1..Len(q) /\ \A j \in 1..Len(q) : q[j].seq \in Nat
  <2>1. \A j \in 1..Len(q) : q[j] \in OpType
    BY ElementOfSeq
  <2> QED
    BY <2>1, LenProperties DEF OpType
<1> DEFINE f == [j \in 1..Len(q) |-> q[j].seq]
<1>2. f \in [1..Len(q) -> Int] /\ \A j \in I : f[j] = q[j].seq
  BY <1>1
<1> HIDE DEF f
<1>3. PICK i \in I : Best(f, I, i)
  BY <1>1, <1>2, HasBest
<1>4. \A j \in I : q[j].seq <= q[i].seq
  BY <1>1, <1>2, <1>3 DEF Best
<1>5. MaxOf({q[j].seq : j \in I}) = q[i].seq
  <2>1. {q[j].seq : j \in I} \in SUBSET Int /\ q[i].seq \in {q[j].seq : j \in I}
    BY <1>1
  <2> QED
    BY <1>4, <2>1, MaxOfIs
<1> QED
  BY <1>4, <1>5

-----------------------------------------------------------------------------
(* The root a closure builds.                                              *)
LEMMA WinnerFacts ==
    ASSUME NEW q \in Seq(OpType), NEW k, NEW i \in DOMAIN q, q[i].key = k
    PROVE  /\ Winner(q, k) \in DOMAIN q /\ q[Winner(q, k)].key = k
           /\ \A j \in DOMAIN q : q[j].key = k => q[j].seq <= q[Winner(q, k)].seq
<1>1. Len(q) \in Nat /\ DOMAIN q = 1..Len(q) /\ \A j \in 1..Len(q) : q[j].seq \in Nat
  <2>1. \A j \in 1..Len(q) : q[j] \in OpType
    BY ElementOfSeq
  <2> QED
    BY <2>1, LenProperties DEF OpType
<1> DEFINE f == [j \in 1..Len(q) |-> q[j].seq]
           T == {j \in DOMAIN q : q[j].key = k}
<1>2. f \in [1..Len(q) -> Int] /\ \A j \in DOMAIN q : f[j] = q[j].seq
  BY <1>1
<1>3. T \in SUBSET (1..Len(q)) /\ T # {}
  BY <1>1
<1> HIDE DEF f
<1>4. PICK b \in T : Best(f, T, b)
  <2> HIDE DEF T
  <2> QED
    BY <1>1, <1>2, <1>3, HasBest
<1>5. /\ b \in DOMAIN q /\ q[b].key = k
      /\ \A j \in DOMAIN q :
            q[j].key = k => q[j].seq < q[b].seq \/ (q[j].seq = q[b].seq /\ b <= j)
  BY <1>2, <1>4 DEF Best
<1>6. LET w == Winner(q, k)
      IN  /\ w \in DOMAIN q /\ q[w].key = k
          /\ \A j \in DOMAIN q :
                q[j].key = k => q[j].seq < q[w].seq \/ (q[j].seq = q[w].seq /\ w <= j)
  BY <1>5 DEF Winner
<1> QED
  BY <1>1, <1>6

LEMMA FoldedFacts ==
    ASSUME NEW root \in RootType, NEW q \in Seq(OpType), NEW s \in Shards
    PROVE  /\ Folded(root, q, s) \in RootType
           /\ \A k \in Keys :
                 \/ Folded(root, q, s)[k] = root[k]
                 \/ /\ Folded(root, q, s)[k].seq > root[k].seq
                    /\ \E i \in InShard(q, s) :
                          q[i].key = k /\ Folded(root, q, s)[k] = EntryOf(q[i])
           /\ \A k \in Keys : Folded(root, q, s)[k].seq >= root[k].seq
           /\ \A i \in InShard(q, s) : Folded(root, q, s)[q[i].key].seq >= q[i].seq
<1> DEFINE new == Folded(root, q, s)
<1>1. /\ Len(q) \in Nat /\ DOMAIN q = 1..Len(q)
      /\ \A j \in DOMAIN q : q[j] \in OpType /\ q[j].key \in Keys /\ q[j].seq \in Nat
                             /\ EntryOf(q[j]) \in Entries /\ EntryOf(q[j]).seq = q[j].seq
  <2>1. \A j \in 1..Len(q) : q[j] \in OpType
    BY ElementOfSeq
  <2> QED
    BY <2>1, LenProperties DEF OpType, EntryOf, Entries
<1>2. \A k \in Keys : root[k] \in Entries /\ root[k].seq \in Int
  BY DEF RootType, Entries
<1>3. \A i \in InShard(q, s) : i \in DOMAIN q /\ ShardOf[q[i].key] = s
  BY DEF InShard
<1>4. ASSUME NEW k \in Keys
      PROVE  /\ new[k] \in Entries
             /\ \/ new[k] = root[k] /\ \A i \in InShard(q, s) : q[i].key = k => q[i].seq <= root[k].seq
                \/ /\ new[k].seq > root[k].seq
                   /\ \E i \in InShard(q, s) : q[i].key = k /\ new[k] = EntryOf(q[i])
                   /\ \A i \in InShard(q, s) : q[i].key = k => q[i].seq <= new[k].seq
  <2>1. CASE \E i \in InShard(q, s) : q[i].key = k /\ Lands(root[k], q[i])
    <3>1. PICK i \in InShard(q, s) : q[i].key = k /\ Lands(root[k], q[i])
      BY <2>1
    <3>2. i \in DOMAIN q /\ ShardOf[k] = s /\ q[i].seq > root[k].seq
      BY <1>3, <3>1 DEF Lands
    <3> DEFINE w == Winner(q, k)
    <3>3. /\ w \in DOMAIN q /\ q[w].key = k
          /\ \A j \in DOMAIN q : q[j].key = k => q[j].seq <= q[w].seq
      BY <3>1, <3>2, WinnerFacts
    <3>4. new[k] = EntryOf(q[w])
      BY <2>1 DEF Folded
    <3> HIDE DEF w, new
    <3>5. w \in InShard(q, s)
      BY <3>2, <3>3 DEF InShard
    <3>6. new[k].seq = q[w].seq /\ new[k] \in Entries
      BY <1>1, <3>3, <3>4
    <3>7. q[i].seq <= q[w].seq /\ q[w].seq \in Nat /\ q[i].seq \in Nat
      BY <1>1, <3>1, <3>2, <3>3
    <3>8. new[k].seq > root[k].seq
      BY <1>2, <3>2, <3>6, <3>7
    <3>9. \A j \in InShard(q, s) : q[j].key = k => q[j].seq <= new[k].seq
      BY <1>3, <3>3, <3>6
    <3> QED
      BY <3>3, <3>4, <3>5, <3>6, <3>8, <3>9
  <2>2. CASE ~\E i \in InShard(q, s) : q[i].key = k /\ Lands(root[k], q[i])
    <3>1. new[k] = root[k]
      BY <2>2 DEF Folded
    <3> HIDE DEF new
    <3>2. \A i \in InShard(q, s) : q[i].key = k => q[i].seq <= root[k].seq
      BY <1>1, <1>2, <1>3, <2>2 DEF Lands
    <3> QED
      BY <1>2, <3>1, <3>2
  <2> QED
    BY <2>1, <2>2
<1>5. new \in RootType
  <2>1. \A k \in Keys : new[k] \in Entries
    BY <1>4
  <2>2. new = [k \in Keys |-> new[k]]
    BY DEF Folded
  <2> HIDE DEF new
  <2> QED
    BY <2>1, <2>2 DEF RootType
<1> HIDE DEF new
<1>6. \A k \in Keys : new[k].seq \in Int
  BY <1>5 DEF RootType, Entries
<1>7. \A k \in Keys : new[k].seq >= root[k].seq
  BY <1>2, <1>4, <1>6
<1>8. ASSUME NEW i \in InShard(q, s) PROVE new[q[i].key].seq >= q[i].seq
  <2>1. q[i].key \in Keys /\ q[i].seq \in Nat
    BY <1>1, <1>3
  <2> QED
    BY <1>2, <1>4, <1>6, <2>1
<1> QED
  BY <1>4, <1>5, <1>7, <1>8 DEF new

-----------------------------------------------------------------------------
(* The inductive invariant, in parts.                                      *)
Writing(t) == pc[t] \in {"load", "swap", "shard_max", "max_seq"}
AtShard(t) == pc[t] \in {"load", "swap", "shard_max"}
OpsOf(t) == ToSet(ops[t])

Types ==
    /\ roots \in [Shards -> RootType]
    /\ shardMax \in [Shards -> Nat] /\ maxSeq \in Nat /\ seqGen \in Nat
    /\ pc \in [Threads -> PCs]
    /\ ops \in [Threads -> Seq(OpType)]
    /\ cur \in [Threads -> Shards]
    /\ seen \in [Threads -> RootType]
    /\ view \in [Threads -> Seq(RootType)]
    /\ moments \in [Threads -> SUBSET [Shards -> RootType]]
    /\ Issued \subseteq OpType /\ landed \subseteq Issued /\ unwound \subseteq Issued

(* Ops are numbered as they are issued, calls share none, and the op_seqs  *)
(* of inserts go up with the numbers.                                      *)
Numbered ==
    /\ IsFiniteSet(Issued)
    /\ \A o \in Issued : o.id \in 1..Cardinality(Issued)
    /\ \A o, p \in Issued : o.id = p.id => o = p
    /\ \A c, d \in calls : c = d \/ c \cap d = {}

AutoOrdered ==
    /\ \A o \in Issued : o.auto => o.seq < seqGen
    /\ \A o, p \in Issued : o.auto /\ p.auto /\ o.id < p.id => o.seq < p.seq

(* Where a writing thread is: the ops of the shards behind it have landed  *)
(* and are counted, those of the shard it is counting have landed.         *)
ThreadOK(t) ==
    /\ Writing(t) => /\ DOMAIN ops[t] # {}
                     /\ OpsOf(t) \in calls
                     /\ OpsOf(t) \cap unwound = {}
    /\ AtShard(t) => cur[t] \in ShardsHit(ops[t])
    /\ \A i \in DOMAIN ops[t] :
          pc[t] = "max_seq" \/ (AtShard(t) /\ ShardOf[ops[t][i].key] < cur[t])
          => ops[t][i] \in landed /\ ops[t][i].seq <= shardMax[ShardOf[ops[t][i].key]]
    /\ \A i \in DOMAIN ops[t] :
          pc[t] = "shard_max" /\ ShardOf[ops[t][i].key] = cur[t] => ops[t][i] \in landed

Flow ==
    /\ \A t \in Threads : ThreadOK(t)
    /\ \A t, u \in Threads :
          t # u /\ Writing(t) /\ Writing(u) => OpsOf(t) \cap OpsOf(u) = {}

(* A tree holds ops of a set; it shows calls of a set whole.               *)
HeldBy(root, opSet) ==
    \A k \in Keys : root[k] = Absent \/ \E o \in opSet : o.key = k /\ root[k] = EntryOf(o)
WholeIn(root, s, callSet) ==
    \A c \in callSet :
        \A o, other \in c :
            ShardOf[o.key] = s /\ ShardOf[other.key] = s /\ root[o.key] = EntryOf(o)
            => root[other.key].seq >= other.seq

FromIssued(root) == HeldBy(root, Issued)

Resident ==
    /\ NoLostUpdate
    /\ \A s \in Shards : FromIssued(roots[s])
    /\ \A t \in Threads : \A s \in DOMAIN view[t] : FromIssued(view[t][s])
    /\ BatchAtomicPerShard

SnapOK(t) ==
    /\ pc[t] = "snapshot" => Len(view[t]) < NumShards /\ roots \in moments[t]
    /\ pc[t] \notin {"snapshot", "view"} => view[t] = <<>>
    /\ \A s \in DOMAIN view[t] : s \in Shards /\ \E m \in moments[t] : view[t][s] = m[s]

(* The values that the counters have, without the op behind max_seq, which *)
(* Counted names by what its call has done.                                *)
Trailing ==
    /\ \A s \in Shards : shardMax[s] \in {0} \union SeqsIn(landed \intersect OnShard(s))
    /\ maxSeq \in {0} \union SeqsIn(landed)
    /\ \E s \in Shards : maxSeq <= shardMax[s]

(* Each landed op is counted in its shard, or its thread is about to; each *)
(* op of a call that did not panic is counted for good, or its call runs;  *)
(* the counter of the map was raised by a call that returned.              *)
Counted ==
    /\ Trailing
    /\ \A o \in landed :
          \/ o.seq <= shardMax[ShardOf[o.key]]
          \/ \E t \in Threads :
                pc[t] = "shard_max" /\ cur[t] = ShardOf[o.key] /\ o \in OpsOf(t)
    /\ \A o \in Issued \ unwound :
          \/ o \in landed /\ o.seq <= maxSeq
          \/ \E t \in Threads : Writing(t) /\ o \in OpsOf(t)
    /\ \/ maxSeq = 0
       \/ \E o \in landed \ unwound :
             o.seq = maxSeq /\ \A t \in Threads : Writing(t) => o \notin OpsOf(t)

IInv ==
    /\ Types /\ Numbered /\ AutoOrdered /\ Flow /\ Resident
    /\ \A t \in Threads : SnapOK(t)
    /\ Counted

-----------------------------------------------------------------------------
(* The ops of a new call extend the numbering.                             *)
LEMMA FreshNumbers ==
    ASSUME NEW S, IsFiniteSet(S), \A o \in S : o.id \in 1..Cardinality(S),
           NEW q \in Seq(OpType), \A i \in DOMAIN q : q[i].id = Cardinality(S) + i
    PROVE  /\ IsFiniteSet(S \cup ToSet(q)) /\ Cardinality(S) \in Nat
           /\ Cardinality(S \cup ToSet(q)) = Cardinality(S) + Len(q)
           /\ \A o \in ToSet(q) : /\ o \notin S /\ o \in OpType
                                  /\ o.id \in Cardinality(S) + 1 .. Cardinality(S) + Len(q)
           /\ \A o, p \in ToSet(q) : o.id = p.id => o = p
<1>1. /\ Cardinality(S) \in Nat /\ Len(q) \in Nat /\ DOMAIN q = 1..Len(q)
      /\ \A i \in 1..Len(q) : q[i] \in OpType
  BY FS_CardinalityType, LenProperties, ElementOfSeq
<1>2. \A o \in ToSet(q) : \E i \in 1..Len(q) : o = q[i]
  BY <1>1 DEF ToSet
<1>3. ASSUME NEW o \in ToSet(q)
      PROVE  /\ o \notin S /\ o \in OpType
             /\ o.id \in Cardinality(S) + 1 .. Cardinality(S) + Len(q)
  <2>1. PICK i \in 1..Len(q) : o = q[i]
    BY <1>2
  <2>2. o.id = Cardinality(S) + i /\ o \in OpType
    BY <1>1, <2>1
  <2> QED
    BY <1>1, <2>2
<1>4. ASSUME NEW o \in ToSet(q), NEW p \in ToSet(q), o.id = p.id PROVE o = p
  <2>1. PICK i \in 1..Len(q) : o = q[i]
    BY <1>2
  <2>2. PICK j \in 1..Len(q) : p = q[j]
    BY <1>2
  <2>3. i = j
    BY <1>1, <1>4, <2>1, <2>2
  <2> QED
    BY <2>1, <2>2, <2>3
<1>5. IsFiniteSet(ToSet(q)) /\ Cardinality(ToSet(q)) = Len(q)
  <2>1. q \in Bijection(1..Len(q), ToSet(q))
    <3>1. q \in [1..Len(q) -> ToSet(q)]
      BY <1>1 DEF ToSet
    <3>2. \A a, b \in 1..Len(q) : q[a] = q[b] => a = b
      BY <1>1
    <3>3. \A o \in ToSet(q) : \E i \in 1..Len(q) : q[i] = o
      BY <1>2
    <3> QED
      BY <3>1, <3>2, <3>3, Fun_IsBij
  <2>2. ExistsBijection(1..Len(q), ToSet(q))
    BY <2>1 DEF ExistsBijection
  <2>3. IsFiniteSet(1..Len(q)) /\ Cardinality(1..Len(q)) = Len(q)
    <3> DEFINE n == Len(q)
    <3>1. n \in Nat /\ 1 \in Int /\ n \in Int
      BY <1>1
    <3> HIDE DEF n
    <3>2. IsFiniteSet(1..n) /\ Cardinality(1..n) = IF 1 > n THEN 0 ELSE n - 1 + 1
      BY <3>1, FS_Interval
    <3>3. IsFiniteSet(1..n) /\ Cardinality(1..n) = n
      BY <3>1, <3>2
    <3> QED
      BY <3>3 DEF n
  <2> QED
    BY <2>2, <2>3, FS_Bijection
<1>6. S \cap ToSet(q) = {}
  BY <1>3
<1>7. /\ IsFiniteSet(S \cup ToSet(q))
      /\ Cardinality(S \cup ToSet(q)) = Cardinality(S) + Len(q)
  <2>1. Cardinality(S \cap ToSet(q)) = 0
    BY <1>6, FS_EmptySet
  <2>2. /\ IsFiniteSet(S \cup ToSet(q))
        /\ Cardinality(S \cup ToSet(q))
              = Cardinality(S) + Cardinality(ToSet(q)) - Cardinality(S \cap ToSet(q))
    BY <1>5, FS_Union
  <2> QED
    BY <1>1, <1>5, <2>1, <2>2
<1> QED
  BY <1>1, <1>3, <1>4, <1>7

LEMMA LeastShard ==
    ASSUME NEW q \in Seq(OpType), NEW S \in SUBSET ShardsHit(q), S # {}
    PROVE  /\ ShardsHit(q) \subseteq Shards
           /\ (CHOOSE s \in S : \A r \in S : s <= r) \in S
           /\ \A r \in S : (CHOOSE s \in S : \A x \in S : s <= x) <= r
<1>1. ShardsHit(q) \subseteq Shards /\ Shards \subseteq Nat
  <2>1. \A i \in DOMAIN q : q[i].key \in Keys
    <3>1. DOMAIN q = 1..Len(q) /\ Len(q) \in Nat
      BY LenProperties
    <3>2. \A i \in DOMAIN q : q[i] \in OpType
      BY <3>1, ElementOfSeq
    <3> QED
      BY <3>2 DEF OpType
  <2> QED
    BY <2>1, ShardAssumption DEF ShardsHit, Shards
<1>2. \E s \in S : \A r \in S : s <= r
  BY <1>1, LeastOf
<1> QED
  BY <1>1, <1>2

(* A thread that an action of another thread leaves alone.                 *)
LEMMA OtherThread ==
    ASSUME NEW u, ThreadOK(u),
           pc'[u] = pc[u], ops'[u] = ops[u], cur'[u] = cur[u],
           calls \subseteq calls', landed \subseteq landed',
           Writing(u) => OpsOf(u) \cap unwound' = {},
           \A i \in DOMAIN ops[u] :
              /\ ops[u][i].seq \in Nat
              /\ shardMax[ShardOf[ops[u][i].key]] \in Nat
              /\ shardMax'[ShardOf[ops[u][i].key]] \in Nat
              /\ shardMax[ShardOf[ops[u][i].key]] <= shardMax'[ShardOf[ops[u][i].key]]
    PROVE  ThreadOK(u)'
<1>1. /\ Writing(u)' <=> Writing(u)
      /\ AtShard(u)' <=> AtShard(u)
      /\ OpsOf(u)' = OpsOf(u) /\ ShardsHit(ops[u])' = ShardsHit(ops[u])
  BY DEF Writing, AtShard, OpsOf, ShardsHit
<1>2. Writing(u)' => /\ DOMAIN ops'[u] # {}
                     /\ OpsOf(u)' \in calls'
                     /\ OpsOf(u)' \cap unwound' = {}
  BY <1>1 DEF ThreadOK
<1>3. AtShard(u)' => cur'[u] \in ShardsHit(ops[u])'
  BY <1>1 DEF ThreadOK
<1>4. ASSUME NEW i \in DOMAIN ops'[u],
             pc'[u] = "max_seq" \/ (AtShard(u)' /\ ShardOf[ops'[u][i].key] < cur'[u])
      PROVE  ops'[u][i] \in landed' /\ ops'[u][i].seq <= shardMax'[ShardOf[ops'[u][i].key]]
  <2>1. ops[u][i] \in landed /\ ops[u][i].seq <= shardMax[ShardOf[ops[u][i].key]]
    BY <1>1, <1>4 DEF ThreadOK
  <2> QED
    BY <2>1
<1>5. ASSUME NEW i \in DOMAIN ops'[u], pc'[u] = "shard_max", ShardOf[ops'[u][i].key] = cur'[u]
      PROVE  ops'[u][i] \in landed'
  BY <1>5 DEF ThreadOK
<1> QED
  BY <1>2, <1>3, <1>4, <1>5 DEF ThreadOK

(* What the ops of a thread are.                                           *)
LEMMA OpsFacts ==
    ASSUME Types, NEW t \in Threads
    PROVE  /\ ops[t] \in Seq(OpType) /\ Len(ops[t]) \in Nat /\ DOMAIN ops[t] = 1..Len(ops[t])
           /\ \A i \in DOMAIN ops[t] :
                 /\ ops[t][i] \in OpType /\ ops[t][i] \in OpsOf(t)
                 /\ ops[t][i].key \in Keys /\ ops[t][i].seq \in Nat
                 /\ ShardOf[ops[t][i].key] \in Shards
           /\ \A o \in OpsOf(t) : \E i \in DOMAIN ops[t] : o = ops[t][i]
<1>1. ops[t] \in Seq(OpType) /\ Len(ops[t]) \in Nat /\ DOMAIN ops[t] = 1..Len(ops[t])
  BY LenProperties DEF Types
<1>2. \A i \in DOMAIN ops[t] : ops[t][i] \in OpType
  BY <1>1, ElementOfSeq
<1> QED
  BY <1>1, <1>2, ShardAssumption DEF OpsOf, ToSet, OpType

-----------------------------------------------------------------------------
(* A tree that holds what was issued cannot hold a fresh op, so a call that *)
(* begins is whole in it.                                                  *)
LEMMA FreshIsAbsent ==
    ASSUME Numbered, NEW root, FromIssued(root), NEW o, o.key \in Keys,
           o.id \in Nat, o.id > Cardinality(Issued)
    PROVE  root[o.key] # EntryOf(o)
<1>1. Cardinality(Issued) \in Nat
  BY FS_CardinalityType DEF Numbered
<1>2. CASE root[o.key] = Absent
  <2>1. Absent.id = 0 /\ EntryOf(o).id = o.id
    BY DEF Absent, EntryOf
  <2> QED
    BY <1>1, <1>2, <2>1
<1>3. CASE \E p \in Issued : p.key = o.key /\ root[o.key] = EntryOf(p)
  <2>1. PICK p \in Issued : root[o.key] = EntryOf(p)
    BY <1>3
  <2>2. p.id \in 1..Cardinality(Issued)
    BY DEF Numbered
  <2>3. EntryOf(p).id = p.id /\ EntryOf(o).id = o.id
    BY DEF EntryOf
  <2> QED
    BY <1>1, <2>1, <2>2, <2>3
<1> QED
  BY <1>2, <1>3 DEF FromIssued, HeldBy

LEMMA TreesKeepCalls ==
    ASSUME Numbered, NEW root, FromIssued(root), NEW s, WholeBatch(root, s),
           NEW fresh, calls' = calls \cup {fresh},
           \A o \in fresh : o.key \in Keys /\ o.id \in Nat /\ o.id > Cardinality(Issued)
    PROVE  HeldBy(root, Issued') /\ WholeIn(root, s, calls')
<1>1. Issued' = Issued \cup fresh
  BY DEF Issued
<1>2. HeldBy(root, Issued')
  BY <1>1 DEF FromIssued, HeldBy
<1>3. ASSUME NEW c \in calls', NEW o \in c, NEW other \in c,
             ShardOf[o.key] = s, ShardOf[other.key] = s, root[o.key] = EntryOf(o)
      PROVE  root[other.key].seq >= other.seq
  <2>1. CASE c \in calls
    BY <1>3, <2>1 DEF WholeBatch, WholeIn
  <2>2. CASE c = fresh
    BY <1>3, <2>2, FreshIsAbsent
  <2> QED
    BY <2>1, <2>2
<1> QED
  BY <1>2, <1>3 DEF WholeIn

(* A write call begins.                                                    *)
Begins(t, q) ==
    /\ StartWrite(t, q)
    /\ q \in Seq(OpType) /\ DOMAIN q # {}
    /\ \A i \in DOMAIN q : q[i].id = NextId + i - 1
    /\ seqGen' \in Nat /\ seqGen <= seqGen'
    /\ \A o \in ToSet(q) : o.auto => o.seq = seqGen /\ seqGen < seqGen'
    /\ \A o, p \in ToSet(q) : o.auto /\ p.auto => o = p

LEMMA BeginFacts ==
    ASSUME IInv, NEW t \in Threads, NEW q, Begins(t, q)
    PROVE  /\ pc[t] = "idle" /\ pc' = [pc EXCEPT ![t] = "load"]
           /\ ops' = [ops EXCEPT ![t] = q]
           /\ cur' = [cur EXCEPT ![t] = cur'[t]] /\ cur'[t] \in ShardsHit(q)
           /\ \A r \in ShardsHit(q) : cur'[t] <= r
           /\ cur'[t] \in Shards /\ Shards \subseteq Nat
           /\ calls' = calls \cup {ToSet(q)} /\ Issued' = Issued \cup ToSet(q)
           /\ UNCHANGED <<roots, shardMax, maxSeq, seen, view, landed, unwound, moments, snapshots>>
           /\ IsFiniteSet(Issued') /\ Cardinality(Issued) \in Nat /\ Cardinality(Issued') \in Nat
           /\ Cardinality(Issued) <= Cardinality(Issued')
           /\ \A o \in ToSet(q) : /\ o \notin Issued /\ o \in OpType
                                  /\ o.id \in Cardinality(Issued) + 1 .. Cardinality(Issued')
           /\ \A o, p \in ToSet(q) : o.id = p.id => o = p
<1>1. /\ pc[t] = "idle" /\ pc' = [pc EXCEPT ![t] = "load"]
      /\ ops' = [ops EXCEPT ![t] = q]
      /\ cur' = [cur EXCEPT ![t] = CHOOSE s \in ShardsHit(q) : \A r \in ShardsHit(q) : s <= r]
      /\ calls' = calls \cup {ToSet(q)}
      /\ UNCHANGED <<roots, shardMax, maxSeq, seen, view, landed, unwound, moments, snapshots>>
      /\ q \in Seq(OpType) /\ DOMAIN q # {}
  BY DEF Begins, StartWrite, Goto
<1>2. Issued' = Issued \cup ToSet(q)
  BY <1>1 DEF Issued
<1>3. cur \in [Threads -> Shards] /\ Shards \subseteq Nat
  BY ShardAssumption DEF IInv, Types, Shards
<1>4. ShardsHit(q) # {}
  BY <1>1 DEF ShardsHit
<1>5. /\ cur'[t] \in ShardsHit(q) /\ \A r \in ShardsHit(q) : cur'[t] <= r
      /\ ShardsHit(q) \subseteq Shards
  <2> DEFINE least == CHOOSE s \in ShardsHit(q) : \A r \in ShardsHit(q) : s <= r
  <2>1. ShardsHit(q) \in SUBSET ShardsHit(q)
    OBVIOUS
  <2>2. /\ least \in ShardsHit(q) /\ \A r \in ShardsHit(q) : least <= r
        /\ ShardsHit(q) \subseteq Shards
    BY <1>1, <1>4, <2>1, LeastShard
  <2>3. cur'[t] = least
    BY <1>1, <1>3
  <2> HIDE DEF least
  <2> QED
    BY <2>2, <2>3
<1>6. /\ IsFiniteSet(Issued) /\ \A o \in Issued : o.id \in 1..Cardinality(Issued)
      /\ Cardinality(Issued) \in Nat
  BY FS_CardinalityType DEF IInv, Numbered
<1>7. \A i \in DOMAIN q : q[i].id = Cardinality(Issued) + i
  <2>1. \A i \in DOMAIN q : i \in Nat
    BY <1>1, LenProperties
  <2>2. \A i \in DOMAIN q : q[i].id = Cardinality(Issued) + 1 + i - 1
    BY DEF Begins, NextId
  <2> QED
    BY <1>6, <2>1, <2>2
<1>8. /\ IsFiniteSet(Issued \cup ToSet(q))
      /\ Cardinality(Issued \cup ToSet(q)) = Cardinality(Issued) + Len(q)
      /\ \A o \in ToSet(q) : /\ o \notin Issued /\ o \in OpType
                             /\ o.id \in Cardinality(Issued) + 1 .. Cardinality(Issued) + Len(q)
      /\ \A o, p \in ToSet(q) : o.id = p.id => o = p
  BY <1>1, <1>6, <1>7, FreshNumbers
<1>9. Len(q) \in Nat
  BY <1>1, LenProperties
<1>10. /\ Cardinality(Issued') = Cardinality(Issued) + Len(q)
       /\ IsFiniteSet(Issued')
  BY <1>2, <1>8
<1>11. Cardinality(Issued') \in Nat /\ Cardinality(Issued) <= Cardinality(Issued')
  BY <1>6, <1>9, <1>10
<1>12. cur' = [cur EXCEPT ![t] = cur'[t]]
  BY <1>1, <1>3
<1> QED
  BY <1>1, <1>2, <1>3, <1>5, <1>6, <1>8, <1>10, <1>11, <1>12

LEMMA BeginKeeps ==
    ASSUME IInv, NEW t \in Threads, NEW q, Begins(t, q)
    PROVE  IInv'
<1> USE DEF IInv
<1>1. /\ pc[t] = "idle" /\ pc' = [pc EXCEPT ![t] = "load"]
      /\ ops' = [ops EXCEPT ![t] = q]
      /\ cur' = [cur EXCEPT ![t] = cur'[t]] /\ cur'[t] \in ShardsHit(q)
      /\ \A r \in ShardsHit(q) : cur'[t] <= r
      /\ cur'[t] \in Shards /\ Shards \subseteq Nat
      /\ calls' = calls \cup {ToSet(q)} /\ Issued' = Issued \cup ToSet(q)
      /\ UNCHANGED <<roots, shardMax, maxSeq, seen, view, landed, unwound, moments, snapshots>>
  BY BeginFacts
<1>2. /\ IsFiniteSet(Issued') /\ Cardinality(Issued) \in Nat /\ Cardinality(Issued') \in Nat
      /\ Cardinality(Issued) <= Cardinality(Issued')
      /\ \A o \in ToSet(q) : /\ o \notin Issued /\ o \in OpType
                             /\ o.id \in Cardinality(Issued) + 1 .. Cardinality(Issued')
      /\ \A o, p \in ToSet(q) : o.id = p.id => o = p
  BY BeginFacts
<1>3. /\ q \in Seq(OpType) /\ DOMAIN q # {} /\ seqGen' \in Nat /\ seqGen <= seqGen'
      /\ \A o \in ToSet(q) : o.auto => o.seq = seqGen /\ seqGen < seqGen'
      /\ \A o, p \in ToSet(q) : o.auto /\ p.auto => o = p
  BY DEF Begins
<1>4. /\ pc \in [Threads -> PCs] /\ ops \in [Threads -> Seq(OpType)]
      /\ cur \in [Threads -> Shards]
      /\ pc'[t] = "load" /\ ops'[t] = q
      /\ \A u \in Threads \ {t} : pc'[u] = pc[u] /\ ops'[u] = ops[u] /\ cur'[u] = cur[u]
  BY <1>1 DEF Types
<1>5. Types'
  <2>1. pc' \in [Threads -> PCs]
    BY <1>1, <1>4 DEF PCs
  <2>2. ops' \in [Threads -> Seq(OpType)]
    BY <1>1, <1>3, <1>4
  <2>3. cur' \in [Threads -> Shards]
    BY <1>1, <1>4
  <2>4. Issued' \subseteq OpType /\ landed' \subseteq Issued' /\ unwound' \subseteq Issued'
    BY <1>1, <1>2 DEF Types
  <2>5. /\ roots' \in [Shards -> RootType]
        /\ shardMax' \in [Shards -> Nat] /\ maxSeq' \in Nat /\ seqGen' \in Nat
        /\ seen' \in [Threads -> RootType]
        /\ view' \in [Threads -> Seq(RootType)]
        /\ moments' \in [Threads -> SUBSET [Shards -> RootType]]
    BY <1>1, <1>3 DEF Types
  <2> QED
    BY <2>1, <2>2, <2>3, <2>4, <2>5 DEF Types
<1>6. Numbered'
  <2>1. \A o \in Issued' : o.id \in 1..Cardinality(Issued')
    BY <1>1, <1>2 DEF Numbered
  <2>2. ASSUME NEW o \in Issued', NEW p \in Issued', o.id = p.id PROVE o = p
    <3>1. \A x \in Issued : x.id \in 1..Cardinality(Issued)
      BY DEF Numbered
    <3>2. CASE o \in Issued /\ p \in Issued
      BY <2>2, <3>2 DEF Numbered
    <3>3. CASE o \in ToSet(q) /\ p \in ToSet(q)
      BY <1>2, <2>2, <3>3
    <3>4. CASE o \in Issued /\ p \in ToSet(q)
      BY <1>2, <2>2, <3>1, <3>4
    <3>5. CASE o \in ToSet(q) /\ p \in Issued
      BY <1>2, <2>2, <3>1, <3>5
    <3> QED
      BY <1>1, <3>2, <3>3, <3>4, <3>5
  <2>3. ASSUME NEW c \in calls', NEW d \in calls' PROVE c = d \/ c \cap d = {}
    <3>1. \A x \in calls : x \subseteq Issued
      BY DEF Issued
    <3>2. \A x \in calls : x \cap ToSet(q) = {}
      BY <1>2, <3>1
    <3> QED
      BY <1>1, <3>2 DEF Numbered
  <2> QED
    BY <1>2, <2>1, <2>2, <2>3 DEF Numbered
<1>7. AutoOrdered'
  <2>1. \A o \in Issued : o.seq \in Nat /\ o.id \in 1..Cardinality(Issued)
    BY DEF Types, OpType, Numbered
  <2>2. seqGen \in Nat
    BY DEF Types
  <2>3. ASSUME NEW o \in Issued', o.auto PROVE o.seq < seqGen'
    <3>1. CASE o \in Issued
      <4>1. o.seq < seqGen
        BY <2>3, <3>1 DEF AutoOrdered
      <4> QED
        BY <1>3, <2>1, <2>2, <3>1, <4>1
    <3>2. CASE o \in ToSet(q)
      BY <1>3, <2>3, <3>2
    <3> QED
      BY <1>1, <3>1, <3>2
  <2>4. ASSUME NEW o \in Issued', NEW p \in Issued', o.auto, p.auto, o.id < p.id
        PROVE  o.seq < p.seq
    <3>1. CASE o \in Issued /\ p \in Issued
      BY <2>4, <3>1 DEF AutoOrdered
    <3>2. CASE o \in Issued /\ p \in ToSet(q)
      <4>1. o.seq < seqGen
        BY <2>4, <3>2 DEF AutoOrdered
      <4>2. p.seq = seqGen
        BY <1>3, <2>4, <3>2
      <4> QED
        BY <4>1, <4>2
    <3>3. CASE o \in ToSet(q) /\ p \in Issued
      <4>1. o.id \in Cardinality(Issued) + 1 .. Cardinality(Issued')
        BY <1>2, <3>3
      <4>2. p.id \in 1..Cardinality(Issued)
        BY <2>1, <3>3
      <4> QED
        BY <1>2, <2>4, <4>1, <4>2
    <3>4. CASE o \in ToSet(q) /\ p \in ToSet(q)
      <4>1. o = p
        BY <1>3, <2>4, <3>4
      <4>2. o.id \in Int
        BY <1>2, <3>4
      <4> QED
        BY <2>4, <4>1, <4>2
    <3> QED
      BY <1>1, <3>1, <3>2, <3>3, <3>4
  <2> QED
    BY <2>3, <2>4 DEF AutoOrdered
<1>8. Flow'
  <2>1. Writing(t)' /\ OpsOf(t)' = ToSet(q)
    BY <1>4 DEF Writing, OpsOf
  <2>2. \A u \in Threads \ {t} : (Writing(u)' <=> Writing(u)) /\ OpsOf(u)' = OpsOf(u)
    BY <1>4 DEF Writing, OpsOf
  <2>3. ThreadOK(t)'
    <3>1. OpsOf(t)' \in calls' /\ OpsOf(t)' \cap unwound' = {}
      BY <1>1, <1>2, <2>1 DEF Types
    <3>2. cur'[t] \in ShardsHit(ops'[t])
      BY <1>1, <1>4
    <3>3. \A i \in DOMAIN ops'[t] : ~(ShardOf[ops'[t][i].key] < cur'[t])
      <4> SUFFICES ASSUME NEW i \in DOMAIN q PROVE ~(ShardOf[q[i].key] < cur'[t])
        BY <1>4
      <4>1. ShardOf[q[i].key] \in ShardsHit(q)
        BY DEF ShardsHit
      <4>2. ShardOf[q[i].key] \in Nat /\ cur'[t] \in Nat
        <5>1. ShardsHit(q) \subseteq Shards
          BY <1>3, <4>1, LeastShard
        <5> QED
          BY <1>1, <4>1, <5>1
      <4> QED
        BY <1>1, <4>1, <4>2
    <3> QED
      BY <1>3, <1>4, <3>1, <3>2, <3>3 DEF ThreadOK
  <2>4. ASSUME NEW u \in Threads \ {t} PROVE ThreadOK(u)'
    <3>1. \A i \in DOMAIN ops[u] : /\ ops[u][i].seq \in Nat
                                   /\ shardMax[ShardOf[ops[u][i].key]] \in Nat
      BY OpsFacts DEF Types
    <3>2. ThreadOK(u) /\ (Writing(u) => OpsOf(u) \cap unwound = {})
      BY DEF Flow, ThreadOK
    <3>3. \A i \in DOMAIN ops[u] :
             /\ ops[u][i].seq \in Nat
             /\ shardMax[ShardOf[ops[u][i].key]] \in Nat
             /\ shardMax'[ShardOf[ops[u][i].key]] \in Nat
             /\ shardMax[ShardOf[ops[u][i].key]] <= shardMax'[ShardOf[ops[u][i].key]]
      BY <1>1, <3>1
    <3>4. /\ pc'[u] = pc[u] /\ ops'[u] = ops[u] /\ cur'[u] = cur[u]
          /\ calls \subseteq calls' /\ landed \subseteq landed'
          /\ Writing(u) => OpsOf(u) \cap unwound' = {}
      BY <1>1, <1>4, <3>2
    <3> QED
      BY <3>2, <3>3, <3>4, OtherThread
  <2>5. ASSUME NEW u \in Threads, NEW v \in Threads, u # v, Writing(u)', Writing(v)'
        PROVE  OpsOf(u)' \cap OpsOf(v)' = {}
    <3>1. \A w \in Threads \ {t} : Writing(w)' => OpsOf(w)' \subseteq Issued
      BY <2>2 DEF Flow, ThreadOK, Issued
    <3>2. CASE u # t /\ v # t
      BY <2>2, <2>5, <3>2 DEF Flow
    <3>3. CASE u = t
      BY <1>2, <2>1, <2>5, <3>1, <3>3
    <3>4. CASE v = t
      BY <1>2, <2>1, <2>5, <3>1, <3>4
    <3> QED
      BY <3>2, <3>3, <3>4
  <2> QED
    BY <2>3, <2>4, <2>5 DEF Flow
<1>9. Resident'
  <2>1. \A o \in ToSet(q) : o.key \in Keys /\ o.id \in Nat /\ o.id > Cardinality(Issued)
    BY <1>2 DEF OpType
  <2>2. NoLostUpdate'
    BY <1>1 DEF Resident, NoLostUpdate, Get, KeySeq
  <2>3. \A s \in Shards : HeldBy(roots[s], Issued') /\ WholeIn(roots[s], s, calls')
    BY <1>1, <2>1, TreesKeepCalls DEF Resident, BatchAtomicPerShard
  <2>4. \A u \in Threads : \A s \in DOMAIN view[u] :
           HeldBy(view[u][s], Issued') /\ WholeIn(view[u][s], s, calls')
    BY <1>1, <2>1, TreesKeepCalls DEF Resident, BatchAtomicPerShard
  <2>5. \A s \in Shards : FromIssued(roots[s])' /\ WholeBatch(roots[s], s)'
    <3> SUFFICES ASSUME NEW s \in Shards PROVE FromIssued(roots[s])' /\ WholeBatch(roots[s], s)'
      OBVIOUS
    <3>1. HeldBy(roots[s], Issued') /\ WholeIn(roots[s], s, calls') /\ roots' = roots
      BY <1>1, <2>3
    <3> QED
      BY <3>1 DEF FromIssued, HeldBy, WholeBatch, WholeIn
  <2>6. \A u \in Threads : \A s \in DOMAIN view'[u] :
           FromIssued(view[u][s])' /\ WholeBatch(view[u][s], s)'
    <3> SUFFICES ASSUME NEW u \in Threads, NEW s \in DOMAIN view'[u]
                 PROVE  FromIssued(view[u][s])' /\ WholeBatch(view[u][s], s)'
      OBVIOUS
    <3>1. HeldBy(view[u][s], Issued') /\ WholeIn(view[u][s], s, calls') /\ view' = view
      BY <1>1, <2>4
    <3> QED
      BY <3>1 DEF FromIssued, HeldBy, WholeBatch, WholeIn
  <2> QED
    BY <2>2, <2>5, <2>6 DEF Resident, BatchAtomicPerShard
<1>10. \A u \in Threads : SnapOK(u)'
  BY <1>1, <1>4 DEF SnapOK
<1>11. Counted'
  <2>1. \A s \in Shards : OnShard(s) \subseteq OnShard(s)'
    BY <1>1 DEF OnShard
  <2>2. Trailing'
    BY <1>1, <2>1 DEF Counted, Trailing, SeqsIn
  <2>3. /\ pc'[t] = "load" /\ pc[t] = "idle" /\ OpsOf(t)' = ToSet(q)
        /\ \A u \in Threads \ {t} : /\ pc'[u] = pc[u] /\ cur'[u] = cur[u]
                                   /\ OpsOf(u)' = OpsOf(u)
                                   /\ Writing(u)' <=> Writing(u)
    BY <1>1, <1>4 DEF OpsOf, Writing
  <2>4. ASSUME NEW o \in landed
        PROVE  \/ o.seq <= shardMax[ShardOf[o.key]]
               \/ \E u \in Threads :
                     pc'[u] = "shard_max" /\ cur'[u] = ShardOf[o.key] /\ o \in OpsOf(u)'
    <3>1. CASE o.seq <= shardMax[ShardOf[o.key]]
      BY <3>1
    <3>2. CASE \E u \in Threads :
                  pc[u] = "shard_max" /\ cur[u] = ShardOf[o.key] /\ o \in OpsOf(u)
      <4>1. PICK u \in Threads :
               pc[u] = "shard_max" /\ cur[u] = ShardOf[o.key] /\ o \in OpsOf(u)
        BY <3>2
      <4>2. u \in Threads \ {t}
        BY <2>3, <4>1
      <4>3. pc'[u] = "shard_max" /\ cur'[u] = ShardOf[o.key] /\ o \in OpsOf(u)'
        BY <1>4, <4>1, <4>2 DEF OpsOf
      <4> QED
        BY <4>3
    <3> QED
      BY <3>1, <3>2 DEF Counted
  <2>5. ASSUME NEW o \in Issued' \ unwound
        PROVE  \/ o \in landed /\ o.seq <= maxSeq
               \/ \E u \in Threads : Writing(u)' /\ o \in OpsOf(u)'
    <3>1. CASE o \in ToSet(q)
      BY <2>3, <3>1 DEF Writing
    <3>2. CASE o \in Issued /\ ~(o \in landed /\ o.seq <= maxSeq)
      <4>1. PICK u \in Threads : Writing(u) /\ o \in OpsOf(u)
        BY <3>2 DEF Counted
      <4>2. u # t
        BY <2>3, <4>1 DEF Writing
      <4> QED
        BY <2>3, <4>1, <4>2
    <3> QED
      BY <1>1, <3>1, <3>2
  <2>6. ASSUME NEW o \in landed \ unwound, \A u \in Threads : Writing(u) => o \notin OpsOf(u)
        PROVE  \A u \in Threads : Writing(u)' => o \notin OpsOf(u)'
    <3>1. o \notin OpsOf(t)'
      BY <1>2, <2>3 DEF Types
    <3>2. ASSUME NEW u \in Threads \ {t}, Writing(u)' PROVE o \notin OpsOf(u)'
      BY <1>4, <2>6, <3>2 DEF OpsOf, Writing
    <3> QED
      BY <3>1, <3>2
  <2> QED
    BY <1>1, <2>2, <2>4, <2>5, <2>6 DEF Counted
<1> QED
  BY <1>5, <1>6, <1>7, <1>8, <1>9, <1>10, <1>11

-----------------------------------------------------------------------------
(* Parts of the invariant that a step does not touch.                      *)
LEMMA SameTrees ==
    ASSUME UNCHANGED <<roots, landed, view, calls>>
    PROVE  Resident => Resident'
<1>1. Issued' = Issued
  BY DEF Issued
<1>2. NoLostUpdate => NoLostUpdate'
  BY DEF NoLostUpdate, Get, KeySeq
<1>3. BatchAtomicPerShard => BatchAtomicPerShard'
  BY DEF BatchAtomicPerShard, WholeBatch
<1> QED
  BY <1>1, <1>2, <1>3 DEF Resident, FromIssued, HeldBy

LEMMA SameCalls ==
    ASSUME UNCHANGED <<calls, seqGen>>
    PROVE  (Numbered => Numbered') /\ (AutoOrdered => AutoOrdered') /\ Issued' = Issued
  BY DEF Numbered, AutoOrdered, Issued

(* A step to where a thread counts for the same.                           *)
SameStage(t) ==
    \/ pc'[t] = pc[t]
    \/ pc[t] \in {"load", "swap"} /\ pc'[t] \in {"load", "swap"}
    \/ pc[t] \in {"idle", "snapshot", "view"} /\ pc'[t] \in {"idle", "snapshot", "view"}

LEMMA SameStageKeeps ==
    ASSUME UNCHANGED <<shardMax, maxSeq, ops, cur, calls, landed, unwound>>,
           \A u \in Threads : SameStage(u)
    PROVE  (Flow => Flow') /\ (Counted => Counted')
<1>1. \A u \in Threads : /\ pc'[u] = "shard_max" <=> pc[u] = "shard_max"
                         /\ pc'[u] = "max_seq" <=> pc[u] = "max_seq"
                         /\ pc'[u] \in {"load", "swap", "shard_max"}
                               <=> pc[u] \in {"load", "swap", "shard_max"}
                         /\ pc'[u] \in {"load", "swap", "shard_max", "max_seq"}
                               <=> pc[u] \in {"load", "swap", "shard_max", "max_seq"}
  BY DEF SameStage
<1>2. Issued' = Issued /\ \A u : OpsOf(u)' = OpsOf(u) /\ ShardsHit(ops[u])' = ShardsHit(ops[u])
  BY DEF Issued, OpsOf, ShardsHit
<1>3. ASSUME Flow PROVE Flow'
  <2>1. ASSUME NEW u \in Threads PROVE ThreadOK(u)'
    <3>1. ThreadOK(u)
      BY <1>3 DEF Flow
    <3> QED
      BY <1>1, <1>2, <3>1 DEF ThreadOK, Writing, AtShard
  <2>2. ASSUME NEW u \in Threads, NEW v \in Threads, u # v, Writing(u)', Writing(v)'
        PROVE  OpsOf(u)' \cap OpsOf(v)' = {}
    BY <1>1, <1>2, <1>3, <2>2 DEF Flow, Writing
  <2> QED
    BY <2>1, <2>2 DEF Flow
<1>4. Trailing => Trailing'
  BY <1>2 DEF Trailing, OnShard, SeqsIn
<1>5. ASSUME Counted PROVE Counted'
  BY <1>1, <1>2, <1>4, <1>5 DEF Counted, Writing
<1> QED
  BY <1>3, <1>5

-----------------------------------------------------------------------------
(* rcu loads a root, first or again.                                       *)
LEMMA LoadKeeps ==
    ASSUME IInv, NEW t \in Threads, Load(t) \/ Retry(t)
    PROVE  IInv'
<1> USE DEF IInv
<1>1. /\ UNCHANGED <<roots, shardMax, maxSeq, seqGen, ops, cur, view>>
      /\ UNCHANGED <<calls, landed, unwound, moments>>
      /\ seen' = [seen EXCEPT ![t] = roots[cur[t]]]
  BY DEF Load, Retry, shared, history
<1>2. /\ pc[t] \in {"load", "swap"} /\ pc'[t] \in {"load", "swap"}
      /\ pc' \in [Threads -> PCs]
      /\ \A u \in Threads : u # t => pc'[u] = pc[u]
  BY DEF Types, PCs, Load, Retry, Goto
<1>3. \A u \in Threads : SameStage(u)
  BY <1>2 DEF SameStage
<1>4. Types'
  <2>1. seen' \in [Threads -> RootType]
    BY <1>1 DEF Types
  <2> QED
    BY <1>1, <1>2, <2>1, SameCalls DEF Types
<1>5. \A u \in Threads : SnapOK(u)'
  BY <1>1, <1>2 DEF SnapOK
<1> QED
  BY <1>1, <1>3, <1>4, <1>5, SameTrees, SameCalls, SameStageKeeps

(* A snapshot begins, goes on and is let go.                               *)
LEMMA StartSnapshotKeeps ==
    ASSUME IInv, NEW t \in Threads, StartSnapshot(t)
    PROVE  IInv'
<1> USE DEF IInv
<1>1. /\ UNCHANGED <<roots, shardMax, maxSeq, seqGen, ops, cur, seen, view>>
      /\ UNCHANGED <<calls, landed, unwound>>
      /\ moments' = [moments EXCEPT ![t] = {roots}]
      /\ pc[t] = "idle" /\ pc' = [pc EXCEPT ![t] = "snapshot"]
  BY DEF StartSnapshot, Goto, shared
<1>2. /\ pc'[t] = "snapshot" /\ pc' \in [Threads -> PCs]
      /\ moments'[t] = {roots}
      /\ moments' \in [Threads -> SUBSET [Shards -> RootType]]
      /\ \A u \in Threads : u # t => pc'[u] = pc[u] /\ moments'[u] = moments[u]
  BY <1>1 DEF Types, PCs
<1>3. \A u \in Threads : SameStage(u)
  BY <1>1, <1>2 DEF SameStage
<1>4. Types'
  BY <1>1, <1>2, SameCalls DEF Types
<1>5. \A u \in Threads : SnapOK(u)'
  <2>1. ASSUME NEW u \in Threads, u # t PROVE SnapOK(u)'
    <3>1. SnapOK(u)
      OBVIOUS
    <3> QED
      BY <1>1, <1>2, <2>1, <3>1 DEF SnapOK
  <2>2. SnapOK(t)'
    <3>1. view[t] = <<>> /\ Len(view[t]) = 0 /\ DOMAIN view[t] = {}
      BY <1>1 DEF SnapOK
    <3>2. 0 < NumShards
      BY ShardAssumption
    <3> QED
      BY <1>1, <1>2, <3>1, <3>2 DEF SnapOK
  <2> QED
    BY <2>1, <2>2
<1> QED
  BY <1>1, <1>3, <1>4, <1>5, SameTrees, SameCalls, SameStageKeeps

LEMMA DropSnapshotKeeps ==
    ASSUME IInv, NEW t \in Threads, DropSnapshot(t)
    PROVE  IInv'
<1> USE DEF IInv
<1>1. /\ UNCHANGED <<roots, shardMax, maxSeq, seqGen, ops, cur, seen>>
      /\ UNCHANGED <<calls, landed, unwound>>
      /\ moments' = [moments EXCEPT ![t] = {}] /\ view' = [view EXCEPT ![t] = <<>>]
      /\ pc[t] = "view" /\ pc' = [pc EXCEPT ![t] = "idle"]
  BY DEF DropSnapshot, Goto, shared
<1>2. /\ pc'[t] = "idle" /\ pc' \in [Threads -> PCs]
      /\ view'[t] = <<>> /\ view' \in [Threads -> Seq(RootType)]
      /\ moments' \in [Threads -> SUBSET [Shards -> RootType]]
      /\ \A u \in Threads : u # t => /\ pc'[u] = pc[u] /\ moments'[u] = moments[u]
                                     /\ view'[u] = view[u]
  BY <1>1 DEF Types, PCs
<1>3. \A u \in Threads : SameStage(u)
  BY <1>1, <1>2 DEF SameStage
<1>4. Types'
  BY <1>1, <1>2, SameCalls DEF Types
<1>5. DOMAIN view'[t] = {}
  BY <1>2
<1>6. \A u \in Threads : SnapOK(u)'
  <2>1. ASSUME NEW u \in Threads, u # t PROVE SnapOK(u)'
    <3>1. SnapOK(u)
      OBVIOUS
    <3> QED
      BY <1>1, <1>2, <2>1, <3>1 DEF SnapOK
  <2>2. SnapOK(t)'
    BY <1>2, <1>5 DEF SnapOK
  <2> QED
    BY <2>1, <2>2
<1>7. Resident'
  <2>1. NoLostUpdate' /\ \A s \in Shards : FromIssued(roots[s])' /\ WholeBatch(roots[s], s)'
    BY <1>1, SameCalls
       DEF Resident, NoLostUpdate, Get, KeySeq, FromIssued, HeldBy, BatchAtomicPerShard, WholeBatch
  <2>2. ASSUME NEW u \in Threads, NEW s \in DOMAIN view'[u]
        PROVE  FromIssued(view[u][s])' /\ WholeBatch(view[u][s], s)'
    <3>1. u # t
      BY <1>5
    <3>2. view'[u] = view[u] /\ FromIssued(view[u][s]) /\ WholeBatch(view[u][s], s)
      BY <1>2, <3>1, <2>2 DEF Resident, BatchAtomicPerShard
    <3> QED
      BY <1>1, <3>2, SameCalls DEF FromIssued, HeldBy, WholeBatch
  <2> QED
    BY <2>1, <2>2 DEF Resident, BatchAtomicPerShard
<1> QED
  BY <1>1, <1>3, <1>4, <1>6, <1>7, SameCalls, SameStageKeeps

LEMMA LoadForSnapshotKeeps ==
    ASSUME IInv, NEW t \in Threads, LoadForSnapshot(t)
    PROVE  IInv'
<1> USE DEF IInv
<1> DEFINE at == Len(view[t]) + 1
<1>1. /\ UNCHANGED <<roots, shardMax, maxSeq, seqGen, ops, cur, seen>>
      /\ UNCHANGED <<calls, landed, unwound, moments>>
      /\ pc[t] = "snapshot" /\ pc' = [pc EXCEPT ![t] = pc'[t]]
      /\ \/ Len(view'[t]) < NumShards /\ pc'[t] = "snapshot"
         \/ Len(view'[t]) = NumShards /\ pc'[t] = "view"
      /\ view' = [view EXCEPT ![t] = Append(@, roots[at])]
  BY DEF LoadForSnapshot, LoadRoot, Goto, shared, history, Types
<1>2. /\ Len(view[t]) \in Nat /\ Len(view[t]) < NumShards /\ roots \in moments[t]
      /\ view[t] \in Seq(RootType)
  BY <1>1, LenProperties DEF SnapOK, Types
<1>3. /\ at \in Shards /\ at \in Nat
      /\ roots[at] \in RootType
  BY <1>2, ShardAssumption DEF Shards, Types
<1>4. /\ view'[t] = Append(view[t], roots[at])
      /\ \A u \in Threads : u # t => pc'[u] = pc[u] /\ view'[u] = view[u]
      /\ pc' \in [Threads -> PCs]
  BY <1>1 DEF Types, PCs
<1>5. /\ view'[t] \in Seq(RootType) /\ DOMAIN view'[t] = 1..at
      /\ view'[t][at] = roots[at]
      /\ \A s \in 1..at : s # at => s \in DOMAIN view[t] /\ view'[t][s] = view[t][s]
  <2>1. /\ Append(view[t], roots[at]) \in Seq(RootType)
        /\ Len(Append(view[t], roots[at])) = at
        /\ Append(view[t], roots[at])[at] = roots[at]
        /\ \A s \in 1..Len(view[t]) : Append(view[t], roots[at])[s] = view[t][s]
    BY <1>2, <1>3, AppendProperties
  <2>2. DOMAIN view[t] = 1..Len(view[t]) /\ DOMAIN view'[t] = 1..at
    BY <1>2, <1>4, <2>1, LenProperties
  <2>3. \A s \in 1..at : s # at => s \in 1..Len(view[t])
    BY <1>2
  <2> QED
    BY <1>4, <2>1, <2>2, <2>3
<1> HIDE DEF at
<1>6. \A u \in Threads : SameStage(u)
  BY <1>1, <1>4 DEF SameStage
<1>7. Types'
  <2>1. view' \in [Threads -> Seq(RootType)]
    BY <1>1, <1>4, <1>5 DEF Types
  <2> QED
    BY <1>1, <1>4, <2>1, SameCalls DEF Types
<1>8. \A u \in Threads : SnapOK(u)'
  <2>1. ASSUME NEW u \in Threads, u # t PROVE SnapOK(u)'
    <3>1. SnapOK(u)
      OBVIOUS
    <3> QED
      BY <1>1, <1>4, <2>1, <3>1 DEF SnapOK
  <2>2. SnapOK(t)'
    <3>1. ASSUME NEW s \in 1..at PROVE s \in Shards /\ \E m \in moments[t] : view'[t][s] = m[s]
      <4>1. CASE s = at
        BY <1>2, <1>3, <1>5, <4>1
      <4>2. CASE s # at
        BY <1>5, <4>2 DEF SnapOK
      <4> QED
        BY <4>1, <4>2
    <3> QED
      BY <1>1, <1>2, <1>5, <3>1 DEF SnapOK
  <2> QED
    BY <2>1, <2>2
<1>9. Resident'
  <2>1. NoLostUpdate' /\ \A s \in Shards : FromIssued(roots[s])' /\ WholeBatch(roots[s], s)'
    BY <1>1, SameCalls
       DEF Resident, NoLostUpdate, Get, KeySeq, FromIssued, HeldBy, BatchAtomicPerShard, WholeBatch
  <2>2. ASSUME NEW u \in Threads, NEW s \in DOMAIN view'[u]
        PROVE  FromIssued(view[u][s])' /\ WholeBatch(view[u][s], s)'
    <3>1. PICK root : root = view'[u][s]
      OBVIOUS
    <3>2. FromIssued(root) /\ WholeBatch(root, s)
      <4>1. CASE u = t /\ s = at
        BY <1>3, <1>5, <3>1, <4>1 DEF Resident, BatchAtomicPerShard
      <4>2. CASE u = t /\ s # at
        BY <1>5, <3>1, <4>2 DEF Resident, BatchAtomicPerShard
      <4>3. CASE u # t
        BY <1>4, <3>1, <4>3 DEF Resident, BatchAtomicPerShard
      <4> QED
        BY <4>1, <4>2, <4>3
    <3> QED
      BY <1>1, <3>1, <3>2, SameCalls DEF FromIssued, HeldBy, WholeBatch
  <2> QED
    BY <2>1, <2>2 DEF Resident, BatchAtomicPerShard
<1> QED
  BY <1>1, <1>6, <1>7, <1>8, <1>9, SameCalls, SameStageKeeps

-----------------------------------------------------------------------------
(* The swap.                                                               *)
LEMMA SwapFacts ==
    ASSUME IInv, NEW t \in Threads, Swap(t)
    PROVE  /\ UNCHANGED <<shardMax, maxSeq, seqGen, ops, cur, view, calls, unwound>>
           /\ pc[t] = "swap" /\ pc'[t] = "shard_max" /\ pc' \in [Threads -> PCs]
           /\ \A u \in Threads : u # t => pc'[u] = pc[u]
           /\ cur[t] \in Shards /\ ops[t] \in Seq(OpType)
           /\ roots[cur[t]] \in RootType
           /\ roots'[cur[t]] = Folded(roots[cur[t]], ops[t], cur[t])
           /\ roots' \in [Shards -> RootType]
           /\ \A s \in Shards : s # cur[t] => roots'[s] = roots[s]
           /\ landed' = landed \cup {ops[t][i] : i \in InShard(ops[t], cur[t])}
           /\ moments' = [u \in Threads |-> IF pc[u] = "snapshot" THEN moments[u] \cup {roots'}
                                                                   ELSE moments[u]]
           /\ seen' \in [Threads -> RootType]
<1> USE DEF IInv
<1>1. /\ roots[cur[t]] = seen[t]
      /\ Install(t, Folded(seen[t], ops[t], cur[t]))
  BY DEF Swap
<1>2. /\ UNCHANGED <<shardMax, maxSeq, seqGen, ops, cur, view, calls, unwound>>
      /\ pc[t] = "swap" /\ pc' = [pc EXCEPT ![t] = "shard_max"]
      /\ roots' = [roots EXCEPT ![cur[t]] = Folded(roots[cur[t]], ops[t], cur[t])]
      /\ landed' = landed \cup {ops[t][i] : i \in InShard(ops[t], cur[t])}
      /\ moments' = [u \in Threads |-> IF pc[u] = "snapshot" THEN moments[u] \cup {roots'}
                                                              ELSE moments[u]]
      /\ seen' = [seen EXCEPT ![t] = EmptyRoot]
  BY <1>1 DEF Install, Goto
<1>3. cur[t] \in Shards /\ ops[t] \in Seq(OpType) /\ roots[cur[t]] \in RootType
  BY DEF Types
<1>4. Folded(roots[cur[t]], ops[t], cur[t]) \in RootType
  BY <1>3, FoldedFacts
<1>5. EmptyRoot \in RootType
  BY DEF EmptyRoot, RootType, Absent, Entries
<1>6. /\ roots' \in [Shards -> RootType]
      /\ roots'[cur[t]] = Folded(roots[cur[t]], ops[t], cur[t])
      /\ \A s \in Shards : s # cur[t] => roots'[s] = roots[s]
  BY <1>2, <1>3, <1>4 DEF Types
<1>7. /\ pc'[t] = "shard_max" /\ pc' \in [Threads -> PCs]
      /\ \A u \in Threads : u # t => pc'[u] = pc[u]
      /\ seen' \in [Threads -> RootType]
  BY <1>2, <1>5 DEF Types, PCs
<1> QED
  BY <1>2, <1>3, <1>6, <1>7

(* A swap raises what it changes, by ops of its call, and leaves every op  *)
(* of its shard answered.                                                  *)
LEMMA SwapRaises ==
    ASSUME IInv, NEW t \in Threads, Swap(t)
    PROVE  /\ \A s \in Shards, k \in Keys :
                 /\ roots[s][k].seq \in Int /\ roots'[s][k].seq \in Int
                 /\ roots'[s][k].seq >= roots[s][k].seq
                 /\ \/ roots'[s][k] = roots[s][k]
                    \/ /\ s = cur[t] /\ roots'[s][k].seq > roots[s][k].seq
                       /\ \E i \in InShard(ops[t], cur[t]) :
                             ops[t][i].key = k /\ roots'[s][k] = EntryOf(ops[t][i])
           /\ \A i \in InShard(ops[t], cur[t]) :
                 roots'[cur[t]][ops[t][i].key].seq >= ops[t][i].seq
<1>1. /\ cur[t] \in Shards /\ ops[t] \in Seq(OpType) /\ roots[cur[t]] \in RootType
      /\ roots'[cur[t]] = Folded(roots[cur[t]], ops[t], cur[t])
      /\ roots \in [Shards -> RootType] /\ roots' \in [Shards -> RootType]
      /\ \A s \in Shards : s # cur[t] => roots'[s] = roots[s]
  BY SwapFacts DEF IInv, Types
<1>2. \A s \in Shards, k \in Keys : roots[s][k].seq \in Int /\ roots'[s][k].seq \in Int
  BY <1>1 DEF RootType, Entries
<1> DEFINE new == Folded(roots[cur[t]], ops[t], cur[t])
<1>3. /\ \A k \in Keys :
            \/ new[k] = roots[cur[t]][k]
            \/ /\ new[k].seq > roots[cur[t]][k].seq
               /\ \E i \in InShard(ops[t], cur[t]) :
                     ops[t][i].key = k /\ new[k] = EntryOf(ops[t][i])
      /\ \A k \in Keys : new[k].seq >= roots[cur[t]][k].seq
      /\ \A i \in InShard(ops[t], cur[t]) : new[ops[t][i].key].seq >= ops[t][i].seq
  BY <1>1, FoldedFacts
<1> HIDE DEF new
<1>4. roots'[cur[t]] = new
  BY <1>1 DEF new
<1>5. ASSUME NEW s \in Shards, NEW k \in Keys
      PROVE  /\ roots'[s][k].seq >= roots[s][k].seq
             /\ \/ roots'[s][k] = roots[s][k]
                \/ /\ s = cur[t] /\ roots'[s][k].seq > roots[s][k].seq
                   /\ \E i \in InShard(ops[t], cur[t]) :
                         ops[t][i].key = k /\ roots'[s][k] = EntryOf(ops[t][i])
  <2>1. CASE s = cur[t]
    BY <1>3, <1>4, <2>1
  <2>2. CASE s # cur[t]
    BY <1>1, <1>2, <2>2
  <2> QED
    BY <2>1, <2>2
<1> QED
  BY <1>2, <1>3, <1>4, <1>5

LEMMA SwapKeepsBatches ==
    ASSUME IInv, NEW t \in Threads, Swap(t), NEW s \in Shards
    PROVE  WholeBatch(roots[s], s)'
<1> USE DEF IInv
<1>1. calls' = calls /\ pc[t] = "swap"
  BY SwapFacts
<1> SUFFICES ASSUME NEW c \in calls, NEW o \in c, NEW other \in c,
                    ShardOf[o.key] = s, ShardOf[other.key] = s,
                    roots'[s][o.key] = EntryOf(o)
             PROVE  roots'[s][other.key].seq >= other.seq
  BY <1>1 DEF WholeBatch
<1>2. /\ o \in Issued /\ other \in Issued
      /\ o.key \in Keys /\ other.key \in Keys /\ other.seq \in Int
  <2>1. o \in Issued /\ other \in Issued
    BY DEF Issued
  <2> QED
    BY <2>1 DEF Types, OpType
<1>3. CASE roots'[s][o.key] = roots[s][o.key]
  <2>1. roots[s][other.key].seq >= other.seq
    BY <1>3 DEF Resident, BatchAtomicPerShard, WholeBatch
  <2>2. /\ roots'[s][other.key].seq >= roots[s][other.key].seq
        /\ roots'[s][other.key].seq \in Int /\ roots[s][other.key].seq \in Int
    BY <1>2, SwapRaises
  <2> QED
    BY <1>2, <2>1, <2>2
<1>4. CASE roots'[s][o.key] # roots[s][o.key]
  <2>1. /\ s = cur[t]
        /\ \E i \in InShard(ops[t], cur[t]) : roots'[s][o.key] = EntryOf(ops[t][i])
    BY <1>2, <1>4, SwapRaises
  <2>2. PICK i \in InShard(ops[t], cur[t]) : roots'[s][o.key] = EntryOf(ops[t][i])
    BY <2>1
  <2>3. OpsOf(t) \in calls /\ ops[t][i] \in OpsOf(t)
    <3>1. i \in DOMAIN ops[t]
      BY DEF InShard
    <3> QED
      BY <1>1, <3>1 DEF Flow, ThreadOK, Writing, OpsOf, ToSet
  <2>4. ops[t][i] = o
    <3>1. ops[t][i].id = o.id
      BY <2>2 DEF EntryOf
    <3>2. ops[t][i] \in Issued
      BY <2>3 DEF Issued
    <3> QED
      BY <1>2, <3>1, <3>2 DEF Numbered
  <2>5. c = OpsOf(t)
    BY <2>3, <2>4 DEF Numbered
  <2>6. PICK j \in DOMAIN ops[t] : other = ops[t][j]
    BY <2>5 DEF OpsOf, ToSet
  <2>7. j \in InShard(ops[t], cur[t])
    BY <2>1, <2>6 DEF InShard
  <2> QED
    BY <2>1, <2>6, <2>7, SwapRaises
<1> QED
  BY <1>3, <1>4

LEMMA SwapKeeps ==
    ASSUME IInv, NEW t \in Threads, Swap(t)
    PROVE  IInv'
<1> USE DEF IInv
<1> DEFINE s == cur[t]
           new == {ops[t][i] : i \in InShard(ops[t], s)}
<1>1. /\ UNCHANGED <<shardMax, maxSeq, seqGen, ops, cur, view, calls, unwound>>
      /\ pc[t] = "swap" /\ pc'[t] = "shard_max" /\ pc' \in [Threads -> PCs]
      /\ \A u \in Threads : u # t => pc'[u] = pc[u]
      /\ s \in Shards /\ ops[t] \in Seq(OpType)
      /\ roots' \in [Shards -> RootType]
      /\ \A r \in Shards : r # s => roots'[r] = roots[r]
      /\ landed' = landed \cup new
      /\ moments' = [u \in Threads |-> IF pc[u] = "snapshot" THEN moments[u] \cup {roots'}
                                                              ELSE moments[u]]
      /\ seen' \in [Threads -> RootType]
  BY SwapFacts
<1>2. /\ Issued' = Issued /\ OpsOf(t) \in calls /\ OpsOf(t) \subseteq Issued
      /\ \A u : OpsOf(u)' = OpsOf(u) /\ ShardsHit(ops[u])' = ShardsHit(ops[u])
  <2>1. OpsOf(t) \in calls
    BY <1>1 DEF Flow, ThreadOK, Writing
  <2> QED
    BY <1>1, <2>1 DEF Issued, OpsOf, ShardsHit
<1>3. \A o \in new : \E i \in DOMAIN ops[t] :
         o = ops[t][i] /\ i \in InShard(ops[t], s) /\ ShardOf[o.key] = s
  BY DEF InShard
<1>4. new \subseteq OpsOf(t)
  BY <1>3 DEF OpsOf, ToSet
<1>5. \A i \in DOMAIN ops[t] : ShardOf[ops[t][i].key] = s => ops[t][i] \in new
  BY DEF InShard
<1> HIDE DEF new, s
<1>6. Types'
  <2>1. landed' \subseteq Issued
    BY <1>1, <1>2, <1>4 DEF Types
  <2>2. moments' \in [Threads -> SUBSET [Shards -> RootType]]
    BY <1>1 DEF Types
  <2> QED
    BY <1>1, <1>2, <2>1, <2>2 DEF Types
<1>7. Flow'
  <2>1. \A u \in Threads : /\ Writing(u)' <=> Writing(u)
    BY <1>1 DEF Writing
  <2>2. ThreadOK(t)
    BY DEF Flow
  <2>3. ThreadOK(t)'
    <3>1. Writing(t) /\ AtShard(t) /\ pc[t] # "max_seq" /\ pc'[t] # "max_seq"
      BY <1>1 DEF Writing, AtShard
    <3>2. /\ DOMAIN ops'[t] # {} /\ OpsOf(t)' \in calls' /\ OpsOf(t)' \cap unwound' = {}
          /\ cur'[t] \in ShardsHit(ops[t])'
      BY <1>1, <1>2, <2>2, <3>1 DEF ThreadOK
    <3>3. ASSUME NEW i \in DOMAIN ops[t], ShardOf[ops[t][i].key] < cur[t]
          PROVE  ops[t][i] \in landed' /\ ops[t][i].seq <= shardMax[ShardOf[ops[t][i].key]]
      BY <1>1, <2>2, <3>1, <3>3 DEF ThreadOK
    <3>4. ASSUME NEW i \in DOMAIN ops[t], ShardOf[ops[t][i].key] = cur[t]
          PROVE  ops[t][i] \in landed'
      BY <1>1, <1>5, <3>4 DEF s
    <3> QED
      BY <1>1, <3>1, <3>2, <3>3, <3>4 DEF ThreadOK
  <2>4. ASSUME NEW u \in Threads, u # t PROVE ThreadOK(u)'
    <3>1. ThreadOK(u) /\ (Writing(u) => OpsOf(u) \cap unwound = {})
      BY DEF Flow, ThreadOK
    <3>2. \A i \in DOMAIN ops[u] :
             /\ ops[u][i].seq \in Nat
             /\ shardMax[ShardOf[ops[u][i].key]] \in Nat
             /\ shardMax'[ShardOf[ops[u][i].key]] \in Nat
             /\ shardMax[ShardOf[ops[u][i].key]] <= shardMax'[ShardOf[ops[u][i].key]]
      BY <1>1, OpsFacts DEF Types
    <3>3. /\ pc'[u] = pc[u] /\ ops'[u] = ops[u] /\ cur'[u] = cur[u]
          /\ calls \subseteq calls' /\ landed \subseteq landed'
          /\ Writing(u) => OpsOf(u) \cap unwound' = {}
      BY <1>1, <2>4, <3>1
    <3> QED
      BY <3>1, <3>2, <3>3, OtherThread
  <2>5. ASSUME NEW u \in Threads, NEW v \in Threads, u # v, Writing(u)', Writing(v)'
        PROVE  OpsOf(u)' \cap OpsOf(v)' = {}
    <3>1. Writing(u) /\ Writing(v)
      BY <1>1, <2>5 DEF Writing
    <3> QED
      BY <1>2, <2>5, <3>1 DEF Flow
  <2> QED
    BY <2>3, <2>4, <2>5 DEF Flow
<1>8. Resident'
  <2>1. \A o \in landed' : o.key \in Keys /\ o.seq \in Int /\ ShardOf[o.key] \in Shards
    BY <1>2, <1>6, ShardAssumption DEF Types, OpType
  <2>2. ASSUME NEW o \in landed' PROVE roots'[ShardOf[o.key]][o.key].seq >= o.seq
    <3>1. CASE o \in landed
      <4>1. roots[ShardOf[o.key]][o.key].seq >= o.seq
        BY <3>1 DEF Resident, NoLostUpdate, Get, KeySeq
      <4>2. /\ roots'[ShardOf[o.key]][o.key].seq >= roots[ShardOf[o.key]][o.key].seq
            /\ roots'[ShardOf[o.key]][o.key].seq \in Int
            /\ roots[ShardOf[o.key]][o.key].seq \in Int
        BY <2>1, SwapRaises
      <4> QED
        BY <2>1, <4>1, <4>2
    <3>2. CASE o \in new
      <4>1. PICK i \in DOMAIN ops[t] :
               o = ops[t][i] /\ i \in InShard(ops[t], s) /\ ShardOf[o.key] = s
        BY <1>3, <3>2
      <4> QED
        BY <4>1, SwapRaises DEF s
    <3> QED
      BY <1>1, <3>1, <3>2
  <2>3. ASSUME NEW r \in Shards, NEW k \in Keys, roots'[r][k] # roots[r][k]
        PROVE  \E o \in new : o \in Issued /\ o.key = k /\ roots'[r][k] = EntryOf(o)
                              /\ ShardOf[k] = r
    <3>1. /\ r = s /\ \E i \in InShard(ops[t], s) :
                         ops[t][i].key = k /\ roots'[r][k] = EntryOf(ops[t][i])
      BY <2>3, SwapRaises DEF s
    <3>2. PICK i \in InShard(ops[t], s) :
             ops[t][i].key = k /\ roots'[r][k] = EntryOf(ops[t][i])
      BY <3>1
    <3>3. i \in DOMAIN ops[t] /\ ShardOf[ops[t][i].key] = s
      BY DEF InShard
    <3>4. ops[t][i] \in new
      BY <1>5, <3>3
    <3> QED
      BY <1>2, <1>4, <3>1, <3>2, <3>3, <3>4
  <2>4. ASSUME NEW k \in Keys
        PROVE  \/ roots'[ShardOf[k]][k] = Absent
               \/ \E o \in landed' : o.key = k /\ roots'[ShardOf[k]][k] = EntryOf(o)
    <3>1. ShardOf[k] \in Shards
      BY ShardAssumption
    <3>2. CASE roots'[ShardOf[k]][k] = roots[ShardOf[k]][k]
      <4>1. \/ roots[ShardOf[k]][k] = Absent
            \/ \E o \in landed : o.key = k /\ roots[ShardOf[k]][k] = EntryOf(o)
        BY DEF Resident, NoLostUpdate, Get
      <4> QED
        BY <1>1, <3>2, <4>1
    <3>3. CASE roots'[ShardOf[k]][k] # roots[ShardOf[k]][k]
      BY <1>1, <2>3, <3>1, <3>3
    <3> QED
      BY <3>2, <3>3
  <2>5. NoLostUpdate'
    BY <2>2, <2>4 DEF NoLostUpdate, Get, KeySeq
  <2>6. ASSUME NEW r \in Shards PROVE FromIssued(roots[r])'
    <3>1. ASSUME NEW k \in Keys
          PROVE  roots'[r][k] = Absent \/ \E o \in Issued : o.key = k /\ roots'[r][k] = EntryOf(o)
      <4>1. CASE roots'[r][k] = roots[r][k]
        BY <4>1 DEF Resident, FromIssued, HeldBy
      <4>2. CASE roots'[r][k] # roots[r][k]
        BY <2>3, <4>2
      <4> QED
        BY <4>1, <4>2
    <3> QED
      BY <1>2, <3>1 DEF FromIssued, HeldBy
  <2>7. \A u \in Threads : \A r \in DOMAIN view'[u] :
           FromIssued(view[u][r])' /\ WholeBatch(view[u][r], r)'
    BY <1>1, <1>2
       DEF Resident, BatchAtomicPerShard, FromIssued, HeldBy, WholeBatch
  <2> QED
    BY <2>5, <2>6, <2>7, SwapKeepsBatches DEF Resident, BatchAtomicPerShard
<1>9. ASSUME NEW u \in Threads PROVE SnapOK(u)'
  <2>1. SnapOK(u) /\ moments[u] \subseteq moments'[u]
    BY <1>1
  <2>2. CASE u = t
    <3>1. view[t] = <<>> /\ DOMAIN view[t] = {}
      BY <1>1, <2>1, <2>2 DEF SnapOK
    <3> QED
      BY <1>1, <2>2, <3>1 DEF SnapOK
  <2>3. CASE u # t
    <3>1. pc[u] = "snapshot" => roots' \in moments'[u]
      BY <1>1
    <3> QED
      BY <1>1, <2>1, <2>3, <3>1 DEF SnapOK
  <2> QED
    BY <2>2, <2>3
<1>10. Counted'
  <2>1. Trailing'
    <3>1. landed \subseteq landed' /\ \A r \in Shards : OnShard(r)' = OnShard(r)
      BY <1>1, <1>2 DEF OnShard
    <3>2. Trailing
      BY DEF Counted
    <3> QED
      BY <1>1, <3>1, <3>2 DEF Trailing, SeqsIn
  <2>2. ASSUME NEW o \in landed'
        PROVE  \/ o.seq <= shardMax[ShardOf[o.key]]
               \/ \E u \in Threads :
                     pc'[u] = "shard_max" /\ cur[u] = ShardOf[o.key] /\ o \in OpsOf(u)
    <3>1. CASE o \in new
      <4>1. ShardOf[o.key] = s /\ o \in OpsOf(t)
        BY <1>3, <1>4, <3>1
      <4> QED
        BY <1>1, <4>1 DEF s
    <3>2. CASE o \in landed /\ ~(o.seq <= shardMax[ShardOf[o.key]])
      <4>1. PICK u \in Threads :
               pc[u] = "shard_max" /\ cur[u] = ShardOf[o.key] /\ o \in OpsOf(u)
        BY <3>2 DEF Counted
      <4>2. pc'[u] = "shard_max"
        BY <1>1, <4>1
      <4> QED
        BY <4>1, <4>2
    <3> QED
      BY <1>1, <3>1, <3>2
  <2>3. ASSUME NEW o \in Issued \ unwound
        PROVE  \/ o \in landed' /\ o.seq <= maxSeq
               \/ \E u \in Threads : Writing(u)' /\ o \in OpsOf(u)
    <3>1. CASE o \in landed /\ o.seq <= maxSeq
      BY <1>1, <3>1
    <3>2. CASE ~(o \in landed /\ o.seq <= maxSeq)
      <4>1. PICK u \in Threads : Writing(u) /\ o \in OpsOf(u)
        BY <3>2 DEF Counted
      <4>2. Writing(u)'
        BY <1>1, <4>1 DEF Writing
      <4> QED
        BY <4>1, <4>2
    <3> QED
      BY <3>1, <3>2
  <2>4. \/ maxSeq = 0
        \/ \E o \in landed' \ unwound :
              o.seq = maxSeq /\ \A u \in Threads : Writing(u)' => o \notin OpsOf(u)
    <3>1. CASE maxSeq # 0
      <4>1. PICK o \in landed \ unwound :
               o.seq = maxSeq /\ \A u \in Threads : Writing(u) => o \notin OpsOf(u)
        BY <3>1 DEF Counted
      <4>2. \A u \in Threads : Writing(u)' => o \notin OpsOf(u)
        BY <1>1, <4>1 DEF Writing
      <4> QED
        BY <1>1, <4>1, <4>2
    <3> QED
      BY <3>1
  <2> QED
    BY <1>1, <1>2, <2>1, <2>2, <2>3, <2>4 DEF Counted
<1> QED
  BY <1>1, <1>6, <1>7, <1>8, <1>9, <1>10, SameCalls

-----------------------------------------------------------------------------
(* The counters.                                                           *)
LEMMA ShardMaxFacts ==
    ASSUME IInv, NEW t \in Threads, RaiseShardMax(t)
    PROVE  /\ UNCHANGED <<roots, maxSeq, seqGen, ops, seen, view, history>>
           /\ pc[t] = "shard_max" /\ pc' \in [Threads -> PCs] /\ cur' \in [Threads -> Shards]
           /\ \A u \in Threads : u # t => pc'[u] = pc[u] /\ cur'[u] = cur[u]
           /\ \/ /\ pc'[t] = "load" /\ cur'[t] \in LaterShards(t)
                 /\ \A r \in LaterShards(t) : cur'[t] <= r
              \/ pc'[t] = "max_seq" /\ LaterShards(t) = {} /\ cur'[t] = cur[t]
           /\ cur[t] \in Shards /\ shardMax' \in [Shards -> Nat]
           /\ \A s \in Shards : s # cur[t] => shardMax'[s] = shardMax[s]
           /\ \A s \in Shards : shardMax[s] <= shardMax'[s]
           /\ \A i \in InShard(ops[t], cur[t]) :
                 ops[t][i].seq \in Nat /\ ops[t][i].seq <= shardMax'[cur[t]]
           /\ \/ shardMax'[cur[t]] = shardMax[cur[t]]
              \/ \E i \in InShard(ops[t], cur[t]) :
                    ops[t][i] \in landed /\ shardMax'[cur[t]] = ops[t][i].seq
<1> USE DEF IInv
<1> DEFINE s == cur[t]
           I == InShard(ops[t], s)
           top == MaxOf({ops[t][i].seq : i \in I})
<1>1. /\ UNCHANGED <<roots, maxSeq, seqGen, ops, seen, view, history>>
      /\ pc[t] = "shard_max"
      /\ shardMax' = [shardMax EXCEPT ![s] = Raised(shardMax[s], top)]
  BY DEF RaiseShardMax, CountShard, Types
<1>2. s \in Shards /\ Shards \subseteq Nat /\ ops[t] \in Seq(OpType)
  BY ShardAssumption DEF Types, Shards
<1>3. I \in SUBSET DOMAIN ops[t] /\ I # {}
  <2>1. s \in ShardsHit(ops[t])
    BY <1>1 DEF Flow, ThreadOK, AtShard
  <2> QED
    BY <2>1 DEF ShardsHit, InShard
<1>4. \A i \in I : ops[t][i] \in landed /\ ops[t][i].seq \in Nat
  <2>1. \A i \in I : i \in DOMAIN ops[t] /\ ShardOf[ops[t][i].key] = cur[t]
    BY DEF InShard
  <2>2. ThreadOK(t)
    BY DEF Flow
  <2> QED
    BY <1>1, <2>1, <2>2, OpsFacts DEF ThreadOK
<1>5. PICK i \in I : top = ops[t][i].seq /\ \A j \in I : ops[t][j].seq <= ops[t][i].seq
  <2> HIDE DEF I
  <2> QED
    BY <1>2, <1>3, HighestSeq
<1> HIDE DEF top, I
<1>6. top \in Nat /\ \A j \in I : ops[t][j].seq <= top
  BY <1>4, <1>5
<1>7. shardMax \in [Shards -> Nat] /\ shardMax[s] \in Nat
  BY <1>2 DEF Types
<1>8. /\ shardMax' \in [Shards -> Nat] /\ shardMax'[s] = Raised(shardMax[s], top)
      /\ \A r \in Shards : r # s => shardMax'[r] = shardMax[r]
  BY <1>1, <1>2, <1>6, <1>7 DEF Raised
<1>9. /\ shardMax'[s] = shardMax[s] \/ shardMax'[s] = top
      /\ shardMax[s] <= shardMax'[s] /\ top <= shardMax'[s] /\ shardMax'[s] \in Nat
  BY <1>6, <1>7, <1>8 DEF Raised
<1>10. \A r \in Shards : shardMax[r] <= shardMax'[r]
  BY <1>7, <1>8, <1>9
<1>11. /\ pc' \in [Threads -> PCs] /\ cur' \in [Threads -> Shards]
       /\ \A u \in Threads : u # t => pc'[u] = pc[u] /\ cur'[u] = cur[u]
       /\ \/ /\ pc'[t] = "load" /\ cur'[t] \in LaterShards(t)
             /\ \A r \in LaterShards(t) : cur'[t] <= r
          \/ pc'[t] = "max_seq" /\ LaterShards(t) = {} /\ cur'[t] = cur[t]
  <2>1. pc \in [Threads -> PCs] /\ cur \in [Threads -> Shards]
    BY DEF Types
  <2>2. CASE LaterShards(t) # {}
    <3> DEFINE least == CHOOSE x \in LaterShards(t) : \A r \in LaterShards(t) : x <= r
    <3>1. LaterShards(t) \in SUBSET ShardsHit(ops[t])
      BY DEF LaterShards
    <3>2. least \in Shards /\ least \in LaterShards(t) /\ \A r \in LaterShards(t) : least <= r
      BY <1>2, <2>2, <3>1, LeastShard
    <3>3. pc' = [pc EXCEPT ![t] = "load"] /\ cur' = [cur EXCEPT ![t] = least]
      BY <2>2 DEF RaiseShardMax, Goto
    <3> HIDE DEF least
    <3> QED
      BY <2>1, <3>2, <3>3 DEF PCs
  <2>3. CASE LaterShards(t) = {}
    <3>1. pc' = [pc EXCEPT ![t] = "max_seq"] /\ cur' = cur
      BY <2>3 DEF RaiseShardMax, Goto
    <3> QED
      BY <2>1, <2>3, <3>1 DEF PCs
  <2> QED
    BY <2>2, <2>3
<1>12. \A j \in I : ops[t][j].seq \in Nat /\ ops[t][j].seq <= shardMax'[s]
  BY <1>4, <1>6, <1>9
<1>13. \/ shardMax'[s] = shardMax[s]
       \/ \E j \in I : ops[t][j] \in landed /\ shardMax'[s] = ops[t][j].seq
  BY <1>4, <1>5, <1>9
<1> QED
  BY <1>1, <1>2, <1>8, <1>10, <1>11, <1>12, <1>13 DEF I

(* Where the thread goes, the ops of the shards behind it are counted.     *)
LEMMA ShardMaxFlow ==
    ASSUME IInv, NEW t \in Threads, RaiseShardMax(t)
    PROVE  Flow'
<1> USE DEF IInv
<1> DEFINE s == cur[t]
<1>1. /\ UNCHANGED <<ops, calls, landed, unwound>>
      /\ pc[t] = "shard_max" /\ cur' \in [Threads -> Shards]
      /\ \A u \in Threads : u # t => pc'[u] = pc[u] /\ cur'[u] = cur[u]
      /\ \/ /\ pc'[t] = "load" /\ cur'[t] \in LaterShards(t)
            /\ \A r \in LaterShards(t) : cur'[t] <= r
         \/ pc'[t] = "max_seq" /\ LaterShards(t) = {} /\ cur'[t] = cur[t]
      /\ s \in Shards /\ shardMax' \in [Shards -> Nat] /\ shardMax \in [Shards -> Nat]
      /\ \A r \in Shards : shardMax[r] <= shardMax'[r]
      /\ \A i \in InShard(ops[t], s) : ops[t][i].seq <= shardMax'[s]
  BY ShardMaxFacts DEF history, Types
<1>2. \A i \in DOMAIN ops[t] :
         /\ ops[t][i].seq \in Nat /\ ShardOf[ops[t][i].key] \in Shards
         /\ ShardOf[ops[t][i].key] \in ShardsHit(ops[t])
  BY OpsFacts DEF ShardsHit
<1>3. ThreadOK(t)
  BY DEF Flow
<1>4. Shards \subseteq Nat
  BY DEF Shards
<1>5. ASSUME NEW i \in DOMAIN ops[t], ShardOf[ops[t][i].key] <= s
      PROVE  ops[t][i] \in landed /\ ops[t][i].seq <= shardMax'[ShardOf[ops[t][i].key]]
  <2>1. CASE ShardOf[ops[t][i].key] = s
    BY <1>1, <1>3, <2>1 DEF ThreadOK, InShard
  <2>2. CASE ShardOf[ops[t][i].key] < s
    <3>1. ops[t][i] \in landed /\ ops[t][i].seq <= shardMax[ShardOf[ops[t][i].key]]
      BY <1>1, <1>3, <2>2 DEF ThreadOK, AtShard
    <3> QED
      BY <1>1, <1>2, <3>1
  <2>3. ShardOf[ops[t][i].key] \in Nat /\ s \in Nat
    BY <1>1, <1>2, <1>4
  <2> QED
    BY <1>5, <2>1, <2>2, <2>3
<1>6. ASSUME NEW i \in DOMAIN ops[t],
             pc'[t] = "max_seq" \/ ShardOf[ops[t][i].key] < cur'[t]
      PROVE  ShardOf[ops[t][i].key] <= s
  <2>1. SUFFICES ASSUME ~(ShardOf[ops[t][i].key] <= s) PROVE FALSE
    OBVIOUS
  <2>2. ShardOf[ops[t][i].key] \in Nat /\ s \in Nat
    BY <1>1, <1>2, <1>4
  <2>3. ShardOf[ops[t][i].key] \in LaterShards(t)
    BY <1>2, <2>1, <2>2 DEF LaterShards
  <2>4. cur'[t] \in Nat
    BY <1>1, <1>4
  <2>5. CASE pc'[t] = "max_seq"
    BY <1>1, <2>3, <2>5
  <2>6. CASE pc'[t] # "max_seq"
    BY <1>1, <1>6, <2>2, <2>3, <2>4, <2>6
  <2> QED
    BY <2>5, <2>6
<1>7. ThreadOK(t)'
  <2>1. /\ DOMAIN ops'[t] # {} /\ OpsOf(t)' \in calls' /\ OpsOf(t)' \cap unwound' = {}
    BY <1>1, <1>3 DEF ThreadOK, Writing, OpsOf
  <2>2. AtShard(t)' => cur'[t] \in ShardsHit(ops'[t])
    BY <1>1 DEF AtShard, LaterShards
  <2>3. \A i \in DOMAIN ops'[t] :
           pc'[t] = "max_seq" \/ (AtShard(t)' /\ ShardOf[ops'[t][i].key] < cur'[t])
           => ops'[t][i] \in landed' /\ ops'[t][i].seq <= shardMax'[ShardOf[ops'[t][i].key]]
    BY <1>1, <1>5, <1>6
  <2>4. pc'[t] # "shard_max"
    BY <1>1
  <2> QED
    BY <2>1, <2>2, <2>3, <2>4 DEF ThreadOK
<1>8. ASSUME NEW u \in Threads, u # t PROVE ThreadOK(u)'
  <2>1. ThreadOK(u) /\ (Writing(u) => OpsOf(u) \cap unwound = {})
    BY DEF Flow, ThreadOK
  <2>2. \A i \in DOMAIN ops[u] :
           /\ ops[u][i].seq \in Nat
           /\ shardMax[ShardOf[ops[u][i].key]] \in Nat
           /\ shardMax'[ShardOf[ops[u][i].key]] \in Nat
           /\ shardMax[ShardOf[ops[u][i].key]] <= shardMax'[ShardOf[ops[u][i].key]]
    BY <1>1, OpsFacts
  <2>3. /\ pc'[u] = pc[u] /\ ops'[u] = ops[u] /\ cur'[u] = cur[u]
        /\ calls \subseteq calls' /\ landed \subseteq landed'
        /\ Writing(u) => OpsOf(u) \cap unwound' = {}
    BY <1>1, <1>8, <2>1
  <2> QED
    BY <2>1, <2>2, <2>3, OtherThread
<1>9. ASSUME NEW u \in Threads, NEW v \in Threads, u # v, Writing(u)', Writing(v)'
      PROVE  OpsOf(u)' \cap OpsOf(v)' = {}
  <2>1. Writing(u) /\ Writing(v)
    BY <1>1, <1>9 DEF Writing
  <2> QED
    BY <1>1, <1>9, <2>1 DEF Flow, OpsOf
<1> QED
  BY <1>7, <1>8, <1>9 DEF Flow

LEMMA RaiseShardMaxKeeps ==
    ASSUME IInv, NEW t \in Threads, RaiseShardMax(t)
    PROVE  IInv'
<1> USE DEF IInv
<1> DEFINE s == cur[t]
<1>1. /\ UNCHANGED <<roots, maxSeq, seqGen, ops, seen, view>>
      /\ UNCHANGED <<calls, landed, unwound, moments>>
      /\ pc[t] = "shard_max" /\ pc' \in [Threads -> PCs] /\ cur' \in [Threads -> Shards]
      /\ pc'[t] \in {"load", "max_seq"}
      /\ \A u \in Threads : u # t => pc'[u] = pc[u] /\ cur'[u] = cur[u]
      /\ s \in Shards /\ shardMax' \in [Shards -> Nat] /\ shardMax \in [Shards -> Nat]
      /\ \A r \in Shards : r # s => shardMax'[r] = shardMax[r]
      /\ \A r \in Shards : shardMax[r] <= shardMax'[r]
      /\ \A i \in InShard(ops[t], s) : ops[t][i].seq <= shardMax'[s]
      /\ \/ shardMax'[s] = shardMax[s]
         \/ \E i \in InShard(ops[t], s) : ops[t][i] \in landed /\ shardMax'[s] = ops[t][i].seq
  BY ShardMaxFacts DEF history, Types
<1>2. Issued' = Issued /\ \A u : OpsOf(u)' = OpsOf(u)
  BY <1>1 DEF Issued, OpsOf
<1>3. Types'
  BY <1>1, <1>2 DEF Types
<1>4. Flow'
  BY ShardMaxFlow
<1>5. \A u \in Threads : SnapOK(u)'
  <2>1. ASSUME NEW u \in Threads PROVE SnapOK(u)'
    <3>1. SnapOK(u)
      OBVIOUS
    <3>2. CASE u = t
      BY <1>1, <3>1, <3>2 DEF SnapOK
    <3>3. CASE u # t
      BY <1>1, <3>1, <3>3 DEF SnapOK
    <3> QED
      BY <3>2, <3>3
  <2> QED
    BY <2>1
<1>6. Counted'
  <2>1. \A u \in Threads : Writing(u)' <=> Writing(u)
    BY <1>1 DEF Writing
  <2>2. \A o \in landed : o.seq \in Nat /\ ShardOf[o.key] \in Shards /\ o \in Issued
    BY ShardAssumption DEF Types, OpType
  <2>3. Trailing'
    <3>1. ASSUME NEW r \in Shards
          PROVE  shardMax'[r] \in {0} \cup SeqsIn(landed \cap OnShard(r))
      <4>1. CASE shardMax'[r] = shardMax[r]
        BY <4>1 DEF Counted, Trailing
      <4>2. CASE shardMax'[r] # shardMax[r]
        <5>1. r = s
          BY <1>1, <4>2
        <5>2. PICK i \in InShard(ops[t], s) :
                 ops[t][i] \in landed /\ shardMax'[s] = ops[t][i].seq
          BY <1>1, <4>2, <5>1
        <5>3. ops[t][i] \in OnShard(r)
          BY <2>2, <5>1, <5>2 DEF OnShard, InShard
        <5> QED
          BY <5>1, <5>2, <5>3 DEF SeqsIn
      <4> QED
        BY <4>1, <4>2
    <3>2. \E r \in Shards : maxSeq <= shardMax'[r]
      <4>1. PICK r \in Shards : maxSeq <= shardMax[r]
        BY DEF Counted, Trailing
      <4>2. maxSeq \in Nat /\ shardMax[r] \in Nat /\ shardMax'[r] \in Nat
            /\ shardMax[r] <= shardMax'[r]
        BY <1>1 DEF Types
      <4>3. maxSeq <= shardMax'[r]
        BY <4>1, <4>2
      <4> QED
        BY <4>3
    <3>3. maxSeq \in {0} \cup SeqsIn(landed)
      BY DEF Counted, Trailing
    <3>4. \A r \in Shards : OnShard(r)' = OnShard(r)
      BY <1>2 DEF OnShard
    <3> QED
      BY <1>1, <3>1, <3>2, <3>3, <3>4 DEF Trailing, SeqsIn
  <2>4. ASSUME NEW o \in landed
        PROVE  \/ o.seq <= shardMax'[ShardOf[o.key]]
               \/ \E u \in Threads :
                     pc'[u] = "shard_max" /\ cur'[u] = ShardOf[o.key] /\ o \in OpsOf(u)
    <3>1. CASE o.seq <= shardMax[ShardOf[o.key]]
      <4>1. /\ shardMax[ShardOf[o.key]] <= shardMax'[ShardOf[o.key]]
            /\ shardMax[ShardOf[o.key]] \in Nat /\ shardMax'[ShardOf[o.key]] \in Nat
        BY <1>1, <2>2
      <4>2. o.seq <= shardMax'[ShardOf[o.key]]
        BY <2>2, <3>1, <4>1
      <4> QED
        BY <4>2
    <3>2. CASE \E u \in Threads :
                  pc[u] = "shard_max" /\ cur[u] = ShardOf[o.key] /\ o \in OpsOf(u)
      <4>1. PICK u \in Threads :
               pc[u] = "shard_max" /\ cur[u] = ShardOf[o.key] /\ o \in OpsOf(u)
        BY <3>2
      <4>2. CASE u # t
        BY <1>1, <4>1, <4>2
      <4>3. CASE u = t
        <5>1. PICK i \in DOMAIN ops[t] : o = ops[t][i]
          BY <4>1, <4>3, OpsFacts
        <5>2. i \in InShard(ops[t], s)
          BY <4>1, <4>3, <5>1 DEF InShard
        <5> QED
          BY <1>1, <4>1, <4>3, <5>1, <5>2
      <4> QED
        BY <4>2, <4>3
    <3> QED
      BY <3>1, <3>2 DEF Counted
  <2>5. ASSUME NEW o \in Issued \ unwound
        PROVE  \/ o \in landed /\ o.seq <= maxSeq
               \/ \E u \in Threads : Writing(u)' /\ o \in OpsOf(u)
    <3>1. CASE ~(o \in landed /\ o.seq <= maxSeq)
      <4>1. PICK u \in Threads : Writing(u) /\ o \in OpsOf(u)
        BY <3>1 DEF Counted
      <4> QED
        BY <2>1, <4>1
    <3> QED
      BY <3>1
  <2>6. \/ maxSeq = 0
        \/ \E o \in landed \ unwound :
              o.seq = maxSeq /\ \A u \in Threads : Writing(u)' => o \notin OpsOf(u)
    <3>1. CASE maxSeq # 0
      <4>1. PICK o \in landed \ unwound :
               o.seq = maxSeq /\ \A u \in Threads : Writing(u) => o \notin OpsOf(u)
        BY <3>1 DEF Counted
      <4> QED
        BY <2>1, <4>1
    <3> QED
      BY <3>1
  <2> QED
    BY <1>1, <1>2, <2>3, <2>4, <2>5, <2>6 DEF Counted
<1> QED
  BY <1>1, <1>3, <1>4, <1>5, <1>6, SameTrees, SameCalls

-----------------------------------------------------------------------------
(* A write call ends, by its return or by a panic of its closure.          *)
LEMMA LeaveFacts ==
    ASSUME IInv, NEW t \in Threads, NEW from, Leave(t, from)
    PROVE  /\ pc[t] = from /\ pc'[t] = "idle" /\ pc' \in [Threads -> PCs]
           /\ ops'[t] = <<>> /\ DOMAIN ops'[t] = {} /\ OpsOf(t)' = {}
           /\ ops' \in [Threads -> Seq(OpType)] /\ cur' \in [Threads -> Shards]
           /\ \A u \in Threads : u # t => /\ pc'[u] = pc[u] /\ ops'[u] = ops[u]
                                          /\ cur'[u] = cur[u] /\ OpsOf(u)' = OpsOf(u)
<1>1. /\ pc \in [Threads -> PCs] /\ ops \in [Threads -> Seq(OpType)]
      /\ cur \in [Threads -> Shards]
  BY DEF IInv, Types
<1>2. /\ pc[t] = from /\ pc' = [pc EXCEPT ![t] = "idle"]
      /\ ops' = [ops EXCEPT ![t] = <<>>] /\ cur' = [cur EXCEPT ![t] = 1]
  BY DEF Leave, Goto
<1>3. 1 \in Shards
  BY ShardAssumption DEF Shards
<1>4. <<>> \in Seq(OpType) /\ DOMAIN << >> = {}
  <2>1. <<>> \in Seq(OpType) /\ Len(<<>>) = 0
    OBVIOUS
  <2> QED
    BY <2>1, LenProperties
<1>5. /\ pc'[t] = "idle" /\ pc' \in [Threads -> PCs]
      /\ ops'[t] = <<>> /\ ops' \in [Threads -> Seq(OpType)] /\ cur' \in [Threads -> Shards]
      /\ \A u \in Threads : u # t => pc'[u] = pc[u] /\ ops'[u] = ops[u] /\ cur'[u] = cur[u]
  BY <1>1, <1>2, <1>3, <1>4 DEF PCs
<1>6. OpsOf(t)' = {} /\ \A u \in Threads : u # t => OpsOf(u)' = OpsOf(u)
  BY <1>4, <1>5 DEF OpsOf, ToSet
<1> QED
  BY <1>2, <1>4, <1>5, <1>6

LEMMA LeaveFlow ==
    ASSUME IInv, NEW t \in Threads, NEW from \in {"swap", "max_seq"}, Leave(t, from),
           UNCHANGED <<shardMax, calls, landed>>, unwound' \subseteq unwound \cup OpsOf(t)
    PROVE  Flow'
<1> USE DEF IInv
<1>1. /\ pc[t] = from /\ pc'[t] = "idle" /\ DOMAIN ops'[t] = {}
      /\ \A u \in Threads : u # t => /\ pc'[u] = pc[u] /\ ops'[u] = ops[u]
                                     /\ cur'[u] = cur[u] /\ OpsOf(u)' = OpsOf(u)
  BY LeaveFacts
<1>2. Writing(t) /\ ~Writing(t)' /\ ~AtShard(t)'
  BY <1>1 DEF Writing, AtShard
<1>3. ThreadOK(t)'
  BY <1>1, <1>2 DEF ThreadOK
<1>4. ASSUME NEW u \in Threads, u # t PROVE ThreadOK(u)'
  <2>1. ThreadOK(u) /\ (Writing(u) => OpsOf(u) \cap unwound = {} /\ OpsOf(u) \cap OpsOf(t) = {})
    BY <1>2, <1>4 DEF Flow, ThreadOK
  <2>2. \A i \in DOMAIN ops[u] :
           /\ ops[u][i].seq \in Nat
           /\ shardMax[ShardOf[ops[u][i].key]] \in Nat
           /\ shardMax'[ShardOf[ops[u][i].key]] \in Nat
           /\ shardMax[ShardOf[ops[u][i].key]] <= shardMax'[ShardOf[ops[u][i].key]]
    BY OpsFacts DEF Types
  <2>3. /\ pc'[u] = pc[u] /\ ops'[u] = ops[u] /\ cur'[u] = cur[u]
        /\ calls \subseteq calls' /\ landed \subseteq landed'
        /\ Writing(u) => OpsOf(u) \cap unwound' = {}
    BY <1>1, <1>4, <2>1
  <2> QED
    BY <2>1, <2>2, <2>3, OtherThread
<1>5. ASSUME NEW u \in Threads, NEW v \in Threads, u # v, Writing(u)', Writing(v)'
      PROVE  OpsOf(u)' \cap OpsOf(v)' = {}
  <2>1. u # t /\ v # t
    BY <1>2, <1>5
  <2>2. Writing(u) /\ Writing(v)
    BY <1>1, <1>5, <2>1 DEF Writing
  <2> QED
    BY <1>1, <1>5, <2>1, <2>2 DEF Flow
<1> QED
  BY <1>3, <1>4, <1>5 DEF Flow

(* Whoever was counting, or running, still is.                             *)
LEMMA LeaveCounted ==
    ASSUME IInv, NEW t \in Threads, NEW from \in {"swap", "max_seq"}, Leave(t, from)
    PROVE  /\ \A o, s : (\E u \in Threads : pc[u] = "shard_max" /\ cur[u] = s /\ o \in OpsOf(u))
                        => \E u \in Threads : pc'[u] = "shard_max" /\ cur'[u] = s /\ o \in OpsOf(u)'
           /\ \A o : (\E u \in Threads : Writing(u) /\ o \in OpsOf(u))
                     => o \in OpsOf(t) \/ \E u \in Threads : Writing(u)' /\ o \in OpsOf(u)'
           /\ \A u \in Threads : Writing(u)' => u # t /\ Writing(u) /\ OpsOf(u)' = OpsOf(u)
<1>1. /\ pc[t] = from /\ pc'[t] = "idle"
      /\ \A u \in Threads : u # t => /\ pc'[u] = pc[u] /\ cur'[u] = cur[u]
                                     /\ OpsOf(u)' = OpsOf(u)
  BY LeaveFacts
<1>2. \A u \in Threads : pc[u] = "shard_max" => u # t
  BY <1>1
<1>3. \A u \in Threads : u # t => (Writing(u)' <=> Writing(u))
  BY <1>1 DEF Writing
<1>4. ~Writing(t)'
  BY <1>1 DEF Writing
<1>5. ASSUME NEW o, NEW s, NEW u \in Threads,
             pc[u] = "shard_max", cur[u] = s, o \in OpsOf(u)
      PROVE  pc'[u] = "shard_max" /\ cur'[u] = s /\ o \in OpsOf(u)'
  BY <1>1, <1>2, <1>5
<1>6. ASSUME NEW o, NEW u \in Threads, Writing(u), o \in OpsOf(u), o \notin OpsOf(t)
      PROVE  Writing(u)' /\ o \in OpsOf(u)'
  BY <1>1, <1>3, <1>6
<1> QED
  BY <1>1, <1>3, <1>4, <1>5, <1>6

LEMMA RaiseMaxSeqKeeps ==
    ASSUME IInv, NEW t \in Threads, RaiseMaxSeq(t)
    PROVE  IInv'
<1> USE DEF IInv
<1>1. /\ Leave(t, "max_seq") /\ maxSeq' = Raised(maxSeq, HighestOf(t))
      /\ UNCHANGED <<roots, shardMax, seqGen, seen, view>>
      /\ UNCHANGED <<calls, landed, unwound, moments>>
  BY DEF RaiseMaxSeq, history
<1>2. /\ pc[t] = "max_seq" /\ pc'[t] = "idle" /\ pc' \in [Threads -> PCs]
      /\ ops' \in [Threads -> Seq(OpType)] /\ cur' \in [Threads -> Shards]
      /\ \A u \in Threads : u # t => pc'[u] = pc[u]
  BY <1>1, LeaveFacts
<1>3. Issued' = Issued
  BY <1>1 DEF Issued
<1>4. Writing(t) /\ ThreadOK(t) /\ ops[t] \in Seq(OpType)
  BY <1>2 DEF Writing, Flow, Types
<1>5. /\ OpsOf(t) \cap unwound = {} /\ DOMAIN ops[t] # {}
      /\ \A i \in DOMAIN ops[t] :
            /\ ops[t][i] \in landed /\ ops[t][i] \in OpsOf(t) /\ ops[t][i].seq \in Nat
            /\ ops[t][i].seq <= shardMax[ShardOf[ops[t][i].key]]
            /\ ShardOf[ops[t][i].key] \in Shards
  BY <1>2, <1>4, OpsFacts DEF ThreadOK
<1>6. PICK i \in DOMAIN ops[t] :
         HighestOf(t) = ops[t][i].seq /\ \A j \in DOMAIN ops[t] : ops[t][j].seq <= ops[t][i].seq
  <2> DEFINE I == DOMAIN ops[t]
  <2>1. I \in SUBSET DOMAIN ops[t] /\ I # {}
    BY <1>5
  <2>2. HighestOf(t) = MaxOf({ops[t][j].seq : j \in I})
    BY DEF HighestOf
  <2> HIDE DEF I
  <2>3. \E i \in I : /\ MaxOf({ops[t][j].seq : j \in I}) = ops[t][i].seq
                     /\ \A j \in I : ops[t][j].seq <= ops[t][i].seq
    BY <1>4, <2>1, HighestSeq
  <2> QED
    BY <2>2, <2>3 DEF I
<1>7. HighestOf(t) \in Nat /\ maxSeq \in Nat /\ \A j \in DOMAIN ops[t] : ops[t][j].seq <= HighestOf(t)
  BY <1>5, <1>6 DEF Types
<1>8. /\ maxSeq' = maxSeq \/ maxSeq' = HighestOf(t)
      /\ maxSeq' \in Nat /\ maxSeq <= maxSeq' /\ HighestOf(t) <= maxSeq'
  BY <1>1, <1>7 DEF Raised
<1>9. Types'
  BY <1>1, <1>2, <1>3, <1>8 DEF Types
<1>10. Flow'
  BY <1>1, LeaveFlow
<1>11. \A u \in Threads : SnapOK(u)'
  <2>1. ASSUME NEW u \in Threads PROVE SnapOK(u)'
    <3>1. SnapOK(u)
      OBVIOUS
    <3>2. CASE u = t
      BY <1>1, <1>2, <3>1, <3>2 DEF SnapOK
    <3>3. CASE u # t
      BY <1>1, <1>2, <3>1, <3>3 DEF SnapOK
    <3> QED
      BY <3>2, <3>3
  <2> QED
    BY <2>1
<1>12. Counted'
  <2>1. Trailing'
    <3>1. maxSeq' \in {0} \cup SeqsIn(landed)
      BY <1>5, <1>6, <1>8 DEF Counted, Trailing, SeqsIn
    <3>2. \E s \in Shards : maxSeq' <= shardMax[s]
      <4>1. CASE maxSeq' = maxSeq
        BY <4>1 DEF Counted, Trailing
      <4>2. CASE maxSeq' = HighestOf(t)
        BY <1>5, <1>6, <4>2
      <4> QED
        BY <1>8, <4>1, <4>2
    <3>3. \A s \in Shards : OnShard(s)' = OnShard(s)
      BY <1>3 DEF OnShard
    <3> QED
      BY <1>1, <3>1, <3>2, <3>3 DEF Counted, Trailing, SeqsIn
  <2>2. /\ \A o, s : (\E u \in Threads : pc[u] = "shard_max" /\ cur[u] = s /\ o \in OpsOf(u))
                     => \E u \in Threads : pc'[u] = "shard_max" /\ cur'[u] = s /\ o \in OpsOf(u)'
        /\ \A o : (\E u \in Threads : Writing(u) /\ o \in OpsOf(u))
                  => o \in OpsOf(t) \/ \E u \in Threads : Writing(u)' /\ o \in OpsOf(u)'
        /\ \A u \in Threads : Writing(u)' => u # t /\ Writing(u) /\ OpsOf(u)' = OpsOf(u)
    BY <1>1, LeaveCounted
  <2>3. \A o \in landed :
           \/ o.seq <= shardMax[ShardOf[o.key]]
           \/ \E u \in Threads :
                 pc'[u] = "shard_max" /\ cur'[u] = ShardOf[o.key] /\ o \in OpsOf(u)'
    BY <2>2 DEF Counted
  <2>4. ASSUME NEW o \in Issued \ unwound
        PROVE  \/ o \in landed /\ o.seq <= maxSeq'
               \/ \E u \in Threads : Writing(u)' /\ o \in OpsOf(u)'
    <3>1. CASE o \in landed /\ o.seq <= maxSeq
      <4>1. o.seq \in Nat
        BY DEF Types, OpType
      <4>2. o.seq <= maxSeq'
        BY <1>7, <1>8, <3>1, <4>1
      <4> QED
        BY <3>1, <4>2
    <3>2. CASE o \in OpsOf(t)
      <4>1. PICK j \in DOMAIN ops[t] : o = ops[t][j]
        BY <3>2, OpsFacts
      <4>2. o \in landed /\ o.seq <= maxSeq'
        BY <1>5, <1>7, <1>8, <4>1
      <4> QED
        BY <4>2
    <3>3. CASE ~(o \in landed /\ o.seq <= maxSeq) /\ o \notin OpsOf(t)
      BY <2>2, <3>3 DEF Counted
    <3> QED
      BY <3>1, <3>2, <3>3
  <2>5. \/ maxSeq' = 0
        \/ \E o \in landed \ unwound :
              o.seq = maxSeq' /\ \A u \in Threads : Writing(u)' => o \notin OpsOf(u)'
    <3>1. CASE maxSeq' = maxSeq /\ maxSeq # 0
      <4>1. PICK o \in landed \ unwound :
               o.seq = maxSeq /\ \A u \in Threads : Writing(u) => o \notin OpsOf(u)
        BY <3>1 DEF Counted
      <4> QED
        BY <2>2, <3>1, <4>1
    <3>2. CASE maxSeq' = HighestOf(t)
      <4>1. ops[t][i] \in landed \ unwound /\ ops[t][i].seq = maxSeq'
        BY <1>5, <1>6, <3>2
      <4>2. \A u \in Threads : Writing(u)' => ops[t][i] \notin OpsOf(u)'
        <5>1. \A u \in Threads : u # t /\ Writing(u) => OpsOf(t) \cap OpsOf(u) = {}
          BY <1>4 DEF Flow
        <5> QED
          BY <1>5, <2>2, <5>1
      <4> QED
        BY <4>1, <4>2
    <3> QED
      BY <1>8, <3>1, <3>2
  <2> QED
    BY <1>1, <1>3, <2>1, <2>3, <2>4, <2>5 DEF Counted
<1> QED
  BY <1>1, <1>9, <1>10, <1>11, <1>12, SameTrees, SameCalls

LEMMA ClosurePanicsKeeps ==
    ASSUME IInv, NEW t \in Threads, ClosurePanics(t)
    PROVE  IInv'
<1> USE DEF IInv
<1>1. /\ Leave(t, "swap") /\ unwound' = unwound \cup OpsOf(t)
      /\ seen' = [seen EXCEPT ![t] = EmptyRoot]
      /\ UNCHANGED <<roots, shardMax, maxSeq, seqGen, view, calls, landed, moments>>
  BY DEF ClosurePanics, OpsOf, shared
<1>2. /\ pc[t] = "swap" /\ pc'[t] = "idle" /\ pc' \in [Threads -> PCs]
      /\ ops' \in [Threads -> Seq(OpType)] /\ cur' \in [Threads -> Shards]
      /\ \A u \in Threads : u # t => pc'[u] = pc[u]
  BY <1>1, LeaveFacts
<1>3. Issued' = Issued
  BY <1>1 DEF Issued
<1>4. Writing(t) /\ OpsOf(t) \in calls /\ OpsOf(t) \subseteq Issued
  BY <1>2 DEF Writing, Flow, ThreadOK, Issued
<1>5. Types'
  <2>1. EmptyRoot \in RootType
    BY DEF EmptyRoot, RootType, Absent, Entries
  <2>2. seen' \in [Threads -> RootType]
    BY <1>1, <2>1 DEF Types
  <2>3. unwound' \subseteq Issued
    BY <1>1, <1>4 DEF Types
  <2> QED
    BY <1>1, <1>2, <1>3, <2>2, <2>3 DEF Types
<1>6. Flow'
  BY <1>1, LeaveFlow
<1>7. \A u \in Threads : SnapOK(u)'
  <2>1. ASSUME NEW u \in Threads PROVE SnapOK(u)'
    <3>1. SnapOK(u)
      OBVIOUS
    <3>2. CASE u = t
      BY <1>1, <1>2, <3>1, <3>2 DEF SnapOK
    <3>3. CASE u # t
      BY <1>1, <1>2, <3>1, <3>3 DEF SnapOK
    <3> QED
      BY <3>2, <3>3
  <2> QED
    BY <2>1
<1>8. Counted'
  <2>1. Trailing'
    <3>1. \A s \in Shards : OnShard(s)' = OnShard(s)
      BY <1>3 DEF OnShard
    <3> QED
      BY <1>1, <3>1 DEF Counted, Trailing, SeqsIn
  <2>2. /\ \A o, s : (\E u \in Threads : pc[u] = "shard_max" /\ cur[u] = s /\ o \in OpsOf(u))
                     => \E u \in Threads : pc'[u] = "shard_max" /\ cur'[u] = s /\ o \in OpsOf(u)'
        /\ \A o : (\E u \in Threads : Writing(u) /\ o \in OpsOf(u))
                  => o \in OpsOf(t) \/ \E u \in Threads : Writing(u)' /\ o \in OpsOf(u)'
        /\ \A u \in Threads : Writing(u)' => u # t /\ Writing(u) /\ OpsOf(u)' = OpsOf(u)
    BY <1>1, LeaveCounted
  <2>3. \A o \in landed :
           \/ o.seq <= shardMax[ShardOf[o.key]]
           \/ \E u \in Threads :
                 pc'[u] = "shard_max" /\ cur'[u] = ShardOf[o.key] /\ o \in OpsOf(u)'
    BY <2>2 DEF Counted
  <2>4. \A o \in Issued \ unwound' :
           \/ o \in landed /\ o.seq <= maxSeq
           \/ \E u \in Threads : Writing(u)' /\ o \in OpsOf(u)'
    BY <1>1, <2>2 DEF Counted
  <2>5. \/ maxSeq = 0
        \/ \E o \in landed \ unwound' :
              o.seq = maxSeq /\ \A u \in Threads : Writing(u)' => o \notin OpsOf(u)'
    <3>1. CASE maxSeq # 0
      <4>1. PICK o \in landed \ unwound :
               o.seq = maxSeq /\ \A u \in Threads : Writing(u) => o \notin OpsOf(u)
        BY <3>1 DEF Counted
      <4>2. o \notin unwound'
        BY <1>1, <1>4, <4>1
      <4> QED
        BY <2>2, <4>1, <4>2
    <3> QED
      BY <3>1
  <2> QED
    BY <1>1, <1>3, <2>1, <2>3, <2>4, <2>5 DEF Counted
<1> QED
  BY <1>1, <1>5, <1>6, <1>7, <1>8, SameTrees, SameCalls

-----------------------------------------------------------------------------
(* The invariant is inductive.                                             *)
LEMMA InitIInv == Init => IInv
<1> SUFFICES ASSUME Init PROVE IInv
  OBVIOUS
<1> USE DEF Init
<1>1. Issued = {}
  BY DEF Issued
<1>2. EmptyRoot \in RootType /\ \A k \in Keys : EmptyRoot[k] = Absent
  BY DEF EmptyRoot, RootType, Absent, Entries
<1>3. 1 \in Shards
  BY ShardAssumption DEF Shards
<1>4. <<>> \in Seq(OpType) /\ <<>> \in Seq(RootType) /\ DOMAIN << >> = {} /\ Len(<<>>) = 0
  <2>1. <<>> \in Seq(OpType) /\ <<>> \in Seq(RootType) /\ Len(<<>>) = 0
    OBVIOUS
  <2> QED
    BY <2>1, LenProperties
<1>5. Types
  BY <1>1, <1>2, <1>3, <1>4 DEF Types, PCs
<1>6. Numbered /\ AutoOrdered
  BY <1>1, FS_EmptySet DEF Numbered, AutoOrdered
<1>7. \A t \in Threads : ~Writing(t) /\ ~AtShard(t) /\ pc[t] = "idle"
  BY DEF Writing, AtShard
<1>8. Flow
  BY <1>4, <1>7 DEF Flow, ThreadOK
<1>9. Resident
  <2>1. \A s \in Shards, k \in Keys : roots[s][k] = Absent
    BY <1>2
  <2>2. \A k \in Keys : ShardOf[k] \in Shards
    BY ShardAssumption
  <2>3. NoLostUpdate
    BY <2>1, <2>2 DEF NoLostUpdate, Get, KeySeq
  <2>4. \A s \in Shards : FromIssued(roots[s])
    BY <2>1 DEF FromIssued, HeldBy
  <2>5. BatchAtomicPerShard
    BY <1>4 DEF BatchAtomicPerShard, WholeBatch
  <2> QED
    BY <1>4, <2>3, <2>4, <2>5 DEF Resident
<1>10. \A t \in Threads : SnapOK(t)
  BY <1>4, <1>7 DEF SnapOK
<1>11. Counted
  BY <1>1, <1>3 DEF Counted, Trailing
<1> QED
  BY <1>5, <1>6, <1>8, <1>9, <1>10, <1>11 DEF IInv

LEMMA InsertBegins ==
    ASSUME IInv, NEW t \in Threads, NEW k \in Keys, Insert(t, k)
    PROVE  \E q : Begins(t, q)
<1> DEFINE o == Op(k, NextId, seqGen, TRUE)
           q == <<o>>
<1>1. NextId \in Nat /\ seqGen \in Nat
  BY FS_CardinalityType DEF IInv, Types, Numbered, NextId
<1>2. o \in OpType
  BY <1>1 DEF Op, OpType
<1>3. o.id = NextId /\ o.seq = seqGen
  BY DEF Op
<1>4. StartWrite(t, q) /\ seqGen' = seqGen + 1
  BY DEF Insert
<1> HIDE DEF o
<1>5. q \in Seq(OpType) /\ DOMAIN q = {1} /\ q[1] = o /\ ToSet(q) = {o}
  BY <1>2 DEF ToSet
<1>6. \A i \in DOMAIN q : q[i].id = NextId + i - 1
  BY <1>1, <1>3, <1>5
<1>7. seqGen' \in Nat /\ seqGen < seqGen' /\ seqGen <= seqGen'
  BY <1>1, <1>4
<1> HIDE DEF q
<1>8. Begins(t, q)
  BY <1>3, <1>4, <1>5, <1>6, <1>7 DEF Begins
<1> QED
  BY <1>8

LEMMA ApplyBatchBegins ==
    ASSUME IInv, NEW t \in Threads, NEW n \in 1..MaxBatch,
           NEW keys \in [1..n -> Keys], NEW seqs \in [1..n -> Seqs],
           ApplyBatch(t, n, keys, seqs)
    PROVE  \E q : Begins(t, q)
<1> DEFINE q == [i \in 1..n |-> Op(keys[i], NextId + i - 1, seqs[i], FALSE)]
<1>1. /\ NextId \in Nat /\ NextId > 0 /\ seqGen \in Nat /\ n \in Nat /\ 1 \in 1..n
      /\ 1..n \subseteq Nat
  <2>1. Cardinality(Issued) \in Nat
    BY FS_CardinalityType DEF IInv, Numbered
  <2>2. MaxBatch \in Nat
    BY BoundAssumption
  <2> QED
    BY <2>1, <2>2 DEF IInv, Types, NextId
<1>2. /\ StartWrite(t, q) /\ seqGen' = seqGen
  BY DEF ApplyBatch
<1>3. ASSUME NEW i \in 1..n
      PROVE  /\ q[i] \in OpType /\ q[i].id = NextId + i - 1 /\ q[i].auto = FALSE
  <2>1. NextId + i - 1 \in Nat
    BY <1>1
  <2>2. keys[i] \in Keys /\ seqs[i] \in Nat
    BY SeqAssumption
  <2>3. q[i] = Op(keys[i], NextId + i - 1, seqs[i], FALSE)
    OBVIOUS
  <2> HIDE DEF q
  <2>4. q[i] \in OpType
    BY <2>1, <2>2, <2>3 DEF Op, OpType
  <2>5. q[i].id = NextId + i - 1 /\ q[i].auto = FALSE
    BY <2>3 DEF Op
  <2> QED
    BY <2>4, <2>5
<1>4. DOMAIN q = 1..n
  OBVIOUS
<1>5. q \in [1..n -> OpType]
  <2>1. q = [i \in 1..n |-> q[i]]
    OBVIOUS
  <2> HIDE DEF q
  <2> QED
    BY <1>3, <2>1
<1> HIDE DEF q
<1>6. q \in Seq(OpType)
  BY <1>1, <1>5, SeqDef
<1>7. \A o \in ToSet(q) : o.auto = FALSE
  BY <1>3, <1>4, Zenon DEF ToSet
<1>8. DOMAIN q # {} /\ \A i \in DOMAIN q : q[i].id = NextId + i - 1
  BY <1>1, <1>3, <1>4
<1>9. seqGen' \in Nat /\ seqGen <= seqGen'
  BY <1>1, <1>2
<1>10. /\ \A o \in ToSet(q) : o.auto => o.seq = seqGen /\ seqGen < seqGen'
       /\ \A o, p \in ToSet(q) : o.auto /\ p.auto => o = p
  BY <1>7, Zenon
<1>11. Begins(t, q)
  BY <1>2, <1>6, <1>8, <1>9, <1>10, Zenon DEF Begins
<1> QED
  BY <1>11

LEMMA NextKeepsIInv == IInv /\ [Next]_vars => IInv'
<1>1. ASSUME IInv, UNCHANGED vars PROVE IInv'
  <2>1. /\ UNCHANGED <<roots, shardMax, maxSeq, seqGen, pc, ops, cur, seen, view>>
        /\ UNCHANGED <<calls, landed, unwound, moments>>
    BY <1>1 DEF vars, shared, locals, history
  <2>2. Types' /\ (\A t \in Threads : SnapOK(t)')
    BY <1>1, <2>1, SameCalls DEF IInv, Types, SnapOK
  <2>3. \A t \in Threads : SameStage(t)
    BY <2>1 DEF SameStage
  <2> QED
    BY <1>1, <2>1, <2>2, <2>3, SameTrees, SameCalls, SameStageKeeps DEF IInv
<1>2. ASSUME IInv, NEW t \in Threads, Step(t) PROVE IInv'
  <2>1. CASE Load(t) \/ Retry(t)
    BY <1>2, <2>1, LoadKeeps
  <2>2. CASE Swap(t)
    BY <1>2, <2>2, SwapKeeps
  <2>3. CASE RaiseShardMax(t)
    BY <1>2, <2>3, RaiseShardMaxKeeps
  <2>4. CASE RaiseMaxSeq(t)
    BY <1>2, <2>4, RaiseMaxSeqKeeps
  <2>5. CASE LoadForSnapshot(t)
    BY <1>2, <2>5, LoadForSnapshotKeeps
  <2> QED
    BY <1>2, <2>1, <2>2, <2>3, <2>4, <2>5 DEF Step
<1>3. ASSUME IInv, NEW t \in Threads, Call(t) PROVE IInv'
  <2>1. CASE \E k \in Keys : Insert(t, k)
    BY <1>3, <2>1, InsertBegins, BeginKeeps
  <2>2. CASE \E n \in 1..MaxBatch : \E keys \in [1..n -> Keys], seqs \in [1..n -> Seqs] :
                ApplyBatch(t, n, keys, seqs)
    BY <1>3, <2>2, ApplyBatchBegins, BeginKeeps
  <2>3. CASE StartSnapshot(t)
    BY <1>3, <2>3, StartSnapshotKeeps
  <2>4. CASE DropSnapshot(t)
    BY <1>3, <2>4, DropSnapshotKeeps
  <2> QED
    BY <1>3, <2>1, <2>2, <2>3, <2>4 DEF Call
<1>4. ASSUME IInv, NEW t \in Threads, ClosurePanics(t) PROVE IInv'
  BY <1>4, ClosurePanicsKeeps
<1> QED
  BY <1>1, <1>2, <1>3, <1>4 DEF Next

LEMMA AlwaysIInv == Spec => []IInv
<1>1. Init => IInv
  BY InitIInv
<1>2. IInv /\ [Next]_vars => IInv'
  BY NextKeepsIInv
<1> QED
  BY <1>1, <1>2, PTL DEF Spec

-----------------------------------------------------------------------------
(* The theorems.                                                           *)

(* Roots, counters and the locals of every thread stay in their types.     *)
THEOREM TypeCorrect == Spec => []TypeOK
<1>1. IInv => TypeOK
  BY DEF IInv, Types, TypeOK, Issued
<1> QED
  BY <1>1, AlwaysIInv, PTL

(* However apply, apply_batch and their retries race, a key never reads    *)
(* with a lower op_seq than one that landed on it.                         *)
THEOREM NoUpdateIsLost == Spec => []NoLostUpdate
<1>1. IInv => NoLostUpdate
  BY DEF IInv, Resident
<1> QED
  BY <1>1, AlwaysIInv, PTL

(* No root of a shard, in the map or in a snapshot, shows a part of what a *)
(* batch writes there.                                                     *)
THEOREM BatchesAreWhole == Spec => []BatchAtomicPerShard
<1>1. IInv => BatchAtomicPerShard
  BY DEF IInv, Resident
<1> QED
  BY <1>1, AlwaysIInv, PTL

(* shard_max_seq and integrated_generation never run ahead of the trees.   *)
THEOREM GenerationsNeverLead == Spec => []GenerationsTrail
<1>1. ASSUME IInv PROVE GenerationsTrail
  <2>1. \A s \in Shards : shardMax[s] \in {0} \union SeqsIn(landed \intersect OnShard(s))
    BY <1>1 DEF IInv, Counted, Trailing
  <2>2. CASE maxSeq = 0
    BY <2>1, <2>2 DEF GenerationsTrail
  <2>3. CASE maxSeq # 0
    <3>1. PICK o \in landed \ unwound :
             o.seq = maxSeq /\ \A t \in Threads : Writing(t) => o \notin OpsOf(t)
      BY <1>1, <2>3 DEF IInv, Counted
    <3>2. o.seq <= shardMax[ShardOf[o.key]]
      BY <1>1, <3>1 DEF IInv, Counted, Writing
    <3> QED
      BY <2>1, <3>1, <3>2 DEF GenerationsTrail
  <2> QED
    BY <2>2, <2>3
<1> QED
  BY <1>1, AlwaysIInv, PTL

(* Each shard of a snapshot is a root the shard had during the call.       *)
THEOREM SnapshotsAreOfTheirCall == Spec => []SnapshotPerShard
<1>1. IInv => SnapshotPerShard
  BY DEF IInv, SnapOK, SnapshotPerShard
<1> QED
  BY <1>1, AlwaysIInv, PTL

(* Of the inserts that landed on a key, the resident one came last.        *)
THEOREM LastInsertIsResident == Spec => []LastInsertWins
<1>1. ASSUME IInv PROVE LastInsertWins
  <2> SUFFICES ASSUME NEW o \in landed, NEW p \in landed,
                      o.auto, p.auto, o.key = p.key, Get(o.key) = EntryOf(o)
               PROVE  p.id <= o.id
    BY DEF LastInsertWins
  <2>1. /\ o \in Issued /\ p \in Issued
        /\ o.seq \in Nat /\ p.seq \in Nat /\ o.id \in Nat /\ p.id \in Nat
    BY <1>1 DEF IInv, Types, OpType
  <2>2. o.seq >= p.seq
    <3>1. KeySeq(p.key) >= p.seq
      BY <1>1 DEF IInv, Resident, NoLostUpdate
    <3>2. KeySeq(p.key) = o.seq
      BY DEF KeySeq, EntryOf
    <3> QED
      BY <3>1, <3>2
  <2>3. ASSUME o.id < p.id PROVE o.seq < p.seq
    BY <1>1, <2>1, <2>3 DEF IInv, AutoOrdered
  <2> QED
    BY <2>1, <2>2, <2>3
<1> QED
  BY <1>1, AlwaysIInv, PTL

(* "Order-independent": with no call under way, trees and counters stand   *)
(* where the highest op_seqs put them, whatever the order of the calls.    *)
THEOREM AlwaysConverges == Spec => []Converged
<1>1. ASSUME IInv, \A t \in Threads : pc[t] \in {"idle", "snapshot", "view"}
      PROVE  /\ Issued \ unwound \subseteq landed
             /\ \A k \in Keys : KeySeq(k) = MaxOf({-1} \cup SeqsIn(landed \cap OnKey(k)))
             /\ \A s \in Shards :
                   shardMax[s] = MaxOf({0} \cup SeqsIn(landed \cap OnShard(s)))
             /\ maxSeq = MaxOf({0} \cup SeqsIn(Issued \ unwound))
  <2>1. \A t \in Threads : ~Writing(t) /\ pc[t] # "shard_max"
    BY <1>1 DEF Writing
  <2>2. /\ landed \subseteq Issued
        /\ \A o \in Issued : o.seq \in Nat /\ o.key \in Keys /\ ShardOf[o.key] \in Shards
        /\ shardMax \in [Shards -> Nat] /\ maxSeq \in Nat
    BY <1>1, ShardAssumption DEF IInv, Types, OpType
  <2>3. \A o \in Issued \ unwound : o \in landed /\ o.seq <= maxSeq
    BY <1>1, <2>1 DEF IInv, Counted
  <2>4. ASSUME NEW k \in Keys PROVE KeySeq(k) = MaxOf({-1} \cup SeqsIn(landed \cap OnKey(k)))
    <3> DEFINE S == {-1} \cup SeqsIn(landed \cap OnKey(k))
    <3>1. S \in SUBSET Int
      BY <2>2 DEF SeqsIn
    <3>2. KeySeq(k) \in S
      <4>1. CASE Get(k) = Absent
        BY <4>1 DEF KeySeq, Absent
      <4>2. CASE \E o \in landed : o.key = k /\ Get(k) = EntryOf(o)
        <5>1. PICK o \in landed : o.key = k /\ Get(k) = EntryOf(o)
          BY <4>2
        <5>2. KeySeq(k) = o.seq /\ o \in landed \cap OnKey(k)
          BY <2>2, <5>1 DEF KeySeq, EntryOf, OnKey
        <5> QED
          BY <5>2 DEF SeqsIn
      <4> QED
        BY <1>1, <4>1, <4>2 DEF IInv, Resident, NoLostUpdate
    <3>3. \A o \in landed \cap OnKey(k) : o.seq <= KeySeq(k)
      <4>1. ASSUME NEW o \in landed \cap OnKey(k) PROVE o.seq <= KeySeq(k)
        <5>1. KeySeq(o.key) >= o.seq
          BY <1>1 DEF IInv, Resident, NoLostUpdate
        <5>2. o.key = k /\ o.seq \in Int /\ KeySeq(k) \in Int
          BY <2>2, <3>1, <3>2 DEF OnKey
        <5> QED
          BY <5>1, <5>2
      <4> QED
        BY <4>1
    <3>4. -1 <= KeySeq(k)
      BY <2>2, <3>2 DEF SeqsIn
    <3>5. \A m \in S : m <= KeySeq(k)
      BY <3>3, <3>4 DEF SeqsIn
    <3> HIDE DEF S
    <3>6. MaxOf(S) = KeySeq(k)
      BY <3>1, <3>2, <3>5, MaxOfIs
    <3> QED
      BY <3>6 DEF S
  <2>5. ASSUME NEW s \in Shards
        PROVE  shardMax[s] = MaxOf({0} \cup SeqsIn(landed \cap OnShard(s)))
    <3> DEFINE S == {0} \cup SeqsIn(landed \cap OnShard(s))
    <3>1. S \in SUBSET Int
      BY <2>2 DEF SeqsIn
    <3>2. shardMax[s] \in S
      BY <1>1 DEF IInv, Counted, Trailing
    <3>3. \A o \in landed \cap OnShard(s) : o.seq <= shardMax[s]
      BY <1>1, <2>1 DEF IInv, Counted, OnShard
    <3>4. \A m \in S : m <= shardMax[s]
      BY <2>2, <3>3 DEF SeqsIn
    <3> HIDE DEF S
    <3>5. MaxOf(S) = shardMax[s]
      BY <3>1, <3>2, <3>4, MaxOfIs
    <3> QED
      BY <3>5 DEF S
  <2>6. maxSeq = MaxOf({0} \cup SeqsIn(Issued \ unwound))
    <3> DEFINE S == {0} \cup SeqsIn(Issued \ unwound)
    <3>1. S \in SUBSET Int
      BY <2>2 DEF SeqsIn
    <3>2. maxSeq \in S
      BY <1>1, <2>2 DEF IInv, Counted, SeqsIn
    <3>3. \A m \in S : m <= maxSeq
      BY <2>2, <2>3 DEF SeqsIn
    <3> HIDE DEF S
    <3>4. MaxOf(S) = maxSeq
      BY <3>1, <3>2, <3>3, MaxOfIs
    <3> QED
      BY <3>4 DEF S
  <2> QED
    BY <2>3, <2>4, <2>5, <2>6
<1>2. IInv => Converged
  BY <1>1 DEF Converged
<1> QED
  BY <1>2, AlwaysIInv, PTL

(* What get finds for a key changes only to a higher op_seq.               *)
THEOREM ReadsOnlyMoveForward == Spec => ReadsMoveForward
<1>1. ASSUME IInv, Next, NEW k \in Keys
      PROVE  Get(k)' = Get(k) \/ KeySeq(k)' > KeySeq(k)
  <2>1. ShardOf[k] \in Shards
    BY ShardAssumption
  <2>2. CASE \E t \in Threads : Swap(t)
    <3>1. \/ roots'[ShardOf[k]][k] = roots[ShardOf[k]][k]
          \/ roots'[ShardOf[k]][k].seq > roots[ShardOf[k]][k].seq
      BY <1>1, <2>1, <2>2, SwapRaises
    <3> QED
      BY <3>1 DEF Get, KeySeq
  <2>3. CASE ~\E t \in Threads : Swap(t)
    <3>1. roots' = roots
      BY <1>1, <2>3
         DEF Next, Step, Call, Load, Retry, RaiseShardMax, RaiseMaxSeq, LoadForSnapshot, LoadRoot,
             Insert, ApplyBatch, StartWrite, StartSnapshot, DropSnapshot, ClosurePanics, shared
    <3> QED
      BY <3>1 DEF Get
  <2> QED
    BY <2>2, <2>3
<1>2. ASSUME IInv, [Next]_vars
      PROVE  [\A k \in Keys : Get(k)' = Get(k) \/ KeySeq(k)' > KeySeq(k)]_vars
  BY <1>1, <1>2
<1> QED
  BY <1>2, AlwaysIInv, PTL DEF Spec, ReadsMoveForward
=============================================================================
