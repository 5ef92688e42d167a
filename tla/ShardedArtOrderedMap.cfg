SPECIFICATION Spec
CONSTANTS
    a = a
    b = b
    c = c
    Threads = {t1, t2}
    Keys <- MCKeys
    NumShards = 2
    ShardOf <- MCShardOf
    Seqs = {1, 2}
    MaxOps = 3
    MaxBatch = 2
    MaxPanics = 1
CHECK_DEADLOCK FALSE
INVARIANTS
    TypeOK
    NoLostUpdate
    Converged
    GenerationsTrail
    BatchAtomicPerShard
    LastInsertWins
    SnapshotPerShard
PROPERTIES
    ReadsMoveForward
    CallsReturn
