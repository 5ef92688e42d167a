SPECIFICATION Spec
CONSTANTS
    a = a
    b = b
    c = c
    Threads = {t1, t2}
    Keys <- MCKeys
    NumShards = 2
    ShardOf <- MCShardOf
    Seqs = {1, 2}
    MaxOps = 3
    MaxBatch = 2
    MaxPanics = 0
CHECK_DEADLOCK FALSE
INVARIANTS
    SnapshotIsPointInTime
