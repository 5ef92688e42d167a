SPECIFICATION Spec
CONSTANTS
    Threads = {t1, t2}
    Keys <- MCKeys
    Bounds <- MCWholeMap
    NumShards = 2
    ShardPrefix = 2
    HashOf <- MCHashOf
    MaxInserts = 3
    MaxScans = 1
CHECK_DEADLOCK FALSE
INVARIANTS
    RangeIsExact
