SPECIFICATION Spec
CONSTANTS
    KeyIds = {0, 1, 2, 3}
    ValIds = {0, 1, 2, 3}
    None = None
    UsizeSize = 4
    MaxVecLen = 2
    OverflowChecks = FALSE
    MaxMarks = 0
    MaxEntries = 2
INVARIANTS
    InSync
