SPECIFICATION Spec
CONSTANTS
    k1 = k1
    k2 = k2
    k3 = k3
    v1 = v1
    v2 = v2
    Keys <- MCKeys
    Vals <- MCVals
    None = None
    MaxMarks = 2
    ElementsPanic = TRUE
SYMMETRY Symmetry
INVARIANTS
    TypeOK
    OrderCovered
    InSyncUntilUnwound
PROPERTIES
    RollbackRestores
    ImplementsBimap
