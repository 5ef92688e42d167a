SPECIFICATION Spec
CONSTANTS
    Items = {a, b}
    None = None
    N = 3
    MaxMarks = 1
INVARIANTS
    TypeOK
    ReachableSlotsFilled
    ReleasedUnlessAbandoned
PROPERTIES
    RollbackRestores
    ImplementsScopedStack
