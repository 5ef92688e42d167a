SPECIFICATION Spec
CONSTANTS
    Items = {a, b}
    GenSize = 6
    OverflowChecks = {TRUE, FALSE}
    MaxItems = 4
    MaxDepth = 3
INVARIANTS
    TypeOK
    CounterCovers
PROPERTIES
    ImplementsScopedQueue
