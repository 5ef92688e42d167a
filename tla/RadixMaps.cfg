SPECIFICATION Spec
CONSTANTS
    Keys <- MCKeys
    Writes <- MCWrites
    Bounds <- MCBounds
    None = None
    Panicked = Panicked
    NumBytes = 5
    Cap4 = 2
    Cap16 = 3
    Cap48 = 4
INVARIANTS
    TypeOK
    RadixIsAMap
    ArtIsAMap
    RadixRangesExact
    ArtRangesExact
    ArtGetPanicsOnPrefixesOnly
    ShapesForgetHistory
