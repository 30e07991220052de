CONSTANTS
    Size <- MCSize
    FrameSizes <- MCFrameSizes
    SetSizes <- MCSetSizes
    MaxUnits = 6
SPECIFICATION Spec
CHECK_DEADLOCK FALSE
INVARIANTS
    TypeOK
    UnitsAreDelimited
    NothingLost
