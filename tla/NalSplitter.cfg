CONSTANTS
    Octets = {0, 1, 4}
    MaxLength = 9
    MaxPayload = 3
    MaxUnits = 3
SPECIFICATION SplitSpec
CHECK_DEADLOCK FALSE
INVARIANTS
    UnitsAreRecovered
    NothingLost
