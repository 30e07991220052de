CONSTANTS
    MaxQueue = 3
    Stamps <- MCStamps
    MaxStreams = 1
    MaxKept = 1
SPECIFICATION Spec
CHECK_DEADLOCK FALSE
PROPERTY TwoSecondsDiscardAll
