CONSTANTS
    MaxQueue = 3
    Stamps <- MCStamps
    MaxStreams = 2
    MaxKept = 1
SPECIFICATION Spec
CHECK_DEADLOCK FALSE
INVARIANT ImagesAreHandedOn
PROPERTIES
    WarningsEscalate
    FramesMeetTheirDecoder
