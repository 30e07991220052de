CONSTANTS
    Configs <- One
    Codecs = {"H264"}
    MaxQueue = 1
SPECIFICATION FairSpec
CHECK_DEADLOCK FALSE
PROPERTY FramesAreProcessed
