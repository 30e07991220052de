SPECIFICATION FairSpec
CONSTANTS
    s1 = s1
    s2 = s2
    s3 = s3
    NoSource = NoSource
    Sources <- MCSources
    Greedy <- MCGreedy
    MaxTriggers = 2
    MaxFrames = 2
INVARIANTS
    SinkIsCurrent
    StreamsBelongToSession
    NoLostWakeup
    FramesInOrder
    SourcesHaveTriggers
PROPERTIES
    ImplementsAudience
    FramesArrive
CHECK_DEADLOCK FALSE
