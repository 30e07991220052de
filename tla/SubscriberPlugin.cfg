CONSTANTS
    Configs <- AllPolicies
    Codecs = {"H264", "MPEG4"}
    MaxQueue = 1
SPECIFICATION FairSpec
CHECK_DEADLOCK FALSE
INVARIANTS
    CooldownInRange
    CrashOnlyByRace
    DecoderFitsStream
    ShutdownIsFinal
PROPERTY Reconnects
