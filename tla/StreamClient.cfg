CONSTANTS
    Timeouts <- MCTimeouts
    MaxSubsessions = 2
    MaxChanges = 3
SPECIFICATION AnsweredSpec
CHECK_DEADLOCK FALSE
INVARIANTS
    TypeOK
    AtMostOneVideoSink
    ActiveSessionIsWatched
    TokenNamesTheOnlyTask
    TornDownCompletely
PROPERTIES
    RefinesClientSession
    RetriesNeedStarts
    HandshakeConcludes
    StallIsReported
    DisconnectReturns
