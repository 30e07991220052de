CONSTANTS
    Publishers = {p1, p2, p3}
SPECIFICATION FairSpec
CHECK_DEADLOCK FALSE
INVARIANT RegisteredMonitorRuns
PROPERTIES
    InstanceReturns
    ChangesAreReported
