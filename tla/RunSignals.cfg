SPECIFICATION FairSpec
CONSTANTS
    SignalBound = 2
    CrashBound = 1
    FaultBound = 1
INVARIANTS
    ConsumedMeansHeard
    HeardOnce
    NoSignalStranded
    ResultReachesTheWait
PROPERTIES
    StopEndsTheRun
    NothingLeftBehind
CHECK_DEADLOCK FALSE
