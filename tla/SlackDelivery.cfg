SPECIFICATION FairSpec
CONSTANTS
    Relays = {r1, r2}
    Home = {r1}
    MaxAttempts = 1
    EnqueueBound = 2
    LeaseBound = 1
    FaultBound = 2
INVARIANTS
    PostedOnce
    OverlapIsLate
PROPERTIES
    AcknowledgedIsFinal
    EventuallyDelivered
CHECK_DEADLOCK FALSE
