CONSTANTS
    Instances = {i1, i2}
    HandlerBound = 2
    DeliveryBound = 1
    MaxAttempts = 2
    FaultBound = 2
SPECIFICATION FairSpec
INVARIANTS
    AckedIsKept
    OneHandlerPerInstance
    TakenOnce
PROPERTY EventuallyTaken
CHECK_DEADLOCK FALSE
