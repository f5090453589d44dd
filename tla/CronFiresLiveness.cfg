CONSTANTS
    Procs = {p1, p2}
    SlotBound = 1
    FaultBound = 1
    EventBound = 1
SPECIFICATION FairSpec
PROPERTY EventuallyFires
CHECK_DEADLOCK FALSE
