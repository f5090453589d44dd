SPECIFICATION FairSpec
CONSTANTS
    ClaimFailCrash = 3
    RunBound = 1
    FlipBound = 2
    CycleBound = 1
    FaultBound = 0
PROPERTIES
    ClaimingResumes
CHECK_DEADLOCK FALSE
