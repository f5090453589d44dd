SPECIFICATION FairSpec
CONSTANTS
    ClaimFailCrash = 2
    RunBound = 2
    FlipBound = 2
    CycleBound = 5
    FaultBound = 3
INVARIANTS
    NothingHeldAfterRelease
    NoMissedAnnouncement
    StoppedStaysStopped
PROPERTIES
    RestartResumes
CHECK_DEADLOCK FALSE
