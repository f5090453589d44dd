SPECIFICATION FairSpec
CONSTANTS
    a = a  b = b  release1 = release1  release2 = release2
    task1 = task1  task2 = task2
    NoDeployment = NoDeployment
    Instances = {a, b}
    DeploymentOf <- TwoDeployments
    TaskOf <- TwoTasks
    LegacyEnabled = {a}
    ChainedRequests = FALSE
    WorkBound = 1
    RequestBound = 2
    FaultBound = 1
INVARIANTS
    SingleOwner
    RelinquishedClaimsNothing
    TransitionAppliedOnce
PROPERTIES
    HandoverCompletes
    EventuallyDrained
CHECK_DEADLOCK FALSE
