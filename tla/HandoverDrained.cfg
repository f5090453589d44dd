SPECIFICATION Spec
CONSTANTS
    a = a  b = b  release1 = release1  release2 = release2
    task1 = task1  task2 = task2
    NoDeployment = NoDeployment
    Instances = {a}
    DeploymentOf <- OneDeployment
    TaskOf <- OneTask
    LegacyEnabled = {a}
    ChainedRequests = TRUE
    WorkBound = 1
    RequestBound = 0
    FaultBound = 2
INVARIANTS
    DrainedMeansFinished
CHECK_DEADLOCK FALSE
