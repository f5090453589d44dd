SPECIFICATION FairSpec
CONSTANTS
    r1 = r1  r2 = r2  s1 = s1  k1 = k1  k2 = k2
    w1 = w1  w2 = w2  p1 = p1  p2 = p2
    NoRun = NoRun
    Runs = {r1, r2}
    Sessions = {s1}
    Keys = {k1, k2}
    SessionOf <- OneConversation
    KeyOf <- TwoKeys
    Workers = {w1, w2}
    Reapers = {p1}
    MaxAttempts = 2
    MaxClaims = 2
    LeaseLostConsecutive = 1
    FaultBound = 1
    AppendBound = 0
    EditBound = 0
    CompactionBound = 0
INVARIANTS
    OneRunningPerSession
    SessionFreedBeforeRetry
PROPERTIES
    ImplementsLifecycle
    EventuallySettled
CHECK_DEADLOCK FALSE
