SPECIFICATION Spec
CONSTANTS
    r1 = r1  r2 = r2  s1 = s1  k1 = k1  k2 = k2
    w1 = w1  w2 = w2  p1 = p1  p2 = p2
    NoRun = NoRun
    Runs = {r1}
    Sessions = {s1}
    Keys = {k1, k2}
    SessionOf <- OneRunOneConversation
    KeyOf <- OneRunOneKey
    Workers = {w1, w2}
    Reapers = {p1, p2}
    MaxAttempts = 2
    MaxClaims = 3
    LeaseLostConsecutive = 2
    FaultBound = 2
    AppendBound = 0
    EditBound = 0
    CompactionBound = 0
SYMMETRY WorkerSymmetry
INVARIANTS
    TypeOK
    LeasedIffRunning
    SettledByLastLease
    NotifiedAtMostOnce
    FinalAttemptForetold
PROPERTIES
    SettledIsFinal
CHECK_DEADLOCK FALSE
