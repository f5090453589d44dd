SPECIFICATION Spec
CONSTANTS
    r1 = r1  r2 = r2  s1 = s1  k1 = k1  k2 = k2
    w1 = w1  w2 = w2  p1 = p1  p2 = p2
    NoRun = NoRun
    Runs = {r1, r2}
    Sessions = {s1}
    Keys = {k1, k2}
    SessionOf <- OneConversation
    KeyOf <- OneKey
    Workers = {w1, w2}
    Reapers = {p1}
    MaxAttempts = 1
    MaxClaims = 2
    LeaseLostConsecutive = 1
    FaultBound = 1
    AppendBound = 2
    EditBound = 1
    CompactionBound = 1
SYMMETRY WorkerSymmetry
INVARIANTS
    TapeUnmixed
    AnsweredOncePerKey
    AcknowledgedEditIsRun
CHECK_DEADLOCK FALSE
