CONSTANTS
    Procs = {p1, p2}
    SlotBound = 2
    FaultBound = 1
    EventBound = 1
SYMMETRY Symmetry
SPECIFICATION Spec
INVARIANTS
    SlotActsOnce
    SlotNotLost
CHECK_DEADLOCK FALSE
