\* A reply is taken in while the redraw applies the fragment before it (not among the runs).
SPECIFICATION Spec
CONSTANTS
    Fragment = 2
    End = 8
    Targets = {1}
    CalmBound <- Nothing
    RaceBound <- OneSeek
INVARIANTS
    PendingIsApplied
CHECK_DEADLOCK FALSE
