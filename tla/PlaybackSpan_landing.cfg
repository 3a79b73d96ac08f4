\* A packet is being read while the loop seeks (not among the runs).
SPECIFICATION Spec
CONSTANTS
    Fragment = 2
    End = 8
    Targets = {1, 6}
    CalmBound <- Nothing
    RaceBound <- OnePacket
INVARIANTS
    SeekLandsAtTarget
CHECK_DEADLOCK FALSE
