\* A packet of the old content follows a seek (not among the runs).
SPECIFICATION Spec
CONSTANTS
    Fragment = 2
    End = 8
    Targets = {1, 6}
    CalmBound <- Nothing
    RaceBound <- LatePacket
PROPERTIES
    AnchorRenewed
CHECK_DEADLOCK FALSE
