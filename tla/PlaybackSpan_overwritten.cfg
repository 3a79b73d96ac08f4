\* Replies come, and frames only later or more slowly.
SPECIFICATION Spec
CONSTANTS
    Fragment = 2
    End = 8
    Targets = {1}
    CalmBound <- SlowStream
    RaceBound <- Nothing
INVARIANTS
    TimelineFollowsStream
CHECK_DEADLOCK FALSE
