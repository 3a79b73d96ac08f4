\* Any packet may be lost (not among the runs).
SPECIFICATION Spec
CONSTANTS
    NalCount = 2
    MaxBody = 2
    Headers = {2}
INVARIANTS
    DropsWithoutStart
CHECK_DEADLOCK FALSE
