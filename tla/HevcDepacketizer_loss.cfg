\* Any packet may be lost.
SPECIFICATION Spec
CONSTANTS
    NalCount = 4
    MaxBody = 3
    Headers = {39, 168}
INVARIANTS
    TypeOK
    Reassembled
    LossContained
CHECK_DEADLOCK FALSE
