\* Every interleaving of single accesses, and the calm ones among them.
SPECIFICATION Spec
CONSTANTS
    Fragment = 1
    End = 4
    Targets = {1, 4}
    CalmBound <- FewCalm
    RaceBound <- FewRaces
INVARIANTS
    TypeOK
    PositionsAreLoaded
    SpanWholeAtRest
    NewestFragmentKept
PROPERTIES
    NeverBack
CHECK_DEADLOCK FALSE
