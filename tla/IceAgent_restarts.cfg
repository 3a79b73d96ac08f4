\* (not among the runs) Both pairs work and both sides restart.
SPECIFICATION Spec
CONSTANTS
    Addrs <- TwoAddrs
    Told = {"c1", "s1"}
    MaxBinding = 0
    Worlds <- RestartWorlds
INVARIANTS
    TypeOK
    PairsAgree
    ConnectedHasPair
    OneNomination
PROPERTIES
    KeepsPromise
CHECK_DEADLOCK FALSE
