\* Patient, calm and racing agents, one restart each.
SPECIFICATION FairSpec
CONSTANTS
    Addrs <- TwoAddrs
    Told = {"c1", "s1"}
    MaxBinding = 0
    Worlds <- AgreeWorlds
INVARIANTS
    TypeOK
    PairsAgree
PROPERTIES
    KeepsPromise
    Connects
CHECK_DEADLOCK FALSE
