\* (not among the runs) The timer's task and a receiving task both nominate.
SPECIFICATION Spec
CONSTANTS
    Addrs <- TwoAddrs
    Told = {"c1", "s1"}
    MaxBinding = 0
    Worlds <- RaceWorlds
INVARIANTS
    OneNomination
CHECK_DEADLOCK FALSE
