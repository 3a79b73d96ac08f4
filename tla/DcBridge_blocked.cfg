\* Two cores, the server opens a channel of its own (not among the runs).
SPECIFICATION FairSpec
CONSTANTS
    Channels = {"ours", "remote"}
    Workers = 2
    SyncCapacity = 2
    LoopCapacity = 2
    PerChannel = 4
PROPERTIES
    SendNeedsNoPolling
CHECK_DEADLOCK FALSE
