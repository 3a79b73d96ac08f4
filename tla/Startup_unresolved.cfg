\* The host of the URL has no address.
SPECIFICATION StartupSpec
CONSTANTS
    Channels = {"ours", "remote"}
    Workers = 3
    SyncCapacity = 1
    LoopCapacity = 2
    PerChannel = 3
    Answers <- SomeAnswers
    MaxActivations = 1
INVARIANT
    OnlySkipped
CHECK_DEADLOCK FALSE
