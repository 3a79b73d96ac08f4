\* The program is started twice (not among the runs).
SPECIFICATION StartupSpec
CONSTANTS
    Channels = {"ours", "remote"}
    Workers = 3
    SyncCapacity = 1
    LoopCapacity = 2
    PerChannel = 3
    Answers <- SomeAnswers
    MaxActivations = 2
INVARIANT
    StaysUp
CHECK_DEADLOCK FALSE
