\* More workers than channels: one is always left for the loop.
SPECIFICATION StartupFairSpec
CONSTANTS
    Channels = {"ours", "remote"}
    Workers = 3
    SyncCapacity = 1
    LoopCapacity = 2
    PerChannel = 3
    Answers <- SomeAnswers
    MaxActivations = 1
INVARIANTS
    StartupTypeOK
    NothingLost
PROPERTIES
    QueueSpec
    CallbacksReturn
    Delivered
CHECK_DEADLOCK FALSE
