\* The code's 10 s, 2 s and 5 s; one seek, one play (not among the runs).
SPECIFICATION Spec
CONSTANTS
    Fragment = 10
    Lead = 2
    Margin = 5
    ArchiveEnd = 91
    Targets = {1}
    Speeds = {1}
    Commands = {"SeekTo","Play"}
    MaxCommands = 2
    CmdCapacity = 4
    Timers = {1,2,3,4,5}
    NearSeeks = FALSE
    OpenAtStart = TRUE
    MayClose = FALSE
    Prompt = TRUE
    AtomicTasks = TRUE
    SameMillisecond = FALSE
INVARIANTS
    RequestedNearEnd
