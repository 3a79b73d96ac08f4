\* Two clicks close to each other (not among the runs).
SPECIFICATION Spec
CONSTANTS
    Fragment = 10
    Lead = 2
    Margin = 5
    ArchiveEnd = 31
    Targets = {1}
    Speeds = {1}
    Commands = {"SeekTo","Play"}
    MaxCommands = 3
    CmdCapacity = 4
    Timers = {1,2,3,4,5}
    NearSeeks = TRUE
    OpenAtStart = TRUE
    MayClose = FALSE
    Prompt = TRUE
    AtomicTasks = TRUE
    SameMillisecond = FALSE
INVARIANTS
    BufferContiguous
