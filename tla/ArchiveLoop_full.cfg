\* The command channel may be full (not among the runs).
SPECIFICATION Spec
CONSTANTS
    Fragment = 3
    Lead = 1
    Margin = 1
    ArchiveEnd = 6
    Targets = {1,3}
    Speeds = {1,2}
    Commands = {"SeekTo","Play","Pause","SetSpeed"}
    MaxCommands = 3
    CmdCapacity = 2
    Timers = {1,2,3}
    NearSeeks = TRUE
    OpenAtStart = TRUE
    MayClose = FALSE
    Prompt = FALSE
    AtomicTasks = FALSE
    SameMillisecond = FALSE
INVARIANTS
    SpeedAgrees
