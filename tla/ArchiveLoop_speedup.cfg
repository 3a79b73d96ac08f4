\* The speed changes while a refill task sleeps (not among the runs).
SPECIFICATION Spec
CONSTANTS
    Fragment = 10
    Lead = 2
    Margin = 5
    ArchiveEnd = 31
    Targets = {1}
    Speeds = {8}
    Commands = {"SeekTo","Play","SetSpeed"}
    MaxCommands = 3
    CmdCapacity = 4
    Timers = {1,2,3,4,5}
    NearSeeks = FALSE
    OpenAtStart = TRUE
    MayClose = FALSE
    Prompt = TRUE
    AtomicTasks = TRUE
    SameMillisecond = FALSE
INVARIANTS
    NoUnderrun
