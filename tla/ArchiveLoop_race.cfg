\* A reply may fall between the send of a refill and its store (not among the runs).
SPECIFICATION Spec
CONSTANTS
    Fragment = 10
    Lead = 2
    Margin = 5
    ArchiveEnd = 31
    Targets = {1}
    Speeds = {1}
    Commands = {"SeekTo","Play"}
    MaxCommands = 2
    CmdCapacity = 4
    Timers = {1,2,3,4,5}
    NearSeeks = FALSE
    OpenAtStart = TRUE
    MayClose = FALSE
    Prompt = TRUE
    AtomicTasks = FALSE
    SameMillisecond = FALSE
INVARIANTS
    RefillNeverStops
