\* Commands within a millisecond (not among the runs).
SPECIFICATION Spec
CONSTANTS
    Fragment = 4
    Lead = 2
    Margin = 2
    ArchiveEnd = 17
    Targets = {1,6,12}
    Speeds = {1}
    Commands = {"SeekTo","Play","Pause"}
    MaxCommands = 5
    CmdCapacity = 4
    Timers = {1,2,3,4,5}
    NearSeeks = FALSE
    OpenAtStart = TRUE
    MayClose = FALSE
    Prompt = TRUE
    AtomicTasks = TRUE
    SameMillisecond = TRUE
INVARIANTS
    PlayStateAgrees
