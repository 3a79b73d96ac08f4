\* Play before the channel opens (not among the runs).
SPECIFICATION Spec
CONSTANTS
    Fragment = 4
    Lead = 2
    Margin = 2
    ArchiveEnd = 17
    Targets = {1,6,12}
    Speeds = {1}
    Commands = {"SeekTo","Play","Pause"}
    MaxCommands = 2
    CmdCapacity = 4
    Timers = {1,2,3,4,5}
    NearSeeks = FALSE
    OpenAtStart = FALSE
    MayClose = FALSE
    Prompt = TRUE
    AtomicTasks = TRUE
    SameMillisecond = FALSE
INVARIANTS
    PlayStateAgrees
