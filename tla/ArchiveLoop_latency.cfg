\* Any latency, any interleaving of the tasks, any seek; the channel may close.
SPECIFICATION Spec
CONSTANTS
    Fragment = 3
    Lead = 1
    Margin = 1
    ArchiveEnd = 6
    Targets = {1,3}
    Speeds = {1,2}
    Commands = {"SeekTo","Play","Pause","SetSpeed","Stop","GetRanges"}
    MaxCommands = 3
    CmdCapacity = 4
    Timers = {1,2,3}
    NearSeeks = TRUE
    OpenAtStart = TRUE
    MayClose = TRUE
    Prompt = FALSE
    AtomicTasks = FALSE
    SameMillisecond = FALSE
INVARIANTS
    PlayStateAgrees
    SpeedAgrees
