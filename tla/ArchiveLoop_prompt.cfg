\* The user seeks back, plays and pauses; everything is handled within a Tick.
SPECIFICATION FairSpec
CONSTANTS
    Fragment = 4
    Lead = 2
    Margin = 2
    ArchiveEnd = 17
    Targets = {1,6,12}
    Speeds = {1}
    Commands = {"SeekTo","PlayFrom","Play","Pause"}
    MaxCommands = 3
    CmdCapacity = 2
    Timers = {1,2,3,4,5}
    NearSeeks = FALSE
    OpenAtStart = FALSE
    MayClose = FALSE
    Prompt = TRUE
    AtomicTasks = TRUE
    SameMillisecond = FALSE
INVARIANTS
    TypeOK
    BufferContiguous
    NoUnderrun
    RefillNeverStops
PROPERTIES
    PlaysToEnd
