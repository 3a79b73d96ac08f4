\* Ranges of any length, every order of the speeds, every gesture on the picture.
SPECIFICATION WindowSpec
CONSTANTS
    Archives <- AnyArchives
    MinView = 3
    ZoomNum = 3
    ZoomDen = 2
    PanSteps <- Steps
    PanDen = 5
    Width = 4
    MaxUpdates = 2
    Speeds = {1, 2, 4, 8}
    Normal = 1
    Capacity = 2
    MaxChoices = 4
    Full = 2
    MaxZoom = 3
    Cos <- Cosines
    Sin <- Sines
    Unit = 5
    Turn = 8
    Areas <- Sizes
    Drags <- Offsets
    MaxPan = 40
INVARIANTS
    WindowTypeOK
    ViewInArchive
    NoPanic
    SettledRate
PROPERTIES
    ZoomKeepsInstant
    SpeedsConverge
CHECK_DEADLOCK FALSE
