\* Two days of recordings, neither across midnight.
SPECIFICATION Spec
CONSTANTS
    Day = 14
    Rate = 3
    Half = 13
    Fragment = 4
    Recordings <- WithinDays
    Gap = 2
    Ahead = 2
    Behind = 1
    MaxSeeks = 3
INVARIANTS
    TypeOK
PROPERTIES
    NearContent
    ClockSpec
CHECK_DEADLOCK FALSE
