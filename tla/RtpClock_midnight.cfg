\* A recording that goes on past midnight.
SPECIFICATION Spec
CONSTANTS
    Day = 14
    Rate = 3
    Half = 13
    Fragment = 4
    Recordings <- AcrossMidnight
    Gap = 2
    Ahead = 2
    Behind = 1
    MaxSeeks = 3
PROPERTY NearContent
CHECK_DEADLOCK FALSE
