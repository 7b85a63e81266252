SPECIFICATION Spec
CONSTANTS
    SEQNUM_MAX = 16
    MaxWin = 4
    MaxApart = 7
    MaxLaps = 2
INVARIANTS
    WindowIsCircular
    RangesAreCircular
    BeforeWithinLap
CHECK_DEADLOCK FALSE
