SPECIFICATION BoundedSpec
CONSTANTS
    Ids = {c1}
    MaxBytes = 1
    MaxCycles = 3
    MaxFaults = 1
    MaxWork = 4
    Limit = 1
    Cap = 1
    MaxPoints = 1
    MaxStarts = 2
    MaxSockets = 3
INVARIANTS
    NoByteTwice
    PageIsLive
    ShowsNewest
\* Everything stops when the bounds are used up.
CHECK_DEADLOCK FALSE
