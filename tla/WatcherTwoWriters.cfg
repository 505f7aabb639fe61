SPECIFICATION Spec
CONSTANTS
    Writers = {w1, w2}
    RowsPerTick = 1
    Limit = 5
    Attempts = 1
    MaxTicks = 2
    MaxFailures = 0
    MaxSeeded = 0
    MaxTruncates = 0
    MaxRestarts = 0
INVARIANTS
    NewRowsSeen
\* Everything stops when the writers have made the ticks of the bound.
CHECK_DEADLOCK FALSE
