SPECIFICATION FairSpec
CONSTANTS
    Writers = {w1}
    RowsPerTick = 2
    Limit = 4
    Attempts = 2
    MaxTicks = 3
    MaxFailures = 2
    MaxSeeded = 1
    MaxTruncates = 1
    MaxRestarts = 1
INVARIANTS
    NoReplay
    AtMostOnce
    NothingSkipped
    TicksInOrder
PROPERTIES
    EventuallyStreamed
\* Everything stops when the writers have made the ticks of the bound.
CHECK_DEADLOCK FALSE
