SPECIFICATION FairSpec
CONSTANTS
    Writers = {w1}
    RowsPerTick = 2
    Limit = 2
    Attempts = 1
    MaxTicks = 2
    MaxFailures = 1
    MaxSeeded = 0
    MaxTruncates = 0
    MaxRestarts = 0
PROPERTIES
    EveryRowIsStreamed
\* Everything stops when the writers have made the ticks of the bound.
CHECK_DEADLOCK FALSE
