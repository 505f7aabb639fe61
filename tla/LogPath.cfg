SPECIFICATION BoundedSpec
CONSTANTS
    MaxWork = 4
    RingSize = 3
    Seeds = 1
    ChanSize = 1
    SendBuffer = 1
    InFlight = 1
    MaxEvents = 5
    MaxFaults = 1
    Capacity = 3
    Viewport = 1
    Overscan = 0
    WindowCount = 1
    MaxActs = 2
INVARIANTS
    LogsInOrder
    ShowsTheRing
\* Everything stops when the bounds are used up.
CHECK_DEADLOCK FALSE
