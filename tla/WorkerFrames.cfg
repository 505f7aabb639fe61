SPECIFICATION BoundedSpec
CONSTANTS
    NoWindow = NoWindow
    BufferSize = 2
    MaxRenderPoints = 1
    Windows = {1}
    MaxPoints = 5
    MaxLive = 3
    MaxRanges = 1
    MaxMounts = 1
    MaxDrops = 1
INVARIANTS
    TypeOK
    RingHoldsLast
    KeptUpIsIntact
    SocketXorTimer
PROPERTIES
    Reconnects
    PaintsLatest
\* Everything stops with the points of the bound, or when the page stops.
CHECK_DEADLOCK FALSE
