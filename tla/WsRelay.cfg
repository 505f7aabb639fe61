SPECIFICATION BoundedSpec
CONSTANTS
    NoClient = NoClient
    Clients = {c1, c2}
    Goroutines = {poster, c1, c2}
    Broadcasters = {poster}
    Relays = {c1}
    MaxClients = 2
    Buffer = 1
    MaxMsgs = 3
    Leavers = {}
INVARIANTS
    DroppedIsSignalled
    NoSilentLoss
    PerSenderFIFO
PROPERTIES
    UsesHub
\* The process stops when it panics, and when every session has ended.
CHECK_DEADLOCK FALSE
