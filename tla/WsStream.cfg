SPECIFICATION StreamSpec
CONSTANTS
    NoClient = NoClient
    Clients = {c1, c2}
    Goroutines = {watcher, c1, c2}
    Broadcasters = {watcher}
    Relays = {}
    MaxClients = 1
    Buffer = 1
    MaxMsgs = 3
    Leavers = {c1}
INVARIANTS
    TypeOK
    WithinCapacity
    NothingLeaks
PROPERTIES
    ImplementsFanOut
    BroadcastReturns
    EndedIsReaped
\* The process stops when it panics, and when every session has ended.
CHECK_DEADLOCK FALSE
