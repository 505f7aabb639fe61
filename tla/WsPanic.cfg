SPECIFICATION BoundedSpec
CONSTANTS
    NoClient = NoClient
    Clients = {c1}
    Goroutines = {watcher, c1}
    Broadcasters = {watcher}
    Relays = {}
    MaxClients = 1
    Buffer = 1
    MaxMsgs = 3
    Leavers = {c1}
INVARIANTS
    NoPanic
\* The process stops when it panics, and when every session has ended.
CHECK_DEADLOCK FALSE
