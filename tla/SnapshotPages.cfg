SPECIFICATION MCSpec
CONSTANTS
    MaxSnapshots = 1
    Made = 2
    Posters = {1}
    OldSnaps = 1
    OldComments = 1
    MaxComments = 2
    PageSize = 1
    Slots = {a, b}
    MaxMounts = 2
    MaxSockets = 2
SYMMETRY Symmetry
INVARIANTS
    NoOrphans
    LastPageIsLast
    ViewIsLive
    
\* Everything stops when the bounds are used up.
CHECK_DEADLOCK FALSE
