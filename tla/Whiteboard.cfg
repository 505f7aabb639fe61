SPECIFICATION Spec
CONSTANTS
    Peers = {1, 2, 3}
    Ids = {1, 2}
    SeedIds = {1}
    Seeds <- MCSeeds
    Points = {0, 1}
    Width = 1
    Casts <- MCCasts
    Texts = {"a"}
INVARIANTS
    MoveIsTimed
    SettledShows
    Converged
\* Everything stops with the inputs of the bound.
CHECK_DEADLOCK FALSE
