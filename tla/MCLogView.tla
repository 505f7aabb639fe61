----------------------------- MODULE MCLogView -----------------------------
(***************************************************************************)
(* Instances of LogView for TLC.                                           *)
(***************************************************************************)
EXTENDS LogView

CONSTANT MaxWork \* bound: see BoundedNext

\* Events after the first seeds, faults and the user's actions share one more
\* bound: of a long run of one there are few of the others.
BoundedNext == Next /\ (made' - Seeds) + faults' + acts' <= MaxWork
BoundedSpec == Init /\ [][BoundedNext]_vars
=============================================================================
