---------------------------- MODULE MCDataWorker ----------------------------
(***************************************************************************)
(* Instances of DataWorker for TLC.                                        *)
(***************************************************************************)
EXTENDS DataWorker

CONSTANT MaxLive  \* bound: points streamed to a worker that started early

\* Bound: the server stops after MaxLive points.  Only if more than that were
\* in its database when the worker started, a history longer than the ring,
\* does it go on to MaxPoints.
BoundedNext == Next /\ (streamed = MaxLive => streamed' = streamed)

BoundedSpec == Init /\ [][BoundedNext]_vars /\ Fairness
=============================================================================
