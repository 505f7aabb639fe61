---------------------------- MODULE MCContainers ----------------------------
(***************************************************************************)
(* Instances of Containers for TLC, with a history variable for what the   *)
(* page was sent.                                                          *)
(***************************************************************************)
EXTENDS Containers

CONSTANT MaxWork \* bound: see BoundedNext

VARIABLE due \* per container, the last frame sent to the page's only socket

\* No socket of an earlier visit is left beside the page's own.
OneSocket == Cardinality({k \in DOMAIN sockets : sockets[k].state # "closed"}) <= 1

\* This step breaks a socket, and a frame with container i is lost with it.
DroppedFrom(i, k) ==
    /\ sockets[k].state # "lost" /\ sockets'[k].state = "lost"
    /\ \E n \in DOMAIN sockets[k].inbox :
          n \notin DOMAIN sockets'[k].inbox /\ i \in sockets[k].inbox[n].ids

Dropped(i) == \E k \in DOMAIN sockets : DroppedFrom(i, k)

\* This step broadcasts a frame with container i to an open socket.
SentNow(i) ==
    /\ wpc = "emit" /\ sent' # sent /\ wpc' = "emit"
    /\ i \in NextFrame.ids
    /\ \E k \in DOMAIN sockets : sockets[k].state = "open"

MCInit == Init /\ due = [i \in Ids |-> 0]

MCNext ==
    /\ Next
    /\ due' = [i \in Ids |->
          IF ~started' \/ ~OneSocket' \/ Dropped(i) THEN 0
          ELSE IF SentNow(i) THEN NextFrame.t ELSE due[i]]

MCSpec == MCInit /\ [][MCNext]_<<vars, due>>

\* Cycles, visits and faults share one more bound: of a long run of one there
\* are few of the others.
BoundedNext == MCNext /\ used'.cycles + used'.starts + used'.faults <= MaxWork
BoundedSpec == MCInit /\ [][BoundedNext]_<<vars, due>>

\* When every frame that arrives has been handled, a container's newest point
\* is that of the last frame it was sent on the page's only socket, unless it
\* was lost with the socket: no answer of the history, however late and of
\* whichever visit, puts an older one in its place.
ShowsNewest ==
    (\A k \in DOMAIN sockets : sockets[k].inbox = <<>>) =>
        \A i \in Ids : due[i] # 0 => list[i] # <<>> /\ list[i][Len(list[i])] = due[i]
=============================================================================
