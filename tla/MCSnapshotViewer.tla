-------------------------- MODULE MCSnapshotViewer --------------------------
(***************************************************************************)
(* Instances of SnapshotViewer for TLC, with a history variable that       *)
(* remembers what a page was owed.                                         *)
(***************************************************************************)
EXTENDS SnapshotViewer, TLC

Symmetry == Permutations(Slots)

VARIABLE due \* what was announced since the page is settled: to which socket

\* A snapshot's page is open and no comments are asked for that would replace
\* those it has.
Settled == view # 0 /\ Free = Slots

\* What this step announces on the page's snapshot: a comment's id, per socket
\* that is open.
Announced ==
    {[id |-> posts[p].id, to |-> k] :
        p \in {q \in Posters : /\ posts[q].pc = "stored" /\ posts[q].snap = view
                              /\ posts'[q].pc = "idle"},
        k \in {k \in DOMAIN sockets : sockets[k].state = "open"}}

\* This step breaks the socket, and the announcement is lost with it.
Dropped(d) ==
    /\ sockets[d.to].state # "lost" /\ sockets'[d.to].state = "lost"
    /\ \E n \in DOMAIN sockets[d.to].inbox :
          n \notin DOMAIN sockets'[d.to].inbox /\ sockets[d.to].inbox[n].id = d.id

MCInit == Init /\ due = {}

MCNext ==
    /\ Next
    /\ due' = IF ~Settled \/ ~Settled' \/ view' # view THEN {}
              ELSE {d \in due : ~Dropped(d)} \cup Announced

MCSpec == MCInit /\ [][MCNext]_<<vars, due>>

\* A comment announced to a socket while the page is settled is on the screen
\* or in that socket's inbox until the page asks again or is left, unless the
\* socket is lost before it arrives: neither close events of earlier sockets,
\* nor a reconnection beside a socket that still has frames, nor events of
\* other snapshots make the page miss one.
SettledPageSees ==
    \A d \in due :
        \/ \E i \in DOMAIN shown : shown[i].id = d.id
        \/ \E i \in DOMAIN sockets[d.to].inbox : sockets[d.to].inbox[i].id = d.id
=============================================================================
