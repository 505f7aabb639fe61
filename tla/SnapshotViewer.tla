--------------------------- MODULE SnapshotViewer ---------------------------
(***************************************************************************)
(* A browser on the snapshot pages (lib/snapshots.svelte.ts driven by      *)
(* SnapshotDetail and CommentThread) over the server of Snapshots: pages   *)
(* of comments requested over HTTP, answers in any order, and the socket   *)
(* /ws/snapshots that carries each new comment to every browser, with its  *)
(* reconnections.                                                          *)
(*                                                                         *)
(* What the hub and the pumps do between Broadcast and a browser is module *)
(* WsSession's: here a registered socket gets every announcement in order, *)
(* and may be lost at any moment with whatever has not arrived by then.    *)
(* The delays of reconnections, the error texts and the pictures of a      *)
(* snapshot are left out, and so are late answers of the list page, which  *)
(* shares `loading' and `error' with this one (SnapshotList has that page).*)
(***************************************************************************)
EXTENDS Snapshots, Sequences

CONSTANTS PageSize,   \* the limit of a page, 50 in the code
          Slots,      \* bound: HTTP reads in flight at once
          MaxMounts,  \* bound: visits of a snapshot's page
          MaxSockets  \* bound: sockets ever opened

ASSUME SnapshotViewerAssumption == PageSize \in Nat \ {0}

VARIABLES view,    \* the snapshot whose page is open, 0 for another page
          current, \* the store has a snapshot: current # null
          loading, \* its `loading', while the page is open
          failed,  \* and its `error', as a flag
          shown,   \* comments, newest first unless answers raced
          offset,  \* _commentsOffset
          more,    \* commentsHasMore
          asked,   \* loadSnapshot's requests: which visit's, for which snapshot
          reads,   \* per slot, a request for comments: at the server, or answered
          sockets, \* every WebSocket opened, in order
          ws,      \* _ws: a position in sockets, or 0
          wsSnap,  \* _wsSnapshotId, 0 for null
          intentional, \* _wsIntentionalClose
          timers,  \* the reconnections that are scheduled; each is named by
                   \* the socket whose close scheduled it
          handle,  \* _wsReconnectTimer: a timer's name, or 0
          mounts   \* how many visits there were

page == <<view, current, loading, failed, shown, offset, more>>
wsVars == <<sockets, ws, wsSnap, intentional, timers, handle>>
http == <<asked, reads>>
vars == <<server, page, http, wsVars, mounts>>

\* CommentThread is mounted.
Thread == view # 0 /\ ~loading /\ ~failed /\ current

NoRead == [stage |-> "free", kind |-> "load", snap |-> 0, offset |-> 0,
           rows |-> <<>>, more |-> FALSE]
Free == {r \in Slots : reads[r].stage = "free"}
\* A GET for comments of s.  The server looks the snapshot up first and answers
\* 404, which the store takes as no answer, if it is missing; a snapshot that
\* goes between the request and the look-up is as one that goes after it, or as
\* a request that fails.
Request(kind, s, from) ==
    \E r \in Free :
        reads' = IF ~GetSnapshot(s) THEN reads
                 ELSE [reads EXCEPT ![r] = [NoRead EXCEPT !.stage = "found", !.kind = kind,
                                                          !.snap = s, !.offset = from]]

Init ==
    /\ ServerInit
    /\ view = 0 /\ current = FALSE /\ loading = FALSE /\ failed = FALSE
    /\ shown = <<>> /\ offset = 0 /\ more = FALSE
    /\ asked = {}
    /\ reads = [r \in Slots |-> NoRead]
    /\ sockets = <<>> /\ ws = 0 /\ wsSnap = 0 /\ intentional = FALSE
    /\ timers = {} /\ handle = 0
    /\ mounts = 0

-----------------------------------------------------------------------------
(* GET /api/snapshots/:id/comments, at the server. *)

\* The ids of the comments of s, and the place of one of them, newest first.
IdsOf(s) == {c.id : c \in {c \in comments : c.snap = s}}
Place(i, ids) == Cardinality({j \in ids : j >= i})

\* The comments of s, newest first.
Listed(s) ==
    [n \in 1 .. Cardinality(IdsOf(s)) |->
        [id |-> CHOOSE i \in IdsOf(s) : Place(i, IdsOf(s)) = n, snap |-> s]]

\* Mutant: the statement has no OFFSET.
ReadRows_NoOffset(r) ==
    /\ reads[r].stage = "found"
    /\ LET all == Listed(reads[r].snap)
       IN  reads' = [reads EXCEPT ![r].stage = "rows",
                                  ![r].rows = SubSeq(all, 1, IF Len(all) < PageSize THEN Len(all) ELSE PageSize)]
    /\ UNCHANGED <<server, page, asked, wsVars, mounts>>

\* db.ListComments reads the page ...
ReadRows(r) ==
    /\ reads[r].stage = "found"
    /\ LET from == reads[r].offset + 1
           all == Listed(reads[r].snap)
           to == IF Len(all) < from + PageSize - 1 THEN Len(all) ELSE from + PageSize - 1
       IN  reads' = [reads EXCEPT ![r].stage = "rows", ![r].rows = SubSeq(all, from, to)]
    /\ UNCHANGED <<server, page, asked, wsVars, mounts>>

\* ... and then the total: has_more compares the two.
CountRows(r) ==
    /\ reads[r].stage = "rows"
    /\ reads' = [reads EXCEPT ![r].stage = "answered",
                              ![r].more = reads[r].offset + Len(reads[r].rows)
                                            < Len(Listed(reads[r].snap))]
    /\ UNCHANGED <<server, page, asked, wsVars, mounts>>

\* A read fails on its way or in the database: the store keeps what it has.
ReadFails(r) ==
    /\ reads[r].stage # "free"
    /\ reads' = [reads EXCEPT ![r] = NoRead]
    /\ UNCHANGED <<server, page, asked, wsVars, mounts>>

-----------------------------------------------------------------------------
(* SnapshotStore's sockets. *)

Live(k) == sockets[k].state \in {"connecting", "open", "lost"} \* as readyState has it
Closing(k) == [sockets EXCEPT ![k].state = "closing", ![k].inbox = <<>>]

\* _openWS
Open(opened, s) ==
    /\ Len(opened) < MaxSockets
    /\ sockets' = Append(opened, [snap |-> s, state |-> "connecting", inbox |-> <<>>])
    /\ ws' = Len(opened) + 1

\* Mutant: connectWS forgets to say which snapshot is watched.
ConnectWS_NoSnapshot(s) ==
    /\ intentional' = FALSE
    /\ timers' = {t \in timers : t.name # handle}
    /\ handle' = 0
    /\ wsSnap' = wsSnap
    /\ Open(IF ws # 0 /\ Live(ws) THEN Closing(ws) ELSE sockets, s)

\* connectWS: with the flag cleared before the close event of the socket that
\* is closed here can run.
ConnectWS(s) ==
    /\ intentional' = FALSE
    /\ timers' = {t \in timers : t.name # handle}
    /\ handle' = 0
    /\ wsSnap' = s
    /\ Open(IF ws # 0 /\ Live(ws) THEN Closing(ws) ELSE sockets, s)

\* disconnectWS
DisconnectWS ==
    /\ intentional' = TRUE
    /\ timers' = {t \in timers : t.name # handle}
    /\ handle' = 0
    /\ sockets' = IF ws # 0 /\ Live(ws) THEN Closing(ws) ELSE sockets
    /\ ws' = 0
    /\ wsSnap' = 0

\* The server accepts the socket and registers its client.
Accept(k) ==
    /\ sockets[k].state = "connecting"
    /\ sockets' = [sockets EXCEPT ![k].state = "open"]
    /\ UNCHANGED <<server, page, http, ws, wsSnap, intentional, timers, handle, mounts>>

\* The connection fails, the hub is full, the hub drops a slow client, the
\* server restarts: the browser learns of it later, from the close event.  Some
\* of what the socket was sent had arrived, the rest of its inbox is lost.
Lose(k) ==
    /\ sockets[k].state \in {"connecting", "open"}
    /\ \E n \in 0 .. Len(sockets[k].inbox) :
          sockets' = [sockets EXCEPT ![k].state = "lost",
                                     ![k].inbox = SubSeq(sockets[k].inbox, 1, n)]
    /\ UNCHANGED <<server, page, http, ws, wsSnap, intentional, timers, handle, mounts>>

\* onmessage: compared with the snapshot watched now, not when it opened.
OnMessage(k) ==
    /\ sockets[k].inbox # <<>>
    /\ LET c == Head(sockets[k].inbox)
       IN  shown' = IF c.snap = wsSnap THEN <<c>> \o shown ELSE shown
    /\ sockets' = [sockets EXCEPT ![k].inbox = Tail(@)]
    /\ UNCHANGED <<server, view, current, loading, failed, offset, more, http, ws, wsSnap,
                   intentional, timers, handle, mounts>>

\* Mutant: only the close of the current socket schedules a reconnection.
OnClose_CurrentOnly(k) ==
    /\ sockets[k].state \in {"lost", "closing"}
    /\ sockets[k].inbox = <<>>
    /\ sockets' = [sockets EXCEPT ![k].state = "closed", ![k].snap = 0]
    /\ ws' = 0
    /\ IF ~intentional /\ wsSnap = sockets[k].snap /\ ws = k
       THEN /\ timers' = timers \cup {[name |-> k, snap |-> sockets[k].snap]}
            /\ handle' = k
       ELSE UNCHANGED <<timers, handle>>
    /\ UNCHANGED <<server, page, http, wsSnap, intentional, mounts>>

\* onclose, of whichever socket: _ws is forgotten, and the store reconnects if
\* the snapshot the socket was opened for is watched (perhaps again).
OnClose(k) ==
    /\ sockets[k].state \in {"lost", "closing"}
    /\ sockets[k].inbox = <<>>
    /\ sockets' = [sockets EXCEPT ![k].state = "closed", ![k].snap = 0]
    /\ ws' = 0
    /\ IF ~intentional /\ wsSnap = sockets[k].snap
       THEN /\ timers' = timers \cup {[name |-> k, snap |-> sockets[k].snap]}
            /\ handle' = k
       ELSE UNCHANGED <<timers, handle>>
    /\ UNCHANGED <<server, page, http, wsSnap, intentional, mounts>>

\* A reconnection's timer fires.
Retry(t) ==
    /\ handle' = 0
    /\ timers' = timers \ {t}
    /\ IF wsSnap = t.snap THEN Open(sockets, t.snap) ELSE UNCHANGED <<sockets, ws>>
    /\ UNCHANGED <<server, page, http, wsSnap, intentional, mounts>>

-----------------------------------------------------------------------------
(* The pages. *)

\* SnapshotDetail.onMount: reset, loadSnapshot, loadComments, connectWS.
Mount(s) ==
    /\ view = 0
    /\ s \in 1 .. lastSnap
    /\ mounts < MaxMounts
    /\ mounts' = mounts + 1
    /\ view' = s
    /\ current' = FALSE /\ failed' = FALSE /\ loading' = TRUE
    /\ asked' = asked \cup {[visit |-> mounts + 1, snap |-> s]}
    /\ Request("load", s, 0)
    /\ ConnectWS(s)
    /\ UNCHANGED <<server, shown, offset, more>>

\* onDestroy; deleting the snapshot on its own page ends there too.  What the
\* store holds while no page shows it is forgotten here, not by the next
\* mount's reset.
Leave ==
    /\ view # 0
    /\ view' = 0 /\ current' = FALSE /\ loading' = FALSE /\ failed' = FALSE
    /\ shown' = <<>> /\ offset' = 0 /\ more' = FALSE
    /\ DisconnectWS
    /\ UNCHANGED <<server, http, mounts>>

\* loadSnapshot is answered, or fails though the snapshot is there.  An answer
\* with a snapshot leaves an earlier request's error where it is, and an error
\* hides the comments that are on the screen.  Where CommentThread is mounted by
\* the answer, even one to an earlier page's request, it asks for the comments
\* once more.  What the answer does to a store no page shows is forgotten.
OnSnapshot(q) ==
    /\ asked' = asked \ {q}
    /\ \E found \in {GetSnapshot(q.snap), FALSE} :
          IF view = 0 THEN UNCHANGED <<current, loading, failed, reads>>
          ELSE /\ loading' = FALSE
               /\ current' = (current \/ found)
               /\ failed' = (failed \/ ~found)
               /\ IF found /\ ~failed /\ ~Thread THEN Request("load", view, 0) ELSE UNCHANGED reads
    /\ UNCHANGED <<server, view, shown, offset, more, wsVars, mounts>>

\* loadComments and loadMoreComments take an answer as it comes, even if the
\* page it was asked for is gone.
OnComments(r) ==
    /\ reads[r].stage = "answered"
    /\ LET kept == IF reads[r].kind = "load" THEN <<>> ELSE shown
           from == IF reads[r].kind = "load" THEN 0 ELSE offset
       IN  IF view = 0
           THEN UNCHANGED <<shown, offset, more>>
           ELSE /\ shown' = kept \o reads[r].rows
                /\ offset' = from + Len(reads[r].rows)
                /\ more' = reads[r].more
    /\ reads' = [reads EXCEPT ![r] = NoRead]
    /\ UNCHANGED <<server, view, current, loading, failed, asked, wsVars, mounts>>

\* The button "Load more", which stays enabled while a page is on its way.
LoadMore ==
    /\ Thread /\ more
    /\ Request("more", view, offset)
    /\ UNCHANGED <<server, page, asked, wsVars, mounts>>

\* The broadcast reaches every registered socket, whatever it watches.
Hear(p) ==
    /\ Announce(p)
    /\ sockets' = [k \in DOMAIN sockets |->
          IF sockets[k].state = "open"
          THEN [sockets[k] EXCEPT !.inbox = Append(@, [id |-> posts[p].id, snap |-> posts[p].snap])]
          ELSE sockets[k]]
    /\ UNCHANGED <<page, http, ws, wsSnap, intentional, timers, handle, mounts>>

ServerAlone == ServerNext /\ UNCHANGED <<page, http, wsVars, mounts>>

Next ==
    \/ ServerAlone
    \/ \E p \in Posters : Hear(p)
    \/ \E r \in Slots :
          \/ ReadRows(r) \/ CountRows(r) \/ ReadFails(r)
          \/ OnComments(r)
    \/ \E q \in asked : OnSnapshot(q)
    \/ \E k \in DOMAIN sockets : 
          Accept(k) \/ Lose(k) \/ OnMessage(k) \/ OnClose(k)
    \/ \E t \in timers : Retry(t)
    \/ \E s \in 1 .. Made : Mount(s)
    \/ Leave
    \/ LoadMore

Spec == Init /\ [][Next]_vars

-----------------------------------------------------------------------------
Read == [stage : {"free", "found", "rows", "answered"},
         kind : {"load", "more"}, snap : Nat, offset : Nat,
         rows : Seq(Comment), more : BOOLEAN]

Socket == [snap : Nat, state : {"connecting", "open", "lost", "closing", "closed"},
           inbox : Seq(Comment)]

\* A page answered without has_more has reached the oldest comment, although
\* comments are stored and snapshots deleted between its two statements: no
\* older comment is left that the button, now hidden, would have brought.
\* (Comments are committed in the order of their ids, see InsertComment.)
LastPageIsLast ==
    \A r \in Slots :
        LET a == reads[r]
        IN  a.stage = "answered" /\ ~a.more =>
               \A c \in comments :
                  c.snap = a.snap /\ (\E i \in DOMAIN a.rows : c.id < a.rows[i].id)
                     => \E i \in DOMAIN a.rows : a.rows[i] = c

\* While a snapshot's page is open, a socket opened for that snapshot is up or
\* on its way, or its close event or a reconnection is still to come --
\* whatever close events of earlier pages' sockets run in between.
ViewIsLive ==
    view # 0 =>
        \/ \E k \in DOMAIN sockets : sockets[k].snap = view /\ Live(k)
        \/ \E t \in timers : t.snap = view
=============================================================================
