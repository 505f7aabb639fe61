----------------------------- MODULE Containers -----------------------------
(***************************************************************************)
(* The container metrics, end to end: cmd/collector reads the containers'  *)
(* counters from Docker and inserts a batch per cycle with a NOTIFY,       *)
(* watcher.RunContainers turns new batches into frames, and the page       *)
(* Containers (lib/containers.svelte.ts) draws what its history request    *)
(* and its socket bring.                                                   *)
(*                                                                         *)
(* Docker and PostgreSQL are external.  A batch is its rows, one per       *)
(* container; of its metrics only the bytes received since the previous    *)
(* reading are kept (the rate times the interval it is divided by), and    *)
(* only while the batch is under way: what is committed is added up in     *)
(* `counted'.  The times are numbered as the batches are committed.  All   *)
(* the series of a container get the same times, so one is kept, of times, *)
(* and one row stands for the container's metrics.                         *)
(***************************************************************************)
EXTENDS Integers, Sequences, FiniteSets

CONSTANTS Ids,        \* containers, by Docker's id
          MaxBytes,   \* bound: bytes a container receives
          MaxCycles,  \* bound: cycles of the collector
          MaxFaults,  \* bound: restarts of containers, collector and server
          Limit,      \* the rows a drain reads, 5000 in the code
          Cap,        \* SPARK_POINTS, 90 in the code
          MaxPoints,  \* max_points of the history, 240 in the code
          MaxStarts,  \* bound: visits of the page
          MaxSockets  \* bound: sockets ever opened

ASSUME ContainersAssumption ==
    /\ IsFiniteSet(Ids)
    /\ {MaxBytes, MaxCycles, MaxFaults, MaxStarts, MaxSockets} \subseteq Nat
    /\ {Limit, Cap, MaxPoints} \subseteq Nat \ {0}

VARIABLES docker,  \* per container, "up" or "gone", its counter and its total
          cpc,     \* where collectOnce is
          todo,    \* containers listed whose stats are still to come
          got,     \* the counters read in this cycle
          prev,    \* the collector's prev
          batch,   \* the bytes in this cycle's rows
          counted, \* history: the bytes in each container's committed rows
          table,   \* the rows of container_metrics by id: time and container
          notified, \* a NOTIFY the watcher has not consumed
          wpc,     \* where RunContainers is
          lastID,  \* how many rows are behind its lastID
          maxID,   \* the same for the rows the drain has read
          sent,    \* and for those it has broadcast
          started, \* the page is mounted: ~#stopped
          list,    \* per container the times in its series
          boots,   \* the history answers on their way
          sockets, \* every WebSocket opened, in order
          ws,      \* #ws: a position in sockets, or 0
          retry,   \* #retry is set
          used     \* how much of the bounds is used

collector == <<docker, cpc, todo, got, prev, batch, counted>>
pipeline == <<table, notified, wpc, lastID, maxID, sent>>
store == <<started, list, boots, sockets, ws, retry>>
vars == <<collector, pipeline, store, used>>

None == -1 \* a container a map has no entry for
NoEntries == [i \in Ids |-> None]
Entries(f) == {i \in Ids : f[i] # None}

Init ==
    /\ docker = [i \in Ids |-> [up |-> TRUE, rx |-> 0, total |-> 0]]
    /\ cpc = "idle" /\ todo = {} /\ got = NoEntries /\ prev = NoEntries /\ batch = NoEntries
    /\ counted = [i \in Ids |-> 0]
    /\ table = <<>> /\ notified = FALSE /\ wpc = "connect"
    /\ lastID = 0 /\ maxID = 0 /\ sent = 0
    /\ started = FALSE /\ list = [i \in Ids |-> <<>>] /\ boots = {}
    /\ sockets = <<>> /\ ws = 0 /\ retry = FALSE
    /\ used = [cycles |-> 0, faults |-> 0, starts |-> 0]

Fault ==
    /\ used.faults < MaxFaults
    /\ used' = [used EXCEPT !.faults = @ + 1]

-----------------------------------------------------------------------------
(* Docker. *)

Receive(i) ==
    /\ docker[i].up
    /\ docker[i].total < MaxBytes
    /\ docker' = [docker EXCEPT ![i].rx = @ + 1, ![i].total = @ + 1]
    /\ UNCHANGED <<cpc, todo, got, prev, batch, counted, pipeline, store, used>>

\* A restart keeps the id and resets the counters.
RestartContainer(i) ==
    /\ Fault
    /\ docker' = [docker EXCEPT ![i].up = TRUE, ![i].rx = 0]
    /\ UNCHANGED <<cpc, todo, got, prev, batch, counted, pipeline, store>>

StopContainer(i) ==
    /\ docker[i].up
    /\ Fault
    /\ docker' = [docker EXCEPT ![i].up = FALSE]
    /\ UNCHANGED <<cpc, todo, got, prev, batch, counted, pipeline, store>>

-----------------------------------------------------------------------------
(* cmd/collector: collectOnce, once per tick. *)

\* client.List: the running containers.  When it fails the cycle is over.
List ==
    /\ cpc = "idle"
    /\ used.cycles < MaxCycles
    /\ used' = [used EXCEPT !.cycles = @ + 1]
    /\ \E fails \in BOOLEAN :
          IF fails THEN UNCHANGED <<cpc, todo>>
          ELSE cpc' = "fetch" /\ todo' = {i \in Ids : docker[i].up}
    /\ UNCHANGED <<docker, got, prev, batch, counted, pipeline, store>>

\* client.Stats in a goroutine of its own: an error is as an empty name, and
\* the container is passed over in this cycle.
Stats(i) ==
    /\ cpc = "fetch"
    /\ i \in todo
    /\ todo' = todo \ {i}
    /\ \E fails \in BOOLEAN :
          /\ ~docker[i].up => fails
          /\ got' = IF fails THEN got ELSE [got EXCEPT ![i] = docker[i].rx]
    /\ UNCHANGED <<docker, cpc, prev, batch, counted, pipeline, store, used>>

\* dockerstats.Rate, times dt: 0 after a reset, and without a previous reading.
Bytes(i) == IF prev[i] = None \/ got[i] < prev[i] THEN 0 ELSE got[i] - prev[i]

\* Mutant: a container's first reading stays the one to compare with.
Gather_FirstReading ==
    /\ cpc = "fetch"
    /\ todo = {}
    /\ batch' = [i \in Ids |-> IF got[i] = None THEN None ELSE Bytes(i)]
    /\ prev' = [i \in Ids |-> IF prev[i] = None THEN got[i] ELSE prev[i]]
    /\ got' = NoEntries
    /\ cpc' = IF got = NoEntries THEN "idle" ELSE "send"
    /\ UNCHANGED <<docker, todo, counted, pipeline, store, used>>

\* wg.Wait returns.  prev keeps the readings of this cycle only: a container
\* that was not listed, or whose stats failed, loses its own.  Without rows
\* there is no batch.
Gather ==
    /\ cpc = "fetch"
    /\ todo = {}
    /\ batch' = [i \in Ids |-> IF got[i] = None THEN None ELSE Bytes(i)]
    /\ prev' = got
    /\ got' = NoEntries
    /\ cpc' = IF got = NoEntries THEN "idle" ELSE "send"
    /\ UNCHANGED <<docker, todo, counted, pipeline, store, used>>

\* One time for all the rows of a batch.
NextTime == IF table = <<>> THEN 1 ELSE table[Len(table)].t + 1

\* The rows of a batch, in the order Docker listed the containers: any.
Rows(S) == {r \in [1 .. Cardinality(S) -> [t : {NextTime}, id : S]] :
               \A i \in S : \E k \in DOMAIN r : r[k].id = i}

\* SendBatch: the rows and the NOTIFY commit together or not at all; prev is
\* what it is either way.  PostgreSQL keeps a NOTIFY for whoever listens.
Send ==
    /\ cpc = "send"
    /\ cpc' = "idle"
    /\ batch' = NoEntries
    /\ \/ /\ \E rows \in Rows(Entries(batch)) : table' = table \o rows
          /\ counted' = [i \in Ids |-> IF batch[i] = None THEN counted[i]
                                       ELSE counted[i] + batch[i]]
          /\ notified' = (notified \/ wpc # "connect")
       \/ UNCHANGED <<table, counted, notified>>
    /\ UNCHANGED <<docker, todo, got, prev, wpc, lastID, maxID, sent, store, used>>

\* The collector restarts with an empty prev.
RestartCollector ==
    /\ Fault
    /\ cpc' = "idle" /\ todo' = {}
    /\ got' = NoEntries /\ prev' = NoEntries /\ batch' = NoEntries
    /\ UNCHANGED <<docker, counted, pipeline, store>>

-----------------------------------------------------------------------------
(* watcher.RunContainers. *)

\* Acquire and LISTEN, then the drain before the first wait.
Connect ==
    /\ wpc = "connect"
    /\ wpc' = "drain"
    /\ notified' = FALSE
    /\ UNCHANGED <<collector, table, lastID, maxID, sent, store, used>>

WaitForNotification ==
    /\ wpc = "wait" /\ notified
    /\ wpc' = "drain"
    /\ notified' = FALSE
    /\ UNCHANGED <<collector, table, lastID, maxID, sent, store, used>>

\* The connection or a query fails: backoff, and connect again.
WatcherFails ==
    /\ wpc \in {"wait", "drain"}
    /\ wpc' = "connect"
    /\ notified' = FALSE
    /\ UNCHANGED <<collector, table, lastID, maxID, sent, store, used>>

\* drainContainers reads a page of at most Limit rows, once.
Query ==
    /\ wpc = "drain"
    /\ wpc' = "emit"
    /\ maxID' = IF Len(table) - lastID > Limit THEN lastID + Limit ELSE Len(table)
    /\ sent' = lastID
    /\ UNCHANGED <<collector, table, notified, lastID, store, used>>

\* The rows of the page with the next time.
NextRows == {n \in sent + 1 .. maxID : table[n].t = table[sent + 1].t}
NextFrame == [t |-> table[sent + 1].t, ids |-> {table[n].id : n \in NextRows}]

\* A frame per time of the page, in order, each to every socket that is
\* registered.
Broadcast ==
    /\ wpc = "emit"
    /\ sent < maxID
    /\ sent' = sent + Cardinality(NextRows)
    /\ sockets' = [k \in DOMAIN sockets |->
          IF sockets[k].state = "open"
          THEN [sockets[k] EXCEPT !.inbox = Append(@, NextFrame)] ELSE sockets[k]]
    /\ UNCHANGED <<collector, table, notified, wpc, lastID, maxID,
                   started, list, boots, ws, retry, used>>

\* lastID moves when all of the page has been broadcast.
DrainEnd ==
    /\ wpc = "emit"
    /\ sent >= maxID
    /\ wpc' = "wait"
    /\ lastID' = maxID
    /\ UNCHANGED <<collector, table, notified, maxID, sent, store, used>>

\* What a socket that is lost may be: some of what it was sent had arrived, the
\* rest of its inbox is lost with it.
Broken(k) ==
    {[state |-> "lost", inbox |-> SubSeq(sockets[k].inbox, 1, n)] :
        n \in 0 .. Len(sockets[k].inbox)}

\* The server restarts: initLastID reads MAX(id), or keeps 0 when it gives up;
\* every socket is lost.
RestartServer ==
    /\ Fault
    /\ wpc' = "connect" /\ notified' = FALSE /\ maxID' = 0 /\ sent' = 0
    /\ lastID' \in {Len(table), 0}
    /\ LET left == [k \in DOMAIN sockets |->
                      IF sockets[k].state \in {"connecting", "open"}
                      THEN Broken(k) ELSE {sockets[k]}]
       IN  sockets' \in {s \in [DOMAIN sockets -> UNION {left[k] : k \in DOMAIN sockets}] :
                            \A k \in DOMAIN sockets : s[k] \in left[k]}
    /\ UNCHANGED <<collector, table, started, list, boots, ws, retry>>

-----------------------------------------------------------------------------
(* ContainerStore. *)

Newest(s, n) == SubSeq(s, IF Len(s) > n THEN Len(s) - n + 1 ELSE 1, Len(s))

\* pushSeries
Push(s, t) == Append(Newest(s, Cap - 1), t)

\* #connect
OpenSocket ==
    /\ Len(sockets) < MaxSockets
    /\ sockets' = Append(sockets, [state |-> "connecting", inbox |-> <<>>])
    /\ ws' = Len(sockets) + 1

\* onMount: start, with the history request and the socket side by side.  It
\* looks at no socket that is there.
Start ==
    /\ ~started
    /\ used.starts < MaxStarts
    /\ used' = [used EXCEPT !.starts = @ + 1]
    /\ started' = TRUE
    /\ boots' = boots \cup {[asked |-> TRUE, rows |-> 0]}
    /\ OpenSocket
    /\ UNCHANGED <<collector, pipeline, list, retry>>

\* onDestroy: stop
Stop ==
    /\ started
    /\ started' = FALSE
    /\ retry' = FALSE
    /\ ws' = 0
    /\ sockets' = IF ws # 0 /\ sockets[ws].state # "closed"
                  THEN [sockets EXCEPT ![ws] = [state |-> "closing", inbox |-> <<>>]]
                  ELSE sockets
    /\ UNCHANGED <<collector, pipeline, list, boots, used>>

\* GET /api/containers/history: the rows in the table now.
History(b) ==
    /\ b.asked
    /\ boots' = (boots \ {b}) \cup {[asked |-> FALSE, rows |-> Len(table)]}
    /\ UNCHANGED <<collector, pipeline, started, list, sockets, ws, retry, used>>

\* The times of container i in the first n rows, in order.
Times(i, n) ==
    LET at == {k \in 1 .. n : table[k].id = i}
    IN  [r \in 1 .. Cardinality(at) |->
            table[CHOOSE k \in at : Cardinality({j \in at : j <= k}) = r].t]

\* downsample: every stride-th point, and always the last.
Downsample(s) ==
    LET stride == (Len(s) + MaxPoints - 1) \div MaxPoints
        every == [k \in 1 .. (Len(s) - 1) \div stride + 1 |-> s[(k - 1) * stride + 1]]
    IN  IF Len(s) <= MaxPoints THEN s
        ELSE IF every[Len(every)] = s[Len(s)] THEN every ELSE Append(every, s[Len(s)])

\* The points of container i in an answer that read the first n rows, as
\* many of them as the page keeps.
Bootstrapped(i, n) == Newest(Downsample(Times(i, n)), Cap)

Empty == \A i \in Ids : list[i] = <<>>

\* Mutant: the history replaces whatever is there.
Bootstrap_Always(b) ==
    /\ ~b.asked
    /\ boots' = boots \ {b}
    /\ list' = [i \in Ids |-> Bootstrapped(i, b.rows)]
    /\ UNCHANGED <<collector, pipeline, started, sockets, ws, retry, used>>

\* #bootstrap's answer seeds the list unless the stream has filled it.
Bootstrap(b) ==
    /\ ~b.asked
    /\ boots' = boots \ {b}
    /\ list' = IF Empty THEN [i \in Ids |-> Bootstrapped(i, b.rows)] ELSE list
    /\ UNCHANGED <<collector, pipeline, started, sockets, ws, retry, used>>

\* The history request fails.
BootstrapFails(b) ==
    /\ boots' = boots \ {b}
    /\ UNCHANGED <<collector, pipeline, started, list, sockets, ws, retry, used>>

\* The server registers the socket; onopen says so.
Accept(k) ==
    /\ sockets[k].state = "connecting"
    /\ sockets' = [sockets EXCEPT ![k].state = "open"]
    /\ UNCHANGED <<collector, pipeline, started, list, boots, ws, retry, used>>

\* The connection fails or the hub lets the client go.
Lose(k) ==
    /\ sockets[k].state \in {"connecting", "open"}
    /\ \E broken \in Broken(k) : sockets' = [sockets EXCEPT ![k] = broken]
    /\ UNCHANGED <<collector, pipeline, started, list, boots, ws, retry, used>>

\* onmessage: applyFrame, whichever socket it is.
OnMessage(k) ==
    /\ sockets[k].inbox # <<>>
    /\ LET frame == Head(sockets[k].inbox)
       IN  list' = [i \in Ids |-> IF i \in frame.ids THEN Push(list[i], frame.t) ELSE list[i]]
    /\ sockets' = [sockets EXCEPT ![k].inbox = Tail(@)]
    /\ UNCHANGED <<collector, pipeline, started, boots, ws, retry, used>>

\* Mutant: only the current socket's close schedules a retry.
OnClose_CurrentOnly(k) ==
    /\ sockets[k].state \in {"lost", "closing"} /\ sockets[k].inbox = <<>>
    /\ sockets' = [sockets EXCEPT ![k].state = "closed"]
    /\ ws' = 0
    /\ retry' = (retry \/ (started /\ ws = k))
    /\ UNCHANGED <<collector, pipeline, started, list, boots, used>>

\* onclose, of whichever socket: #ws is forgotten and, unless the page was
\* left for good, a retry is scheduled if none is.
OnClose(k) ==
    /\ sockets[k].state \in {"lost", "closing"} /\ sockets[k].inbox = <<>>
    /\ sockets' = [sockets EXCEPT ![k].state = "closed"]
    /\ ws' = 0
    /\ retry' = (retry \/ started)
    /\ UNCHANGED <<collector, pipeline, started, list, boots, used>>

Retry ==
    /\ retry
    /\ retry' = FALSE
    /\ OpenSocket
    /\ UNCHANGED <<collector, pipeline, started, list, boots, used>>

-----------------------------------------------------------------------------
Next ==
    \/ \E i \in Ids : Receive(i) \/ RestartContainer(i) \/ StopContainer(i) \/ Stats(i)
    \/ List \/ Gather \/ Send \/ RestartCollector
    \/ Connect \/ WaitForNotification \/ WatcherFails
    \/ Query \/ Broadcast \/ DrainEnd \/ RestartServer
    \/ Start \/ Stop \/ Retry
    \/ \E b \in boots : History(b) \/ Bootstrap(b) \/ BootstrapFails(b)
    \/ \E k \in DOMAIN sockets : Accept(k) \/ Lose(k) \/ OnMessage(k) \/ OnClose(k)

Spec == Init /\ [][Next]_vars

-----------------------------------------------------------------------------

\* The traffic in the table never exceeds the container's own: no byte is in
\* two rows, through failed readings, failed batches, stopped and restarted
\* containers and restarts of the collector.
NoByteTwice == \A i \in Ids : counted[i] <= docker[i].total

\* While the page is open a socket is up or on its way, or its close event or
\* a retry is still to come, whatever close events of earlier visits run.
PageIsLive ==
    started => \/ retry
               \/ \E k \in DOMAIN sockets : sockets[k].state \in {"connecting", "open", "lost"}
=============================================================================
