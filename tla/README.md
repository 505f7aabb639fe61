# webgrapgh: formal models

TLA+ models of the webgrapgh dashboard: specifications of its components written
from the source, TLC configurations that check them on small instances, and
theorems about them checked by TLAPS. File and line references such as
`hub.go:51` are to the repository; Go paths without a directory name the only
file of that name under `backend/`, TypeScript and Svelte ones the only one under
`shared/` or `frontend-svelte/src/`, unless another one is given.

Contents: [the system](#the-system) · [inventory](#inventory) ·
[modules](#modules-and-how-they-correspond-to-the-code) ·
[runs](#runs) · [fairness](#fairness) · [proofs](#proofs) ·
[disagreements found](#where-the-code-and-its-documentation-disagree) ·
[observations](#other-behaviour-the-models-show) ·
[not modelled](#what-is-not-modelled) · [plan](#plan) · [tools](#running-it)

## The system

webgrapgh streams metrics, container statistics and log lines to browsers and
lets their users share snapshots, comments and a whiteboard.

```
 cmd/writer ──INSERT…;NOTIFY──┐                    ┌─ hub (metrics) ─┐
 cmd/seed ────COPY/TRUNCATE──▶│ PostgreSQL ─LISTEN▶ watcher          ├─ ws sessions ─▶ dataWorker ─SAB/messages─▶ bridge ─▶ charts
 cmd/collector ─INSERT;NOTIFY─┘      │             └─ hub (containers)┘              └▶ ContainerStore, AlertStore
                                     ├─ history / snapshots REST ─▶ snapshots.svelte.ts
 log generator ─▶ log store ─▶ hub (logs) ─▶ ws sessions
 canvas peers ◀─▶ canvas hub (relay) ◀─▶ whiteboardWorker (Yjs)
 comment handlers ─▶ snapshot hub ─▶ ws sessions
```

The server process (`cmd/server/main.go`) starts one goroutine per broadcaster,
two goroutines per websocket, and one per REST request. Everything that crosses
a process goes through PostgreSQL, a websocket or, in the browser, a worker's
messages and shared memory. `aws-microservices/` is a second deployment of the
same dashboard (gRPC services behind a BFF) with rings and hubs of its own.

## Inventory

For each component: its state; its operations; what is hard about it; what makes
it correct; the module that models it.

| component | state | operations | hard behaviour | correct when | module |
|---|---|---|---|---|---|
| hub (`internal/hub/hub.go`) | the map of clients, each client's bounded `send` channel and `done` channel | Register, Unregister, Close, Broadcast, BroadcastExcept, Count | the clients are snapshotted under the lock and used after it; a full buffer turns a send into an Unregister; Close tests and closes in two steps | a client gets everything published while it is in the map, in order and once, or is dropped and told so; the limit holds; a broadcaster never waits | `Hub`, `FanOut` |
| websocket sessions (`handler/ws.go`, `canvas.go`, `snapshots.go`) | a socket, a read pump, a write pump | accept, reject, read/relay, write, ping, leave | either pump, the peer, a deadline or the hub may end a session, in any order | both pumps end, the socket is closed and the place in the hub is free again | `WsSession` |
| metrics watcher (`internal/watcher/watcher.go`) | `lastID`, the backoff, a LISTEN connection, the batch of a drain | initLastID, loop, drain, reconnection | notifications lost while it is not connected; failures between any two steps; ids that commit out of order | each new row is streamed once, grouped by tick, in order; history is not | `Watcher` |
| writer (`cmd/writer`) | the generator | a tick: one batch, insert and NOTIFY | aborted and overlapping transactions | a tick is visible as a whole, then notified | `Watcher` |
| seed, Bulk (`cmd/seed`, `internal/db/db.go`) | none | TRUNCATE, COPY, SeedIfEmpty | a running watcher | charts have history, streaming goes on | `Watcher` (partly) |
| collector (`cmd/collector`, `internal/dockerstats`) | the previous counters of each container | collectOnce | one of several parallel fetches fails; containers come and go; counters restart | rates are of two samples of the same container, no byte counts twice | `Containers` |
| container watcher (`watcher/container.go`) | `lastID`, a LISTEN connection | drain by time | as the metrics watcher: a page may cut a batch | a frame has the rows of one time, frames go up in time | `Containers` |
| container store (`containers.svelte.ts`) | socket, series, retry timer | start, bootstrap, connect, stop | late callbacks of an old socket, late histories, frames lost with a socket | one socket or retry while started; the newest frame that arrived is shown | `Containers` |
| snapshots and comments, server (`handler/snapshots.go`, `db/snapshots.go`) | two tables, one hub for the comments of all snapshots | create, list, get, delete, comment | check, then write; cascade; events of concurrent comments | a stored comment is announced once; no comment without snapshot | `Snapshots` |
| retention (`db/retention.go`) | none | prune by age, then by number | a snapshot in use | caps hold, only old data goes | `Snapshots` (partly) |
| snapshot store (`snapshots.svelte.ts`) | lists, the current snapshot, a page of comments, a socket | load, create, delete, comment, more, connect | late responses, an event and a response of the same comment, close handlers of old sockets | what is shown belongs to what is selected; no comment that a socket brings is missed | `SnapshotViewer`, `SnapshotList` |
| log and BFF microservices (`aws-microservices/services/logs`, `bff`) | a ring with subscriber channels, a stream, a bridge, a hub | append, publish, subscribe, bridge | lossy channels, cancelled streams, reconnection | the last n events, in order | `LogFeed` |
| log store and generator (`internal/logs`) | a ring and an id counter | NewID, Append, Snapshot, SeedHistory | wrap-around | the last n entries in order | — (the ring of `LogFeed` is the same) |
| shared rings (`shared/ring.ts`) | typed arrays, head, size | push, slice | wrap-around, wanted > size | the last n points | `DataWorker`, `LogView` |
| history and downsampling (`db/db.go`, `db/container.go`, `handler/history.go`) | none | fetch, stride | boundaries of the stride | at most the number of points asked for, the newest included | `DataWorker`, `Containers` (partly) |
| data worker and bridge (`dataWorker.ts`, `bridgeCore.ts`) | rings, sockets, flush loops, double-buffered shared memory | load, connect, flush, kick, slices of logs, stop | two threads on one memory; history racing the live stream; reconnection | the frame a thread reads is one the other wrote | `DataWorker`, `LogView` |
| log tables (`LogTable.svelte`, `FilteredLogTable.svelte`) | the visible slice, the scroll position | scroll, refresh, pin, poll | answers of earlier ranges; totals of a full ring do not change | the slice shown is the current one | `LogView` |
| whiteboard (`frontend/workers/whiteboardWorker.ts`, `CanvasBoard.tsx`) | a Yjs document, a socket; the page's copy, tools, editor | draw, drag, edit, delete, batch, seed, merge | late joiners and reconnections on a relay without state; moves written late; a page ahead of its worker | replicas converge, the page settles on the document | `Whiteboard` |
| alerts, settings (`alerts.svelte.ts`, `settings.svelte.ts`) | rules, what fires, settings, localStorage | evaluate, edit, reset, save | edits between frames; two copies of everything, one of which may refuse a change silently | who breaches fires, since the breach began; a reload finds what was taken | `AlertStore`, `SettingsStore` |
| dashboard page and views (`App.svelte`, `router.svelte.ts`, `views/`) | the route, the mounted view, the worker's range | navigate, set a window, mount, draw, capture | views and App each send a range; late navigation events; frame handlers that remove themselves | the window shown is the one in force | `Dashboard`, `SnapshotList` |
| metrics microservice (`services/metrics`) | the same ring, broadcaster and bridge as for logs | the same | the same | the same | — |
| React and Solid front ends (`frontend/`, `frontend-solid/`) | views over the same worker and bridge | draw, select, scroll | as the Svelte one | as the Svelte one | whiteboard only |
| wiring and configuration (`cmd/server`, `internal/config`) | — | start everything | restart | who broadcasts to which hub | partly |

`PROJECT.json` lists the same components with their status, and under `hazards`
each place where one of these behaviours bites, with the property that covers it
or the reason none does.

## Modules and how they correspond to the code

| module | what it is |
|---|---|
| `Hub` | hub.go: its state, operations and properties |
| `FanOut` | the promise of a hub with one broadcaster to a subscriber (abstract specification) |
| `WsSession` | the handler and the two pumps of every websocket, composed with `Hub` |
| `Watcher` | writer, seed, PostgreSQL as they see it, and the metrics watcher |
| `DataWorker` | the browser: the data worker's path of metrics, the ring, the bridge and its charts |
| `Snapshots` | REST handlers, statements and retention of snapshots and comments |
| `SnapshotViewer` | a browser on snapshot pages, composed with `Snapshots` |
| `Containers` | Docker's counters → collector → table → watcher → socket → page |
| `LogFeed` | the logs service and the BFF |
| `LogView` | the worker's path of logs and the two tables, composed with `LogFeed` |
| `Whiteboard` | workers, pages and relay of the shared whiteboard |
| `AlertStore`, `SettingsStore`, `SnapshotList` | the stores of the dashboard, each extending the one before |
| `Dashboard` | router, views, frames and ranges, composed with the three stores |
| `MC*` | instances for TLC; `MCWsSession` has the refinement mapping to `FanOut`, `MCContainers` and `MCSnapshotViewer` add a history variable of what the page owes its user; a `BoundedSpec` is a specification with the bounds of its run |
| `*Proofs` | theorems and their proofs, one module per component (`WsSessionProofs` for the hub and the sessions) |

A definition named `X_Y` is a variant of `X` with a plausible bug; no
specification uses one.

Loops of the code over a sequence are functions on the naturals (`Seeded`,
`Pushed`), sorting is by rank (the position of an element is the number of those
before it: `Times`, `Listed`, `Pack`, `IdsOf`), and the heatmap's grid is a
function of columns to functions of cells. None needs a recursive operator, which
is what lets the proofs speak of them.

### Hub

A goroutine is in at most one hub call. Each action is one critical section of
`Hub.mu` or one channel operation, so goroutines interleave where the code lets
them and nowhere else. `pc[p]` is where goroutine `p` is:

| `pc` | code |
|---|---|
| `idle` | outside any call |
| `fan` | the loop of Broadcast over its snapshot (hub.go:88-95); `todo[p]` is what is left, `msg[p]` the payload |
| `delete` | Unregister, before the critical section (hub.go:73) |
| `check` | Close, before its `select` (hub.go:52) |
| `close` | in the `default` branch, before `close(c.done)` (hub.go:55) |

`Register`/`RegisterFull` are the two outcomes of the one critical section of
Register, with the NewClient before it. `Delete`, `CloseCheck` and `CloseDone`
are Unregister. `Snapshot` is the copy of the map under the read lock, shared by
Broadcast and BroadcastExcept; `TrySend` and `DropSlow` are the two cases of the
`select` of one iteration. Go iterates over a map in no fixed order, hence the
free choice of the client. `DropSlow` puts the broadcaster itself into
Unregister, and `Return` brings it back to its loop.

A payload is the position of its Broadcast call in the history variable
`published`, which also records who sent it and who was skipped; `joined` and
`taken` are history too (where a client joined the stream, what it received).
A close of a closed channel sets `crashed`, after which nothing moves: the panic
ends the process.

### WsSession

A session's read pump is the goroutine named after its client; its write pump makes no hub call.
`rpc` and `wpc` are where the two are. The actions follow the handler (`Accept`, `Reject`), the read
pump (`ReadRelay` for the canvas, `ReadError`, `ReadPumpExit`) and each case of the write pump's
`select` (`WriteTake`, `WriteDone`; the ping of the ticker's case matters only when it fails, which
`WriteError` includes). ws.go, canvas.go and snapshots.go hold three copies of the same handler;
they differ in the buffer, in the message type and in whether the read pump relays, which is the
constant `Relays`. The peer may leave at any time, and a read or a write may fail at any time even
if it has not: deadlines, resets and protocol errors end a pump the same way.

### Watcher

A row is its id and the rank of its tick; values and metric names distinguish
nothing. PostgreSQL is external: ids are taken from a sequence at the insertion,
rows become visible at the commit, a NOTIFY reaches the sessions that listen at
that moment. `Insert`, `Commit` and `Abort` are the writer's batch, which pgx
sends as one implicit transaction; `Seed` and `Truncate` are db.Bulk.

`wpc` is where the watcher is: `init` (initLastID), `connect` (Acquire, LISTEN),
`drain`, `emit` (between the query and the assignment of `lastID`), `wait`
(WaitForNotification), `backoff`. Any database call may fail, a connection may
end at any time, the pool may or may not hand back the connection that was
released with its unread notifications, and the process may be restarted at any
moment. `sent` is what this process gave to Hub.Broadcast, `old` the rows
committed when it started, then when it read MAX(id). drain skips a frame it cannot
marshal (watcher.go:141-145, container.go:124-128); json.Marshal refuses only what is
not finite, which the generator and the collector do not produce, so that branch is
left out.

The composition `Watcher` → `Hub` is by one call, `Broadcast`, whose effect does
not depend on the payload: `Hub` takes it from any goroutine in `Broadcasters`
at any time, so what holds there holds with the watcher as the caller.

### DataWorker

Two threads. The worker's handlers are atomic to one another (`Free`: no handler
is running), except that `flushFrameSAB` writes memory the main thread may read
meanwhile, so it is three actions: `FlushFrameSAB` decides what to write,
`WritePoint` writes one point, `PostTick` sends the message. Without isolation
the same flush is `FlushFrameTransfer`, atomic because nobody sees its fresh
arrays before the message. `inbox` and `ticks` are the messages of the two
directions, in order.

`LoadHistory`/`HistoryFails`, `Connect`, `Open`, `Closed` and `OnMetricMessage`
are the worker's sources; `Closed` contains the call of `scheduleReconnect`,
whose timer is the second alternative of `Connect`. The log history is awaited
together with the metric history, which is why `Connect` is a step of its own
after `LoadHistory`. `FetchHistory` is the server's downsampling; the response
may include a point that is committed and not yet broadcast, which then arrives
a second time, and points broadcast between the response and the registration
of the socket are missed.

All metrics are treated alike in every handler, so one stands for all. A point
is its time, and times are 1, 2, 3, ...; a window of `w` therefore shows
`w + 1` points when none is missing. `PushAll` is `pushPoint` for each point of
a sequence; `Frame` is `computeSlice` with the copying loop. `pushed` (every
point ever pushed) and `frames` (every frame posted, with the number of points
and the range it was made from) are history variables.

On the page, `view` is the frame whose arrays the chart holds. `Drawn` is what
the chart sees when it draws: with shared memory, what the slot contains *now*.
`isolated` is chosen initially and never changes.

What it does *not* claim: a page that is two flushes behind draws from a slot the
worker is writing. `KeptUpIsIntact` is about a page that has handled all ticks;
nothing in the code makes a slow page wait, and no comment says it would.

### Snapshots and SnapshotViewer

`Snapshots` has one step per database statement. POST of a comment is `LookUp` (or `Refuse`),
`InsertComment` — whose foreign key makes the insertion fail when the snapshot went meanwhile — and
`Announce`, the broadcast, which belongs to the viewer too (`Hear`). An id is taken and the row made
visible in the same step: that two concurrent POSTs may commit out of the order of their ids is left
out. Every deletion cascades (`Delete`): by a request, or by the two statements of the retention
(`PruneOld`, `PruneCap`). Ids come in the order of creation, so "newest" is "greatest id".

`SnapshotViewer` is one browser: `Mount` and `Leave` are the life of a SnapshotDetail with its
CommentThread. Its request for the snapshot (`current`, `loading`, `failed`) may fail although the
snapshot exists; a failure takes the CommentThread off the page, and with it "Load more", while
socket and comments go on. A request for comments is three steps on the server (`Request` looks the
snapshot up, `ReadRows` reads a page, `CountRows` the total that decides `has_more`) and one in the
browser (`OnComments`), so comments, deletions and other answers come between. Requests are in
`Slots`, and answers come in any order. `sockets` are all the WebSockets ever opened, in order; each
has a state and an inbox, because the handlers of an old socket still run when a new one is `_ws`. A
socket that is lost keeps what had arrived, any prefix of its inbox, and loses the rest (`Lose`):
what is in `Client.send` when the hub drops the client, or in flight, never arrives. `OnClose` is
the close handler with what it does to `_ws`, `_wsReconnectTimer` and the timers, which are named by
the socket whose close started them.

### Containers

One chain of three processes and a page. `List`, `Stats`, `Gather` and `Send` are
collectOnce: Docker's list, the parallel calls that succeed in any order, the end
of the wait with rates of what was read (`Bytes`, from the counters of the cycle
before), and the batch. A batch is a row per container with one time, in the order
Docker listed them, which may be any; a rate is kept as the bytes it stands for,
and what is committed is added up in `counted`, against Docker's own `total`.

`Connect`, `WaitForNotification` and `WatcherFails` are the loop of RunContainers.
A drain is several steps: `Query` reads a page of at most `Limit` rows up to
`maxID`, `Broadcast` sends the frame of the next time (`NextRows`, `NextFrame`), and
`DrainEnd` moves `lastID` when all of it is out. A page may end inside a batch, whose
rest is then a second frame of the same time. After a restart of the server the frames
that were not out yet are behind MAX(id), or, when initLastID gave up, all are sent again.

`Start`, `Stop`, `Bootstrap`, `OpenSocket`, `OnMessage`, `OnClose` and `Retry` are
the ContainerStore. A socket that is lost, by itself (`Lose`) or with the server
(`RestartServer`), keeps any prefix of its inbox and loses the rest (`Broken`). A container, the
collector, the server may restart and a call or connection may fail at any point
(`MaxFaults` together).

### LogFeed and LogView

`LogFeed` is the deployment of `aws-microservices`: the ring and the lossy
`Publish` of the logs service in its two steps (`ppc`: an event is in the ring
before the subscribers get it), StreamRealtime (`Send`), the BFF's bridge
(`OpenStream`, `Recv`, and its reconnection), its hub and pumps as one step per
event (their interleavings are `WsSession`'s subject; the code is the same), and
restarts of either service. A stream or a socket that breaks delivers any prefix of
what was on it (`Arrived`). `LogView` is the browser: history, socket and ring of
the data worker, the messages `logTotal`, `getLogs` and `logSlice`, and the two
tables. LogTable asks for a slice when its range or the total changes and when it
is scrolled; a scroll event comes after the assignment of scrollTop, and pins or
unpins the table (`OnScroll`). FilteredLogTable also polls (`Poll`). An event is
its number, a height is in rows.

### Whiteboard

Per peer a worker, and for some a page. The worker takes messages in order
(`OnMove`, `OnCommit`, `OnCreate`, ...), collects moves in `pending`, and writes
them when a timeout fires or an edit commits (`FlushPending`). `timeouts` counts
armed timeouts and `flushTimer` is the handle the code looks at; the two differ
after a commit. `SeedIfMissing` is the 500 ms timeout of the start. The page
moves a dragged shape in its own copy (`MoveDrag`) and keeps it when a frame
arrives during a drag (`ApplyFrame`); the actions `Down*`, `Move*`, `Up*`,
`DoubleClick`, `Type`, `CommitText`, ... are its handlers, one per tool.

The map of Yjs is external. A document is the set of transactions heard of
(`writes`) and the set of items deleted (`dead`), in whatever order they came: a
transaction waits for those it comes after (`Applied`), and a deletion for its
item. A key holds a chain of items: a write goes to the right of
the item its author saw, writes that saw the same one are ordered by author, and
the rightmost item is the value. An item is therefore named by the authors along
its chain, and the rightmost is the greatest name (`LeftOf`, `Rightmost`).

The relay is a queue for each ordered pair of peers, `net[q][p]` for what p sent
and q has not taken (`Relay`, `Send`). A message goes to the peers that are connected
when it is sent; the messages of one peer arrive in order, those of two peers in any
order, different for each receiver, which is what BroadcastExcept gives. A peer that connects asks the
others, and each of them answers with all it knows, through the
relay and so to everybody (`Deliver`). The vertical
axis, sizes and colours are left out; places are on a line.

### Dashboard and its stores

`AlertStore`, `SettingsStore` and `SnapshotList` are stores with operations and
no specification of their own; `Dashboard` is the page that calls them. localStorage
is a copy that may refuse every change (`Persist`, `Keep`) and may be closed to the
reading of a page that starts (`denied` in `Start`); the code ignores both, and so memory
and storage go apart. The history variables `rulesKept` and `settingsKept` tell whether
the last change was taken. A session
follows a *tour*, chosen initially, which bounds where the user goes, how often he
acts and which frames may come. `view` is the mounted component with its local
state (`NewView`); `Remount` destroys one and mounts another when a `hashchange`
event is handled, which is later than the change of the hash, and may read a
later hash. `toWorker` are the `setRange` messages under way. `Frame` is the
handler of App (alerts), of the view (`Shown`) and of the dialog (`Capture`), in
one event. The requests of `SnapshotList` are sent, served and answered in any order,
and may be lost before or after the server has done its part.

The heatmap multiplies by a scale it has rounded (`n / (hi - lo)`, heatmap.ts:30-35), so
a sample on an edge between two cells may be placed in the lower one: 49 between 0 and 5880
in 120 columns comes to column 0, not 1. `LowEdges` is the set of edges where this happens, any
set in the theorem, and three real ones in the run (`MCLowEdges`; the others there are exact).
Times and values are whole numbers, for which a sample beside an edge keeps its cell; other
doubles could be moved up as well. A column without samples
is not divided by its maximum (:51), and stays 0.

`Start` sends the range of the mounted view first and the default range last,
because a child's effects run before those of App: this is what `untouched` in
`RangeAgrees` is about (see the observations).

## Runs

| run | instance | question |
|---|---|---|
| `ws_stream` | 2 sessions, 1 place, 1 broadcaster, buffers of 1, 3 payloads, a peer that leaves, fairness | is the stream of each client contiguous (`ImplementsFanOut`), is the limit kept while a place changes hands, does every Broadcast return, to its caller, though nobody reads (`BroadcastReturns`), do ended sessions go (`EndedIsReaped`) and leave nothing behind (`NothingLeaks`) |
| `ws_relay` | 2 sessions with a place each, one of which relays, and another broadcaster, buffers of 1, 3 payloads | safety of the hub when several goroutines broadcast and drop at once, and `UsesHub`, that the sessions use the hub as `Hub` allows |
| `ws_panic` | 1 session, 1 broadcaster, 3 payloads | **violation**: two goroutines close one `done` channel |
| `watcher_stream` | 1 writer, 3 ticks of 2 rows, pages of 4, a seeded row, a truncation, 2 failures, 1 restart, fairness | is no row streamed twice, and no history; until cmd/seed touches the table, is no row passed over, are ticks whole and in order, and does every committed row get out as long as no backlog outgrows the page |
| `watcher_backlog` | 1 writer, 2 ticks of 2 rows, pages of 2, 1 failure, fairness | **violation**: what a page leaves of a backlog is not streamed |
| `watcher_two_writers` | 2 writers, 2 ticks of 1 row, no failure | **violation**: a row that commits late is skipped |
| `worker_frames` | ring of 2, frames of 1, 5 points, 1 range, 1 subscription, 1 failure, fairness | does the ring hold the last points, also of a longer history, is what a page that keeps up draws intact, is there one socket, is a lost one replaced, does a chart come to show the latest of what is in its range |
| `snapshot_pages` | a snapshot with a comment, a second one, a cap of 1, pages of 1, 2 visits, 2 sockets, 2 requests at once | does no comment outlive its snapshot, is a page said to be the last only if it is, has the view a socket or a retry, does a settled page show what was announced to its sockets and not lost with them |
| `containers_page` | 1 container, 1 byte, 3 cycles, pages of 1 row, series and history of 1 point, 2 visits, 3 sockets, 1 fault | is no byte counted twice, has the page a socket or a retry, does the series end with the last frame that arrived |
| `log_path` | rings of 3, 1 seeded event of 5, channels of 1, a viewport of 1 row, 2 actions, 1 fault | does the worker get a history without a gap and then events in order without repetition, does a settled table show the rows in view |
| `whiteboard` | up to 3 peers, 2 ids (one a seeded text), 2 places; eight casts | is a pending move always about to be written, does the page settle on the document, do documents converge |
| `dashboard` | 2 metrics, 3 ranges, up to 3 rules; seven tours of 1 to 6 acts and up to 3 frames, two of them with a localStorage that may refuse | do the rules that breach fire, and since when; is the window shown the worker's; is the right frame saved; does a reload find what is in force once a change was taken; is every sample of a heatmap counted once; is the list of snapshots the server's |

Why the bounds are enough:

- *Buffers of 1* make "full" reachable with one payload; the second drops the
  client. The real 64, 128 and 256 only put more equal states between empty and
  full: no guard tells apart two buffers that are neither.
- *MaxClients = 1 with two sessions* reaches rejection, a place that becomes
  free between a drop and its Close, and its reuse. `ws_relay` has room for both
  so that each goroutine may drop the other's client.
- *Three payloads*: the first fills the buffer, the second does not fit, and the third
  comes to a client that a wrong drop has left in the hub after the second, whose stream would
  then have a hole. In `ws_relay` two are of one sender, in either order with the other's.
- *Leavers*: only the peer of c1 leaves by itself in `ws_stream`, and none in `ws_relay`. A read
  or a write may fail at any time, with which sessions end in the same ways;
  what is cut is the order of several departures.
- *Three ticks of two rows*: one streamed, one being streamed, one arriving,
  each of them partly inserted. *Pages of four*: a backlog of all six rows is cut, at a tick,
  as 5000 is by ten rows a tick; `Limit = 2` with two ticks is enough for `watcher_backlog`.
  One seeded row or one truncation comes before, between or
  after the ticks; `Undisturbed` restricts what they break to the time before.
- *Two failures* hit two calls in a row, and the restart adds one at any point.
  `Attempts` is 1 or 2, not 5, so that initLastID giving up is reached.
- *A ring of 2 with histories of up to 5 points*: the history is asked for 2 points, gets 3 of 4 or
  5 (a stride of 2 or 3, and the newest appended), and wraps around the ring; points follow it.
  `MaxLive = 3` ends the stream of a worker that started early after three points, which wrap
  around as well. Frames of 1 have a stride of 2;
  a window of 1 starts inside the ring. Two flushes use both slots and the third reuses the first.
- *One subscription* may come before or after every flush, and *one range*
  before or after every point. *One failure* is a failed history request, a
  failed connection or a lost one.
- *A cap of one snapshot, two ever made*: the retention prunes the one on screen
  as soon as the other is created. Pages of one comment with two comments make
  the second request overlap the posting; two slots let two answers swap; two
  visits and two sockets let a close handler of the first run during the second, and
  a retry open a socket beside one that still has frames.
- *One container with one byte and three cycles*: the byte is before, between or after
  readings, and is counted in two rows if a reading that was compared with is compared with
  again, with a failed one in between or without. A series of one point tells at once
  whether an older one replaced the newest. `Limit = 1` leaves a batch behind whenever two
  are in the table. Three sockets are those of two visits
  and of a reconnection. `MaxWork = 4` of cycles, visits and faults together leaves out three
  cycles with more than one visit or fault, and two visits with a fault and more than one cycle;
  the counting of bytes has nothing to do with visits, and three cycles with a fault are there.
- *A log ring of 3 with 5 events* wraps around, in the service and in the
  worker; the first is seeded, so the history and the stream overlap; four more are
  published before and after a restart or a drop, of which one is the event that a
  full channel or buffer drops, and others come after it.
  `MaxWork = 4` of events, faults and actions together.
- *Two ids and one seeded text*: a shape each peer knows, and one it gets from the
  other or creates. Two places are a hit and a miss, and a drag. A lone page has 4
  or 5 inputs, which is press, move, release and an edit before or after; a page
  beside another peer has fewer, the peer's edits taking their place.
- *Tours* keep what cannot influence each other apart: rules are followed over
  three frames, views over two pages of every kind, the dialog over two frames
  and six acts, the heatmap over all series of two or three samples at times and values on
  and off the edges, exact ones and such as double arithmetic moves. A refusal of localStorage
  matters to the rules and the settings only, whose stores are followed over four acts (edits, a
  reset, reloads) with it.

In all runs `CHECK_DEADLOCK FALSE` is there because the bounds on payloads,
ticks, inputs and faults end every behaviour, as do the panic and the end of the page.

The deeper properties, in words: `ImplementsFanOut` relates what the write pump takes to the whole
history of Broadcast calls; `NoSilentLoss` says that a client still in the map has been given
everything meant for it unless a goroutine is about to; `DroppedIsSignalled` that a client no longer
in the map is closed or some goroutine is between Delete and the end of Close for it.
`NothingSkipped` says that everything at or below `lastID` is history or was broadcast, at every
moment, failures and restarts included; `AtMostOnce` that nothing was broadcast twice, which a
failure between the query and `lastID = maxID` would break if the two were in another order.
`LastPageIsLast` relates an answer to the table at a later time: no comment older than those of the
answer is left unless it is in it. `SettledPageSees` and `ShowsNewest` speak of a debt, a history
variable of the MC module: per socket, what was announced to it while the page was settled (nothing
asked that could replace what is shown) must be on screen or in that socket's inbox; for the
containers, the last frame that went to the page's only socket must be the end of the series once
the inboxes are empty. The debt ends when the frame is lost with its socket, when the page is left,
and when the page is no longer as described: comments are asked for, or a second socket is open
beside the containers' own. A close handler of an earlier socket, another socket of the comments'
page, a late history or a frame sent again do not cancel it. `ViewIsLive` and `PageIsLive` are the safety part of "the page comes back": there is
always a socket or a timer, whatever stale handlers do. `ShowsTheRing` compares the rows of a table
with the newest events pushed, for every scroll position. `ReloadKeeps` follows memory and
localStorage through refusals: once a change is taken, a reload finds all that is in force, also
what was refused before, because the stores are written whole. `GridIsDensity` counts every sample
once, in a cell it lies in or on an edge of, and asks of a column with samples a cell of density 1,
of one without the density 0. `Converged` speaks of peers whose edits were all made while their
socket was open, and of any order in which the relay reaches each of them; `SettledShows` of a page
that has had all its messages.

## Fairness

Three passing runs check liveness, `ws_stream`, `watcher_stream` and `worker_frames`, and one
violation, `watcher_backlog`, has its counterexample under fairness.

- `WsSession!Fairness`: every goroutine keeps running (weak fairness of its
  steps inside hub calls and of its own exit). A read fails once the socket is
  broken: the server's own Close makes it return at once, and pongWait bounds it
  when the peer is silent. A write ends: writeWait bounds it, and an idle write
  pump sends a ping that fails. The `Done` case of the write pump's select has
  strong fairness, because Go picks among ready cases at random: with the `Send`
  case ready again and again a ready `Done` is not passed over for ever. Nobody
  has to broadcast, connect or leave.
- `Watcher!FairSpec`: the watcher's goroutine runs (weak fairness of `Run`, its
  steps that succeed). Failures are finite by the bound, which is the
  assumption that the database comes back. Writers and faults have no fairness:
  a tick may stay uncommitted for ever.
- `DataWorker!Fairness`: an event loop serves every source it has, so the history
  request, the timeout, the opening of a socket, the flush interval, the messages
  of the main thread and those of the worker each have weak fairness. The server
  is reachable in the end, which is the bound on failures. No fairness for
  the stream, for failures, for users or for the arrival of a point.

The other modules state what must eventually happen as a safety property: what is
owed is on screen, in a queue, or behind a timer that is armed.

## Proofs

`tlapm` proves, for all values of the constants that satisfy the named `ASSUME`s
of the modules (any sets of clients, goroutines, containers, peers, finite or
not; any sizes of rings, slots, pages; any bounds):

| theorem | statement |
|---|---|
| `WsSessionProofs!TypeCorrect` | `HubSpec => [](TypeOK /\ CallsOK)` |
| `WsSessionProofs!Capacity` | `WithinCapacity` always |
| `WsSessionProofs!RemovalIsSignalled` | `ClosedIsOut` and `DroppedIsSignalled` always |
| `WsSessionProofs!NothingSilentlyLost` | `NoSilentLoss` always |
| `WsSessionProofs!SenderOrderKept` | `PerSenderFIFO` always |
| `WsSessionProofs!SessionsUseHub` | `WsSpec => UsesHub`: every step of the sessions is a step of the hub or leaves it alone, so the five theorems above hold of the sessions too |
| `WsSessionProofs!SessionsLeaveNothing` | `NothingLeaks` always |
| `WsSessionProofs!SessionsImplementFanOut` | `WsSpec => ImplementsFanOut`, if one goroutine is the only broadcaster and no session relays: every step is one of `FanOut` or leaves its state alone |
| `DataWorkerProofs!TypeCorrect` | `TypeOK` always |
| `DataWorkerProofs!RingKeepsTheLast` | `RingHoldsLast` always |
| `DataWorkerProofs!OneConnection` | `SocketXorTimer` always |
| `DataWorkerProofs!TwoSlotsSuffice` | `KeptUpIsIntact` always |
| `WatcherProofs!StreamedOnce` | `AtMostOnce` always |
| `WatcherProofs!HistoryIsNotReplayed` | `NoReplay` always |
| `WatcherProofs!OneWriterSkipsNothing` | `NothingSkipped` (of the time before seeding or truncation) always, if there is at most one writer |
| `WatcherProofs!OneWriterInOrder` | `TicksInOrder` always, under the same condition and if `Limit` is a multiple of `RowsPerTick` (5000 and 10 in the code) |
| `SnapshotProofs!CommentsHaveSnapshots` | `NoOrphans` always |
| `SnapshotProofs!PagesMissNone` | `LastPageIsLast` always |
| `SnapshotProofs!PageIsLive` | `ViewIsLive` always |
| `SnapshotProofs!SettledPageMissesNone` | `SettledPageSees` always |
| `ContainersProofs!CountsOnce` | `NoByteTwice` always |
| `ContainersProofs!PageStaysLive` | `PageIsLive` always |
| `ContainersProofs!NewestIsShown` | `ShowsNewest` always |
| `LogViewProofs!LogsKeepOrder` | `LogsInOrder` always |
| `LogViewProofs!TablesShowTheRing` | `ShowsTheRing` always |
| `WhiteboardProofs!MovesAreWritten` | `MoveIsTimed` always |
| `WhiteboardProofs!PagesSettle` | `SettledShows` always |
| `WhiteboardProofs!PeersConverge` | `Converged` always |
| `DashboardProofs!RangeFollowsView` | `RangeAgrees` always |
| `DashboardProofs!LoadFindsWhatIsKept` | `ReloadKeeps` always |
| `DashboardProofs!BreachingFires` | `FiringIsTrue` always |
| `DashboardProofs!SavesFirstFrame` | `CapturesFirstFrame` always |
| `DashboardProofs!ListFollowsServer` | `ListSettles` always |
| `DashboardProofs!HeatmapsCountRight` | `GridIsDensity` always |

How they go:

1. *Types of the hub.* `TypeOK` is not inductive by itself: that the payload a goroutine
   sends is a real one needs `CallsOK` (a goroutine in its loop has a payload,
   and one outside has none and no snapshot left). Their conjunction is.
2. *Capacity.* The map grows only in Register, by one client not in it, below
   the limit. The induction also carries that the map is finite, for the
   cardinality facts.
3. *Removal.* Neither half of the theorem is inductive. The strengthening is
   `OutInv`: clients in the map or closed were accepted by Register (`KnownOnly`,
   so a client that registers is not a closed one); a client between Delete and
   the end of Close is out of the map (`ClosingIsOut`, so the close that follows
   cannot hit a client inside); and the two properties themselves.
4. *No silent loss* is inductive relative to the type invariant: a new payload
   is in the broadcaster's own snapshot for each client of the map, a send moves
   the obligation from `todo` to the buffer, and a drop moves it to the
   goroutine about to delete the client.
5. *Sender order* (`SentInv`). What a client has in its stream precedes, in the order of
   the calls, whatever its sender still has to send it: the sender is out of its loop, past
   that client, or at a later call of its own. So what is appended is later than all that
   the same sender appended before. `MoveHead` shows that a take leaves the stream
   (taken and buffered) as it was.
6. *Sessions use the hub* is a step simulation: `Accept` is Register, `Reject` is
   RegisterFull, `ReadError` is CallUnregister, `ReadRelay` is BroadcastExcept,
   `WriteTake` is Receive, `InHubCall` is Advance, and all others stutter. *Nothing leaks*
   rests on it: a read pump that leaves is inside Unregister for its own client, or that call has
   returned and the client is closed (`LeavesByUnregister`), because even a Close that finds
   the channel closed returns after somebody closed it.
7. *The fan-out.* With one broadcaster and no relay (`SoleBroadcaster`) the stream of a client
   is contiguous from its registration, and reaches the last payload, or the one before it
   while the broadcaster still has the client to serve, unless it is dropping it (`StreamInv`).
   Each step then maps to `Publish`, `Subscribe`, `Refuse`, `Deliver`, `LetGo` or a stutter of `FanOut`.
8. *The ring of the worker* (`HoldsLast`). Of `n` points pushed, the head is at `n` modulo the
   capacity, and each of the last ones is in the place of its number modulo the capacity. For a
   response longer than the ring, the point that stays in a place is the last of those that were
   written there, by a greatest-element argument. *Types of the worker*: the two invariants
   below and `ControlInv` for the rest of the state.
9. *One connection* needs only that a worker that does not run has neither
   (`SocketInv`).
10. *Two slots suffice.* The property says nothing of ticks in flight or of a
    flush in progress, so it is far from inductive. `OutputInv` adds that the ticks
    in flight announce the last frames posted, one each, and the chart holds the
    frame before them (`DataWorkerProofs!TicksInOrder`); that the slot of the last generation
    holds the last frame point for point, and the other one the part of the
    frame in progress that is written (`SlotsHold`); and types (`OutputTypes`).
    When no tick is in flight the chart holds the last frame, whose slot is the
    one the worker does not write. That what is written is a sequence of points
    no longer than a slot goes back to `RingInv` (the ring contains numbers, its
    head is inside) and, for a range, to the existence of a first point in the
    window, by a least-element argument on the naturals.
11. *The watcher.* `DbInv`: the table and the open transactions are finite sets of
    rows below `nextId`. `StreamInv` follows one process: what it has sent is at
    or below `Reached` (`lastID`, or `maxID` while a batch is being sent), what is
    in the batch is above `lastID` and shares no row with what was sent; hence
    `AtMostOnce`, also with truncations that hand out the same ids again, because
    rows of one process's past stay behind `lastID`. `FreshInv` adds that history is
    behind `lastID` unless initLastID gave up. `OrderInv` is where one writer is
    needed: whatever is not committed has ids above everything committed and above
    `Reached`. A page that a LIMIT cut is a prefix of the backlog in the order of ids
    (`PageIsPrefix`, by a well-founded minimum), so what is left out is above `maxID`.
12. *Ticks in order.* In addition every tick of the table has all its rows, the ids follow the
    ticks (`TableTicks`), and neither `Reached` nor a page cuts a tick (`CutAt`): a page
    is all of the backlog, or as many rows as a number of whole ticks, and a prefix with that many rows
    ends where a tick does. What was sent is older than what is in the batch and than what is
    still to be read (`StreamTicks`).
13. *Snapshots.* `NoOrphans` is inductive: an insertion checks the foreign key in
    the same step, a deletion cascades. `ViewIsLive` needs that the store still
    wants the snapshot on screen (`Watching`: `wsSnap = view` and no intentional close), so
    that whichever close handler runs starts a timer for it, and that `_ws` names a
    socket there is.
14. *Pages of comments* (`ReadOK`). A page that was read is complete (nothing of its snapshot is
    older than its rows and missing), or its snapshot is gone, or there are more comments than its
    offset and rows, which the count will find: comments of a snapshot go only with the
    snapshot, and new ones are newer. That a page shorter than its limit is complete counts the
    ranks of the newest-first order. *The settled page*: what is due to a socket is on the screen or in
    that socket's inbox (`DueInv`). A close handler runs only when its inbox is empty, so it takes
    nothing with it; no answer replaces what is shown while the page is settled; and of an inbox that
    is cut by a loss either the prefix has the comment or it is no longer due.
15. *Containers.* `CountersInv` keeps, per container, room between what was counted and Docker's
    total for every reading the collector holds: the previous one, and the one of this cycle
    (`Room`). A restart of the container takes the counter to 0 and leaves the total, which is why
    the room is stated with differences. `PageIsLive` is as for the snapshots, with all sockets ever
    opened; a broken server breaks them all at once. `NewestInv`: a frame that is due was sent to a
    page that has one socket (`Alone`), and is the end of the series, no inbox having another of its
    container (`Arrived`), or is the last of the container's in an inbox (`OnItsWay`). A broadcast
    makes its own frame the last one, whichever rows the page of the drain had; a prefix of an inbox
    that has lost no frame of the container still ends with the one that is due, and one that has
    ends the debt; a history that comes late finds a series that is not empty, and is ignored.
16. *Logs in order* (`WayInv`). An event comes to the worker in five legs: the part of the
    stream's channel, the wire, the socket's buffer, the worker's inbox, and what was pushed after the
    history. Numbers go up along each leg and from a leg to the next, and none is above the
    last one published (`Ascends`, `UpTo`), so an event that moves on to the next leg, is lost
    with a leg or is published keeps the order. The history is a part of the service's ring, which holds
    the last numbers (`Holds`, shown once for any ring and used for both), and there is no
    socket before the history came or failed (`StartInv`). The seam is not part of it: an event
    may be in the history and come again from the stream.
17. *Tables show the ring.* `TotalInv`: totals on the way go up to the ring's size, and unless the
    worker is about to tell its size, that size is on the way or there; a table that has not asked since
    events came has an older total, or the ring is full. `AnswerInv`: the last request on the
    way is the one the table needs now (`Wanted`), or the last slice on the way, or the table's own if
    there is none, answers it. `ScrollInv`: with no scroll event to come the table is where its element is.
    That a slice is a part of what the ring holds (`SliceIs`) then gives the rows.
18. *Whiteboard.* `ThrottleInv`: a kept handle has an armed timeout, and a pending move a kept
    handle. The number of armed timeouts may be larger. `BoardInv`: the worker's board is the last
    frame on the way to the page, or is on the page but for the shapes whose moves are pending, on
    the way or in the user's hand (`Near`); the last status on the way, or the page's, tells whether
    the socket is open; the first message starts the worker; the canvas is painted or a drawing is
    scheduled. `KnowInv`, for convergence, while no edit is made off line and no socket fails: what
    anybody knows every online peer knows, or has in the queue of somebody who sent it, or gets with
    an answer to a question that somebody who knows it has not taken yet (`Spread`, `Told`); a queue
    has only what its sender knows (`Sincere`); and who is not online knows nothing (`Unmet`). The
    queues are one per pair, so each of the relay's orders is covered, and a loop over the receivers
    of a message (`Sent`) keeps the invariant at every receiver. With empty queues any two peers
    know the same, and the board is a function of what is known.
19. *Dashboard.* `Follows`: a view with a window was the last to send a range, `Coming` being the
    range the worker will have once its messages are taken; the shapes of views (`ViewShape`) and of
    settings are carried along, and the fact that Explore, when its path stays, is still mounted.
    `KeptInv` says that memory and localStorage agree if the last change was taken (`rulesKept`,
    `settingsKept`), also while no page is open: a change that is taken stores all of memory, and a
    page that could read what is stored has it in memory. `FiringInv` adds to `FiringIsTrue` that
    the history has one entry per frame, made of ids that were given out (`used`), so a rule that is
    added did not breach before. `CaptureInv` says that an open dialog without a frame was opened
    since the last one (`ModalInv`), and that every save under way, however late it is served,
    carries the frame that followed its opening (`RequestsInv`). `CalmInv`: in calm there is at most
    one request, and the cards are the server's snapshots up to what it does or did (`Settling`).
20. *The heatmap.* The bounds that `valueBounds` finds contain every sample and differ, so the cell
    of a sample contains it or has it on its upper edge, and is one of the grid's, clamped or not
    (`CellTouches`). Each sample is in one cell, so the counts of a column's cells are those of its
    samples (`Counted`); the density of a cell is its count over that of the fullest cell of its
    column (`Divided`), which exists because there are finitely many (`MostOf`), and which is not
    empty if a sample of the column is there.

The assumptions are what the code gives: capacities, page and buffer sizes are positive; `Limit` a
multiple of `RowsPerTick` only where it is said; the frames and the axis of the dashboard hold
integers, the edges in `LowEdges` are any; the ids of the whiteboard's shapes are finitely many, and
a seed has the fields of a shape.

Only model-checked: liveness (`BroadcastReturns`, `EndedIsReaped`,
`EventuallyStreamed`, `Reconnects`, `PaintsLatest`), since liveness under
fairness and ENABLED are out of the prover's reach. The three violations are
counterexamples of TLC's. Conversely `AtMostOnce` and `NoReplay` are checked with one writer, and
several are covered by their theorems.

## Where the code and its documentation disagree

Three are runs, with `expect: violation`:

- **Close is not idempotent under concurrency** (`ws_panic`). hub.go:51-57 tests
  `done` and closes it in two steps, and Unregister calls it outside the lock.
  A read pump that leaves while a broadcaster drops the same client closes it a
  second time, which panics. hub_test.go:32 and :148 say that a second
  Unregister or Close does not panic; the tests make the calls one after another.
  The BFF's hub.go has the same code.
- **Several writers** (`watcher_two_writers`). writer/main.go:7-8 says that
  writer instances can run side by side and the watcher sees every row. Ids are
  given out at the insertion and become visible at the commit: when the
  transaction with the larger ids commits first, drain moves `lastID` past the
  rows of the other one, and they are never streamed; this is the trace of the run.
  By another mechanism initLastID passes such a row with the MAX(id) it starts from
  (watcher.go:38); `NewRowsSeen` leaves that out, as it speaks of rows newer than all that was
  committed then. `OneWriterSkipsNothing` proves that a single writer is safe.
- **What a page leaves of a backlog** (`watcher_backlog`). watcher.go:89-90 says that drain reads
  every row with an id above `lastID`, and :1-2 that every new row is broadcast. drain reads at most 5000
  (:97) and is called once per connection and once per NOTIFY: with a longer backlog and no further
  NOTIFY, the rest is not streamed. `EventuallyStreamed` is the promise for backlogs
  that fit the page (`KeepsUp`). A writer that goes on sends the next NOTIFY a tick later.
  The drain of the containers has the same LIMIT (watcher/container.go:87).

The following showed in the models too; no run checks them, since a property of another kind
would be needed (a rate, a count) or the models' properties hold beside them:

- watcher.go:8-10 says that historical rows are not re-emitted, and the log line
  of watcher.go:39 that a failed initLastID "will retry". After five failures
  Run goes on with `lastID` 0 and nobody retries: the first drain streams
  history. `NoReplay` therefore speaks of processes in which initLastID has not
  given up.
- `seed --reset` (db.go:78-82) restarts the sequence of `metrics.id` under a running watcher, which keeps its
  `lastID`: new rows stay behind it until ids catch up, and are not streamed, against watcher.go:1-2. Rows that
  COPY has loaded wait for somebody else's NOTIFY. `Undisturbed` restricts three properties to the time before.
- whiteboardWorker.ts:160-162 says that the guard of seedIfMissing "prevents a late joiner from
  clobbering moves earlier peers already made". It guards against what was heard within the 500 ms:
  when the answer takes longer, deleted defaults come back and moves may be lost to the seed, on
  every peer. `Converged` holds of the result.
- whiteboardWorker.ts:23-25 says that the websocket sees at most 20 deltas a second. commit flushes
  and leaves the timeout armed, so the moves after it are written by that timeout or a second one,
  less than 50 ms apart, and every commit, creation and deletion is a delta of its own.
  `MoveIsTimed` is about a pending move being written at all.
- watcher.go:34-35 caps the backoff at 10 s; doubling a delay of 8 s gives 16 s.
- ring.ts:44-47 says that a slice has at most `maxRenderPoints` points, which
  holds. The downsampling of the server appends the newest point
  and may return one more than `max_points`: db.go:223-226 does not rule it
  out, container.go:59 ("to at most maxPoints") does. The worker copes by taking
  the end of the response.
- `services/metrics/ring.go:35` says "at most cap entries"; its Snapshot has the same
  stride and the same appended entry.
- containers.svelte.ts:77 says that `start` reuses an open socket; it opens one
  whenever it is called after `stop`. `PageIsLive` holds all the same.
- Settings.svelte:105 says that the default range is the initial window of the metrics
  page; DashboardGrid opens with 5 minutes. A page that was started there shows 5m
  while the worker has the default range, until the user picks a window:
  `RangeAgrees` excepts that grid (`untouched`).
- Explore.svelte:29-31 says `latest` is the slice of the selected metric; when the
  metric changes, the chart is painted from the slice of the one before, until
  the next frame.

## Other behaviour the models show

No doc says otherwise, so these are not findings; the properties are stated so that
they hold beside them.

- *Comments.* A comment may be shown twice: it is read by the list and announced afterwards, an
  announcement shifts the offset of the next page, or a socket of an earlier visit is still open.
  One that was announced is missed when the socket is lost with it, since a reconnection asks for no
  comments. A double click on "Load more" skips a page. An answer that was read before an event
  replaces what the event brought, and an answer for the previous snapshot is shown on the next one.
  A stale close handler sets `_ws` to null, after which the socket it named is never closed.
- *Containers.* The history is ignored once the stream has put a container in the list, and asked
  for by `start` only: frames lost with a socket leave a gap in the series. A page of the drain that
  ends inside a batch gives two frames of one time, and a watcher whose initLastID gave up sends
  history, which the series take as new points.
- *Logs.* LogTable asks again when the total changes; once the ring is full it does
  not, and the table stands still until it is scrolled (`ShowsTheRing` excepts
  it); FilteredLogTable polls and keeps up. The history and the stream of the
  microservices may overlap. GracefulStop of the logs service waits for its StreamRealtime handlers.
  The worker connects both sockets only after both histories have answered.
- *Whiteboard.* Edits made while the socket is down reach nobody before the next connection's
  exchange. A flush writes the whole shape as the worker knows it: beside a peer's deletion or
  change of text that it has not heard of, its transaction may win and bring the shape or the old
  text back on every board. Leaving the editor sends the text read when it opened, typed or not,
  over what a peer wrote meanwhile (CanvasBoard.tsx:533). Shapes are written whole, so concurrent
  edits of two fields of one shape keep one. The drawing closure of the first render never shows the
  selection (:142, :542). The first "connecting" is lost.
- *Dashboard.* The value shown with a firing alert is the one of the frame in which
  the set of firing rules last changed (alerts.svelte.ts:132). A rule that is
  disabled fires until the next frame. When localStorage refuses a change nobody is told, and
  a reload brings back what was stored before. Two tabs overwrite each other's
  localStorage. A snapshot records the default range, not the worker's window
  (SnapshotModal.svelte:33). The answer to a save closes the dialog also when it was
  reopened meanwhile (:86-90). Answers of overlapping lists and deletions bring back deleted
  cards or hide new ones (`ListSettles` is about requests that do not overlap), and a failed save
  hides the list. The heatmap keeps the old grid of a series that is gone.

## What is not modelled

- Parsing, encoding, HTTP and origin checks, metrics values and names, layout and
  drawing, configuration, generated gRPC code, CDK stacks, container files.
- The log store of the monolith and the metrics microservice: the same ring and
  broadcasters as `LogFeed`'s, with one appender each.
- The retention of metrics and container rows by age (nothing modelled reads rows that
  old), SeedIfEmpty, the query parameters and buckets of long histories.
- The React and Solid dashboards: charts and a log table over the same worker
  and bridge as the Svelte one. React's whiteboard is modelled.
- The demonstration in `aws-blocks/`, whose development writer and stores are a subset
  of the pipeline above.
- Websocket framing and the Go scheduler are represented by what they may do.

## Plan

Done: every component the table of the inventory names a module for, with one run
for each question and a proof module for each that has theorems.

What is left, in this order:

1. Abstract specifications: a register that holds the last frame for `DataWorker`, a
   log of which a reader gets an increasing subsequence for `LogFeed`.
2. The metrics microservice as a second instance of `LogFeed`.

## Running it

```
tlc -workers 2 -config WsStream.cfg MCWsSession.tla
tlapm WsSessionProofs.tla
```

Each run takes between half a minute and two minutes with two workers, and each
of the proof modules between half a minute and four.
