----------------------------- MODULE DataWorker -----------------------------
(***************************************************************************)
(* The path of metric points through the browser: the data worker of       *)
(* shared/dataWorker.ts (history, socket, ring buffer, flush loop) and     *)
(* the bridge of shared/bridgeCore.ts that hands frames to the charts on   *)
(* the main thread.                                                        *)
(*                                                                         *)
(* The worker and the main thread run in parallel.  Each is an event loop: *)
(* a handler runs to its end before the next one starts.  They exchange    *)
(* messages in order and, when the page is isolated, share two slots of    *)
(* memory that the worker writes point by point.                           *)
(*                                                                         *)
(* All metrics take the same way together, so one of them stands for all.  *)
(* A point is its time; the server's stream is the points 1, 2, 3, ...     *)
(***************************************************************************)
EXTENDS Integers, Sequences, FiniteSets

CONSTANTS BufferSize,      \* the capacity of the ring buffer
          MaxRenderPoints, \* the most points of a frame, and a slot's size
          NoWindow,        \* setRange(null)
          Windows,         \* the other ranges a user may choose
          MaxPoints,       \* bound: points the server streams
          MaxRanges,       \* bound: calls of setRange
          MaxMounts,       \* bound: how often charts are mounted
          MaxDrops         \* bound: socket and history failures

ASSUME DataWorkerAssumption ==
    /\ BufferSize \in Nat \ {0}
    /\ MaxRenderPoints \in Nat \ {0}
    /\ Windows \subseteq Nat
    /\ NoWindow \notin Windows
    /\ {MaxPoints, MaxRanges, MaxMounts, MaxDrops} \subseteq Nat

VARIABLES streamed,  \* how many points the server has broadcast
          wire,      \* points on their way to the worker's socket
          phase,     \* of the worker: "loading", "loaded", "run" or "dead"
          sock,      \* state.wsMetrics: "none", "connecting" or "open"
          timer,     \* scheduleReconnect's timeout is pending
          buf,       \* the ring buffer's points
          head, size,
          dirty,     \* state.frameDirty
          windowMs,  \* state.windowMs
          isolated,  \* crossOriginIsolated: frames go through shared memory
          slots,     \* the shared slots A (1) and B (0)
          sabGen,    \* state.sabGen
          job,       \* the frame flushFrameSAB is writing: its points, and
                     \* how many are written
          inbox,     \* messages from the main thread to the worker
          ticks,     \* sabTick and frame messages to the main thread
          mounted,   \* a frame handler is subscribed
          view,      \* the frame the chart draws from, 0 for none
          range,     \* the range the user has chosen
          pushed,    \* every point pushed into the ring, in order
          frames,    \* every frame posted: its points and what it was made of
          used       \* how much of the bounds is used

server == <<streamed, wire>>
ring == <<buf, head, size, pushed>>
socket == <<phase, sock, timer>>
output == <<slots, sabGen, job, ticks, frames>>
main == <<mounted, view, range>>
vars == <<server, socket, ring, dirty, windowMs, isolated, output, inbox, main, used>>

NoJob == [pts |-> <<>>, done |-> 0]

Init ==
    /\ streamed \in 0..MaxPoints
    /\ wire = <<>>
    /\ phase = "loading" /\ sock = "none" /\ timer = FALSE
    /\ buf = [i \in 0..BufferSize - 1 |-> 0]
    /\ head = 0 /\ size = 0 /\ pushed = <<>>
    /\ dirty = FALSE
    /\ windowMs = NoWindow
    /\ isolated \in BOOLEAN
    /\ slots = [s \in 0..1 |-> [k \in 1..MaxRenderPoints |-> 0]]
    /\ sabGen = 0 /\ job = NoJob /\ ticks = <<>> /\ frames = <<>>
    /\ inbox = <<>>
    /\ mounted = FALSE /\ view = 0 /\ range = NoWindow
    /\ used = [ranges |-> 0, mounts |-> 0, drops |-> 0]

\* The worker's event loop is free to run a handler.
Free == phase # "dead" /\ job = NoJob

Fails ==
    /\ used.drops < MaxDrops
    /\ used' = [used EXCEPT !.drops = @ + 1]

-----------------------------------------------------------------------------
(* shared/ring.ts *)

\* Mutant: the size is not capped.
PushAll_Uncapped(pts) ==
    LET n == Len(pts)
        At(i) == {k \in 1..n : (head + k - 1) % BufferSize = i}
        Last(S) == CHOOSE k \in S : \A j \in S : j <= k
    IN /\ buf' = [i \in DOMAIN buf |-> IF At(i) = {} THEN buf[i] ELSE pts[Last(At(i))]]
       /\ head' = (head + n) % BufferSize
       /\ size' = size + n
       /\ pushed' = pushed \o pts

\* pushPoint, for each of pts.
PushAll(pts) ==
    LET n == Len(pts)
        At(i) == {k \in 1..n : (head + k - 1) % BufferSize = i}
        Last(S) == CHOOSE k \in S : \A j \in S : j <= k
    IN /\ buf' = [i \in DOMAIN buf |-> IF At(i) = {} THEN buf[i] ELSE pts[Last(At(i))]]
       /\ head' = (head + n) % BufferSize
       /\ size' = IF size + n < BufferSize THEN size + n ELSE BufferSize
       /\ pushed' = pushed \o pts

\* Mutant: the oldest point is always at the start of the array.
StartIdx_Zero == 0

StartIdx == IF size < BufferSize THEN 0 ELSE head

\* The i-th point of the ring from the oldest, counted from 0.
Read(i) == buf[(StartIdx + i) % BufferSize]

\* The first point of the window: not older than the newest by more than it.
StartOffset ==
    IF windowMs = NoWindow THEN 0
    ELSE CHOOSE i \in 0..size - 1 :
            /\ Read(i) >= Read(size - 1) - windowMs
            /\ \A j \in 0..i - 1 : Read(j) < Read(size - 1) - windowMs

CeilDiv(a, b) == (a + b - 1) \div b

\* computeSlice and the copying loop of a flush.
Frame ==
    LET from == StartOffset
        sliceSize == size - from
        stride == CeilDiv(sliceSize, MaxRenderPoints)
    IN [k \in 1..CeilDiv(sliceSize, stride) |-> Read(from + (k - 1) * stride)]

-----------------------------------------------------------------------------
(* The server, as the worker sees it. *)

\* The watcher broadcasts the next point; an open session receives it.
Stream ==
    /\ streamed < MaxPoints
    /\ streamed' = streamed + 1
    /\ wire' = IF sock = "open" THEN Append(wire, streamed + 1) ELSE wire
    /\ UNCHANGED <<socket, ring, dirty, windowMs, isolated, output, inbox, main, used>>

-----------------------------------------------------------------------------
(* History and socket. *)

\* db.FetchHistory, asked for at most BufferSize of n points: every stride-th
\* of them, and the last one in any case.
FetchHistory(n) ==
    LET stride == IF n > BufferSize THEN CeilDiv(n, BufferSize) ELSE 1
        sampled == [k \in 1..CeilDiv(n, stride) |-> 1 + (k - 1) * stride]
    IN IF n = 0 \/ sampled[Len(sampled)] = n THEN sampled ELSE Append(sampled, n)

\* loadMetricHistory: the newest point in the database may not have been
\* broadcast yet.  The ring takes the end of a response that is too long.
LoadHistory ==
    /\ Free
    /\ phase = "loading"
    /\ \E n \in {streamed, streamed + 1} \cap 0..MaxPoints :
        LET series == FetchHistory(n)
            start == IF Len(series) > BufferSize THEN Len(series) - BufferSize ELSE 0
        IN PushAll(SubSeq(series, start + 1, Len(series)))
    /\ dirty' = TRUE
    /\ phase' = "loaded"
    /\ UNCHANGED <<server, sock, timer, windowMs, isolated, output, inbox, main, used>>

HistoryFails ==
    /\ Free
    /\ phase = "loading"
    /\ Fails
    /\ phase' = "loaded"
    /\ UNCHANGED <<server, sock, timer, ring, dirty, windowMs, isolated, output, inbox, main>>

\* connectMetrics, once both histories are loaded or when the timer fires.
Connect ==
    /\ Free
    /\ \/ phase = "loaded"
       \/ timer
    /\ phase' = "run"
    /\ timer' = FALSE
    /\ sock' = "connecting"
    /\ UNCHANGED <<server, ring, dirty, windowMs, isolated, output, inbox, main, used>>

\* The server has registered the session, and onopen runs.
Open ==
    /\ Free
    /\ sock = "connecting"
    /\ sock' = "open"
    /\ wire' = <<>>
    /\ UNCHANGED <<streamed, phase, timer, ring, dirty, windowMs, isolated, output, inbox, main, used>>

\* Mutant: onclose does not schedule a reconnection.
Closed_NoRetry ==
    /\ Free
    /\ sock # "none"
    /\ Fails
    /\ sock' = "none"
    /\ wire' = <<>>
    /\ UNCHANGED <<streamed, phase, timer, ring, dirty, windowMs, isolated, output, inbox, main>>

\* Mutant: the retry starts while the closed socket is still in place.
Closed_KeepSocket ==
    /\ Free
    /\ sock # "none"
    /\ Fails
    /\ timer' = TRUE
    /\ UNCHANGED <<server, phase, sock, ring, dirty, windowMs, isolated, output, inbox, main>>

\* onclose, and scheduleReconnect: what was on its way is lost.
Closed ==
    /\ Free
    /\ sock # "none"
    /\ Fails
    /\ sock' = "none"
    /\ timer' = TRUE
    /\ wire' = <<>>
    /\ UNCHANGED <<streamed, phase, ring, dirty, windowMs, isolated, output, inbox, main>>

\* onMetricMessage
OnMetricMessage ==
    /\ Free
    /\ sock = "open"
    /\ wire # <<>>
    /\ PushAll(<<Head(wire)>>)
    /\ wire' = Tail(wire)
    /\ dirty' = TRUE
    /\ UNCHANGED <<streamed, socket, windowMs, isolated, output, inbox, main, used>>

-----------------------------------------------------------------------------
(* The flush loop. *)

Posted(pts) == Append(frames, [pts |-> pts, upTo |-> Len(pushed), win |-> windowMs])

\* flushFrame with nothing to draw: only the flag is reset.
FlushNothing ==
    /\ Free
    /\ dirty
    /\ size = 0
    /\ dirty' = FALSE
    /\ UNCHANGED <<server, socket, ring, windowMs, isolated, output, inbox, main, used>>

\* flushFrameTransfer: fresh arrays, handed over with the message.
FlushFrameTransfer ==
    /\ Free
    /\ ~isolated
    /\ dirty
    /\ size > 0
    /\ dirty' = FALSE
    /\ frames' = Posted(Frame)
    /\ ticks' = Append(ticks, [frame |-> Len(frames) + 1, size |-> Len(Frame)])
    /\ UNCHANGED <<server, socket, ring, windowMs, isolated, slots, sabGen, job, inbox, main, used>>

\* The loop stops at the end of the slot, should the frame be longer.
SlotFrame == IF Len(Frame) > MaxRenderPoints THEN SubSeq(Frame, 1, MaxRenderPoints) ELSE Frame

\* flushFrameSAB begins.
FlushFrameSAB ==
    /\ Free
    /\ isolated
    /\ dirty
    /\ size > 0
    /\ dirty' = FALSE
    /\ job' = [pts |-> SlotFrame, done |-> 0]
    /\ UNCHANGED <<server, socket, ring, windowMs, isolated, slots, sabGen, ticks, frames,
                   inbox, main, used>>

\* Mutant: the slot of the last generation is written again.
WritePoint_SameSlot ==
    /\ phase # "dead"
    /\ job.done < Len(job.pts)
    /\ slots' = [slots EXCEPT ![sabGen % 2][job.done + 1] = job.pts[job.done + 1]]
    /\ job' = [job EXCEPT !.done = @ + 1]
    /\ UNCHANGED <<server, socket, ring, dirty, windowMs, isolated, sabGen, ticks, frames,
                   inbox, main, used>>

\* The copying loop writes one more point of the other generation's slot.
WritePoint ==
    /\ phase # "dead"
    /\ job.done < Len(job.pts)
    /\ slots' = [slots EXCEPT ![(sabGen + 1) % 2][job.done + 1] = job.pts[job.done + 1]]
    /\ job' = [job EXCEPT !.done = @ + 1]
    /\ UNCHANGED <<server, socket, ring, dirty, windowMs, isolated, sabGen, ticks, frames,
                   inbox, main, used>>

\* The sabTick message ends the flush.
PostTick ==
    /\ phase # "dead"
    /\ job # NoJob
    /\ job.done = Len(job.pts)
    /\ sabGen' = sabGen + 1
    /\ ticks' = Append(ticks, [frame |-> sabGen + 1, size |-> Len(job.pts)])
    /\ frames' = Posted(job.pts)
    /\ job' = NoJob
    /\ UNCHANGED <<server, socket, ring, dirty, windowMs, isolated, slots, inbox, main, used>>

-----------------------------------------------------------------------------
(* Messages of the main thread. *)

\* Mutant: a kick is ignored.
OnMessage_NoKick ==
    /\ Free
    /\ inbox # <<>>
    /\ windowMs' = IF Head(inbox).type = "kick" THEN windowMs ELSE Head(inbox).windowMs
    /\ dirty' = (dirty \/ Head(inbox).type # "kick")
    /\ inbox' = Tail(inbox)
    /\ UNCHANGED <<server, socket, ring, isolated, output, main, used>>

\* setRange changes the window; both messages force a flush.
OnMessage ==
    /\ Free
    /\ inbox # <<>>
    /\ windowMs' = IF Head(inbox).type = "kick" THEN windowMs ELSE Head(inbox).windowMs
    /\ dirty' = TRUE
    /\ inbox' = Tail(inbox)
    /\ UNCHANGED <<server, socket, ring, isolated, output, main, used>>

-----------------------------------------------------------------------------
(* The bridge and the charts. *)

\* postMessage: a terminated worker gets nothing more.
Post(msg) == inbox' = IF phase = "dead" THEN inbox ELSE Append(inbox, msg)

\* onFrame: a chart subscribes and kicks the worker.
Mount ==
    /\ ~mounted
    /\ used.mounts < MaxMounts
    /\ mounted' = TRUE
    /\ view' = 0
    /\ Post([type |-> "kick", windowMs |-> NoWindow])
    /\ used' = [used EXCEPT !.mounts = @ + 1]
    /\ UNCHANGED <<server, socket, ring, dirty, windowMs, isolated, output, range>>

\* The function onFrame returned is called, and the chart is destroyed.
Unmount ==
    /\ mounted
    /\ mounted' = FALSE
    /\ view' = 0
    /\ UNCHANGED <<server, socket, ring, dirty, windowMs, isolated, output, inbox, range, used>>

SetRange ==
    /\ used.ranges < MaxRanges
    /\ \E w \in Windows \cup {NoWindow} :
        /\ range' = w
        /\ Post([type |-> "setRange", windowMs |-> w])
    /\ used' = [used EXCEPT !.ranges = @ + 1]
    /\ UNCHANGED <<server, socket, ring, dirty, windowMs, isolated, output, mounted, view>>

\* A sabTick or frame message: the handlers get views of the slot, which the
\* chart keeps and draws from until the next one.
Tick ==
    /\ ticks # <<>>
    /\ view' = IF mounted THEN Head(ticks).frame ELSE view
    /\ ticks' = Tail(ticks)
    /\ UNCHANGED <<server, socket, ring, dirty, windowMs, isolated, slots, sabGen, job, frames,
                   inbox, mounted, range, used>>

\* stop: the worker is terminated, wherever it is, with what it has to do.
Stop ==
    /\ phase # "dead"
    /\ phase' = "dead"
    /\ sock' = "none"
    /\ timer' = FALSE
    /\ wire' = <<>>
    /\ inbox' = <<>>
    /\ UNCHANGED <<streamed, ring, dirty, windowMs, isolated, output, main, used>>

-----------------------------------------------------------------------------
Worker ==
    \/ LoadHistory \/ HistoryFails \/ Connect \/ Open \/ Closed \/ OnMetricMessage
    \/ FlushNothing \/ FlushFrameTransfer \/ FlushFrameSAB \/ WritePoint \/ PostTick
    \/ OnMessage

Page == Mount \/ Unmount \/ SetRange \/ Tick \/ Stop

Next == Stream \/ Worker \/ Page

Spec == Init /\ [][Next]_vars

\* The event loops serve every source: the flush timer, the messages of the
\* other thread, the timeout of a reconnection, the socket.
Flush == FlushNothing \/ FlushFrameTransfer \/ FlushFrameSAB \/ WritePoint \/ PostTick

Fairness ==
    /\ WF_vars(LoadHistory)
    /\ WF_vars(Connect)
    /\ WF_vars(Open)
    /\ WF_vars(Flush)
    /\ WF_vars(OnMessage)
    /\ WF_vars(Tick)

FairSpec == Spec /\ Fairness
-----------------------------------------------------------------------------
Point == 0..MaxPoints
Message == [type : {"kick", "setRange"}, windowMs : Windows \cup {NoWindow}]

TypeOK ==
    /\ streamed \in Point
    /\ wire \in Seq(Point)
    /\ phase \in {"loading", "loaded", "run", "dead"}
    /\ sock \in {"none", "connecting", "open"}
    /\ timer \in BOOLEAN
    /\ buf \in [0..BufferSize - 1 -> Point]
    /\ head \in 0..BufferSize - 1
    /\ size \in 0..BufferSize
    /\ dirty \in BOOLEAN
    /\ windowMs \in Windows \cup {NoWindow}
    /\ isolated \in BOOLEAN
    /\ slots \in [0..1 -> [1..MaxRenderPoints -> Point]]
    /\ sabGen \in Nat
    /\ job \in [pts : Seq(Point), done : Nat]
    /\ job.done <= Len(job.pts)
    /\ Len(job.pts) <= MaxRenderPoints
    /\ inbox \in Seq(Message)
    /\ ticks \in Seq([frame : Nat, size : Nat])
    /\ mounted \in BOOLEAN
    /\ view \in Nat
    /\ range \in Windows \cup {NoWindow}
    /\ pushed \in Seq(Point)
    /\ frames \in Seq([pts : Seq(Point), upTo : Nat, win : Windows \cup {NoWindow}])
    /\ used \in [ranges : 0..MaxRanges, mounts : 0..MaxMounts, drops : 0..MaxDrops]

\* What the ring holds, read from its oldest point, is the last points that
\* were pushed, through wrap-around, a history longer than the ring and what is
\* streamed after it.
RingHoldsLast ==
    [i \in 1..size |-> Read(i - 1)] =
        SubSeq(pushed, Len(pushed) - size + 1, Len(pushed))

\* What the chart sees in the arrays it draws from.
Drawn ==
    [k \in 1..Len(frames[view].pts) |->
        IF isolated THEN slots[view % 2][k] ELSE frames[view].pts[k]]

\* A chart whose page has handled every tick draws from a slot the worker is
\* not writing, although nothing locks the slots and the chart keeps its views
\* for later redraws.
KeptUpIsIntact == ticks = <<>> /\ view # 0 => Drawn = frames[view].pts

\* The worker has a socket or is waiting to open one, never both or two.
SocketXorTimer == phase = "run" => (sock = "none" <=> timer)

\* A lost socket is replaced, as long as the server can be reached.
Reconnects == []<>(phase = "run" => sock = "open")

\* A mounted chart comes to show a frame made of all the points the worker has,
\* in the range the user has chosen, once these stop changing: also when it
\* subscribed after the last flush (bridgeCore.ts:209-211) and when no new point
\* arrives.  What of a long range the frame shows is computeSlice's sample.
ChartShows(n, w) ==
    view # 0 /\ frames[view].upTo = n /\ frames[view].win = w

PaintsLatest ==
    []<>(mounted /\ phase # "dead" /\ pushed # <<>> => ChartShows(Len(pushed), range))

=============================================================================
