------------------------------- MODULE LogView -------------------------------
(***************************************************************************)
(* The logs in the browser, on top of LogFeed: the data worker's path of   *)
(* logs (dataWorker.ts, the LogRing of ring.ts), the bridge, and the view  *)
(* Logs, which shows either LogTable or, under a filter, FilteredLogTable. *)
(*                                                                         *)
(* The worker and the main thread are event loops that exchange messages   *)
(* in order.  Lengths and scroll positions are in rows.                    *)
(***************************************************************************)
EXTENDS LogFeed

CONSTANTS Capacity,    \* logBufferSize, 30000 in the code
          Viewport,    \* rows in the viewport
          Overscan,    \* LOG_OVERSCAN
          WindowCount, \* filter.windowCount
          MaxActs      \* bound: the user's actions, and polls

ASSUME LogViewAssumption ==
    /\ {Capacity, Viewport, WindowCount} \subseteq Nat \ {0}
    /\ {Overscan, MaxActs} \subseteq Nat

VARIABLES phase,    \* of the worker: "ask", "answer", "loaded" or "run"
          answer,   \* the history on its way
          timer,    \* connectLogs is scheduled
          logRing,  \* state.logRing
          logDirty, \* state.logDirty
          toMain,   \* logTotal and logSlice messages
          toWorker, \* getLogs messages
          logTotal, \* the controller's logTotal
          view,     \* "all" (LogTable) or "filtered"
          req,      \* requestIdSeq of the table on screen
          slice,    \* its slice or buffer
          top,      \* its scrollTop
          dom,      \* scrollEl.scrollTop
          moved,    \* a scroll event is pending
          pinned,   \* the table follows the end
          acts,     \* how much of the bound is used
          pushed,   \* history: every event pushed into logRing
          loaded,   \* history: how many of them came from GetHistory
          fresh     \* history: nothing was pushed since the table asked

worker == <<phase, answer, timer, logRing, logDirty, pushed, loaded>>
table == <<logTotal, view, req, slice, top, dom, moved, pinned>>
vars == <<feed, sock, faults, worker, table, toMain, toWorker, acts, fresh>>

NoSlice == [offset |-> 0, items |-> <<>>]
NoSocket == [state |-> "none", send |-> <<>>, inbox |-> <<>>]

Init ==
    /\ FeedInit
    /\ sock = NoSocket
    /\ phase = "ask" /\ answer = <<>> /\ timer = FALSE
    /\ logRing = NewRing(Capacity) /\ logDirty = FALSE
    /\ toMain = <<>> /\ toWorker = <<>>
    /\ logTotal = 0 /\ view = "all" /\ req = 0 /\ slice = NoSlice
    /\ top = 0 /\ dom = 0 /\ moved = FALSE /\ pinned = TRUE
    /\ acts = 0
    /\ pushed = <<>> /\ loaded = 0 /\ fresh = TRUE

Smaller(a, b) == IF a < b THEN a ELSE b
Larger(a, b) == IF a > b THEN a ELSE b

-----------------------------------------------------------------------------
(* The worker. *)

\* LogRing.push
Push(r, ev) ==
    [buf  |-> [r.buf EXCEPT ![r.head] = ev],
     head |-> (r.head + 1) % Capacity,
     size |-> IF r.size < Capacity THEN r.size + 1 ELSE r.size]

\* LogRing.slice
Slice(r, offset, limit) ==
    LET start == IF r.size < Capacity THEN 0 ELSE r.head
    IN  [k \in 1 .. Larger(0, Smaller(limit, r.size - offset)) |->
            r.buf[(start + offset + k - 1) % Capacity]]

\* The ring r after a loop that pushes all of evs.
Pushed(r, evs) ==
    LET filled[k \in 0 .. Len(evs)] == IF k = 0 THEN r ELSE Push(filled[k - 1], evs[k])
    IN  filled[Len(evs)]

PushAll(evs) ==
    /\ logRing' = Pushed(logRing, evs)
    /\ logDirty' = TRUE
    /\ pushed' = pushed \o evs
    /\ fresh' = (fresh /\ evs = <<>>)

\* loadLogHistory asks for as much as the ring holds.
GetHistory ==
    /\ phase = "ask"
    /\ phase' = "answer"
    /\ answer' = Snapshot(ring, Capacity)
    /\ UNCHANGED <<feed, sock, faults, timer, logRing, logDirty, pushed, loaded, table,
                   toMain, toWorker, acts, fresh>>

\* connectLogs
Connect == sock' = [NoSocket EXCEPT !.state = "connecting"]

LoadHistory ==
    /\ phase = "answer"
    /\ phase' = "loaded"
    /\ PushAll(answer)
    /\ answer' = <<>>
    /\ loaded' = Len(answer)
    /\ UNCHANGED <<feed, sock, faults, timer, table, toMain, toWorker, acts>>

HistoryFails ==
    /\ phase \in {"ask", "answer"}
    /\ Fault
    /\ phase' = "loaded"
    /\ answer' = <<>>
    /\ UNCHANGED <<feed, sock, timer, logRing, logDirty, pushed, loaded, table, toMain, toWorker,
                   acts, fresh>>

\* The history of the metrics is there, too: initialize opens the sockets,
\* whether the requests succeeded or not.
OpenLogs ==
    /\ phase = "loaded"
    /\ phase' = "run"
    /\ Connect
    /\ UNCHANGED <<feed, faults, answer, timer, logRing, logDirty, pushed, loaded, table, toMain,
                   toWorker, acts, fresh>>

\* onLogMessage
OnLogMessage ==
    /\ sock.inbox # <<>>
    /\ sock' = [sock EXCEPT !.inbox = Tail(@)]
    /\ PushAll(<<Head(sock.inbox)>>)
    /\ UNCHANGED <<feed, faults, phase, answer, timer, loaded, table, toMain, toWorker, acts>>

\* onclose, which comes after the messages: scheduleReconnect.
OnClose ==
    /\ sock.state = "lost" /\ sock.inbox = <<>>
    /\ sock' = NoSocket
    /\ timer' = TRUE
    /\ UNCHANGED <<feed, faults, phase, answer, logRing, logDirty, pushed, loaded, table,
                   toMain, toWorker, acts, fresh>>

Reconnect ==
    /\ timer
    /\ timer' = FALSE
    /\ Connect
    /\ UNCHANGED <<feed, faults, phase, answer, logRing, logDirty, pushed, loaded, table,
                   toMain, toWorker, acts, fresh>>

FlushLogTotal ==
    /\ logDirty
    /\ logDirty' = FALSE
    /\ toMain' = Append(toMain, [type |-> "logTotal", total |-> logRing.size])
    /\ UNCHANGED <<feed, sock, faults, phase, answer, timer, logRing, pushed, loaded, table,
                   toWorker, acts, fresh>>

HandleGetLogs ==
    /\ toWorker # <<>>
    /\ toWorker' = Tail(toWorker)
    /\ LET m == Head(toWorker)
       IN  toMain' = Append(toMain,
               [type |-> "logSlice", id |-> m.id, offset |-> m.offset,
                items |-> Slice(logRing, m.offset, m.limit)])
    /\ UNCHANGED <<feed, sock, faults, worker, table, acts, fresh>>

WorkerNext ==
    \/ GetHistory \/ LoadHistory \/ HistoryFails \/ OpenLogs
    \/ OnLogMessage \/ OnClose \/ Reconnect
    \/ FlushLogTotal \/ HandleGetLogs

-----------------------------------------------------------------------------
(* The tables. *)

\* startIndex and endIndex of LogTable, for a total and a scroll position.
StartIndex(total, pos) == Larger(0, pos - Overscan)
EndIndex(total, pos) == IF total = 0 THEN -1 ELSE Smaller(total - 1, pos + Viewport + Overscan)

Bottom(total) == Larger(0, total - Viewport)

GetLogs(id, offset, limit) == [id |-> id, offset |-> offset, limit |-> limit]

\* The effect that fetches LogTable's range.
RangeRequest(id, total, pos) ==
    GetLogs(id, StartIndex(total, pos), EndIndex(total, pos) - StartIndex(total, pos) + 1)

\* fetchWindow of FilteredLogTable.
WindowRequest(id, total) ==
    LET count == Smaller(total, WindowCount)
    IN  GetLogs(id, Larger(0, total - count), count)

Ask(requests) ==
    /\ toWorker' = toWorker \o requests
    /\ req' = req + Len(requests)
    /\ fresh' = (fresh \/ requests # <<>>)

\* LogTable is at another position: a scroll event follows.
ScrollTo(pos) ==
    /\ dom' = pos
    /\ moved' = (moved \/ pos # dom)

StayThere == UNCHANGED <<dom, moved>>

\* Mutant: a pinned table scrolls to its end without asking for its new range.
OnLogTotal_NoRequest ==
    /\ toMain # <<>> /\ Head(toMain).type = "logTotal"
    /\ toMain' = Tail(toMain)
    /\ LET t == Head(toMain).total
       IN  /\ logTotal' = t
           /\ IF t = logTotal THEN UNCHANGED <<toWorker, req, fresh>> /\ StayThere
              ELSE IF view = "filtered" THEN Ask(<<WindowRequest(req + 1, t)>>) /\ StayThere
              ELSE /\ UNCHANGED <<toWorker, req, fresh>>
                   /\ IF pinned THEN ScrollTo(Bottom(t)) ELSE StayThere
    /\ UNCHANGED <<feed, sock, faults, worker, view, slice, top, pinned, acts>>

\* The controller's logTotal.  Only another value makes the table ask for its
\* range or its window, and a pinned one scroll to the end.
OnLogTotal ==
    /\ toMain # <<>> /\ Head(toMain).type = "logTotal"
    /\ toMain' = Tail(toMain)
    /\ LET t == Head(toMain).total
       IN  /\ logTotal' = t
           /\ IF t = logTotal THEN UNCHANGED <<toWorker, req, fresh>> /\ StayThere
              ELSE IF view = "filtered" THEN Ask(<<WindowRequest(req + 1, t)>>) /\ StayThere
              ELSE /\ Ask(<<RangeRequest(req + 1, t, top)>>)
                   /\ IF pinned THEN ScrollTo(Bottom(t)) ELSE StayThere
    /\ UNCHANGED <<feed, sock, faults, worker, view, slice, top, pinned, acts>>

\* onLogSlice: only the latest request's answer counts.
OnLogSlice ==
    /\ toMain # <<>> /\ Head(toMain).type = "logSlice"
    /\ toMain' = Tail(toMain)
    /\ LET m == Head(toMain)
       IN  slice' = IF m.id = req THEN [offset |-> m.offset, items |-> m.items] ELSE slice
    /\ UNCHANGED <<feed, sock, faults, worker, toWorker, logTotal, view, req, top, dom, moved,
                   pinned, acts, fresh>>

\* onScroll, after the program or the user scrolled LogTable.
OnScroll ==
    /\ view = "all"
    /\ moved
    /\ moved' = FALSE
    /\ top' = dom
    /\ pinned' = (dom = Bottom(logTotal))
    /\ IF RangeRequest(0, logTotal, dom) = RangeRequest(0, logTotal, top)
       THEN UNCHANGED <<toWorker, req, fresh>>
       ELSE Ask(<<RangeRequest(req + 1, logTotal, dom)>>)
    /\ UNCHANGED <<feed, sock, faults, worker, toMain, logTotal, view, slice, dom, acts>>

Act ==
    /\ acts < MaxActs
    /\ acts' = acts + 1

\* The user scrolls LogTable, or jumps to the latest row.
Scroll ==
    /\ Act
    /\ view = "all"
    /\ \/ \E pos \in 0 .. Bottom(logTotal) : ScrollTo(pos) /\ pinned' = pinned
       \/ logTotal # 0 /\ ScrollTo(Bottom(logTotal)) /\ pinned' = TRUE
    /\ UNCHANGED <<feed, sock, faults, worker, toMain, toWorker, logTotal, view, req, slice,
                   top, fresh>>

\* FilteredLogTable asks twice a second.
Poll ==
    /\ Act
    /\ view = "filtered"
    /\ logTotal # 0
    /\ Ask(<<WindowRequest(req + 1, logTotal)>>)
    /\ UNCHANGED <<feed, sock, faults, worker, toMain, logTotal, view, slice, top, dom, moved,
                   pinned>>

\* A filter is set or cleared: the other table is mounted.  FilteredLogTable
\* asks when mounted and in an effect; LogTable asks and goes to the end.
Switch ==
    /\ Act
    /\ view' = IF view = "all" THEN "filtered" ELSE "all"
    /\ slice' = NoSlice /\ top' = 0 /\ pinned' = TRUE
    /\ LET requests == IF logTotal = 0 THEN <<>>
                       ELSE IF view = "all"
                            THEN <<WindowRequest(1, logTotal), WindowRequest(2, logTotal)>>
                            ELSE <<RangeRequest(1, logTotal, 0)>>
       IN  /\ toWorker' = toWorker \o requests
           /\ req' = Len(requests)
           /\ fresh' = TRUE
    /\ dom' = IF view = "filtered" THEN Bottom(logTotal) ELSE 0
    /\ moved' = (dom' # 0)
    /\ UNCHANGED <<feed, sock, faults, worker, toMain, logTotal>>

TableNext == OnLogTotal \/ OnLogSlice \/ OnScroll \/ Scroll \/ Poll \/ Switch

-----------------------------------------------------------------------------
\* What the services and the BFF do leaves the browser alone but for its socket.
Next ==
    \/ FeedNext /\ UNCHANGED <<worker, table, toMain, toWorker, acts, fresh>>
    \/ WorkerNext
    \/ TableNext

Spec == Init /\ [][Next]_vars

-----------------------------------------------------------------------------
\* What the worker takes from the history has no gap, and what its sockets bring
\* after it comes in the order in which it was made, none of that twice: through
\* full channels and buffers, broken streams and sockets, and restarts of the
\* service and the BFF.  (The seam is left out: when the socket is opened, events
\* that the history has, or older ones, may still be under way and come after it.)
LogsInOrder ==
    /\ \A k \in 1 .. loaded - 1 : pushed[k + 1] = pushed[k] + 1
    /\ \A k \in loaded + 1 .. Len(pushed) - 1 : pushed[k + 1] > pushed[k]

\* All messages are handled, and so is the scroll event.
Settled ==
    ~logDirty /\ toMain = <<>> /\ toWorker = <<>> /\ ~moved

\* The newest n of what the worker got.
Newest(n) == SubSeq(pushed, Len(pushed) - n + 1, Len(pushed))

\* eventAt
EventAt(k) == slice.items[k - slice.offset + 1]

\* Once everything is handled, LogTable shows in each row of its range the
\* event the worker has there, and the last row when it is pinned;
\* FilteredLogTable searches the newest events.  But a table that nothing
\* makes ask again shows what it had: only a full ring does that.
ShowsTheRing ==
    Settled =>
        /\ fresh \/ Len(pushed) > Capacity
        /\ fresh /\ view = "all" =>
              /\ \A k \in StartIndex(logTotal, top) .. EndIndex(logTotal, top) :
                    /\ k - slice.offset + 1 \in DOMAIN slice.items
                    /\ EventAt(k) = Newest(logTotal)[k + 1]
              /\ pinned => EndIndex(logTotal, top) = logTotal - 1
        /\ fresh /\ view = "filtered" =>
              slice.items = Newest(Smaller(logTotal, WindowCount))
=============================================================================
