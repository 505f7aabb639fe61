----------------------------- MODULE WsSession -----------------------------
(***************************************************************************)
(* The websocket sessions of backend/internal/handler: ws.go, and the      *)
(* copies of its handler and pumps in snapshots.go and canvas.go, composed *)
(* with the hub they share.  A session has two goroutines: the read pump,  *)
(* which is the goroutine of Hub named after its client, and the write     *)
(* pump, which makes no hub call and only receives.                        *)
(*                                                                         *)
(* The peer is whatever is at the other end of the socket.  It may leave,  *)
(* stall or break the connection at any time; the deadlines of the pumps   *)
(* (pongWait, writeWait) may also expire while it is still there.          *)
(***************************************************************************)
EXTENDS Hub

VARIABLES conn,  \* the server's end of the socket
          peer,  \* "up" until the peer stops answering
          rpc,   \* where the read pump is
          wpc    \* where the write pump is

wsVars == <<conn, peer, rpc, wpc>>
vars == <<hubVars, wsVars>>

ASSUME WsAssumption ==
    /\ Clients \subseteq Goroutines
    /\ Relays \subseteq Clients
    /\ Broadcasters \cap Clients = {}

WsInit ==
    /\ HubInit
    /\ conn = [c \in Clients |-> "none"]
    /\ peer = [c \in Clients |-> "up"]
    /\ rpc = [c \in Clients |-> "none"]
    /\ wpc = [c \in Clients |-> "none"]

\* No read or write on the socket can succeed any more.
Broken(c) == conn[c] = "closed" \/ peer[c] = "gone"

-----------------------------------------------------------------------------
(* The handler: Upgrade, NewClient, Register, and the two go statements. *)

Accept(c) ==
    /\ conn[c] = "none"
    /\ Register(c)
    /\ conn' = [conn EXCEPT ![c] = "open"]
    /\ rpc' = [rpc EXCEPT ![c] = "reading"]
    /\ wpc' = [wpc EXCEPT ![c] = "select"]
    /\ UNCHANGED peer

\* ErrHubFull: the close frame is written and the connection closed.
Reject(c) ==
    /\ conn[c] = "none"
    /\ RegisterFull(c)
    /\ conn' = [conn EXCEPT ![c] = "closed"]
    /\ UNCHANGED <<peer, rpc, wpc>>

\* The peer closes the tab, loses its network or stops reading.
PeerLeave(c) ==
    /\ conn[c] = "open"
    /\ peer[c] = "up"
    /\ peer' = [peer EXCEPT ![c] = "gone"]
    /\ UNCHANGED <<hubVars, conn, rpc, wpc>>

-----------------------------------------------------------------------------
(* readPump and canvasReadPump. *)

\* canvasReadPump: a binary message is relayed to everyone else.  A message
\* of another type, and any message of readPump, changes nothing.
ReadRelay(c) ==
    /\ rpc[c] = "reading"
    /\ ~Broken(c)
    /\ c \in Relays
    /\ BroadcastExcept(c, c)
    /\ UNCHANGED wsVars

\* Mutant: the read loop goes on after an error.
ReadError_Continue(c) ==
    /\ rpc[c] = "reading"
    /\ pc[c] = "idle"
    /\ UNCHANGED vars

\* Mutant: the deferred function does not call Unregister.
ReadError_NoUnregister(c) ==
    /\ rpc[c] = "reading"
    /\ pc[c] = "idle"
    /\ rpc' = [rpc EXCEPT ![c] = "leaving"]
    /\ UNCHANGED <<hubVars, conn, peer, wpc>>

\* Mutant: the deferred function calls client.Close, not hub.Unregister.
ReadError_CloseOnly(c) ==
    /\ rpc[c] = "reading"
    /\ pc[c] = "idle"
    /\ pc' = [pc EXCEPT ![c] = "check"]
    /\ target' = [target EXCEPT ![c] = c]
    /\ rpc' = [rpc EXCEPT ![c] = "leaving"]
    /\ UNCHANGED <<clients, send, done, reg, joined, published, taken, todo, msg, crashed>>
    /\ UNCHANGED <<conn, peer, wpc>>

\* ReadMessage fails: the deferred function calls Unregister.
ReadError(c) ==
    /\ rpc[c] = "reading"
    /\ CallUnregister(c, c)
    /\ rpc' = [rpc EXCEPT ![c] = "leaving"]
    /\ UNCHANGED <<conn, peer, wpc>>

\* Unregister has returned: conn.Close, and the pump is gone.
ReadPumpExit(c) ==
    /\ rpc[c] = "leaving"
    /\ pc[c] = "idle"
    /\ conn' = [conn EXCEPT ![c] = "closed"]
    /\ rpc' = [rpc EXCEPT ![c] = "exited"]
    /\ UNCHANGED <<hubVars, peer, wpc>>

-----------------------------------------------------------------------------
(* writePump and canvasWritePump: the select takes any ready case. *)

\* case msg := <-client.Send()
WriteTake(c) ==
    /\ wpc[c] = "select"
    /\ Receive(c)
    /\ wpc' = [wpc EXCEPT ![c] = "writing"]
    /\ UNCHANGED <<conn, peer, rpc>>

WriteOk(c) ==
    /\ wpc[c] = "writing"
    /\ ~Broken(c)
    /\ wpc' = [wpc EXCEPT ![c] = "select"]
    /\ UNCHANGED <<hubVars, conn, peer, rpc>>

\* WriteMessage fails, for a payload or for the ping of the ticker's case.
WriteError(c) ==
    /\ wpc[c] \in {"writing", "select"}
    /\ wpc' = [wpc EXCEPT ![c] = "leaving"]
    /\ UNCHANGED <<hubVars, conn, peer, rpc>>

\* case <-client.Done()
WriteDone(c) ==
    /\ wpc[c] = "select"
    /\ done[c]
    /\ wpc' = [wpc EXCEPT ![c] = "leaving"]
    /\ UNCHANGED <<hubVars, conn, peer, rpc>>

\* The deferred conn.Close, which also ends the read pump's ReadMessage.
WritePumpExit(c) ==
    /\ wpc[c] = "leaving"
    /\ wpc' = [wpc EXCEPT ![c] = "exited"]
    /\ conn' = [conn EXCEPT ![c] = "closed"]
    /\ UNCHANGED <<hubVars, peer, rpc>>

-----------------------------------------------------------------------------
ReadPump(c) == ReadRelay(c) \/ ReadError(c) \/ ReadPumpExit(c)

WritePump(c) ==
    WriteTake(c) \/ WriteOk(c) \/ WriteError(c) \/ WriteDone(c) \/ WritePumpExit(c)

InHubCall(p) == Advance(p) /\ UNCHANGED wsVars

WsNext ==
    /\ ~crashed
    /\ \/ \E c \in Clients :
            Accept(c) \/ Reject(c) \/ PeerLeave(c) \/ ReadPump(c) \/ WritePump(c)
       \/ \E p \in Broadcasters : Broadcast(p) /\ UNCHANGED wsVars
       \/ \E p \in Goroutines : InHubCall(p)

WsSpec == WsInit /\ [][WsNext]_vars

(***************************************************************************)
(* Every goroutine keeps running.  A read on a broken socket fails: at     *)
(* once when the server closed it, at the pongWait deadline when the peer  *)
(* is gone.  A write ends one way or the other: writeWait bounds it, and   *)
(* the ping of an idle write pump fails once the socket is broken.  Of the *)
(* select, Go only promises that a case that stays ready is not ignored    *)
(* for ever, which is strong fairness of its Done case: a full send buffer *)
(* keeps the Send case ready too.                                          *)
(***************************************************************************)
ReaderMoves(c) == (Broken(c) /\ ReadError(c)) \/ ReadPumpExit(c)

WriterMoves(c) ==
    \/ WriteTake(c)
    \/ WriteOk(c)
    \/ (Broken(c) \/ wpc[c] = "writing") /\ WriteError(c)
    \/ WritePumpExit(c)

Fairness ==
    /\ \A p \in Goroutines :
        WF_vars(~crashed /\ (InHubCall(p) \/ (p \in Clients /\ ReaderMoves(p))))
    /\ \A c \in Clients :
        /\ WF_vars(~crashed /\ WriterMoves(c))
        /\ SF_vars(~crashed /\ WriteDone(c))

FairWs == WsSpec /\ Fairness
-----------------------------------------------------------------------------

\* Both goroutines of a session have ended.
Reaped(c) == rpc[c] = "exited" /\ wpc[c] = "exited"

\* A session whose goroutines have ended left nothing behind: its socket is
\* closed, its client is out of the hub and its done channel is closed.
NothingLeaks ==
    \A c \in Clients :
        Reaped(c) => conn[c] = "closed" /\ c \notin clients /\ done[c]

\* A session whose peer has gone is reaped, even when the peer only went silent
\* and even when the write pump is busy with a full buffer; so is one whose
\* client was dropped, although its peer is healthy: Done ends the write pump,
\* whose conn.Close ends the read pump.
EndedIsReaped ==
    []<>(crashed \/ \A c \in Clients :
            wpc[c] # "none" /\ (peer[c] = "gone" \/ done[c]) => Reaped(c))

\* Every step of the sessions is a step of the hub, called in the ways Hub
\* allows, or leaves the hub alone.
UsesHub == HubSpec

=============================================================================
