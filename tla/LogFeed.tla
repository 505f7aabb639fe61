------------------------------- MODULE LogFeed -------------------------------
(***************************************************************************)
(* Log events in the deployment of aws-microservices: the logs service     *)
(* keeps a ring of them and publishes them to its StreamRealtime calls,    *)
(* and the BFF reads one such call, broadcasts what it gets to its hub,    *)
(* and passes GetHistory on.                                               *)
(*                                                                         *)
(* An event is its number; the metrics service has the same parts.  The    *)
(* BFF's hub and pumps are the code of Hub and WsSession once more, where  *)
(* their interleavings are explored: here a broadcast is one step, and of  *)
(* the clients the one connection the page has is followed.                *)
(***************************************************************************)
EXTENDS Integers, Sequences, SequencesExt

CONSTANTS RingSize,   \* RING_SIZE, 30000 in the code
          Seeds,      \* SEED_COUNT
          ChanSize,   \* Subscribe(128)
          SendBuffer, \* sendBuffer, 64 in the code
          InFlight,   \* bound: messages in a connection
          MaxEvents,  \* bound: events made
          MaxFaults   \* bound: broken streams and connections, restarts

ASSUME LogFeedAssumption ==
    /\ {RingSize, ChanSize, SendBuffer, InFlight} \subseteq Nat \ {0}
    /\ {Seeds, MaxEvents, MaxFaults} \subseteq Nat

VARIABLES made,   \* how many events the generator has made
          ring,   \* the service's ring: buf, head and size
          ppc,    \* where runProducer is: "tick" or "publish"
          stream, \* the BFF's StreamRealtime: its channel and what is sent
          bridge, \* where runLogsBridge is: "open" or "recv"
          sock,   \* the page's connection: its state, what is in the BFF's
                  \* client and what is on its way
          faults  \* how much of the bound is used

feed == <<made, ring, ppc, stream, bridge>>

Fault == faults < MaxFaults /\ faults' = faults + 1

\* What arrives of what was sent on a connection that breaks.
Arrived(sent) == {SubSeq(sent, 1, n) : n \in 0 .. Len(sent)}

-----------------------------------------------------------------------------
(* Ring. *)

NewRing(n) == [buf |-> [k \in 0 .. n - 1 |-> 0], head |-> 0, size |-> 0]

\* Ring.Append
RingAppend(r, ev) ==
    [buf  |-> [r.buf EXCEPT ![r.head] = ev],
     head |-> (r.head + 1) % RingSize,
     size |-> IF r.size < RingSize THEN r.size + 1 ELSE r.size]

\* Mutant: the newest `limit' events start where the ring does.
Snapshot_FromZero(r, limit) ==
    LET n == IF limit > r.size THEN r.size ELSE limit
    IN  [k \in 1 .. n |-> r.buf[k - 1]]

\* Ring.Snapshot: the newest `limit' events, oldest first.
Snapshot(r, limit) ==
    LET n     == IF limit <= 0 \/ limit > r.size THEN r.size ELSE limit
        start == (r.head - n + RingSize) % RingSize
    IN  [k \in 1 .. n |-> r.buf[(start + k - 1) % RingSize]]

\* seedRing: a ring of the events after `from' up to `to', filled in a loop.
Seeded(from, to) ==
    LET filled[k \in 0 .. to - from] == IF k = 0 THEN NewRing(RingSize)
                                        ELSE RingAppend(filled[k - 1], from + k)
    IN  filled[to - from]

-----------------------------------------------------------------------------
(* The logs service. *)

NoStream == [up |-> FALSE, chan |-> <<>>, wire |-> <<>>]

FeedInit ==
    /\ made = Seeds
    /\ ring = Seeded(0, Seeds)
    /\ ppc = "tick"
    /\ stream = NoStream
    /\ bridge = "open"
    /\ faults = 0

\* runProducer: the event is in the ring before it is published.
Produce ==
    /\ ppc = "tick"
    /\ made < MaxEvents
    /\ made' = made + 1
    /\ ring' = RingAppend(ring, made + 1)
    /\ ppc' = "publish"
    /\ UNCHANGED <<stream, bridge, sock, faults>>

\* Broadcaster.Publish: a subscriber whose channel is full misses the event.
Publish ==
    /\ ppc = "publish"
    /\ ppc' = "tick"
    /\ stream' = IF stream.up /\ Len(stream.chan) < ChanSize
                 THEN [stream EXCEPT !.chan = Append(@, made)] ELSE stream
    /\ UNCHANGED <<made, ring, bridge, sock, faults>>

\* StreamRealtime: one event from the channel to the caller.
Send ==
    /\ stream.up /\ stream.chan # <<>>
    /\ Len(stream.wire) < InFlight
    /\ stream' = [stream EXCEPT !.chan = Tail(@), !.wire = Append(@, Head(stream.chan))]
    /\ UNCHANGED <<made, ring, ppc, bridge, sock, faults>>

\* The service restarts: another ring, with newly made seeds, and no streams.
\* Some of what was sent may still arrive.
RestartService ==
    /\ Fault
    /\ made + Seeds <= MaxEvents
    /\ made' = made + Seeds
    /\ ring' = Seeded(made, made')
    /\ ppc' = "tick"
    /\ \E kept \in Arrived(stream.wire) : stream' = [NoStream EXCEPT !.wire = kept]
    /\ UNCHANGED <<bridge, sock>>

-----------------------------------------------------------------------------
(* The BFF. *)

\* logsStreamOnce opens the one stream; Subscribe comes before any event.
OpenStream ==
    /\ bridge = "open"
    /\ bridge' = "recv"
    /\ stream' = [up |-> TRUE, chan |-> <<>>, wire |-> <<>>]
    /\ UNCHANGED <<made, ring, ppc, sock, faults>>

\* The stream breaks: its handler unsubscribes.
BreakStream ==
    /\ stream.up
    /\ Fault
    /\ \E kept \in Arrived(stream.wire) : stream' = [NoStream EXCEPT !.wire = kept]
    /\ UNCHANGED <<made, ring, ppc, bridge, sock>>

\* Recv fails: backoff, then another stream.
StreamEnds ==
    /\ bridge = "recv"
    /\ ~stream.up /\ stream.wire = <<>>
    /\ bridge' = "open"
    /\ UNCHANGED <<made, ring, ppc, stream, sock, faults>>

\* Hub.Broadcast: a client whose buffer is full is unregistered and told.
Broadcast(ev) ==
    sock' = IF sock.state # "open" THEN sock
            ELSE IF Len(sock.send) < SendBuffer
                 THEN [sock EXCEPT !.send = Append(@, ev)]
                 ELSE [sock EXCEPT !.state = "dropped"]

\* logsStreamOnce: the next event goes to every client.
Recv ==
    /\ bridge = "recv"
    /\ stream.wire # <<>>
    /\ stream' = [stream EXCEPT !.wire = Tail(@)]
    /\ Broadcast(Head(stream.wire))
    /\ UNCHANGED <<made, ring, ppc, bridge, faults>>

\* WSHandler: the upgrade, and Register.
Accept ==
    /\ sock.state = "connecting"
    /\ sock' = [sock EXCEPT !.state = "open"]
    /\ UNCHANGED <<feed, faults>>

\* writePump writes a message; its select may choose it over a closed done.
WritePump ==
    /\ sock.state \in {"open", "dropped"}
    /\ sock.send # <<>>
    /\ Len(sock.inbox) < InFlight
    /\ sock' = [sock EXCEPT !.send = Tail(@), !.inbox = Append(@, Head(sock.send))]
    /\ UNCHANGED <<feed, faults>>

\* writePump sees that done is closed, and closes the connection.
WriteDone ==
    /\ sock.state = "dropped"
    /\ sock' = [sock EXCEPT !.state = "lost", !.send = <<>>]
    /\ UNCHANGED <<feed, faults>>

\* The connection fails; readPump unregisters the client.
Lose ==
    /\ sock.state \in {"connecting", "open", "dropped"}
    /\ Fault
    /\ \E kept \in Arrived(sock.inbox) :
          sock' = [sock EXCEPT !.state = "lost", !.send = <<>>, !.inbox = kept]
    /\ UNCHANGED feed

\* The BFF restarts: no stream, no clients.
RestartBff ==
    /\ Fault
    /\ bridge' = "open"
    /\ stream' = NoStream
    /\ IF sock.state \in {"connecting", "open", "dropped"}
       THEN \E kept \in Arrived(sock.inbox) :
               sock' = [sock EXCEPT !.state = "lost", !.send = <<>>, !.inbox = kept]
       ELSE UNCHANGED sock
    /\ UNCHANGED <<made, ring, ppc>>

FeedNext ==
    \/ Produce \/ Publish \/ Send \/ RestartService
    \/ OpenStream \/ BreakStream \/ StreamEnds \/ Recv
    \/ Accept \/ WritePump \/ WriteDone \/ Lose \/ RestartBff

=============================================================================
