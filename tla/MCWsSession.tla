---------------------------- MODULE MCWsSession ----------------------------
(***************************************************************************)
(* Instances of WsSession for TLC, and the mapping of the hub to FanOut.   *)
(***************************************************************************)
EXTENDS WsSession, TLC

CONSTANT Leavers  \* bound: the sessions whose peer may leave

Subscription(c) ==
    CASE reg[c] = "new" -> "new"
      [] reg[c] = "rejected" -> "refused"
      [] reg[c] = "accepted" /\ c \in clients -> "on"
      [] OTHER -> "off"

Abstract == INSTANCE FanOut WITH
    length <- Len(published),
    sub    <- [c \in Clients |-> Subscription(c)],
    start  <- joined,
    got    <- taken

\* With one broadcaster (the metrics, container and log hubs: cmd/server
\* main.go starts one goroutine for each), what a write pump takes from its
\* client is a contiguous part of the stream, from the payload published next
\* after it registered; a client that falls behind is let go, not given a
\* stream with holes (hub.go:16-17 and 79-80).
ImplementsFanOut == Abstract!Spec

\* Bound: only the peers of Leavers leave.  For what happens in the hub that is
\* no loss: an expired deadline ends the pumps of a peer that is up in the same
\* ways, and what only a peer that is up allows, a relayed or a finished write,
\* stays possible.
BoundedNext == WsNext /\ \A c \in Clients \ Leavers : peer'[c] = "up"

BoundedSpec == WsInit /\ [][BoundedNext]_vars

StreamSpec == BoundedSpec /\ Fairness
=============================================================================
