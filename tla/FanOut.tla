------------------------------- MODULE FanOut -------------------------------
(***************************************************************************)
(* What a hub with a single broadcaster promises to its subscribers: each  *)
(* of them sees one contiguous part of the published stream, from the      *)
(* moment it subscribed, and a subscriber that cannot keep up is let go    *)
(* rather than given a stream with holes (hub.go:16-17 and 79-80).         *)
(***************************************************************************)
EXTENDS Naturals, Sequences

CONSTANT Clients

VARIABLES length,  \* how many payloads have been published
          sub,     \* "new", "on", "off" or "refused"
          start,   \* the length of the stream when a client subscribed
          got      \* what a client has received

fanOutVars == <<length, sub, start, got>>

Init ==
    /\ length = 0
    /\ sub = [c \in Clients |-> "new"]
    /\ start = [c \in Clients |-> 0]
    /\ got = [c \in Clients |-> <<>>]

Publish ==
    /\ length' = length + 1
    /\ UNCHANGED <<sub, start, got>>

Subscribe(c) ==
    /\ sub[c] = "new"
    /\ sub' = [sub EXCEPT ![c] = "on"]
    /\ start' = [start EXCEPT ![c] = length]
    /\ UNCHANGED <<length, got>>

Refuse(c) ==
    /\ sub[c] = "new"
    /\ sub' = [sub EXCEPT ![c] = "refused"]
    /\ UNCHANGED <<length, start, got>>

\* The position in the stream of the next payload c is owed.
NextFor(c) == start[c] + Len(got[c]) + 1

\* A subscriber that was let go may still find buffered payloads.
Deliver(c) ==
    /\ sub[c] \in {"on", "off"}
    /\ NextFor(c) <= length
    /\ got' = [got EXCEPT ![c] = Append(@, NextFor(c))]
    /\ UNCHANGED <<length, sub, start>>

LetGo(c) ==
    /\ sub[c] = "on"
    /\ sub' = [sub EXCEPT ![c] = "off"]
    /\ UNCHANGED <<length, start, got>>

Next ==
    \/ Publish
    \/ \E c \in Clients : Subscribe(c) \/ Refuse(c) \/ Deliver(c) \/ LetGo(c)

Spec == Init /\ [][Next]_fanOutVars
=============================================================================
