-------------------------------- MODULE Hub --------------------------------
(***************************************************************************)
(* The in-memory fan-out of backend/internal/hub/hub.go.                   *)
(*                                                                         *)
(* A goroutine executes at most one hub call at a time.  Every step below  *)
(* is one critical section of Hub.mu or one channel operation, so the      *)
(* steps of several goroutines interleave exactly where the Go code lets   *)
(* them: between the snapshot of Broadcast and its sends, between two      *)
(* sends, between the `default' branch of a send and the Unregister it     *)
(* calls, and between the test and the close of Client.Close.              *)
(*                                                                         *)
(* A payload is the position of its Broadcast call in `published'.         *)
(***************************************************************************)
EXTENDS Integers, Sequences, FiniteSets

CONSTANTS Clients,       \* the *hub.Client values NewClient may allocate
          Goroutines,    \* the goroutines that call the hub
          Broadcasters,  \* those that call Broadcast
          Relays,        \* those that call BroadcastExcept
          MaxClients,    \* NewWithMax's limit
          Buffer,        \* the capacity of Client.send
          NoClient,      \* the target of a goroutine outside Unregister
          MaxMsgs        \* bound: how many Broadcast calls are made

ASSUME HubAssumption ==
    /\ Broadcasters \subseteq Goroutines
    /\ Relays \subseteq Goroutines
    /\ NoClient \notin Clients
    /\ MaxClients \in Nat \ {0}
    /\ Buffer \in Nat \ {0}
    /\ MaxMsgs \in Nat

VARIABLES clients,   \* Hub.clients
          send,      \* Client.send: the buffered payloads
          done,      \* Client.done is closed
          reg,       \* what Register answered: "new" before the call
          joined,    \* how many payloads were published before Register
          published, \* one record per Broadcast call, in snapshot order
          taken,     \* what has been received from Client.Send(), in order
          pc,        \* where a goroutine is in its hub call
          todo,      \* what is left of Broadcast's snapshot of the clients
          msg,       \* the payload being broadcast, 0 outside a broadcast
          target,    \* the client being unregistered
          crashed    \* a `close of closed channel' panic ended the process

calls == <<pc, todo, msg, target>>
hubVars == <<clients, send, done, reg, joined, published, taken, calls, crashed>>

HubInit ==
    /\ clients = {}
    /\ send = [c \in Clients |-> <<>>]
    /\ done = [c \in Clients |-> FALSE]
    /\ reg = [c \in Clients |-> "new"]
    /\ joined = [c \in Clients |-> 0]
    /\ published = <<>>
    /\ taken = [c \in Clients |-> <<>>]
    /\ pc = [p \in Goroutines |-> "idle"]
    /\ todo = [p \in Goroutines |-> {}]
    /\ msg = [p \in Goroutines |-> 0]
    /\ target = [p \in Goroutines |-> NoClient]
    /\ crashed = FALSE

-----------------------------------------------------------------------------
(* Registration. *)

Count == Cardinality(clients)

\* Mutant: the limit test is off by one.
Register_OffByOne(c) ==
    /\ reg[c] = "new"
    /\ Count <= MaxClients
    /\ clients' = clients \cup {c}
    /\ reg' = [reg EXCEPT ![c] = "accepted"]
    /\ joined' = [joined EXCEPT ![c] = Len(published)]
    /\ UNCHANGED <<send, done, published, taken, calls, crashed>>

\* NewClient, then Register: a fresh client enters the map.
Register(c) ==
    /\ reg[c] = "new"
    /\ Count < MaxClients
    /\ clients' = clients \cup {c}
    /\ reg' = [reg EXCEPT ![c] = "accepted"]
    /\ joined' = [joined EXCEPT ![c] = Len(published)]
    /\ UNCHANGED <<send, done, published, taken, calls, crashed>>

\* NewClient, then Register: ErrHubFull.
RegisterFull(c) ==
    /\ reg[c] = "new"
    /\ Count >= MaxClients
    /\ reg' = [reg EXCEPT ![c] = "rejected"]
    /\ UNCHANGED <<clients, send, done, joined, published, taken, calls, crashed>>

-----------------------------------------------------------------------------
(* Unregister: delete under the lock, then Client.Close without it. *)

CallUnregister(p, c) ==
    /\ pc[p] = "idle"
    /\ reg[c] = "accepted"
    /\ pc' = [pc EXCEPT ![p] = "delete"]
    /\ target' = [target EXCEPT ![p] = c]
    /\ UNCHANGED <<clients, send, done, reg, joined, published, taken, todo, msg, crashed>>

\* Unregister returns to the loop of Broadcast, or to its caller.
Return(p) ==
    /\ pc' = [pc EXCEPT ![p] = IF msg[p] # 0 THEN "fan" ELSE "idle"]
    /\ target' = [target EXCEPT ![p] = NoClient]

\* Mutant: Unregister returns without closing the client.
Delete_NoClose(p) ==
    /\ pc[p] = "delete"
    /\ clients' = clients \ {target[p]}
    /\ Return(p)
    /\ UNCHANGED <<send, done, reg, joined, published, taken, todo, msg, crashed>>

Delete(p) ==
    /\ pc[p] = "delete"
    /\ clients' = clients \ {target[p]}
    /\ pc' = [pc EXCEPT ![p] = "check"]
    /\ UNCHANGED <<send, done, reg, joined, published, taken, todo, msg, target, crashed>>

\* The select of Close: done is already closed, or it takes the default branch.
CloseCheck(p) ==
    /\ pc[p] = "check"
    /\ IF done[target[p]]
       THEN Return(p)
       ELSE pc' = [pc EXCEPT ![p] = "close"] /\ UNCHANGED target
    /\ UNCHANGED <<clients, send, done, reg, joined, published, taken, todo, msg, crashed>>

\* Mutant: Close waits until the client has read what is in its buffer.
CloseDone_Flush(p) ==
    /\ pc[p] = "close"
    /\ send[target[p]] = <<>>
    /\ ~done[target[p]]
    /\ done' = [done EXCEPT ![target[p]] = TRUE]
    /\ Return(p)
    /\ UNCHANGED <<clients, send, reg, joined, published, taken, todo, msg, crashed>>

\* close(c.done) in the default branch: a second close panics.
CloseDone(p) ==
    /\ pc[p] = "close"
    /\ IF done[target[p]]
       THEN crashed' = TRUE /\ UNCHANGED <<done, pc, target>>
       ELSE done' = [done EXCEPT ![target[p]] = TRUE] /\ Return(p) /\ UNCHANGED crashed
    /\ UNCHANGED <<clients, send, reg, joined, published, taken, todo, msg>>

-----------------------------------------------------------------------------
(* Broadcast and BroadcastExcept. *)

\* The snapshot of the map under RLock.
Snapshot(p, skip) ==
    /\ pc[p] = "idle"
    /\ Len(published) < MaxMsgs
    /\ published' = Append(published, [by |-> p, skip |-> skip])
    /\ msg' = [msg EXCEPT ![p] = Len(published) + 1]
    /\ todo' = [todo EXCEPT ![p] = clients \ skip]
    /\ pc' = [pc EXCEPT ![p] = "fan"]
    /\ UNCHANGED <<clients, send, done, reg, joined, taken, target, crashed>>

Broadcast(p) == Snapshot(p, {})

BroadcastExcept(p, sender) == Snapshot(p, {sender})

\* Mutant: the loops of all broadcasters share the variable of the payload.
TrySend_Shared(p, c) ==
    /\ pc[p] = "fan"
    /\ c \in todo[p]
    /\ Len(send[c]) < Buffer
    /\ send' = [send EXCEPT ![c] = Append(@, Len(published))]
    /\ todo' = [todo EXCEPT ![p] = @ \ {c}]
    /\ UNCHANGED <<clients, done, reg, joined, published, taken, pc, msg, target, crashed>>

\* Mutant: the send does not look at the capacity.
TrySend_Unbounded(p, c) ==
    /\ pc[p] = "fan"
    /\ c \in todo[p]
    /\ send' = [send EXCEPT ![c] = Append(@, msg[p])]
    /\ todo' = [todo EXCEPT ![p] = @ \ {c}]
    /\ UNCHANGED <<clients, done, reg, joined, published, taken, pc, msg, target, crashed>>

\* One iteration of the loop: c.send has room.
TrySend(p, c) ==
    /\ pc[p] = "fan"
    /\ c \in todo[p]
    /\ Len(send[c]) < Buffer
    /\ send' = [send EXCEPT ![c] = Append(@, msg[p])]
    /\ todo' = [todo EXCEPT ![p] = @ \ {c}]
    /\ UNCHANGED <<clients, done, reg, joined, published, taken, pc, msg, target, crashed>>

\* Mutant: the payload is skipped and the slow client is kept.
DropSlow_Skip(p, c) ==
    /\ pc[p] = "fan"
    /\ c \in todo[p]
    /\ Len(send[c]) = Buffer
    /\ todo' = [todo EXCEPT ![p] = @ \ {c}]
    /\ UNCHANGED <<clients, send, done, reg, joined, published, taken, pc, msg, target, crashed>>

\* One iteration of the loop: c.send is full, so h.Unregister(c) is called.
DropSlow(p, c) ==
    /\ pc[p] = "fan"
    /\ c \in todo[p]
    /\ Len(send[c]) = Buffer
    /\ todo' = [todo EXCEPT ![p] = @ \ {c}]
    /\ target' = [target EXCEPT ![p] = c]
    /\ pc' = [pc EXCEPT ![p] = "delete"]
    /\ UNCHANGED <<clients, send, done, reg, joined, published, taken, msg, crashed>>

\* The loop is over.
EndBroadcast(p) ==
    /\ pc[p] = "fan"
    /\ todo[p] = {}
    /\ msg' = [msg EXCEPT ![p] = 0]
    /\ pc' = [pc EXCEPT ![p] = "idle"]
    /\ UNCHANGED <<clients, send, done, reg, joined, published, taken, todo, target, crashed>>

-----------------------------------------------------------------------------
(* The consumer's side: a receive from Client.Send(). *)

Receive(c) ==
    /\ send[c] # <<>>
    /\ taken' = [taken EXCEPT ![c] = Append(@, Head(send[c]))]
    /\ send' = [send EXCEPT ![c] = Tail(@)]
    /\ UNCHANGED <<clients, done, reg, joined, published, calls, crashed>>

-----------------------------------------------------------------------------
\* What a goroutine does inside a hub call, once it is made.
Advance(p) ==
    \/ Delete(p)
    \/ CloseCheck(p)
    \/ CloseDone(p)
    \/ EndBroadcast(p)
    \/ \E c \in Clients : TrySend(p, c) \/ DropSlow(p, c)

HubNext ==
    /\ ~crashed
    /\ \/ \E c \in Clients : Register(c) \/ RegisterFull(c) \/ Receive(c)
       \/ \E p \in Goroutines, c \in Clients : CallUnregister(p, c)
       \/ \E p \in Broadcasters : Broadcast(p)
       \/ \E p \in Relays, c \in Clients : BroadcastExcept(p, c)
       \/ \E p \in Goroutines : Advance(p)

HubSpec == HubInit /\ [][HubNext]_hubVars
-----------------------------------------------------------------------------
Payload == 1..MaxMsgs

TypeOK ==
    /\ clients \subseteq Clients
    /\ send \in [Clients -> Seq(Payload)]
    /\ \A c \in Clients : Len(send[c]) <= Buffer
    /\ done \in [Clients -> BOOLEAN]
    /\ reg \in [Clients -> {"new", "accepted", "rejected"}]
    /\ joined \in [Clients -> 0..MaxMsgs]
    /\ published \in Seq([by : Goroutines, skip : SUBSET Clients])
    /\ Len(published) <= MaxMsgs
    /\ taken \in [Clients -> Seq(Payload)]
    /\ pc \in [Goroutines -> {"idle", "fan", "delete", "check", "close"}]
    /\ todo \in [Goroutines -> SUBSET Clients]
    /\ msg \in [Goroutines -> 0..MaxMsgs]
    /\ target \in [Goroutines -> Clients \cup {NoClient}]
    /\ \A p \in Goroutines : pc[p] \in {"delete", "check", "close"} <=> target[p] \in Clients
    /\ crashed \in BOOLEAN

\* A goroutine broadcasts exactly while it has a payload, and has a snapshot
\* left only then.
CallsOK ==
    \A p \in Goroutines :
        /\ pc[p] = "idle" => msg[p] = 0
        /\ pc[p] = "fan" => msg[p] # 0
        /\ msg[p] = 0 => todo[p] = {}
        /\ msg[p] <= Len(published)

\* The payloads a client has been handed, in order: received, then buffered.
Stream(c) == taken[c] \o send[c]

Handed(c) == {taken[c][k] : k \in DOMAIN taken[c]} \cup {send[c][k] : k \in DOMAIN send[c]}

\* The goroutines that have deleted c from the map and not yet left Close.
Closers(c) == {p \in Goroutines : pc[p] \in {"check", "close"} /\ target[p] = c}

\* Payload i is meant for c: it was broadcast after c registered, not by it.
Audience(c) == {i \in joined[c] + 1 .. Len(published) : c \notin published[i].skip}

\* Register never lets the map exceed the limit of NewWithMax (hub.go:61-70),
\* however many connections are opened while others are being dropped.
WithinCapacity == Count <= MaxClients

\* A client whose done channel is closed is out of the map for good, so no
\* later broadcast can fill the buffer of a connection that has been given up.
ClosedIsOut == \A c \in Clients : done[c] => c \notin clients

\* A client that left the map has been told so, or a goroutine is about to
\* tell it: its write pump cannot be left waiting on a hub that forgot it.
DroppedIsSignalled ==
    \A c \in Clients :
        reg[c] = "accepted" /\ c \notin clients => done[c] \/ Closers(c) # {}

\* A client that is still in the map has been handed every payload meant for
\* it, except those a broadcaster has yet to try and those of a client some
\* goroutine is about to delete: a slow client is dropped, never skipped
\* (hub.go:16-17, 79-80).
NoSilentLoss ==
    \A c \in clients : \A i \in Audience(c) :
        \/ i \in Handed(c)
        \/ \E p \in Goroutines : msg[p] = i /\ c \in todo[p]
        \/ \E p \in Goroutines : pc[p] = "delete" /\ target[p] = c

\* The payloads of one broadcaster reach a client in the order of its calls
\* and at most once, whatever the other broadcasters do meanwhile.
PerSenderFIFO ==
    \A c \in Clients : LET s == Stream(c) IN
        \A j, k \in DOMAIN s :
            j < k /\ published[s[j]].by = published[s[k]].by => s[j] < s[k]

\* Close is meant to be idempotent: hub_test.go:32 and :145-148 say that
\* neither a second Unregister nor a second Close panics.
NoPanic == ~crashed

\* Every call of Broadcast returns although no client ever reads (hub.go:79-80):
\* the broadcaster leaves the loop and the Unregister it makes in the loop.
BroadcastReturns == \A p \in Broadcasters : []<>(crashed \/ pc[p] = "idle")

=============================================================================
