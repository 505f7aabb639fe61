-------------------------- MODULE WsSessionProofs --------------------------
(***************************************************************************)
(* Theorems about Hub and WsSession, for every number of clients and       *)
(* goroutines, every buffer size and every limit.                          *)
(*                                                                         *)
(* The sessions use the hub as Hub describes it, so every theorem about    *)
(* the hub holds of the composition as well; and a hub that only one       *)
(* goroutine broadcasts to keeps the promise of FanOut.                    *)
(***************************************************************************)
EXTENDS MCWsSession, TLAPS, FiniteSetTheorems, SequenceTheorems

-----------------------------------------------------------------------------
(* The hub.                                                                 *)

\* The shape of the state and of the calls in progress.
TypeInv == TypeOK /\ CallsOK

LEMMA InitTypeInv == HubInit => TypeInv
<1> SUFFICES ASSUME HubInit PROVE TypeInv
  OBVIOUS
<1>1. /\ send \in [Clients -> Seq(Payload)]
      /\ taken \in [Clients -> Seq(Payload)]
      /\ \A c \in Clients : Len(send[c]) <= Buffer
  BY HubAssumption DEF HubInit
<1>2. published \in Seq([by : Goroutines, skip : SUBSET Clients]) /\ Len(published) = 0
  BY DEF HubInit
<1>3. /\ msg \in [Goroutines -> 0..MaxMsgs]
      /\ joined \in [Clients -> 0..MaxMsgs]
      /\ Len(published) <= MaxMsgs
  BY <1>2, HubAssumption DEF HubInit
<1>4. TypeOK
  BY <1>1, <1>2, <1>3, HubAssumption DEF HubInit, TypeOK
<1>5. CallsOK
  BY <1>2 DEF HubInit, CallsOK
<1>6. QED
  BY <1>4, <1>5 DEF TypeInv

\* Receiving keeps the buffer a sequence of payloads, and no longer.
LEMMA TailOfSend ==
    ASSUME TypeInv, NEW c \in Clients, send[c] # <<>>
    PROVE  /\ Head(send[c]) \in Payload
           /\ Tail(send[c]) \in Seq(Payload)
           /\ Len(Tail(send[c])) <= Buffer
<1>1. send[c] \in Seq(Payload) /\ Len(send[c]) <= Buffer
  BY DEF TypeInv, TypeOK
<1>2. QED
  BY <1>1, HeadTailProperties, HubAssumption

LEMMA RegisterTypeInv ==
    ASSUME TypeInv, NEW c \in Clients, Register(c) \/ RegisterFull(c)
    PROVE  TypeInv'
<1>1. Len(published) \in 0..MaxMsgs
  BY HubAssumption DEF TypeInv, TypeOK
<1>2. CASE Register(c)
  <2>1. joined' \in [Clients -> 0..MaxMsgs]
    BY <1>1, <1>2 DEF TypeInv, TypeOK, Register
  <2>2. QED
    BY <1>2, <2>1 DEF TypeInv, TypeOK, CallsOK, Register, calls
<1>3. CASE RegisterFull(c)
  BY <1>3 DEF TypeInv, TypeOK, CallsOK, RegisterFull, calls
<1>4. QED
  BY <1>2, <1>3

LEMMA ReceiveTypeInv ==
    ASSUME TypeInv, NEW c \in Clients, Receive(c)
    PROVE  TypeInv'
<1>1. taken' \in [Clients -> Seq(Payload)]
  BY TailOfSend DEF TypeInv, TypeOK, Receive
<1>2. send' \in [Clients -> Seq(Payload)] /\ \A d \in Clients : Len(send'[d]) <= Buffer
  BY TailOfSend DEF TypeInv, TypeOK, Receive
<1>3. QED
  BY <1>1, <1>2 DEF TypeInv, TypeOK, CallsOK, Receive, calls

LEMMA SnapshotTypeInv ==
    ASSUME TypeInv, NEW p \in Goroutines, NEW skip \in SUBSET Clients, Snapshot(p, skip)
    PROVE  TypeInv'
<1>1. /\ published' \in Seq([by : Goroutines, skip : SUBSET Clients])
      /\ Len(published') = Len(published) + 1
      /\ Len(published') <= MaxMsgs
  BY HubAssumption DEF TypeInv, TypeOK, Snapshot
<1>2. msg' \in [Goroutines -> 0..MaxMsgs]
  BY <1>1, HubAssumption DEF TypeInv, TypeOK, Snapshot
<1>3. TypeOK'
  BY <1>1, <1>2, HubAssumption DEF TypeInv, TypeOK, Snapshot
<1>4. CallsOK'
  BY <1>1, HubAssumption DEF TypeInv, TypeOK, CallsOK, Snapshot
<1>5. QED
  BY <1>3, <1>4 DEF TypeInv

\* Unregister returns.
LEMMA ReturnTypeInv ==
    ASSUME TypeInv, NEW p \in Goroutines, Return(p),
           done' \in [Clients -> BOOLEAN], crashed' \in BOOLEAN,
           UNCHANGED <<clients, send, reg, joined, published, taken, todo, msg>>
    PROVE  TypeInv'
<1>1. TypeOK'
  BY HubAssumption DEF TypeInv, TypeOK, Return
<1>2. CallsOK'
  BY DEF TypeInv, TypeOK, CallsOK, Return
<1>3. QED
  BY <1>1, <1>2 DEF TypeInv

LEMMA UnregisterTypeInv ==
    ASSUME TypeInv, NEW p \in Goroutines,
           \/ \E c \in Clients : CallUnregister(p, c)
           \/ Delete(p)
           \/ CloseCheck(p)
           \/ CloseDone(p)
    PROVE  TypeInv'
<1>1. CASE \E c \in Clients : CallUnregister(p, c)
  BY <1>1, HubAssumption DEF TypeInv, TypeOK, CallsOK, CallUnregister
<1>2. CASE Delete(p)
  BY <1>2, HubAssumption DEF TypeInv, TypeOK, CallsOK, Delete
<1>3. CASE CloseCheck(p)
  <2>1. CASE Return(p)
    BY <1>3, <2>1, ReturnTypeInv DEF CloseCheck, TypeInv, TypeOK
  <2>2. CASE pc' = [pc EXCEPT ![p] = "close"] /\ UNCHANGED target
    BY <1>3, <2>2, HubAssumption DEF TypeInv, TypeOK, CallsOK, CloseCheck
  <2>3. QED
    BY <1>3, <2>1, <2>2 DEF CloseCheck
<1>4. CASE CloseDone(p)
  <2>1. done' \in [Clients -> BOOLEAN] /\ crashed' \in BOOLEAN
    BY <1>4 DEF TypeInv, TypeOK, CloseDone
  <2>2. CASE Return(p)
    BY <1>4, <2>1, <2>2, ReturnTypeInv DEF CloseDone
  <2>3. CASE UNCHANGED <<pc, target>>
    BY <1>4, <2>1, <2>3 DEF TypeInv, TypeOK, CallsOK, CloseDone
  <2>4. QED
    BY <1>4, <2>2, <2>3 DEF CloseDone
<1>5. QED
  BY <1>1, <1>2, <1>3, <1>4

LEMMA LoopTypeInv ==
    ASSUME TypeInv, NEW p \in Goroutines,
           \/ EndBroadcast(p)
           \/ \E c \in Clients : TrySend(p, c) \/ DropSlow(p, c)
    PROVE  TypeInv'
<1>1. CASE EndBroadcast(p)
  BY <1>1, HubAssumption DEF TypeInv, TypeOK, CallsOK, EndBroadcast
<1>2. ASSUME NEW c \in Clients, TrySend(p, c) PROVE TypeInv'
  <2>1. msg[p] \in Payload
    BY <1>2, HubAssumption DEF TypeInv, TypeOK, CallsOK, TrySend, Payload
  <2>2. /\ send' \in [Clients -> Seq(Payload)]
        /\ \A d \in Clients : Len(send'[d]) <= Buffer
    BY <1>2, <2>1, HubAssumption DEF TypeInv, TypeOK, TrySend
  <2>3. QED
    BY <1>2, <2>2 DEF TypeInv, TypeOK, CallsOK, TrySend
<1>3. ASSUME NEW c \in Clients, DropSlow(p, c) PROVE TypeInv'
  BY <1>3, HubAssumption DEF TypeInv, TypeOK, CallsOK, DropSlow
<1>4. QED
  BY <1>1, <1>2, <1>3

LEMMA StutterTypeInv == TypeInv /\ UNCHANGED hubVars => TypeInv'
BY DEF TypeInv, TypeOK, CallsOK, hubVars, calls

LEMMA StepTypeInv == TypeInv /\ [HubNext]_hubVars => TypeInv'
<1> SUFFICES ASSUME TypeInv, HubNext PROVE TypeInv'
  BY StutterTypeInv
<1>1. CASE \E c \in Clients : Register(c) \/ RegisterFull(c) \/ Receive(c)
  BY <1>1, RegisterTypeInv, ReceiveTypeInv
<1>2. CASE \E p \in Goroutines, c \in Clients : CallUnregister(p, c)
  BY <1>2, UnregisterTypeInv
<1>3. CASE \E p \in Broadcasters : Broadcast(p)
  BY <1>3, SnapshotTypeInv, HubAssumption DEF Broadcast
<1>4. CASE \E p \in Relays, c \in Clients : BroadcastExcept(p, c)
  BY <1>4, SnapshotTypeInv, HubAssumption DEF BroadcastExcept
<1>5. CASE \E p \in Goroutines : Advance(p)
  BY <1>5, UnregisterTypeInv, LoopTypeInv DEF Advance
<1>6. QED
  BY <1>1, <1>2, <1>3, <1>4, <1>5 DEF HubNext

\* Every reachable state of the hub is well formed, whatever its constants:
\* in particular no client's buffer ever holds more than its capacity, and a
\* goroutine has a client to unregister exactly while it is in Unregister.
THEOREM TypeCorrect == HubSpec => [](TypeOK /\ CallsOK)
<1>1. HubInit => TypeInv
  BY InitTypeInv
<1>2. TypeInv /\ [HubNext]_hubVars => TypeInv'
  BY StepTypeInv
<1>3. HubSpec => []TypeInv
  BY <1>1, <1>2, PTL DEF HubSpec
<1>4. TypeInv <=> TypeOK /\ CallsOK
  BY DEF TypeInv
<1>5. QED
  BY <1>3, <1>4, PTL

-----------------------------------------------------------------------------
(* Registration and removal. *)

CapacityInv == IsFiniteSet(clients) /\ WithinCapacity

LEMMA StepCapacity == TypeInv /\ CapacityInv /\ [HubNext]_hubVars => CapacityInv'
<1> SUFFICES ASSUME TypeInv, CapacityInv, [HubNext]_hubVars PROVE CapacityInv'
  OBVIOUS
<1>1. CASE clients' = clients
  BY <1>1 DEF CapacityInv, WithinCapacity, Count
<1>2. ASSUME NEW c \in Clients, Register(c) PROVE CapacityInv'
  <2>1. clients' = clients \cup {c} /\ Cardinality(clients) < MaxClients
    BY <1>2 DEF Register, Count
  <2>2. IsFiniteSet(clients) /\ Cardinality(clients) \in Nat
    BY FS_CardinalityType DEF CapacityInv
  <2>3. /\ IsFiniteSet(clients')
        /\ \/ Cardinality(clients') = Cardinality(clients)
           \/ Cardinality(clients') = Cardinality(clients) + 1
    BY <2>1, <2>2, FS_AddElement
  <2>4. QED
    BY <2>1, <2>2, <2>3, HubAssumption DEF CapacityInv, WithinCapacity, Count
<1>3. ASSUME NEW p \in Goroutines, Delete(p) PROVE CapacityInv'
  <2>1. clients' = clients \ {target[p]}
    BY <1>3 DEF Delete
  <2>2. IsFiniteSet(clients) /\ Cardinality(clients) \in Nat
    BY FS_CardinalityType DEF CapacityInv
  <2>3. /\ IsFiniteSet(clients')
        /\ \/ Cardinality(clients') = Cardinality(clients)
           \/ Cardinality(clients') = Cardinality(clients) - 1
    BY <2>1, <2>2, FS_RemoveElement
  <2>4. QED
    BY <2>2, <2>3, HubAssumption DEF CapacityInv, WithinCapacity, Count
<1>4. ASSUME HubNext,
             \A c \in Clients : ~Register(c),
             \A p \in Goroutines : ~Delete(p)
      PROVE  clients' = clients
  BY <1>4, HubAssumption
  DEF HubNext, Advance, RegisterFull, Receive, CallUnregister, Broadcast, BroadcastExcept,
      Snapshot, CloseCheck, CloseDone, EndBroadcast, TrySend, DropSlow
<1>5. QED
  BY <1>1, <1>2, <1>3, <1>4 DEF hubVars

\* The map never holds more clients than NewWithMax allows: the length is
\* tested and the client added under one lock, and nothing else adds one.
THEOREM Capacity == HubSpec => []WithinCapacity
<1>1. HubInit => CapacityInv
  BY FS_EmptySet, HubAssumption DEF HubInit, CapacityInv, WithinCapacity, Count
<1>2. HubInit => TypeInv
  BY InitTypeInv
<1>3. TypeInv /\ CapacityInv /\ [HubNext]_hubVars => TypeInv' /\ CapacityInv'
  BY StepTypeInv, StepCapacity
<1>4. HubSpec => []CapacityInv
  BY <1>1, <1>2, <1>3, PTL DEF HubSpec
<1>5. CapacityInv => WithinCapacity
  BY DEF CapacityInv
<1>6. QED
  BY <1>4, <1>5, PTL

\* Only clients that Register accepted are known to the hub and its calls.
KnownOnly ==
    /\ \A c \in clients : reg[c] = "accepted"
    /\ \A c \in Clients : done[c] => reg[c] = "accepted"
    /\ \A p \in Goroutines : \A c \in todo[p] : reg[c] = "accepted"
    /\ \A p \in Goroutines : target[p] \in Clients => reg[target[p]] = "accepted"

\* A client that is being closed is out of the map already.
ClosingIsOut ==
    \A p \in Goroutines : pc[p] \in {"check", "close"} => target[p] \notin clients

OutInv == KnownOnly /\ ClosingIsOut /\ ClosedIsOut /\ DroppedIsSignalled

LEMMA InitOutInv == HubInit => OutInv
BY HubAssumption
DEF HubInit, OutInv, KnownOnly, ClosingIsOut, ClosedIsOut, DroppedIsSignalled

LEMMA RegisterOut ==
    ASSUME TypeInv, OutInv, NEW c \in Clients, Register(c) \/ RegisterFull(c) \/ Receive(c)
    PROVE  OutInv'
<1>1. CASE Register(c)
  <2>1. KnownOnly'
    BY <1>1 DEF TypeInv, TypeOK, OutInv, KnownOnly, Register, calls
  <2>2. ClosingIsOut' /\ ClosedIsOut'
    BY <1>1 DEF TypeInv, TypeOK, OutInv, KnownOnly, ClosingIsOut, ClosedIsOut, Register, calls
  <2>3. DroppedIsSignalled'
    BY <1>1 DEF TypeInv, TypeOK, OutInv, DroppedIsSignalled, Closers, Register, calls
  <2>4. QED
    BY <2>1, <2>2, <2>3 DEF OutInv
<1>2. CASE RegisterFull(c)
  BY <1>2 DEF TypeInv, TypeOK, OutInv, KnownOnly, ClosingIsOut, ClosedIsOut,
              DroppedIsSignalled, Closers, RegisterFull, calls
<1>3. CASE Receive(c)
  BY <1>3 DEF OutInv, KnownOnly, ClosingIsOut, ClosedIsOut,
              DroppedIsSignalled, Closers, Receive, calls
<1>4. QED
  BY <1>1, <1>2, <1>3

\* The steps of a call that leave the map, done and the closers alone.
LEMMA QuietOut ==
    ASSUME TypeInv, OutInv, NEW p \in Goroutines, UNCHANGED <<clients, done, reg>>,
           \/ \E c \in Clients : CallUnregister(p, c)
           \/ \E skip \in SUBSET Clients : Snapshot(p, skip)
           \/ \E c \in Clients : TrySend(p, c) \/ DropSlow(p, c)
           \/ EndBroadcast(p)
    PROVE  OutInv'
<1>1. \A q \in Goroutines :
        /\ pc'[q] \in {"check", "close"} <=> pc[q] \in {"check", "close"}
        /\ pc[q] \in {"check", "close"} => target'[q] = target[q]
  <2>1. CASE \E c \in Clients : CallUnregister(p, c)
    BY <2>1 DEF TypeInv, TypeOK, CallUnregister
  <2>2. CASE \E skip \in SUBSET Clients : Snapshot(p, skip)
    BY <2>2 DEF TypeInv, TypeOK, Snapshot
  <2>3. CASE \E c \in Clients : TrySend(p, c) \/ DropSlow(p, c)
    BY <2>3 DEF TypeInv, TypeOK, TrySend, DropSlow
  <2>4. CASE EndBroadcast(p)
    BY <2>4 DEF TypeInv, TypeOK, EndBroadcast
  <2>5. QED
    BY <2>1, <2>2, <2>3, <2>4
<1>2. KnownOnly'
  <2>1. ASSUME NEW c \in Clients, CallUnregister(p, c) PROVE KnownOnly'
    BY <2>1 DEF TypeInv, TypeOK, OutInv, KnownOnly, CallUnregister
  <2>2. ASSUME NEW skip \in SUBSET Clients, Snapshot(p, skip) PROVE KnownOnly'
    BY <2>2 DEF TypeInv, TypeOK, OutInv, KnownOnly, Snapshot
  <2>3. ASSUME NEW c \in Clients, TrySend(p, c) PROVE KnownOnly'
    BY <2>3 DEF TypeInv, TypeOK, OutInv, KnownOnly, TrySend
  <2>4. ASSUME NEW c \in Clients, DropSlow(p, c) PROVE KnownOnly'
    BY <2>4 DEF TypeInv, TypeOK, OutInv, KnownOnly, DropSlow
  <2>5. CASE EndBroadcast(p)
    BY <2>5 DEF TypeInv, TypeOK, OutInv, KnownOnly, EndBroadcast
  <2>6. QED
    BY <2>1, <2>2, <2>3, <2>4, <2>5
<1>3. ClosingIsOut' /\ ClosedIsOut'
  BY <1>1 DEF OutInv, ClosingIsOut, ClosedIsOut
<1>4. \A c \in Clients : Closers(c)' = Closers(c)
  BY <1>1 DEF Closers
<1>5. DroppedIsSignalled'
  BY <1>4 DEF OutInv, DroppedIsSignalled
<1>6. QED
  BY <1>2, <1>3, <1>5 DEF OutInv

LEMMA SnapshotOut ==
    ASSUME TypeInv, OutInv, NEW p \in Goroutines, NEW skip \in SUBSET Clients, Snapshot(p, skip)
    PROVE  OutInv'
<1>1. UNCHANGED <<clients, done, reg>>
  BY DEF Snapshot
<1>2. QED
  BY <1>1, QuietOut

LEMMA DeleteOut ==
    ASSUME TypeInv, OutInv, NEW p \in Goroutines, Delete(p)
    PROVE  OutInv'
<1>1. KnownOnly' /\ ClosingIsOut' /\ ClosedIsOut'
  BY DEF TypeInv, TypeOK, OutInv, KnownOnly, ClosingIsOut, ClosedIsOut, Delete
<1>2. \A c \in Clients : Closers(c) \subseteq Closers(c)' /\ (target[p] = c => p \in Closers(c)')
  BY DEF TypeInv, TypeOK, Closers, Delete
<1>3. DroppedIsSignalled'
  BY <1>2 DEF OutInv, DroppedIsSignalled, Delete
<1>4. QED
  BY <1>1, <1>3 DEF OutInv

\* Close returns only when the client's done channel is closed.
LEMMA CloseOut ==
    ASSUME TypeInv, OutInv, NEW p \in Goroutines, CloseCheck(p) \/ CloseDone(p)
    PROVE  OutInv'
<1> DEFINE c == target[p]
<1>1. c \in Clients /\ c \notin clients /\ reg[c] = "accepted"
  BY DEF TypeInv, TypeOK, OutInv, KnownOnly, ClosingIsOut, CloseCheck, CloseDone
<1>2. \A d \in Clients : done'[d] => done[d] \/ d = c
  BY <1>1 DEF TypeInv, TypeOK, CloseCheck, CloseDone
<1>3. \A d \in Clients : done[d] => done'[d]
  BY <1>1 DEF TypeInv, TypeOK, CloseCheck, CloseDone
<1>4. \A q \in Goroutines : q # p => pc'[q] = pc[q] /\ target'[q] = target[q]
  BY DEF TypeInv, TypeOK, CloseCheck, CloseDone, Return
<1>5. \/ pc'[p] \in {"check", "close"} /\ target'[p] = c
      \/ pc'[p] \in {"fan", "idle"} /\ target'[p] = NoClient /\ done'[c]
  BY <1>1 DEF TypeInv, TypeOK, CloseCheck, CloseDone, Return
<1>6. KnownOnly'
  <2>1. UNCHANGED <<clients, reg, todo>>
    BY DEF CloseCheck, CloseDone
  <2>2. \A q \in Goroutines : target'[q] \in Clients => reg[target'[q]] = "accepted"
    BY <1>1, <1>4, <1>5, HubAssumption DEF OutInv, KnownOnly
  <2>3. \A d \in Clients : done'[d] => reg[d] = "accepted"
    BY <1>1, <1>2 DEF OutInv, KnownOnly
  <2>4. QED
    BY <2>1, <2>2, <2>3 DEF OutInv, KnownOnly
<1>7. ClosingIsOut' /\ ClosedIsOut'
  BY <1>1, <1>2, <1>4, <1>5 DEF OutInv, ClosingIsOut, ClosedIsOut, CloseCheck, CloseDone
<1>8. ASSUME NEW d \in Clients, reg'[d] = "accepted", d \notin clients'
      PROVE  done'[d] \/ Closers(d)' # {}
  <2>1. done[d] \/ Closers(d) # {}
    BY <1>8 DEF OutInv, DroppedIsSignalled, CloseCheck, CloseDone
  <2>2. CASE done[d]
    BY <2>2, <1>3
  <2>3. ASSUME NEW q \in Closers(d) PROVE done'[d] \/ Closers(d)' # {}
    <3>1. CASE q = p
      BY <2>3, <3>1, <1>5 DEF Closers
    <3>2. CASE q # p
      BY <2>3, <3>2, <1>4 DEF Closers
    <3>3. QED
      BY <3>1, <3>2
  <2>4. QED
    BY <2>1, <2>2, <2>3
<1>9. QED
  BY <1>6, <1>7, <1>8 DEF OutInv, DroppedIsSignalled

LEMMA StepOut == TypeInv /\ OutInv /\ [HubNext]_hubVars => OutInv'
<1> SUFFICES ASSUME TypeInv, OutInv, [HubNext]_hubVars PROVE OutInv'
  OBVIOUS
<1>1. CASE UNCHANGED hubVars
  BY <1>1 DEF OutInv, KnownOnly, ClosingIsOut, ClosedIsOut, DroppedIsSignalled, Closers,
              hubVars, calls
<1>2. CASE \E c \in Clients : Register(c) \/ RegisterFull(c) \/ Receive(c)
  BY <1>2, RegisterOut
<1>3. CASE \E p \in Goroutines, c \in Clients : CallUnregister(p, c)
  BY <1>3, QuietOut DEF CallUnregister
<1>4. CASE \E p \in Broadcasters : Broadcast(p)
  BY <1>4, SnapshotOut, HubAssumption DEF Broadcast
<1>5. CASE \E p \in Relays, c \in Clients : BroadcastExcept(p, c)
  BY <1>5, SnapshotOut, HubAssumption DEF BroadcastExcept
<1>6. ASSUME NEW p \in Goroutines, Advance(p) PROVE OutInv'
  <2>1. CASE Delete(p)
    BY <2>1, DeleteOut
  <2>2. CASE CloseCheck(p) \/ CloseDone(p)
    BY <2>2, CloseOut
  <2>3. CASE EndBroadcast(p) \/ \E c \in Clients : TrySend(p, c) \/ DropSlow(p, c)
    BY <2>3, QuietOut DEF EndBroadcast, TrySend, DropSlow
  <2>4. QED
    BY <1>6, <2>1, <2>2, <2>3 DEF Advance
<1>7. QED
  BY <1>1, <1>2, <1>3, <1>4, <1>5, <1>6 DEF HubNext

\* A client is closed only when it is out of the map, and a client that is out
\* of the map is closed or about to be: every goroutine between the delete and
\* the close of its Unregister stands for one pending signal.
THEOREM RemovalIsSignalled == HubSpec => [](ClosedIsOut /\ DroppedIsSignalled)
<1>1. HubInit => OutInv
  BY InitOutInv
<1>2. HubInit => TypeInv
  BY InitTypeInv
<1>3. TypeInv /\ OutInv /\ [HubNext]_hubVars => TypeInv' /\ OutInv'
  BY StepTypeInv, StepOut
<1>4. HubSpec => []OutInv
  BY <1>1, <1>2, <1>3, PTL DEF HubSpec
<1>5. OutInv => ClosedIsOut /\ DroppedIsSignalled
  BY DEF OutInv
<1>6. QED
  BY <1>4, <1>5, PTL

-----------------------------------------------------------------------------
(* A registered client misses nothing. *)

\* What still has to happen with payload i for client c.
Covered(c, i) ==
    \/ i \in Handed(c)
    \/ \E p \in Goroutines : msg[p] = i /\ c \in todo[p]
    \/ \E p \in Goroutines : pc[p] = "delete" /\ target[p] = c

LEMMA NoSilentLossIsCovered == NoSilentLoss <=> \A c \in clients : \A i \in Audience(c) : Covered(c, i)
BY DEF NoSilentLoss, Covered

\* Receiving moves the head of the buffer: the set of payloads is the same.
LEMMA ReceiveKeepsHanded ==
    ASSUME TypeInv, NEW c \in Clients, Receive(c), NEW d \in Clients
    PROVE  Handed(d) \subseteq Handed(d)'
<1>1. CASE d # c
  BY <1>1 DEF TypeInv, TypeOK, Receive, Handed
<1>2. CASE d = c
  <2>1. send[c] \in Seq(Payload) /\ send[c] # <<>> /\ taken[c] \in Seq(Payload)
    BY DEF TypeInv, TypeOK, Receive
  <2>2. taken'[c] = Append(taken[c], Head(send[c])) /\ send'[c] = Tail(send[c])
    BY DEF TypeInv, TypeOK, Receive
  <2>3. ASSUME NEW k \in DOMAIN taken[c] PROVE taken[c][k] \in Handed(c)'
    <3>1. k \in DOMAIN taken'[c] /\ taken'[c][k] = taken[c][k]
      BY <2>1, <2>2, <2>3
    <3>2. QED
      BY <3>1 DEF Handed
  <2>4. send[c][1] \in Handed(c)'
    <3>1. /\ Len(taken[c]) + 1 \in DOMAIN taken'[c]
          /\ taken'[c][Len(taken[c]) + 1] = send[c][1]
      BY <2>1, <2>2
    <3>2. QED
      BY <3>1 DEF Handed
  <2>5. ASSUME NEW k \in DOMAIN send[c], k # 1 PROVE send[c][k] \in Handed(c)'
    <3>1. k - 1 \in DOMAIN send'[c] /\ send'[c][k - 1] = send[c][k]
      BY <2>1, <2>2, <2>5
    <3>2. QED
      BY <3>1 DEF Handed
  <2>6. QED
    BY <1>2, <2>3, <2>4, <2>5 DEF Handed
<1>3. QED
  BY <1>1, <1>2

\* A send that succeeds adds its payload and keeps the others.
LEMMA TrySendHands ==
    ASSUME TypeInv, NEW p \in Goroutines, NEW c \in Clients, TrySend(p, c), NEW d \in Clients
    PROVE  Handed(d) \subseteq Handed(d)' /\ msg[p] \in Handed(c)'
<1>1. send[c] \in Seq(Payload) /\ send'[c] = Append(send[c], msg[p]) /\ taken' = taken
  BY DEF TypeInv, TypeOK, TrySend
<1>2. /\ Len(send[c]) + 1 \in DOMAIN send'[c]
      /\ send'[c][Len(send[c]) + 1] = msg[p]
      /\ \A k \in DOMAIN send[c] : k \in DOMAIN send'[c] /\ send'[c][k] = send[c][k]
  BY <1>1
<1>3. msg[p] \in Handed(c)'
  BY <1>2 DEF Handed
<1>4. Handed(c) \subseteq Handed(c)'
  BY <1>1, <1>2 DEF Handed
<1>5. d # c => send'[d] = send[d]
  BY DEF TypeInv, TypeOK, TrySend
<1>6. QED
  BY <1>1, <1>3, <1>4, <1>5 DEF Handed

LEMMA SnapshotLoss ==
    ASSUME TypeInv, NoSilentLoss, NEW p \in Goroutines, NEW skip \in SUBSET Clients,
           Snapshot(p, skip)
    PROVE  NoSilentLoss'
<1> DEFINE n == Len(published) + 1
<1>1. /\ published \in Seq([by : Goroutines, skip : SUBSET Clients])
      /\ published' = Append(published, [by |-> p, skip |-> skip])
      /\ joined \in [Clients -> Nat]
      /\ UNCHANGED <<clients, send, taken, joined, target>>
  BY DEF TypeInv, TypeOK, Snapshot
<1>2. msg'[p] = n /\ todo'[p] = clients \ skip
  BY DEF TypeInv, TypeOK, Snapshot
<1>3. \A q \in Goroutines : q # p => msg'[q] = msg[q] /\ todo'[q] = todo[q] /\ pc'[q] = pc[q]
  BY DEF TypeInv, TypeOK, Snapshot
<1>4. pc[p] = "idle" /\ todo[p] = {}
  BY DEF TypeInv, CallsOK, Snapshot
<1>5. ASSUME NEW c \in clients, NEW i \in Audience(c)' PROVE Covered(c, i)'
  <2>1. c \in Clients
    BY DEF TypeInv, TypeOK
  <2>2. CASE i = n
    <3>1. c \notin skip
      BY <1>1, <2>2 DEF Audience
    <3>2. QED
      BY <1>2, <2>2, <3>1 DEF Covered
  <2>3. CASE i # n
    <3>1. i \in Audience(c)
      BY <1>1, <2>1, <2>3 DEF Audience
    <3>2. Covered(c, i)
      BY <3>1, NoSilentLossIsCovered
    <3>3. QED
      BY <1>1, <1>3, <1>4, <3>2 DEF Covered, Handed
  <2>4. QED
    BY <2>2, <2>3
<1>6. QED
  BY <1>1, <1>5 DEF NoSilentLoss, Covered

LEMMA RegisterLoss ==
    ASSUME TypeInv, NoSilentLoss, NEW c \in Clients, Register(c)
    PROVE  NoSilentLoss'
<1>1. /\ published \in Seq([by : Goroutines, skip : SUBSET Clients])
      /\ clients' = clients \cup {c}
      /\ joined'[c] = Len(published)
      /\ \A d \in Clients : d # c => joined'[d] = joined[d]
      /\ UNCHANGED <<send, published, taken, pc, todo, msg, target>>
  BY DEF TypeInv, TypeOK, Register, calls
<1>2. Audience(c)' = {}
  BY <1>1 DEF Audience
<1>3. ASSUME NEW d \in clients, d # c, NEW i \in Audience(d)' PROVE Covered(d, i)'
  <2>1. i \in Audience(d)
    BY <1>1, <1>3 DEF Audience, TypeInv, TypeOK
  <2>2. Covered(d, i)
    BY <2>1, NoSilentLossIsCovered
  <2>3. QED
    BY <1>1, <2>2 DEF Covered, Handed
<1>4. QED
  BY <1>1, <1>2, <1>3 DEF NoSilentLoss, Covered

\* A step that publishes nothing and registers nobody keeps what was covered
\* covered, if it does so for each client that stays in the map.
LEMMA CoveredStaysEnough ==
    ASSUME NoSilentLoss, clients' \subseteq clients, UNCHANGED <<joined, published>>,
           \A c \in clients' : \A i \in Audience(c) : Covered(c, i) => Covered(c, i)'
    PROVE  NoSilentLoss'
<1>1. \A c \in clients' : Audience(c)' = Audience(c)
  BY DEF Audience
<1>2. \A c \in clients' : \A i \in Audience(c)' : Covered(c, i)'
  BY <1>1, NoSilentLossIsCovered
<1>3. QED
  BY <1>2 DEF NoSilentLoss, Covered

LEMMA CallLoss ==
    ASSUME TypeInv, NoSilentLoss, NEW p \in Goroutines,
           (\E c \in Clients : CallUnregister(p, c)) \/ Advance(p)
    PROVE  NoSilentLoss'
<1>1. ASSUME NEW c \in Clients, CallUnregister(p, c) PROVE NoSilentLoss'
  <2>1. \A d \in Clients : Handed(d)' = Handed(d)
    BY <1>1 DEF CallUnregister, Handed
  <2>2. \A q \in Goroutines : q # p => pc'[q] = pc[q] /\ target'[q] = target[q]
    BY <1>1 DEF TypeInv, TypeOK, CallUnregister
  <2>3. UNCHANGED <<clients, joined, published, todo, msg>> /\ pc[p] = "idle"
    BY <1>1 DEF CallUnregister
  <2>4. QED
    BY <2>1, <2>2, <2>3, CoveredStaysEnough DEF Covered, TypeInv, TypeOK
<1>2. CASE Delete(p) \/ CloseCheck(p) \/ CloseDone(p)
  <2>1. UNCHANGED <<send, taken, joined, published, todo, msg>>
    BY <1>2 DEF Delete, CloseCheck, CloseDone
  <2>2. \A q \in Goroutines : q # p => pc'[q] = pc[q] /\ target'[q] = target[q]
    BY <1>2 DEF TypeInv, TypeOK, Delete, CloseCheck, CloseDone, Return
  <2>3. clients' \subseteq clients /\ \A c \in clients' : ~(pc[p] = "delete" /\ target[p] = c)
    BY <1>2 DEF Delete, CloseCheck, CloseDone
  <2>4. \A d \in Clients : Handed(d)' = Handed(d)
    BY <2>1 DEF Handed
  <2>5. QED
    BY <2>1, <2>2, <2>3, <2>4, CoveredStaysEnough DEF Covered, TypeInv, TypeOK
<1>3. CASE EndBroadcast(p)
  <2>1. UNCHANGED <<clients, send, taken, joined, published, todo, target>> /\ todo[p] = {}
    BY <1>3 DEF EndBroadcast
  <2>2. /\ pc[p] = "fan"
        /\ \A q \in Goroutines : q # p => pc'[q] = pc[q] /\ msg'[q] = msg[q]
    BY <1>3 DEF TypeInv, TypeOK, EndBroadcast
  <2>3. \A d \in Clients : Handed(d)' = Handed(d)
    BY <2>1 DEF Handed
  <2>4. QED
    BY <2>1, <2>2, <2>3, CoveredStaysEnough DEF Covered, TypeInv, TypeOK
<1>4. ASSUME NEW c \in Clients, TrySend(p, c) PROVE NoSilentLoss'
  <2>1. \A d \in Clients : Handed(d) \subseteq Handed(d)'
    BY <1>4, TrySendHands
  <2>2. msg[p] \in Handed(c)'
    BY <1>4, TrySendHands
  <2>3. /\ UNCHANGED <<clients, joined, published, pc, msg, target>>
        /\ \A q \in Goroutines : \A d \in todo[q] : d \in todo'[q] \/ (q = p /\ d = c)
    BY <1>4 DEF TypeInv, TypeOK, TrySend
  <2>4. QED
    BY <2>1, <2>2, <2>3, CoveredStaysEnough DEF Covered, TypeInv, TypeOK
<1>5. ASSUME NEW c \in Clients, DropSlow(p, c) PROVE NoSilentLoss'
  <2>1. UNCHANGED <<clients, send, taken, joined, published, msg>>
    BY <1>5 DEF DropSlow
  <2>2. /\ pc[p] = "fan" /\ pc'[p] = "delete" /\ target'[p] = c
        /\ \A q \in Goroutines : q # p => pc'[q] = pc[q] /\ target'[q] = target[q]
        /\ \A q \in Goroutines : \A d \in todo[q] : d \in todo'[q] \/ (q = p /\ d = c)
    BY <1>5 DEF TypeInv, TypeOK, DropSlow
  <2>3. \A d \in Clients : Handed(d)' = Handed(d)
    BY <2>1 DEF Handed
  <2>4. ASSUME NEW d \in Clients, NEW i, Covered(d, i) PROVE Covered(d, i)'
    <3>1. CASE i \in Handed(d)
      BY <2>3, <3>1 DEF Covered
    <3>2. ASSUME NEW q \in Goroutines, msg[q] = i, d \in todo[q] PROVE Covered(d, i)'
      BY <2>1, <2>2, <3>2 DEF Covered
    <3>3. ASSUME NEW q \in Goroutines, pc[q] = "delete", target[q] = d PROVE Covered(d, i)'
      BY <2>2, <3>3 DEF Covered
    <3>4. QED
      BY <2>4, <3>1, <3>2, <3>3 DEF Covered
  <2>5. clients' \subseteq clients /\ clients' \subseteq Clients
    BY <2>1 DEF TypeInv, TypeOK
  <2>6. QED
    BY <2>1, <2>4, <2>5, CoveredStaysEnough
<1>6. QED
  BY <1>1, <1>2, <1>3, <1>4, <1>5 DEF Advance

LEMMA StepLoss == TypeInv /\ NoSilentLoss /\ [HubNext]_hubVars => NoSilentLoss'
<1> SUFFICES ASSUME TypeInv, NoSilentLoss, [HubNext]_hubVars PROVE NoSilentLoss'
  OBVIOUS
<1>1. CASE UNCHANGED hubVars
  BY <1>1 DEF NoSilentLoss, Audience, Handed, hubVars, calls
<1>2. ASSUME NEW c \in Clients, Register(c) PROVE NoSilentLoss'
  BY <1>2, RegisterLoss
<1>3. ASSUME NEW c \in Clients, RegisterFull(c) PROVE NoSilentLoss'
  BY <1>3 DEF NoSilentLoss, Audience, Handed, RegisterFull, calls
<1>4. ASSUME NEW c \in Clients, Receive(c) PROVE NoSilentLoss'
  <2>1. \A d \in Clients : Handed(d) \subseteq Handed(d)'
    BY <1>4, ReceiveKeepsHanded
  <2>2. UNCHANGED <<clients, joined, published, pc, todo, msg, target>>
    BY <1>4 DEF Receive, calls
  <2>3. \A d \in Clients : \A i : Covered(d, i) => Covered(d, i)'
    BY <2>1, <2>2 DEF Covered
  <2>4. clients' \subseteq clients /\ clients' \subseteq Clients
    BY <2>2 DEF TypeInv, TypeOK
  <2>5. QED
    BY <2>2, <2>3, <2>4, CoveredStaysEnough
<1>5. CASE \E p \in Broadcasters : Broadcast(p)
  BY <1>5, SnapshotLoss, HubAssumption DEF Broadcast
<1>6. CASE \E p \in Relays, c \in Clients : BroadcastExcept(p, c)
  BY <1>6, SnapshotLoss, HubAssumption DEF BroadcastExcept
<1>7. CASE \E p \in Goroutines : (\E c \in Clients : CallUnregister(p, c)) \/ Advance(p)
  BY <1>7, CallLoss
<1>8. QED
  BY <1>1, <1>2, <1>3, <1>4, <1>5, <1>6, <1>7 DEF HubNext

\* A client the hub still holds has been handed, in its buffer or already
\* received, every payload broadcast since it registered, but for those a
\* broadcast in progress has yet to try and unless its removal is under way:
\* the hub drops slow clients, it never makes them skip a payload.
THEOREM NothingSilentlyLost == HubSpec => []NoSilentLoss
<1>1. HubInit => NoSilentLoss
  BY DEF HubInit, NoSilentLoss
<1>2. HubInit => TypeInv
  BY InitTypeInv
<1>3. TypeInv /\ NoSilentLoss /\ [HubNext]_hubVars => TypeInv' /\ NoSilentLoss'
  BY StepTypeInv, StepLoss
<1>4. HubSpec => [](TypeInv /\ NoSilentLoss)
  BY <1>1, <1>2, <1>3, PTL DEF HubSpec
<1>5. QED
  BY <1>4, PTL

-----------------------------------------------------------------------------
(* The order of one broadcaster's payloads. *)

\* How far the calls of p have got with c: no payload of p that c has been
\* handed is above the one p is broadcasting, and none is that one while c is
\* still to be tried.
Before(p, c, i) == msg[p] # 0 => i <= msg[p] /\ (c \in todo[p] => i < msg[p])

\* Payload i, of whichever broadcaster, is a published one.
Sent(c, i) ==
    /\ i \in 1..Len(published)
    /\ \A p \in Goroutines : published[i].by = p => Before(p, c, i)

InStream(c) == {Stream(c)[k] : k \in DOMAIN Stream(c)}

OwnMsg == \A p \in Goroutines : msg[p] # 0 => published[msg[p]].by = p

SentInv ==
    /\ OwnMsg
    /\ \A c \in Clients : \A i \in InStream(c) : Sent(c, i)
    /\ PerSenderFIFO

\* Moving the head of the second of two sequences to the end of the first
\* leaves their concatenation as it is.
LEMMA MoveHead ==
    ASSUME NEW S, NEW t \in Seq(S), NEW s \in Seq(S), s # <<>>
    PROVE  Append(t, Head(s)) \o Tail(s) = t \o s
<1> DEFINE a == Append(t, Head(s))
           b == Tail(s)
<1>1. Head(s) \in S /\ b \in Seq(S) /\ Len(b) = Len(s) - 1 /\ s[1] = Head(s)
  BY HeadTailProperties
<1>2. \A i \in 1..Len(b) : b[i] = s[i + 1]
  BY HeadTailProperties
<1>3. /\ a \in Seq(S) /\ Len(a) = Len(t) + 1 /\ a[Len(t) + 1] = s[1]
      /\ \A i \in 1..Len(t) : a[i] = t[i]
  BY <1>1, AppendProperties
<1>4. Len(t) \in Nat /\ Len(s) \in Nat /\ Len(b) \in Nat
  BY <1>1
<1> HIDE DEF a, b
<1>5. /\ a \o b \in Seq(S) /\ Len(a \o b) = Len(a) + Len(b)
      /\ \A i \in 1..Len(a) + Len(b) : (a \o b)[i] = IF i <= Len(a) THEN a[i] ELSE b[i - Len(a)]
  BY <1>1, <1>3, ConcatProperties
<1>6. /\ t \o s \in Seq(S) /\ Len(t \o s) = Len(t) + Len(s)
      /\ \A i \in 1..Len(t) + Len(s) : (t \o s)[i] = IF i <= Len(t) THEN t[i] ELSE s[i - Len(t)]
  BY ConcatProperties
<1>7. Len(a \o b) = Len(t \o s)
  BY <1>1, <1>3, <1>4, <1>5, <1>6
<1>8. ASSUME NEW i \in 1..Len(a \o b) PROVE (a \o b)[i] = (t \o s)[i]
  <2>1. CASE i <= Len(t)
    BY <1>3, <1>4, <1>5, <1>6, <1>7, <1>8, <2>1
  <2>2. CASE i = Len(t) + 1
    BY <1>3, <1>4, <1>5, <1>6, <1>7, <1>8, <2>2
  <2>3. CASE i > Len(t) + 1
    <3>1. i - Len(a) \in 1..Len(b) /\ i - Len(a) + 1 = i - Len(t)
      BY <1>3, <1>4, <1>5, <1>8, <2>3
    <3>2. b[i - Len(a)] = s[i - Len(t)]
      BY <1>2, <3>1
    <3>3. QED
      BY <1>3, <1>4, <1>5, <1>6, <1>7, <1>8, <2>3, <3>1, <3>2
  <2>4. i \in Int
    BY <1>8
  <2>5. i <= Len(t) \/ i = Len(t) + 1 \/ i > Len(t) + 1
    BY <1>4, <2>4
  <2>6. QED
    BY <2>1, <2>2, <2>3, <2>5
<1>9. a \o b = t \o s
  BY <1>5, <1>6, <1>7, <1>8, SeqEqual
<1>10. QED
  BY <1>9 DEF a, b

\* Appending to the second of two sequences appends to their concatenation.
LEMMA AppendToConcat ==
    ASSUME NEW S, NEW t \in Seq(S), NEW s \in Seq(S), NEW e \in S
    PROVE  t \o Append(s, e) = Append(t \o s, e)
<1>1. <<e>> \in Seq(S)
  OBVIOUS
<1>2. (t \o s) \o <<e>> = t \o (s \o <<e>>)
  BY <1>1, ConcatAssociative
<1>3. Append(s, e) = s \o <<e>> /\ Append(t \o s, e) = (t \o s) \o <<e>>
  BY AppendIsConcat, ConcatProperties
<1>4. QED
  BY <1>2, <1>3

\* The stream of a client is a sequence of payloads.
LEMMA StreamType ==
    ASSUME TypeInv, NEW c \in Clients
    PROVE  /\ taken[c] \in Seq(Payload) /\ send[c] \in Seq(Payload)
           /\ Stream(c) \in Seq(Payload)
           /\ DOMAIN Stream(c) = 1..Len(Stream(c))
           /\ Len(Stream(c)) = Len(taken[c]) + Len(send[c])
<1>1. taken[c] \in Seq(Payload) /\ send[c] \in Seq(Payload)
  BY DEF TypeInv, TypeOK
<1>2. QED
  BY <1>1, ConcatProperties DEF Stream

\* Receiving moves the border between what was received and what is buffered,
\* and leaves the stream as it is.
LEMMA ReceiveKeepsStream ==
    ASSUME TypeInv, NEW c \in Clients, Receive(c), NEW d \in Clients
    PROVE  Stream(d)' = Stream(d)
<1>1. CASE d # c
  BY <1>1 DEF TypeInv, TypeOK, Receive, Stream
<1>2. CASE d = c
  <2> DEFINE t == taken[c]
             s == send[c]
  <2>1. t \in Seq(Payload) /\ s \in Seq(Payload) /\ s # <<>>
    BY DEF TypeInv, TypeOK, Receive
  <2>2. taken'[c] = Append(t, Head(s)) /\ send'[c] = Tail(s)
    BY DEF TypeInv, TypeOK, Receive
  <2> HIDE DEF t, s
  <2>3. Append(t, Head(s)) \o Tail(s) = t \o s
    BY <2>1, MoveHead
  <2>4. QED
    BY <1>2, <2>2, <2>3 DEF Stream, t, s
<1>3. QED
  BY <1>1, <1>2

\* A send that succeeds appends its payload to the stream of its client.
LEMMA TrySendStream ==
    ASSUME TypeInv, NEW p \in Goroutines, NEW c \in Clients, TrySend(p, c)
    PROVE  /\ Stream(c)' = Append(Stream(c), msg[p])
           /\ \A d \in Clients : d # c => Stream(d)' = Stream(d)
           /\ msg[p] \in Payload
<1>1. taken[c] \in Seq(Payload) /\ send[c] \in Seq(Payload)
  BY DEF TypeInv, TypeOK
<1>2. send'[c] = Append(send[c], msg[p]) /\ taken' = taken
  BY DEF TypeInv, TypeOK, TrySend
<1>3. msg[p] \in Payload
  BY HubAssumption DEF TypeInv, TypeOK, CallsOK, TrySend, Payload
<1>4. taken[c] \o Append(send[c], msg[p]) = Append(taken[c] \o send[c], msg[p])
  <2> DEFINE t == taken[c]
             s == send[c]
             e == msg[p]
  <2>1. t \in Seq(Payload) /\ s \in Seq(Payload) /\ e \in Payload
    BY <1>1, <1>3
  <2> HIDE DEF t, s, e
  <2>2. t \o Append(s, e) = Append(t \o s, e)
    BY <2>1, AppendToConcat
  <2>3. QED
    BY <2>2 DEF t, s, e
<1>5. \A d \in Clients : d # c => send'[d] = send[d]
  BY DEF TypeInv, TypeOK, TrySend
<1>6. QED
  BY <1>2, <1>3, <1>4, <1>5 DEF Stream

\* A step that changes no stream and publishes nothing keeps the order, if it
\* leaves the calls of every goroutine no further back than they were.
LEMMA SentStaysEnough ==
    ASSUME TypeInv, SentInv, UNCHANGED published,
           \A d \in Clients : Stream(d)' = Stream(d),
           \A q \in Goroutines : msg'[q] = 0 \/ (msg'[q] = msg[q] /\ todo'[q] \subseteq todo[q])
    PROVE  SentInv'
<1>1. OwnMsg'
  BY DEF SentInv, OwnMsg
<1>2. ASSUME NEW c \in Clients, NEW i \in InStream(c)' PROVE Sent(c, i)'
  <2>1. Sent(c, i)
    BY <1>2 DEF SentInv, InStream
  <2>2. QED
    BY <2>1 DEF Sent, Before
<1>3. PerSenderFIFO'
  BY DEF SentInv, PerSenderFIFO
<1>4. QED
  BY <1>1, <1>2, <1>3 DEF SentInv

LEMMA SnapshotSent ==
    ASSUME TypeInv, SentInv, NEW p \in Goroutines, NEW skip \in SUBSET Clients, Snapshot(p, skip)
    PROVE  SentInv'
<1> DEFINE n == Len(published) + 1
<1>1. /\ published \in Seq([by : Goroutines, skip : SUBSET Clients])
      /\ published' = Append(published, [by |-> p, skip |-> skip])
      /\ UNCHANGED <<send, taken>>
  BY DEF TypeInv, TypeOK, Snapshot
<1>2. /\ Len(published) \in Nat /\ Len(published') = n
      /\ published'[n].by = p
      /\ \A i \in 1..Len(published) : published'[i] = published[i]
  BY <1>1
<1>3. /\ msg'[p] = n
      /\ \A q \in Goroutines : q # p => msg'[q] = msg[q] /\ todo'[q] = todo[q]
  BY DEF TypeInv, TypeOK, Snapshot
<1>4. \A q \in Goroutines : msg[q] \in Nat /\ msg[q] <= Len(published)
  BY DEF TypeInv, TypeOK, CallsOK
<1> HIDE DEF n
<1>5. OwnMsg'
  <2>1. ASSUME NEW q \in Goroutines, msg'[q] # 0 PROVE published'[msg'[q]].by = q
    <3>1. CASE q = p
      BY <1>2, <1>3, <3>1
    <3>2. CASE q # p
      BY <1>2, <1>3, <1>4, <2>1, <3>2 DEF SentInv, OwnMsg
    <3>3. QED
      BY <3>1, <3>2
  <2>2. QED
    BY <2>1 DEF OwnMsg
<1>6. \A c \in Clients : Stream(c)' = Stream(c)
  BY <1>1 DEF Stream
<1>7. ASSUME NEW c \in Clients, NEW i \in InStream(c)' PROVE Sent(c, i)'
  <2>1. Sent(c, i)
    BY <1>6, <1>7 DEF SentInv, InStream
  <2>2. i \in 1..Len(published) /\ i \in 1..Len(published') /\ i < n
    BY <1>2, <2>1 DEF Sent, n
  <2>3. ASSUME NEW q \in Goroutines, published'[i].by = q PROVE Before(q, c, i)'
    <3>1. published[i].by = q
      BY <1>2, <2>2, <2>3
    <3>2. CASE q = p
      <4>1. i < msg'[q]
        BY <1>3, <2>2, <3>2
      <4>2. i <= msg'[q]
        BY <2>2, <1>2, <1>3, <3>2 DEF n
      <4>3. QED
        BY <4>1, <4>2 DEF Before
    <3>3. CASE q # p
      BY <1>3, <2>1, <3>1, <3>3 DEF Before, Sent
    <3>4. QED
      BY <3>2, <3>3
  <2>4. QED
    BY <2>2, <2>3 DEF Sent
<1>8. PerSenderFIFO'
  <2>1. ASSUME NEW c \in Clients, NEW k \in DOMAIN Stream(c)
        PROVE  published'[Stream(c)[k]] = published[Stream(c)[k]]
    <3>1. Sent(c, Stream(c)[k])
      BY <2>1 DEF SentInv, InStream
    <3>2. QED
      BY <1>2, <3>1 DEF Sent
  <2>2. QED
    BY <1>6, <2>1 DEF SentInv, PerSenderFIFO
<1>9. QED
  BY <1>5, <1>6, <1>7, <1>8 DEF SentInv

LEMMA TrySendSent ==
    ASSUME TypeInv, SentInv, NEW p \in Goroutines, NEW c \in Clients, TrySend(p, c)
    PROVE  SentInv'
<1> DEFINE m == msg[p]
           s == Stream(c)
<1>1. /\ Stream(c)' = Append(s, m)
      /\ \A d \in Clients : d # c => Stream(d)' = Stream(d)
      /\ m \in Payload
  BY TrySendStream
<1>2. s \in Seq(Payload) /\ DOMAIN s = 1..Len(s)
  BY StreamType
<1>3. /\ UNCHANGED <<published, msg>>
      /\ c \in todo[p]
      /\ c \notin todo'[p]
      /\ \A q \in Goroutines : todo'[q] \subseteq todo[q]
  BY DEF TypeInv, TypeOK, TrySend
<1>4. m # 0 /\ m \in 1..Len(published) /\ published[m].by = p
  BY <1>1 DEF SentInv, OwnMsg, TypeInv, CallsOK, Payload
<1>5. OwnMsg'
  BY <1>3 DEF SentInv, OwnMsg
<1>6. ASSUME NEW d \in Clients, NEW i, Sent(d, i) PROVE Sent(d, i)'
  BY <1>3, <1>6 DEF Sent, Before
<1>7. ASSUME NEW i, i = m PROVE Sent(c, i)'
  <2>1. ASSUME NEW q \in Goroutines, published'[i].by = q PROVE Before(q, c, i)'
    BY <1>1, <1>3, <1>4, <1>7, <2>1 DEF Before, Payload
  <2>2. QED
    BY <1>3, <1>4, <1>7, <2>1 DEF Sent
<1>8. \A k \in DOMAIN s : Sent(c, s[k])
  BY DEF SentInv, InStream
<1>9. ASSUME NEW k \in DOMAIN s, published[s[k]].by = p PROVE s[k] < m
  BY <1>3, <1>4, <1>8, <1>9 DEF Sent, Before
<1> HIDE DEF m, s
<1>10. /\ DOMAIN Append(s, m) = 1..Len(s) + 1
       /\ Append(s, m)[Len(s) + 1] = m
       /\ \A k \in 1..Len(s) : Append(s, m)[k] = s[k]
       /\ Len(s) \in Nat
  BY <1>1, <1>2
<1>11. ASSUME NEW d \in Clients, NEW i \in InStream(d)' PROVE Sent(d, i)'
  <2>1. CASE d = c /\ i = m
    BY <1>7, <2>1
  <2>2. CASE i \in InStream(d)
    BY <1>6, <2>2 DEF SentInv
  <2>3. i \in InStream(d) \/ (d = c /\ i = m)
    <3>1. CASE d = c
      BY <1>1, <1>2, <1>10, <1>11, <3>1 DEF InStream, s
    <3>2. CASE d # c
      BY <1>1, <1>11, <3>2 DEF InStream
    <3>3. QED
      BY <3>1, <3>2
  <2>4. QED
    BY <2>1, <2>2, <2>3
<1>12. ASSUME NEW d \in Clients, NEW j \in DOMAIN Stream(d)', NEW k \in DOMAIN Stream(d)',
              j < k, published'[Stream(d)'[j]].by = published'[Stream(d)'[k]].by
       PROVE  Stream(d)'[j] < Stream(d)'[k]
  <2>1. CASE d = c
    <3>1. j \in DOMAIN s /\ Stream(c)'[j] = s[j]
      BY <1>1, <1>2, <1>10, <1>12, <2>1
    <3>2. CASE k = Len(s) + 1
      BY <1>1, <1>3, <1>4, <1>9, <1>10, <1>12, <2>1, <3>1, <3>2 DEF m
    <3>3. CASE k # Len(s) + 1
      <4>1. k \in DOMAIN s /\ Stream(c)'[k] = s[k]
        BY <1>1, <1>2, <1>10, <1>12, <2>1, <3>3
      <4>2. QED
        BY <1>3, <1>12, <2>1, <3>1, <4>1 DEF SentInv, PerSenderFIFO, s
    <3>4. QED
      BY <3>2, <3>3
  <2>2. CASE d # c
    BY <1>1, <1>3, <1>12, <2>2 DEF SentInv, PerSenderFIFO
  <2>3. QED
    BY <2>1, <2>2
<1>13. PerSenderFIFO'
  BY <1>12 DEF PerSenderFIFO
<1>14. QED
  BY <1>5, <1>11, <1>13 DEF SentInv

LEMMA StepSent == TypeInv /\ SentInv /\ [HubNext]_hubVars => SentInv'
<1> SUFFICES ASSUME TypeInv, SentInv, [HubNext]_hubVars PROVE SentInv'
  OBVIOUS
<1>1. CASE UNCHANGED hubVars
  BY <1>1, SentStaysEnough DEF hubVars, calls, Stream
<1>2. ASSUME NEW c \in Clients, Register(c) \/ RegisterFull(c) PROVE SentInv'
  BY <1>2, SentStaysEnough DEF Register, RegisterFull, calls, Stream
<1>3. ASSUME NEW c \in Clients, Receive(c) PROVE SentInv'
  <2>1. \A d \in Clients : Stream(d)' = Stream(d)
    BY <1>3, ReceiveKeepsStream
  <2>2. UNCHANGED <<published, todo, msg>>
    BY <1>3 DEF Receive, calls
  <2>3. QED
    BY <2>1, <2>2, SentStaysEnough
<1>4. ASSUME NEW p \in Goroutines, NEW c \in Clients, CallUnregister(p, c) PROVE SentInv'
  BY <1>4, SentStaysEnough DEF CallUnregister, Stream
<1>5. CASE \E p \in Broadcasters : Broadcast(p)
  BY <1>5, SnapshotSent, HubAssumption DEF Broadcast
<1>6. CASE \E p \in Relays, c \in Clients : BroadcastExcept(p, c)
  BY <1>6, SnapshotSent, HubAssumption DEF BroadcastExcept
<1>7. ASSUME NEW p \in Goroutines, Advance(p) PROVE SentInv'
  <2>1. CASE Delete(p) \/ CloseCheck(p) \/ CloseDone(p)
    BY <2>1, SentStaysEnough DEF Delete, CloseCheck, CloseDone, Stream
  <2>2. CASE EndBroadcast(p)
    <3>1. \A q \in Goroutines : msg'[q] = 0 \/ (msg'[q] = msg[q] /\ todo'[q] \subseteq todo[q])
      BY <2>2 DEF TypeInv, TypeOK, EndBroadcast
    <3>2. QED
      BY <2>2, <3>1, SentStaysEnough DEF EndBroadcast, Stream
  <2>3. ASSUME NEW c \in Clients, TrySend(p, c) PROVE SentInv'
    BY <2>3, TrySendSent
  <2>4. ASSUME NEW c \in Clients, DropSlow(p, c) PROVE SentInv'
    <3>1. \A q \in Goroutines : msg'[q] = 0 \/ (msg'[q] = msg[q] /\ todo'[q] \subseteq todo[q])
      BY <2>4 DEF TypeInv, TypeOK, DropSlow
    <3>2. QED
      BY <2>4, <3>1, SentStaysEnough DEF DropSlow, Stream
  <2>5. QED
    BY <1>7, <2>1, <2>2, <2>3, <2>4 DEF Advance
<1>8. QED
  BY <1>1, <1>2, <1>3, <1>4, <1>5, <1>6, <1>7 DEF HubNext

\* However many goroutines broadcast at once, a client is handed the payloads
\* of each of them in the order of its calls and none of them twice.
THEOREM SenderOrderKept == HubSpec => []PerSenderFIFO
<1>1. HubInit => SentInv
  <2> SUFFICES ASSUME HubInit PROVE SentInv
    OBVIOUS
  <2>1. \A c \in Clients : Stream(c) = <<>>
    BY DEF HubInit, Stream
  <2>2. \A c \in Clients : DOMAIN Stream(c) = {}
    BY <2>1
  <2>3. QED
    BY <2>2 DEF HubInit, SentInv, OwnMsg, InStream, PerSenderFIFO
<1>2. HubInit => TypeInv
  BY InitTypeInv
<1>3. TypeInv /\ SentInv /\ [HubNext]_hubVars => TypeInv' /\ SentInv'
  BY StepTypeInv, StepSent
<1>4. HubSpec => []SentInv
  BY <1>1, <1>2, <1>3, PTL DEF HubSpec
<1>5. SentInv => PerSenderFIFO
  BY DEF SentInv
<1>6. QED
  BY <1>4, <1>5, PTL

-----------------------------------------------------------------------------
(* The sessions.                                                            *)

LEMMA InitUsesHub == WsInit => HubInit
BY DEF WsInit

LEMMA StepUsesHub == [WsNext]_vars => [HubNext]_hubVars
<1> SUFFICES ASSUME WsNext, ~crashed PROVE HubNext \/ UNCHANGED hubVars
  BY DEF WsNext, vars
<1>1. ASSUME NEW c \in Clients, Accept(c) \/ Reject(c) PROVE HubNext
  BY <1>1 DEF Accept, Reject, HubNext
<1>2. ASSUME NEW c \in Clients, PeerLeave(c) PROVE UNCHANGED hubVars
  BY <1>2 DEF PeerLeave
<1>3. ASSUME NEW c \in Clients, ReadPump(c) PROVE HubNext \/ UNCHANGED hubVars
  <2>1. CASE ReadRelay(c)
    BY <2>1 DEF ReadRelay, HubNext
  <2>2. CASE ReadError(c)
    BY <2>2, WsAssumption DEF ReadError, HubNext
  <2>3. CASE ReadPumpExit(c)
    BY <2>3 DEF ReadPumpExit
  <2>4. QED
    BY <1>3, <2>1, <2>2, <2>3 DEF ReadPump
<1>4. ASSUME NEW c \in Clients, WritePump(c) PROVE HubNext \/ UNCHANGED hubVars
  <2>1. CASE WriteTake(c)
    BY <2>1 DEF WriteTake, HubNext
  <2>2. CASE WriteOk(c) \/ WriteError(c) \/ WriteDone(c) \/ WritePumpExit(c)
    BY <2>2 DEF WriteOk, WriteError, WriteDone, WritePumpExit
  <2>3. QED
    BY <1>4, <2>1, <2>2 DEF WritePump
<1>5. ASSUME NEW p \in Broadcasters, Broadcast(p) PROVE HubNext
  BY <1>5 DEF HubNext
<1>6. ASSUME NEW p \in Goroutines, InHubCall(p) PROVE HubNext
  BY <1>6 DEF InHubCall, HubNext
<1>7. QED
  BY <1>1, <1>2, <1>3, <1>4, <1>5, <1>6 DEF WsNext

\* The composition of the handlers' goroutines with the hub makes no step the
\* hub's own specification does not allow.
THEOREM SessionsUseHub == WsSpec => UsesHub
BY InitUsesHub, StepUsesHub, PTL DEF WsSpec, HubSpec, UsesHub

\* The hub steps the sessions take: who calls what.
LEMMA SessionSteps ==
    ASSUME WsNext
    PROVE  \/ \E c \in Clients : Register(c) \/ RegisterFull(c) \/ Receive(c)
           \/ \E c \in Clients : CallUnregister(c, c)
           \/ \E c \in Relays : BroadcastExcept(c, c)
           \/ \E p \in Broadcasters : Broadcast(p)
           \/ \E p \in Goroutines : Advance(p)
           \/ UNCHANGED hubVars
<1>1. ASSUME NEW c \in Clients, Accept(c) \/ Reject(c) PROVE Register(c) \/ RegisterFull(c)
  BY <1>1 DEF Accept, Reject
<1>2. ASSUME NEW c \in Clients, PeerLeave(c) PROVE UNCHANGED hubVars
  BY <1>2 DEF PeerLeave
<1>3. ASSUME NEW c \in Clients, ReadPump(c)
      PROVE  (c \in Relays /\ BroadcastExcept(c, c)) \/ CallUnregister(c, c) \/ UNCHANGED hubVars
  BY <1>3 DEF ReadPump, ReadRelay, ReadError, ReadPumpExit
<1>4. ASSUME NEW c \in Clients, WritePump(c) PROVE Receive(c) \/ UNCHANGED hubVars
  BY <1>4 DEF WritePump, WriteTake, WriteOk, WriteError, WriteDone, WritePumpExit
<1>5. QED
  BY <1>1, <1>2, <1>3, <1>4 DEF WsNext, InHubCall

-----------------------------------------------------------------------------
(* What a session leaves behind. *)

SessionTypeOK ==
    /\ conn \in [Clients -> {"none", "open", "closed"}]
    /\ rpc \in [Clients -> {"none", "reading", "leaving", "exited"}]

\* The read pump leaves through Unregister: its goroutine is inside the call,
\* for its own client and with no broadcast to go back to, or the call has
\* returned and the client is closed.
LeavesByUnregister(c) ==
    rpc[c] = "leaving" =>
        \/ pc[c] = "idle" /\ done[c]
        \/ pc[c] \in {"delete", "check", "close"} /\ target[c] = c /\ msg[c] = 0

ExitedIsClosed(c) == rpc[c] = "exited" => done[c] /\ conn[c] = "closed"

SessionInv ==
    /\ SessionTypeOK
    /\ \A c \in Clients : LeavesByUnregister(c) /\ ExitedIsClosed(c)

\* Closed channels stay closed.
LEMMA DoneStays == ASSUME TypeInv, HubNext PROVE \A c \in Clients : done[c] => done'[c]
<1>1. ASSUME NEW p \in Goroutines, Advance(p), NEW c \in Clients, done[c] PROVE done'[c]
  BY <1>1 DEF TypeInv, TypeOK, Advance, Delete, CloseCheck, CloseDone, EndBroadcast, TrySend, DropSlow
<1>2. ASSUME NEW c \in Clients, Register(c) \/ RegisterFull(c) \/ Receive(c) PROVE UNCHANGED done
  BY <1>2 DEF Register, RegisterFull, Receive
<1>3. ASSUME NEW p \in Goroutines, NEW c \in Clients, CallUnregister(p, c) PROVE UNCHANGED done
  BY <1>3 DEF CallUnregister
<1>4. ASSUME NEW p \in Goroutines, NEW skip, Snapshot(p, skip) PROVE UNCHANGED done
  BY <1>4 DEF Snapshot
<1>5. QED
  BY <1>1, <1>2, <1>3, <1>4, HubAssumption DEF HubNext, Broadcast, BroadcastExcept

\* A step of another goroutine, or none, leaves the place of c's alone.
LEMMA OwnStepsOnly ==
    ASSUME TypeInv, NEW c \in Clients, NEW p \in Goroutines, p # c,
           Advance(p) \/ (\E d \in Clients : CallUnregister(p, d)) \/ (\E skip : Snapshot(p, skip))
    PROVE  pc'[c] = pc[c] /\ target'[c] = target[c] /\ msg'[c] = msg[c]
<1>1. c \in Goroutines
  BY WsAssumption
<1>2. CASE Advance(p)
  BY <1>1, <1>2 DEF TypeInv, TypeOK, Advance, Delete, CloseCheck, CloseDone, Return,
                    EndBroadcast, TrySend, DropSlow
<1>3. CASE \E d \in Clients : CallUnregister(p, d)
  BY <1>1, <1>3 DEF TypeInv, TypeOK, CallUnregister
<1>4. CASE \E skip : Snapshot(p, skip)
  BY <1>1, <1>4 DEF TypeInv, TypeOK, Snapshot
<1>5. QED
  BY <1>2, <1>3, <1>4

\* A step inside the hub calls of the goroutines.
LEMMA CallSession ==
    ASSUME TypeInv, SessionInv, ~crashed, NEW p \in Goroutines, InHubCall(p)
    PROVE  SessionInv'
<1>1. UNCHANGED <<conn, rpc>> /\ Advance(p)
  BY DEF InHubCall, wsVars
<1>2. HubNext
  BY <1>1 DEF HubNext
<1>3. \A c \in Clients : done[c] => done'[c]
  BY <1>2, DoneStays
<1>4. ASSUME NEW c \in Clients, rpc'[c] = "leaving"
      PROVE  \/ pc'[c] = "idle" /\ done'[c]
             \/ pc'[c] \in {"delete", "check", "close"} /\ target'[c] = c /\ msg'[c] = 0
  <2>1. \/ pc[c] = "idle" /\ done[c]
        \/ pc[c] \in {"delete", "check", "close"} /\ target[c] = c /\ msg[c] = 0
    BY <1>1, <1>4 DEF SessionInv, LeavesByUnregister
  <2>2. CASE p # c
    BY <1>1, <1>3, <2>1, <2>2, OwnStepsOnly
  <2>3. CASE p = c
    <3>1. pc[p] = "idle" => FALSE
      BY <1>1 DEF Advance, Delete, CloseCheck, CloseDone, EndBroadcast, TrySend, DropSlow
    <3>2. pc[p] \in {"delete", "check", "close"} /\ target[p] = c /\ msg[p] = 0
      BY <2>1, <2>3, <3>1
    <3>3. CASE Delete(p)
      BY <2>3, <3>2, <3>3 DEF TypeInv, TypeOK, Delete
    <3>4. CASE CloseCheck(p)
      BY <2>3, <3>2, <3>4 DEF TypeInv, TypeOK, CloseCheck, Return
    <3>5. CASE CloseDone(p)
      BY <2>3, <3>2, <3>5 DEF TypeInv, TypeOK, CloseDone, Return
    <3>6. QED
      BY <1>1, <3>2, <3>3, <3>4, <3>5 DEF Advance, EndBroadcast, TrySend, DropSlow
  <2>4. QED
    BY <2>2, <2>3
<1>5. QED
  BY <1>1, <1>3, <1>4 DEF SessionInv, SessionTypeOK, LeavesByUnregister, ExitedIsClosed

\* A step of the read pump of c outside a hub call.
LEMMA ReadPumpSession ==
    ASSUME TypeInv, SessionInv, NEW c \in Clients, ReadPump(c)
    PROVE  SessionInv'
<1>1. c \in Goroutines /\ \A d \in Clients : d \in Goroutines
  BY WsAssumption
<1>2. CASE ReadRelay(c)
  <2>1. rpc[c] = "reading" /\ UNCHANGED <<conn, rpc>> /\ Snapshot(c, {c})
    BY <1>2 DEF ReadRelay, BroadcastExcept, wsVars
  <2>2. \A d \in Clients : d # c => pc'[d] = pc[d] /\ target'[d] = target[d] /\ msg'[d] = msg[d]
    BY <1>1, <2>1, OwnStepsOnly
  <2>3. UNCHANGED done
    BY <2>1 DEF Snapshot
  <2>4. \A d \in Clients : LeavesByUnregister(d)'
    BY <2>1, <2>2, <2>3 DEF SessionInv, LeavesByUnregister
  <2>5. QED
    BY <2>1, <2>3, <2>4 DEF SessionInv, SessionTypeOK, ExitedIsClosed
<1>3. CASE ReadError(c)
  <2>1. /\ rpc[c] = "reading" /\ rpc' = [rpc EXCEPT ![c] = "leaving"]
        /\ UNCHANGED <<conn, done>> /\ CallUnregister(c, c)
    BY <1>3 DEF ReadError, CallUnregister
  <2>2. \A d \in Clients : d # c => pc'[d] = pc[d] /\ target'[d] = target[d] /\ msg'[d] = msg[d]
    BY <1>1, <2>1, OwnStepsOnly
  <2>3. pc'[c] = "delete" /\ target'[c] = c /\ msg'[c] = 0
    BY <1>1, <2>1 DEF CallUnregister, TypeInv, TypeOK, CallsOK
  <2>4. rpc'[c] = "leaving" /\ \A d \in Clients : d # c => rpc'[d] = rpc[d]
    BY <2>1 DEF SessionInv, SessionTypeOK
  <2>5. \A d \in Clients : LeavesByUnregister(d)' /\ ExitedIsClosed(d)'
    BY <2>1, <2>2, <2>3, <2>4 DEF SessionInv, LeavesByUnregister, ExitedIsClosed
  <2>6. QED
    BY <2>1, <2>5 DEF SessionInv, SessionTypeOK
<1>4. CASE ReadPumpExit(c)
  <2>1. /\ rpc[c] = "leaving" /\ pc[c] = "idle" /\ rpc' = [rpc EXCEPT ![c] = "exited"]
        /\ conn' = [conn EXCEPT ![c] = "closed"] /\ UNCHANGED hubVars
    BY <1>4 DEF ReadPumpExit
  <2>2. done[c]
    BY <2>1 DEF SessionInv, LeavesByUnregister
  <2>3. UNCHANGED <<pc, target, msg, done>>
    BY <2>1 DEF hubVars, calls
  <2>4. SessionTypeOK'
    BY <2>1 DEF SessionInv, SessionTypeOK
  <2>5. \A d \in Clients : LeavesByUnregister(d)' /\ ExitedIsClosed(d)'
    BY <2>1, <2>2, <2>3 DEF SessionInv, SessionTypeOK, LeavesByUnregister, ExitedIsClosed
  <2>6. QED
    BY <2>4, <2>5 DEF SessionInv
<1>5. QED
  BY <1>2, <1>3, <1>4 DEF ReadPump

\* The steps that touch neither the place of a goroutine nor a read pump.
LEMMA OtherSession ==
    ASSUME SessionInv, UNCHANGED <<pc, target, msg, done, rpc>>, SessionTypeOK',
           \A c \in Clients : rpc[c] = "exited" => conn'[c] = "closed"
    PROVE  SessionInv'
BY DEF SessionInv, LeavesByUnregister, ExitedIsClosed

LEMMA StepSession == TypeInv /\ SessionInv /\ [WsNext]_vars => SessionInv'
<1> SUFFICES ASSUME TypeInv, SessionInv, [WsNext]_vars PROVE SessionInv'
  OBVIOUS
<1>1. CASE UNCHANGED vars
  BY <1>1 DEF SessionInv, SessionTypeOK, LeavesByUnregister, ExitedIsClosed,
              vars, wsVars, hubVars, calls
<1>2. ASSUME NEW c \in Clients, Accept(c) PROVE SessionInv'
  <2>1. /\ conn[c] = "none" /\ conn' = [conn EXCEPT ![c] = "open"]
        /\ rpc' = [rpc EXCEPT ![c] = "reading"]
        /\ UNCHANGED <<pc, target, msg, done>>
    BY <1>2 DEF Accept, Register, calls
  <2>2. SessionTypeOK'
    BY <2>1 DEF SessionInv, SessionTypeOK
  <2>3. \A d \in Clients : LeavesByUnregister(d)' /\ ExitedIsClosed(d)'
    BY <2>1 DEF SessionInv, SessionTypeOK, LeavesByUnregister, ExitedIsClosed
  <2>4. QED
    BY <2>2, <2>3 DEF SessionInv
<1>3. ASSUME NEW c \in Clients, Reject(c) PROVE SessionInv'
  <2>1. conn' = [conn EXCEPT ![c] = "closed"] /\ UNCHANGED <<pc, target, msg, done, rpc>>
    BY <1>3 DEF Reject, RegisterFull, calls
  <2>2. QED
    BY <2>1, OtherSession DEF SessionInv, SessionTypeOK, ExitedIsClosed
<1>4. ASSUME NEW c \in Clients, PeerLeave(c) PROVE SessionInv'
  BY <1>4, OtherSession DEF PeerLeave, hubVars, calls, SessionInv, SessionTypeOK, ExitedIsClosed
<1>5. ASSUME NEW c \in Clients, ReadPump(c) PROVE SessionInv'
  BY <1>5, ReadPumpSession
<1>6. ASSUME NEW c \in Clients, WritePump(c) PROVE SessionInv'
  <2>1. UNCHANGED <<pc, target, msg, done, rpc>>
    BY <1>6 DEF WritePump, WriteTake, Receive, WriteOk, WriteError, WriteDone, WritePumpExit,
                hubVars, calls
  <2>2. UNCHANGED conn \/ conn' = [conn EXCEPT ![c] = "closed"]
    BY <1>6 DEF WritePump, WriteTake, WriteOk, WriteError, WriteDone, WritePumpExit
  <2>3. QED
    BY <2>1, <2>2, OtherSession DEF SessionInv, SessionTypeOK, ExitedIsClosed
<1>7. ASSUME NEW p \in Broadcasters, Broadcast(p), UNCHANGED wsVars PROVE SessionInv'
  <2>1. Snapshot(p, {}) /\ UNCHANGED <<conn, rpc, done>>
    BY <1>7 DEF Broadcast, Snapshot, wsVars
  <2>2. p \in Goroutines /\ \A d \in Clients : p # d
    BY WsAssumption, HubAssumption
  <2>3. \A d \in Clients : pc'[d] = pc[d] /\ target'[d] = target[d] /\ msg'[d] = msg[d]
    BY <2>1, <2>2, OwnStepsOnly
  <2>4. QED
    BY <2>1, <2>3 DEF SessionInv, SessionTypeOK, LeavesByUnregister, ExitedIsClosed
<1>8. ASSUME NEW p \in Goroutines, InHubCall(p), ~crashed PROVE SessionInv'
  BY <1>8, CallSession
<1>9. QED
  BY <1>1, <1>2, <1>3, <1>4, <1>5, <1>6, <1>7, <1>8 DEF WsNext

\* However a session ends, with its peer gone, dropped by the hub or both at
\* once, its two goroutines leave nothing behind: the read pump cannot return
\* before the Unregister it made has closed its client, whichever goroutine
\* closed it.
THEOREM SessionsLeaveNothing == WsSpec => []NothingLeaks
<1>1. WsInit => TypeInv /\ OutInv
  BY InitUsesHub, InitTypeInv, InitOutInv
<1>2. WsInit => SessionInv
  BY DEF WsInit, SessionInv, SessionTypeOK, LeavesByUnregister, ExitedIsClosed
<1>3. TypeInv /\ OutInv /\ SessionInv /\ [WsNext]_vars => TypeInv' /\ OutInv' /\ SessionInv'
  BY StepUsesHub, StepTypeInv, StepOut, StepSession
<1>4. WsSpec => [](TypeInv /\ OutInv /\ SessionInv)
  BY <1>1, <1>2, <1>3, PTL DEF WsSpec
<1>5. OutInv /\ SessionInv => NothingLeaks
  BY DEF OutInv, ClosedIsOut, SessionInv, ExitedIsClosed, NothingLeaks, Reaped
<1>6. QED
  BY <1>4, <1>5, PTL

-----------------------------------------------------------------------------
(* One broadcaster: the hub keeps the promise of FanOut. *)

\* The metrics, container and log hubs have one goroutine that broadcasts, and
\* their read pumps relay nothing.
SoleBroadcaster == Relays = {} /\ \A p, q \in Broadcasters : p = q

\* How far into the published stream a client's own stream reaches.
Reached(c) == joined[c] + Len(Stream(c))

Contiguous(c) ==
    /\ reg[c] # "accepted" => Len(Stream(c)) = 0
    /\ Reached(c) <= Len(published)
    /\ \A k \in 1..Len(Stream(c)) : Stream(c)[k] = joined[c] + k

\* The broadcaster has found c slow and is about to delete it.
Dropping(p, c) == pc[p] = "delete" /\ target[p] = c

\* The clients the loop of p has yet to try miss exactly the payload of that
\* loop; the other clients of the map miss nothing, or p is dropping them.
KeepsUp(p) ==
    /\ msg[p] # 0 => msg[p] = Len(published)
    /\ \A c \in todo[p] : Reached(c) + 1 = Len(published)
    /\ \A c \in clients \ todo[p] : Dropping(p, c) \/ Reached(c) = Len(published)

StreamInv ==
    /\ \A c \in Clients : Contiguous(c)
    /\ \A p \in Goroutines \ Broadcasters : msg[p] = 0
    /\ \A p \in Broadcasters : KeepsUp(p)

\* A step that publishes nothing and adds to no stream keeps the streams
\* contiguous, if the broadcaster gives up only clients it is dropping.
LEMMA StreamStaysEnough ==
    ASSUME TypeInv, StreamInv, UNCHANGED <<published, joined>>,
           \A c \in Clients : Stream(c)' = Stream(c),
           \A c \in Clients : reg'[c] # "accepted" => reg[c] # "accepted",
           \A p \in Goroutines : msg'[p] \in {0, msg[p]},
           \A p \in Broadcasters : todo'[p] \subseteq todo[p],
           \A p \in Broadcasters : \A c \in clients' \ todo'[p] :
              \/ Dropping(p, c)'
              \/ c \in clients \ todo[p] /\ ~Dropping(p, c)
    PROVE  StreamInv'
<1>1. \A c \in Clients : Reached(c)' = Reached(c)
  BY DEF Reached
<1>2. ASSUME NEW c \in Clients PROVE Contiguous(c)'
  BY <1>1 DEF StreamInv, Contiguous
<1>3. ASSUME NEW p \in Broadcasters PROVE KeepsUp(p)'
  <2>1. todo[p] \subseteq Clients /\ clients \subseteq Clients /\ p \in Goroutines
    BY HubAssumption DEF TypeInv, TypeOK
  <2>2. msg'[p] # 0 => msg'[p] = Len(published')
    BY <2>1 DEF StreamInv, KeepsUp
  <2>3. \A c \in todo'[p] : Reached(c)' + 1 = Len(published')
    BY <1>1, <2>1 DEF StreamInv, KeepsUp
  <2>4. \A c \in clients' \ todo'[p] : Dropping(p, c)' \/ Reached(c)' = Len(published')
    BY <1>1, <2>1 DEF StreamInv, KeepsUp
  <2>5. QED
    BY <2>2, <2>3, <2>4 DEF KeepsUp
<1>4. QED
  BY <1>2, <1>3 DEF StreamInv

LEMMA RegisterStream ==
    ASSUME TypeInv, OutInv, StreamInv, NEW c \in Clients, Register(c)
    PROVE  StreamInv'
<1>1. /\ reg[c] = "new" /\ reg' = [reg EXCEPT ![c] = "accepted"]
      /\ clients' = clients \cup {c}
      /\ joined'[c] = Len(published)
      /\ \A d \in Clients : d # c => joined'[d] = joined[d]
      /\ UNCHANGED <<send, published, taken, pc, todo, msg, target>>
  BY DEF TypeInv, TypeOK, Register, calls
<1>2. \A d \in Clients : Stream(d)' = Stream(d)
  BY <1>1 DEF Stream
<1>3. Len(Stream(c)) = 0 /\ Len(published) \in Nat
  BY <1>1 DEF StreamInv, Contiguous, TypeInv, TypeOK
<1>4. Reached(c)' = Len(published) /\ \A d \in Clients : d # c => Reached(d)' = Reached(d)
  BY <1>1, <1>2, <1>3 DEF Reached
<1>5. ASSUME NEW d \in Clients PROVE Contiguous(d)'
  <2>1. CASE d = c
    BY <1>1, <1>2, <1>3, <1>4, <2>1 DEF Contiguous
  <2>2. CASE d # c
    BY <1>1, <1>2, <1>4, <2>2 DEF StreamInv, Contiguous, TypeInv, TypeOK
  <2>3. QED
    BY <2>1, <2>2
<1>6. ASSUME NEW p \in Broadcasters PROVE KeepsUp(p)'
  <2>1. p \in Goroutines /\ todo[p] \subseteq Clients /\ clients \subseteq Clients
    BY HubAssumption DEF TypeInv, TypeOK
  <2>2. c \notin todo[p]
    BY <1>1, <2>1 DEF OutInv, KnownOnly
  <2>3. \A d \in todo'[p] : Reached(d)' + 1 = Len(published')
    BY <1>1, <1>4, <2>1, <2>2 DEF StreamInv, KeepsUp
  <2>4. \A d \in clients' \ todo'[p] : Dropping(p, d)' \/ Reached(d)' = Len(published')
    BY <1>1, <1>4, <2>1 DEF StreamInv, KeepsUp, Dropping
  <2>5. QED
    BY <1>1, <2>3, <2>4 DEF StreamInv, KeepsUp
<1>7. QED
  BY <1>1, <1>5, <1>6 DEF StreamInv

LEMMA BroadcastStream ==
    ASSUME SoleBroadcaster, TypeInv, StreamInv, NEW p \in Broadcasters, Broadcast(p)
    PROVE  StreamInv'
<1> DEFINE n == Len(published)
<1>1. /\ p \in Goroutines /\ Snapshot(p, {})
      /\ \A q \in Broadcasters : q = p
  BY HubAssumption DEF Broadcast, SoleBroadcaster
<1>2. /\ n \in Nat /\ Len(published') = n + 1
      /\ UNCHANGED <<clients, send, reg, joined, taken, target>>
  BY <1>1 DEF TypeInv, TypeOK, Snapshot
<1>3. /\ pc[p] = "idle" /\ msg'[p] = n + 1 /\ todo'[p] = clients
      /\ \A q \in Goroutines : q # p => msg'[q] = msg[q]
  BY <1>1 DEF TypeInv, TypeOK, Snapshot
<1>4. todo[p] = {}
  BY <1>1, <1>3 DEF TypeInv, CallsOK
<1>5. \A c \in Clients : Stream(c)' = Stream(c) /\ Reached(c)' = Reached(c)
  BY <1>2 DEF Stream, Reached
<1>6. \A c \in Clients : Reached(c) \in Nat
  BY StreamType DEF Reached, TypeInv, TypeOK
<1>7. \A c \in clients : Reached(c) = n
  BY <1>3, <1>4 DEF StreamInv, KeepsUp, Dropping
<1> HIDE DEF n
<1>8. ASSUME NEW c \in Clients PROVE Contiguous(c)'
  <2>1. Contiguous(c) /\ n = Len(published)
    BY DEF StreamInv, n
  <2>2. Reached(c)' <= Len(published')
    BY <1>2, <1>5, <1>6, <2>1 DEF Contiguous
  <2>3. QED
    BY <1>2, <1>5, <2>1, <2>2 DEF Contiguous
<1>9. KeepsUp(p)'
  <2>1. clients \subseteq Clients
    BY DEF TypeInv, TypeOK
  <2>2. QED
    BY <1>2, <1>3, <1>5, <1>7, <2>1 DEF KeepsUp
<1>10. QED
  BY <1>1, <1>3, <1>8, <1>9 DEF StreamInv

\* Only the broadcaster is in the loop.
LEMMA InLoop ==
    ASSUME TypeInv, StreamInv, NEW p \in Goroutines, pc[p] = "fan"
    PROVE  p \in Broadcasters /\ msg[p] = Len(published) /\ ~\E c : Dropping(p, c)
<1>1. msg[p] # 0
  BY DEF TypeInv, CallsOK
<1>2. QED
  BY <1>1 DEF StreamInv, KeepsUp, Dropping

LEMMA TrySendStreamInv ==
    ASSUME SoleBroadcaster, TypeInv, OutInv, StreamInv,
           NEW p \in Goroutines, NEW c \in Clients, TrySend(p, c)
    PROVE  StreamInv'
<1> DEFINE n == Len(published)
           s == Stream(c)
<1>1. /\ pc[p] = "fan" /\ c \in todo[p]
      /\ todo' = [todo EXCEPT ![p] = @ \ {c}]
      /\ UNCHANGED <<clients, reg, joined, published, pc, msg, target>>
  BY DEF TrySend
<1>2. /\ p \in Broadcasters /\ msg[p] = n
      /\ \A q \in Broadcasters : q = p
      /\ \A d : ~Dropping(p, d)
  BY <1>1, InLoop DEF SoleBroadcaster
<1>3. /\ Stream(c)' = Append(s, n)
      /\ \A d \in Clients : d # c => Stream(d)' = Stream(d)
      /\ n \in Payload
  BY <1>2, TrySendStream
<1>4. s \in Seq(Payload) /\ Len(s) \in Nat /\ n \in Nat /\ joined[c] \in Nat
  BY StreamType, HubAssumption DEF TypeInv, TypeOK, Payload
<1>5. joined[c] + Len(s) + 1 = n /\ reg[c] = "accepted"
  BY <1>1, <1>2 DEF StreamInv, KeepsUp, Reached, OutInv, KnownOnly
<1>6. \A k \in 1..Len(s) : s[k] = joined[c] + k
  BY DEF StreamInv, Contiguous
<1>7. todo'[p] = todo[p] \ {c}
  BY <1>1 DEF TypeInv, TypeOK
<1> HIDE DEF s
<1>8. /\ Len(Append(s, n)) = Len(s) + 1
      /\ Append(s, n)[Len(s) + 1] = n
      /\ \A k \in 1..Len(s) : Append(s, n)[k] = s[k]
  BY <1>3, <1>4, AppendProperties
<1>9. Reached(c)' = n /\ \A d \in Clients : d # c => Reached(d)' = Reached(d)
  BY <1>1, <1>3, <1>4, <1>5, <1>8 DEF Reached
<1>10. Contiguous(c)'
  <2>1. \A k \in 1..Len(s) + 1 : Append(s, n)[k] = joined[c] + k
    <3>1. ASSUME NEW k \in 1..Len(s) + 1 PROVE Append(s, n)[k] = joined[c] + k
      <4>1. CASE k = Len(s) + 1
        BY <1>4, <1>5, <1>8, <4>1
      <4>2. CASE k # Len(s) + 1
        <5>1. k \in 1..Len(s)
          BY <1>4, <4>2
        <5>2. QED
          BY <1>6, <1>8, <5>1
      <4>3. QED
        BY <4>1, <4>2
    <3>2. QED
      BY <3>1
  <2>2. QED
    BY <1>1, <1>3, <1>4, <1>5, <1>8, <1>9, <2>1 DEF Contiguous
<1>11. ASSUME NEW d \in Clients, d # c PROVE Contiguous(d)'
  BY <1>1, <1>3, <1>9, <1>11 DEF StreamInv, Contiguous
<1>12. KeepsUp(p)'
  <2>1. todo[p] \subseteq Clients /\ clients \subseteq Clients
    BY DEF TypeInv, TypeOK
  <2>2. \A d \in todo'[p] : Reached(d)' + 1 = n
    BY <1>2, <1>7, <1>9, <2>1 DEF StreamInv, KeepsUp
  <2>3. \A d \in clients \ todo'[p] : Reached(d)' = n
    BY <1>2, <1>7, <1>9, <2>1 DEF StreamInv, KeepsUp
  <2>4. QED
    BY <1>1, <1>2, <2>2, <2>3 DEF KeepsUp
<1>13. QED
  BY <1>1, <1>2, <1>10, <1>11, <1>12 DEF StreamInv

LEMMA AdvanceStream ==
    ASSUME SoleBroadcaster, TypeInv, OutInv, StreamInv, NEW p \in Goroutines, Advance(p)
    PROVE  StreamInv'
<1>1. ASSUME NEW q \in Broadcasters PROVE q \in Goroutines
  BY HubAssumption
<1>2. CASE Delete(p)
  <2>1. /\ pc[p] = "delete" /\ clients' = clients \ {target[p]}
        /\ UNCHANGED <<send, reg, joined, published, taken, todo, msg, target>>
        /\ pc'[p] = "check" /\ \A q \in Goroutines : q # p => pc'[q] = pc[q]
    BY <1>2 DEF TypeInv, TypeOK, Delete
  <2>2. \A c \in Clients : Stream(c)' = Stream(c)
    BY <2>1 DEF Stream
  <2>3. ASSUME NEW q \in Broadcasters, NEW c \in clients' \ todo'[q]
        PROVE  Dropping(q, c)' \/ (c \in clients \ todo[q] /\ ~Dropping(q, c))
    BY <1>1, <2>1 DEF Dropping
  <2>4. QED
    BY <2>1, <2>2, <2>3, StreamStaysEnough
<1>3. CASE CloseCheck(p) \/ CloseDone(p)
  <2>1. /\ pc[p] \in {"check", "close"}
        /\ UNCHANGED <<clients, send, reg, joined, published, taken, todo, msg>>
        /\ \A q \in Goroutines : q # p => pc'[q] = pc[q] /\ target'[q] = target[q]
    BY <1>3 DEF TypeInv, TypeOK, CloseCheck, CloseDone, Return
  <2>2. \A c \in Clients : Stream(c)' = Stream(c)
    BY <2>1 DEF Stream
  <2>3. ASSUME NEW q \in Broadcasters, NEW c \in clients' \ todo'[q]
        PROVE  Dropping(q, c)' \/ (c \in clients \ todo[q] /\ ~Dropping(q, c))
    BY <1>1, <2>1 DEF Dropping
  <2>4. QED
    BY <2>1, <2>2, <2>3, StreamStaysEnough
<1>4. CASE EndBroadcast(p)
  <2>1. /\ pc[p] = "fan"
        /\ UNCHANGED <<clients, send, reg, joined, published, taken, todo, target>>
        /\ \A q \in Goroutines : msg'[q] \in {0, msg[q]}
        /\ \A q \in Goroutines : q # p => pc'[q] = pc[q]
    BY <1>4 DEF TypeInv, TypeOK, EndBroadcast
  <2>2. \A c \in Clients : Stream(c)' = Stream(c)
    BY <2>1 DEF Stream
  <2>3. ASSUME NEW q \in Broadcasters, NEW c \in clients' \ todo'[q]
        PROVE  Dropping(q, c)' \/ (c \in clients \ todo[q] /\ ~Dropping(q, c))
    BY <1>1, <2>1 DEF Dropping
  <2>4. QED
    BY <2>1, <2>2, <2>3, StreamStaysEnough
<1>5. ASSUME NEW c \in Clients, TrySend(p, c) PROVE StreamInv'
  BY <1>5, TrySendStreamInv
<1>6. ASSUME NEW c \in Clients, DropSlow(p, c) PROVE StreamInv'
  <2>1. /\ pc[p] = "fan" /\ c \in todo[p]
        /\ UNCHANGED <<clients, send, reg, joined, published, taken, msg>>
        /\ todo'[p] = todo[p] \ {c} /\ pc'[p] = "delete" /\ target'[p] = c
        /\ \A q \in Goroutines : q # p => todo'[q] = todo[q] /\ pc'[q] = pc[q] /\ target'[q] = target[q]
    BY <1>6 DEF TypeInv, TypeOK, DropSlow
  <2>2. \A d \in Clients : Stream(d)' = Stream(d)
    BY <2>1 DEF Stream
  <2>3. ASSUME NEW q \in Broadcasters, NEW d \in clients' \ todo'[q]
        PROVE  Dropping(q, d)' \/ (d \in clients \ todo[q] /\ ~Dropping(q, d))
    <3>1. q = p
      BY <2>1, InLoop DEF SoleBroadcaster
    <3>2. QED
      BY <2>1, <2>3, <3>1 DEF Dropping
  <2>4. \A q \in Broadcasters : todo'[q] \subseteq todo[q]
    BY <1>1, <2>1
  <2>5. QED
    BY <2>1, <2>2, <2>3, <2>4, StreamStaysEnough
<1>7. QED
  BY <1>2, <1>3, <1>4, <1>5, <1>6 DEF Advance

LEMMA StepStream ==
    ASSUME SoleBroadcaster, TypeInv, OutInv, StreamInv, [WsNext]_vars
    PROVE  StreamInv'
<1>1. CASE UNCHANGED hubVars
  BY <1>1 DEF StreamInv, Contiguous, KeepsUp, Reached, Dropping, Stream, hubVars, calls
<1>2. ASSUME NEW c \in Clients, Register(c) PROVE StreamInv'
  BY <1>2, RegisterStream
<1>3. ASSUME NEW c \in Clients, RegisterFull(c) PROVE StreamInv'
  <2>1. /\ \A d \in Clients : reg'[d] # "accepted" => reg[d] # "accepted"
        /\ UNCHANGED <<clients, send, joined, published, taken, pc, todo, msg, target>>
    BY <1>3 DEF TypeInv, TypeOK, RegisterFull, calls
  <2>2. \A d \in Clients : Stream(d)' = Stream(d) /\ Reached(d)' = Reached(d)
    BY <2>1 DEF Stream, Reached
  <2>3. ASSUME NEW d \in Clients PROVE Contiguous(d)'
    BY <2>1, <2>2 DEF StreamInv, Contiguous
  <2>4. ASSUME NEW p \in Broadcasters PROVE KeepsUp(p)'
    <3>1. todo[p] \subseteq Clients /\ clients \subseteq Clients
      BY HubAssumption DEF TypeInv, TypeOK
    <3>2. QED
      BY <2>1, <2>2, <3>1 DEF StreamInv, KeepsUp, Dropping
  <2>5. QED
    BY <2>1, <2>3, <2>4 DEF StreamInv
<1>4. ASSUME NEW c \in Clients, Receive(c) PROVE StreamInv'
  <2>1. UNCHANGED <<clients, reg, joined, published, pc, todo, msg, target>>
    BY <1>4 DEF Receive, calls
  <2>2. \A d \in Clients : Stream(d)' = Stream(d) /\ Reached(d)' = Reached(d)
    BY <1>4, <2>1, ReceiveKeepsStream DEF Reached
  <2>3. ASSUME NEW d \in Clients PROVE Contiguous(d)'
    BY <2>1, <2>2 DEF StreamInv, Contiguous
  <2>4. ASSUME NEW p \in Broadcasters PROVE KeepsUp(p)'
    <3>1. todo[p] \subseteq Clients /\ clients \subseteq Clients
      BY HubAssumption DEF TypeInv, TypeOK
    <3>2. QED
      BY <2>1, <2>2, <3>1 DEF StreamInv, KeepsUp, Dropping
  <2>5. QED
    BY <2>1, <2>3, <2>4 DEF StreamInv
<1>5. ASSUME NEW c \in Clients, CallUnregister(c, c) PROVE StreamInv'
  <2>1. UNCHANGED <<clients, send, reg, joined, published, taken, todo, msg>>
    BY <1>5 DEF CallUnregister
  <2>2. \A p \in Broadcasters : p \in Goroutines /\ pc'[p] = pc[p] /\ target'[p] = target[p]
    BY <1>5, WsAssumption, HubAssumption DEF TypeInv, TypeOK, CallUnregister
  <2>3. StreamInv' <=> StreamInv
    BY <2>1, <2>2 DEF StreamInv, Contiguous, KeepsUp, Reached, Dropping, Stream
  <2>4. QED
    BY <2>3
<1>6. ASSUME NEW p \in Broadcasters, Broadcast(p) PROVE StreamInv'
  BY <1>6, BroadcastStream
<1>7. ASSUME NEW p \in Goroutines, Advance(p) PROVE StreamInv'
  BY <1>7, AdvanceStream
<1>8. CASE UNCHANGED vars
  BY <1>1, <1>8 DEF vars
<1>9. CASE WsNext
  BY <1>1, <1>2, <1>3, <1>4, <1>5, <1>6, <1>7, <1>9, SessionSteps DEF SoleBroadcaster
<1>10. QED
  BY <1>8, <1>9

Subscribed == [c \in Clients |-> Subscription(c)]

\* Every hub step is a step of FanOut: Register subscribes, the snapshot of
\* Broadcast publishes, a receive delivers, and Delete lets go; the others,
\* the sends into the buffers among them, change nothing FanOut speaks of.
LEMMA StepFanOut ==
    ASSUME SoleBroadcaster, TypeInv, OutInv, StreamInv, [WsNext]_vars
    PROVE  [Abstract!Next]_(Abstract!fanOutVars)
<1> SUFFICES Abstract!Next \/ UNCHANGED <<Len(published), Subscribed, joined, taken>>
  BY DEF Abstract!fanOutVars, Subscribed
<1>1. CASE UNCHANGED hubVars
  BY <1>1 DEF Subscribed, Subscription, hubVars, calls
<1>2. ASSUME NEW c \in Clients, Register(c) PROVE Abstract!Subscribe(c)
  <2>1. /\ reg[c] = "new" /\ reg' = [reg EXCEPT ![c] = "accepted"]
        /\ clients' = clients \cup {c}
        /\ joined' = [joined EXCEPT ![c] = Len(published)]
        /\ UNCHANGED <<published, taken>>
    BY <1>2 DEF Register
  <2>2. Subscription(c) = "new" /\ Subscription(c)' = "on"
    BY <2>1 DEF Subscription, TypeInv, TypeOK
  <2>3. \A d \in Clients : d # c => Subscription(d)' = Subscription(d)
    BY <2>1 DEF Subscription, TypeInv, TypeOK
  <2>4. Subscribed' = [Subscribed EXCEPT ![c] = "on"]
    BY <2>2, <2>3 DEF Subscribed
  <2>5. QED
    BY <2>1, <2>2, <2>4 DEF Abstract!Subscribe, Subscribed
<1>3. ASSUME NEW c \in Clients, RegisterFull(c) PROVE Abstract!Refuse(c)
  <2>1. /\ reg[c] = "new" /\ reg' = [reg EXCEPT ![c] = "rejected"]
        /\ UNCHANGED <<clients, joined, published, taken>>
    BY <1>3 DEF RegisterFull
  <2>2. Subscription(c) = "new" /\ Subscription(c)' = "refused"
    BY <2>1 DEF Subscription, TypeInv, TypeOK
  <2>3. \A d \in Clients : d # c => Subscription(d)' = Subscription(d)
    BY <2>1 DEF Subscription, TypeInv, TypeOK
  <2>4. Subscribed' = [Subscribed EXCEPT ![c] = "refused"]
    BY <2>2, <2>3 DEF Subscribed
  <2>5. QED
    BY <2>1, <2>2, <2>4 DEF Abstract!Refuse, Subscribed
<1>4. ASSUME NEW c \in Clients, Receive(c) PROVE Abstract!Deliver(c)
  <2> DEFINE t == taken[c]
             s == send[c]
  <2>1. /\ s # <<>> /\ taken' = [taken EXCEPT ![c] = Append(t, Head(s))]
        /\ UNCHANGED <<clients, reg, joined, published>>
    BY <1>4 DEF TypeInv, TypeOK, Receive
  <2>2. t \in Seq(Payload) /\ s \in Seq(Payload) /\ Stream(c) = t \o s
    BY DEF TypeInv, TypeOK, Stream
  <2>3. Contiguous(c) /\ joined[c] \in Nat /\ Len(published) \in Nat
    BY DEF StreamInv, TypeInv, TypeOK
  <2> HIDE DEF t, s
  <2>4. /\ Len(t) \in Nat /\ Len(s) \in Nat \ {0} /\ Len(t \o s) = Len(t) + Len(s)
        /\ (t \o s)[Len(t) + 1] = s[1] /\ Head(s) = s[1]
    BY <2>1, <2>2
  <2>5. reg[c] = "accepted"
    BY <2>2, <2>3, <2>4 DEF Contiguous
  <2>6. Head(s) = joined[c] + Len(t) + 1
    <3>1. Len(t) + 1 \in 1..Len(t \o s)
      BY <2>4
    <3>2. (t \o s)[Len(t) + 1] = joined[c] + (Len(t) + 1)
      BY <2>2, <2>3, <3>1 DEF Contiguous
    <3>3. Head(s) = (t \o s)[Len(t) + 1]
      BY <2>4
    <3>4. joined[c] + (Len(t) + 1) = joined[c] + Len(t) + 1
      BY <2>3, <2>4
    <3>5. QED
      BY <3>2, <3>3, <3>4, Zenon
  <2>7. joined[c] + Len(t) + 1 <= Len(published)
    BY <2>2, <2>3, <2>4 DEF Contiguous, Reached
  <2>8. Subscription(c) \in {"on", "off"}
    BY <2>5 DEF Subscription
  <2>9. Subscribed' = Subscribed
    BY <2>1 DEF Subscribed, Subscription
  <2>10. QED
    BY <2>1, <2>6, <2>7, <2>8, <2>9 DEF Abstract!Deliver, Abstract!NextFor, Subscribed, t
<1>5. ASSUME NEW c \in Clients, CallUnregister(c, c)
      PROVE  UNCHANGED <<Len(published), Subscribed, joined, taken>>
  BY <1>5 DEF CallUnregister, Subscribed, Subscription
<1>6. ASSUME NEW p \in Broadcasters, Broadcast(p) PROVE Abstract!Publish
  <2>1. Len(published') = Len(published) + 1 /\ UNCHANGED <<clients, reg, joined, taken>>
    BY <1>6 DEF TypeInv, TypeOK, Broadcast, Snapshot
  <2>2. Subscribed' = Subscribed
    BY <2>1 DEF Subscribed, Subscription
  <2>3. QED
    BY <2>1, <2>2 DEF Abstract!Publish, Subscribed
<1>7. ASSUME NEW p \in Goroutines, Delete(p)
      PROVE  \/ \E c \in Clients : Abstract!LetGo(c)
             \/ UNCHANGED <<Len(published), Subscribed, joined, taken>>
  <2>1. /\ clients' = clients \ {target[p]} /\ UNCHANGED <<reg, joined, published, taken>>
        /\ pc[p] = "delete"
    BY <1>7 DEF Delete
  <2>2. target[p] \in Clients /\ reg[target[p]] = "accepted"
    BY <2>1 DEF TypeInv, TypeOK, OutInv, KnownOnly
  <2>3. ASSUME NEW c \in Clients, c = target[p], c \in clients PROVE Abstract!LetGo(c)
    <3>1. \A d \in Clients : d # c => Subscription(d)' = Subscription(d)
      BY <2>1, <2>3 DEF Subscription
    <3>2. reg'[c] = "accepted" /\ reg[c] = "accepted" /\ c \notin clients'
      BY <2>1, <2>2, <2>3
    <3>3. Subscription(c) = "on" /\ Subscription(c)' = "off"
      BY <2>3, <3>2 DEF Subscription
    <3>4. Subscribed' = [Subscribed EXCEPT ![c] = "off"]
      BY <3>1, <3>3 DEF Subscribed
    <3>5. QED
      BY <2>1, <3>3, <3>4 DEF Abstract!LetGo, Subscribed
  <2>4. CASE target[p] \notin clients
    BY <2>1, <2>4 DEF Subscribed, Subscription
  <2>5. QED
    BY <2>2, <2>3, <2>4
<1>8. ASSUME NEW p \in Goroutines, Advance(p), ~Delete(p)
      PROVE  UNCHANGED <<Len(published), Subscribed, joined, taken>>
  <2>1. UNCHANGED <<clients, reg, joined, published, taken>>
    BY <1>8 DEF Advance, CloseCheck, CloseDone, EndBroadcast, TrySend, DropSlow
  <2>2. QED
    BY <2>1 DEF Subscribed, Subscription
<1>9. CASE UNCHANGED vars
  BY <1>1, <1>9 DEF vars
<1>10. CASE WsNext
  BY <1>1, <1>2, <1>3, <1>4, <1>5, <1>6, <1>7, <1>8, <1>10, SessionSteps
  DEF Abstract!Next, SoleBroadcaster
<1>11. QED
  BY <1>9, <1>10

LEMMA InitStream == WsInit => StreamInv
<1> SUFFICES ASSUME HubInit PROVE StreamInv
  BY InitUsesHub
<1>1. \A c \in Clients : Stream(c) = <<>> /\ Len(Stream(c)) = 0
  BY DEF HubInit, Stream
<1>2. Len(published) = 0 /\ \A c \in Clients : joined[c] = 0 /\ Reached(c) = 0
  BY <1>1 DEF HubInit, Reached
<1>3. \A c \in Clients : Contiguous(c)
  BY <1>1, <1>2 DEF Contiguous
<1>4. QED
  BY <1>3, HubAssumption DEF HubInit, StreamInv, KeepsUp

\* With one broadcaster, whatever the number of clients and the size of their
\* buffers, what a write pump takes from its client is a contiguous part of
\* the stream from the payload after its registration: a client that falls
\* behind is let go, not given a stream with holes.
THEOREM SessionsImplementFanOut ==
    ASSUME SoleBroadcaster
    PROVE  WsSpec => ImplementsFanOut
<1>1. WsInit => TypeInv /\ OutInv /\ StreamInv
  BY InitUsesHub, InitTypeInv, InitOutInv, InitStream
<1>2. TypeInv /\ OutInv /\ StreamInv /\ [WsNext]_vars => TypeInv' /\ OutInv' /\ StreamInv'
  BY StepUsesHub, StepTypeInv, StepOut, StepStream
<1>3. WsInit => Abstract!Init
  <2> SUFFICES ASSUME HubInit PROVE Abstract!Init
    BY InitUsesHub
  <2>1. Len(published) = 0 /\ \A c \in Clients : Subscription(c) = "new"
    BY DEF HubInit, Subscription
  <2>2. QED
    BY <2>1 DEF HubInit, Abstract!Init
<1>4. TypeInv /\ OutInv /\ StreamInv /\ [WsNext]_vars => [Abstract!Next]_(Abstract!fanOutVars)
  BY StepFanOut
<1>5. QED
  BY <1>1, <1>2, <1>3, <1>4, PTL DEF WsSpec, ImplementsFanOut, Abstract!Spec
=============================================================================
