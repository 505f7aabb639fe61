-------------------------- MODULE ContainersProofs --------------------------
(***************************************************************************)
(* Theorems about Containers: the collector counts no byte twice, an open  *)
(* page always has a socket or is about to have one, and it shows the      *)
(* last frame it was sent.                                                 *)
(***************************************************************************)
EXTENDS MCContainers, SequenceTheorems, FiniteSetTheorems, WellFoundedInduction, TLAPS

-----------------------------------------------------------------------------
(* The counters. *)

Map == [Ids -> Nat \cup {None}]

CountersTyped ==
    /\ docker \in [Ids -> [up : BOOLEAN, rx : Nat, total : Nat]]
    /\ cpc \in {"idle", "fetch", "send"}
    /\ got \in Map /\ prev \in Map /\ batch \in Map /\ counted \in [Ids -> Nat]
    /\ cpc # "send" => batch = NoEntries

\* What is counted once the batch under way is committed.
CountedWith(i) == counted[i] + (IF batch[i] = None THEN 0 ELSE batch[i])

\* The container's total leaves room for what is counted and, beyond it, for
\* what each reading the collector holds will make the next ones count.
Room(i) ==
    /\ CountedWith(i) <= docker[i].total
    /\ prev[i] # None => CountedWith(i) + (docker[i].rx - prev[i]) <= docker[i].total
    /\ got[i] # None =>
          /\ CountedWith(i) + Bytes(i) <= docker[i].total
          /\ CountedWith(i) + Bytes(i) + (docker[i].rx - got[i]) <= docker[i].total

CountersInv == CountersTyped /\ \A i \in Ids : Room(i)

\* What the collector and Docker keep.
counters == <<docker, cpc, got, prev, batch, counted>>

LEMMA SameCounters == ASSUME CountersInv, UNCHANGED counters PROVE CountersInv'
  BY DEF CountersInv, CountersTyped, Room, CountedWith, Bytes, counters

LEMMA CountersAreNumbers ==
    ASSUME CountersTyped, NEW i \in Ids
    PROVE  /\ docker[i].rx \in Nat /\ docker[i].total \in Nat /\ counted[i] \in Nat
           /\ prev[i] \in Nat \cup {-1} /\ got[i] \in Nat \cup {-1}
           /\ batch[i] \in Nat \cup {-1}
  BY DEF CountersTyped, Map, None

LEMMA ReceiveKeepsRoom ==
    ASSUME CountersInv, NEW j \in Ids, Receive(j) PROVE CountersInv'
  <1>1. CountersTyped'
    BY DEF CountersInv, CountersTyped, Receive
  <1>2. ASSUME NEW i \in Ids PROVE Room(i)'
    <2>1. Room(i) /\ CountersTyped
      BY DEF CountersInv
    <2>2. UNCHANGED <<got, prev, batch, counted>>
      BY DEF Receive
    <2>3. \/ docker'[i].rx = docker[i].rx /\ docker'[i].total = docker[i].total
          \/ docker'[i].rx = docker[i].rx + 1 /\ docker'[i].total = docker[i].total + 1
      BY <2>1 DEF Receive, CountersTyped
    <2> QED
      BY <2>1, <2>2, <2>3, CountersAreNumbers DEF Room, CountedWith, Bytes, None
  <1> QED
    BY <1>1, <1>2 DEF CountersInv

\* A counter that starts again from zero leaves more room than it had.
LEMMA RestartKeepsRoom ==
    ASSUME CountersInv, NEW j \in Ids, RestartContainer(j) \/ StopContainer(j)
    PROVE  CountersInv'
  <1>1. CountersTyped'
    <2>1. \/ docker' = [docker EXCEPT ![j].up = TRUE, ![j].rx = 0]
          \/ docker' = [docker EXCEPT ![j].up = FALSE]
      BY DEF RestartContainer, StopContainer
    <2>2. docker' \in [Ids -> [up : BOOLEAN, rx : Nat, total : Nat]]
      <3>1. /\ docker \in [Ids -> [up : BOOLEAN, rx : Nat, total : Nat]]
            /\ docker[j] \in [up : BOOLEAN, rx : Nat, total : Nat]
        BY DEF CountersInv, CountersTyped
      <3>2. /\ [docker[j] EXCEPT !.up = TRUE, !.rx = 0] \in [up : BOOLEAN, rx : Nat, total : Nat]
            /\ [docker[j] EXCEPT !.up = FALSE] \in [up : BOOLEAN, rx : Nat, total : Nat]
        BY <3>1
      <3>3. \/ docker' = [docker EXCEPT ![j] = [docker[j] EXCEPT !.up = TRUE, !.rx = 0]]
            \/ docker' = [docker EXCEPT ![j] = [docker[j] EXCEPT !.up = FALSE]]
        BY <2>1, <3>1
      <3> QED
        BY <3>1, <3>2, <3>3
    <2>3. UNCHANGED <<cpc, got, prev, batch, counted>>
      BY DEF RestartContainer, StopContainer
    <2> QED
      BY <2>2, <2>3 DEF CountersInv, CountersTyped
  <1>2. ASSUME NEW i \in Ids PROVE Room(i)'
    <2>1. Room(i) /\ CountersTyped
      BY DEF CountersInv
    <2>2. UNCHANGED <<got, prev, batch, counted>>
      BY DEF RestartContainer, StopContainer
    <2>3. docker'[i].total = docker[i].total /\ docker'[i].rx \in {docker[i].rx, 0}
      BY <2>1 DEF RestartContainer, StopContainer, CountersTyped
    <2> QED
      BY <2>1, <2>2, <2>3, CountersAreNumbers DEF Room, CountedWith, Bytes, None
  <1> QED
    BY <1>1, <1>2 DEF CountersInv

LEMMA StatsKeepsRoom ==
    ASSUME CountersInv, NEW j \in Ids, Stats(j) PROVE CountersInv'
  <1>1. UNCHANGED <<docker, cpc, prev, batch, counted>>
    BY DEF Stats
  <1>2. \/ got' = got
        \/ got' = [got EXCEPT ![j] = docker[j].rx]
    BY DEF Stats
  <1>3. got' \in Map
    BY <1>2, CountersAreNumbers DEF CountersInv, CountersTyped, Map, None
  <1>4. CountersTyped'
    BY <1>1, <1>3 DEF CountersInv, CountersTyped
  <1>5. ASSUME NEW i \in Ids PROVE Room(i)'
    <2>1. Room(i) /\ CountersTyped
      BY DEF CountersInv
    <2>2. got'[i] \in {got[i], docker[i].rx}
      BY <1>2, <2>1 DEF CountersTyped, Map
    <2> QED
      BY <1>1, <2>1, <2>2, CountersAreNumbers DEF Room, CountedWith, Bytes, None
  <1> QED
    BY <1>4, <1>5 DEF CountersInv

\* The readings become the rows' bytes and the next cycle's prev at once.
LEMMA GatherKeepsRoom == ASSUME CountersInv, Gather PROVE CountersInv'
  <1>1. /\ batch' = [i \in Ids |-> IF got[i] = None THEN None ELSE Bytes(i)]
        /\ prev' = got /\ got' = NoEntries
        /\ UNCHANGED <<docker, counted>>
        /\ cpc = "fetch"
        /\ cpc' = IF got = NoEntries THEN "idle" ELSE "send"
    BY DEF Gather
  <1>2. ASSUME NEW i \in Ids PROVE Bytes(i) \in Nat \/ got[i] = None
    BY CountersAreNumbers DEF CountersInv, Bytes, None
  <1>3. batch' \in Map /\ got' \in Map /\ prev' \in Map
    BY <1>1, <1>2 DEF CountersInv, CountersTyped, Map, NoEntries
  <1>4. got = NoEntries => batch' = NoEntries
    BY <1>1 DEF NoEntries
  <1>5. CountersTyped'
    BY <1>1, <1>3, <1>4 DEF CountersInv, CountersTyped
  <1>6. ASSUME NEW i \in Ids PROVE Room(i)'
    <2>1. Room(i) /\ CountersTyped /\ batch[i] = None
      BY <1>1 DEF CountersInv, CountersTyped, NoEntries
    <2>2. /\ batch'[i] = IF got[i] = None THEN None ELSE Bytes(i)
          /\ prev'[i] = got[i] /\ got'[i] = None
      BY <1>1 DEF NoEntries
    <2>3. counted[i] <= docker[i].total
      BY <2>1, CountersAreNumbers DEF Room, CountedWith
    <2>4. CASE got[i] = None
      BY <1>1, <2>1, <2>2, <2>3, <2>4, CountersAreNumbers DEF Room, CountedWith
    <2>5. CASE got[i] # None
      <3>1. /\ counted[i] + 0 + Bytes(i) <= docker[i].total
            /\ counted[i] + 0 + Bytes(i) + (docker[i].rx - got[i]) <= docker[i].total
        BY <2>1, <2>5 DEF Room, CountedWith
      <3>2. Bytes(i) \in Nat
        BY <1>2, <2>5
      <3> QED
        BY <1>1, <2>1, <2>2, <2>5, <3>1, <3>2, CountersAreNumbers
        DEF Room, CountedWith, None
    <2> QED
      BY <2>4, <2>5
  <1> QED
    BY <1>5, <1>6 DEF CountersInv

LEMMA SendKeepsRoom == ASSUME CountersInv, Send PROVE CountersInv'
  <1>1. batch' = NoEntries /\ cpc' = "idle" /\ UNCHANGED <<docker, got, prev>>
    BY DEF Send
  <1>2. \/ counted' = [i \in Ids |-> IF batch[i] = None THEN counted[i]
                                     ELSE counted[i] + batch[i]]
        \/ counted' = counted
    BY DEF Send
  <1>3. ASSUME NEW i \in Ids
        PROVE  /\ counted'[i] \in Nat /\ counted'[i] <= CountedWith(i)
               /\ CountedWith(i) \in Nat
    BY <1>2, CountersAreNumbers DEF CountersInv, CountersTyped, CountedWith, None
  <1>4. counted' \in [Ids -> Nat]
    BY <1>2, <1>3 DEF CountersInv, CountersTyped
  <1>5. NoEntries \in Map
    BY DEF NoEntries, Map
  <1>6. CountersTyped'
    BY <1>1, <1>4, <1>5 DEF CountersInv, CountersTyped
  <1>7. ASSUME NEW i \in Ids PROVE Room(i)'
    <2>1. Room(i) /\ CountersTyped
      BY DEF CountersInv
    <2>2. CountedWith(i)' = counted'[i]
      BY <1>1, <1>3 DEF CountedWith, NoEntries
    <2>3. CountedWith(i)' <= CountedWith(i)
          /\ CountedWith(i)' \in Nat /\ CountedWith(i) \in Nat
      BY <1>3, <2>2
    <2>4. Bytes(i)' = Bytes(i) /\ (got[i] # None => Bytes(i) \in Nat)
      BY <1>1, <2>1, CountersAreNumbers DEF Bytes, None
    <2> QED
      BY <1>1, <2>1, <2>3, <2>4, CountersAreNumbers DEF Room, None
  <1> QED
    BY <1>6, <1>7 DEF CountersInv

LEMMA RestartCollectorKeepsRoom ==
    ASSUME CountersInv, RestartCollector PROVE CountersInv'
  <1>1. /\ cpc' = "idle" /\ got' = NoEntries /\ prev' = NoEntries /\ batch' = NoEntries
        /\ UNCHANGED <<docker, counted>>
    BY DEF RestartCollector
  <1>2. CountersTyped'
    BY <1>1 DEF CountersInv, CountersTyped, NoEntries, Map
  <1>3. ASSUME NEW i \in Ids PROVE Room(i)'
    <2>1. Room(i) /\ CountersTyped
      BY DEF CountersInv
    <2>2. batch'[i] = None /\ prev'[i] = None /\ got'[i] = None
      BY <1>1 DEF NoEntries
    <2>3. counted[i] <= docker[i].total
      BY <2>1, CountersAreNumbers DEF Room, CountedWith, None
    <2> QED
      BY <1>1, <2>1, <2>2, <2>3, CountersAreNumbers DEF Room, CountedWith
  <1> QED
    BY <1>2, <1>3 DEF CountersInv

LEMMA InitCountersInv == Init => CountersInv
  BY DEF Init, CountersInv, CountersTyped, Room, CountedWith, NoEntries, Map, None

LEMMA NextCountersInv == CountersInv /\ [Next]_vars => CountersInv'
  <1> SUFFICES ASSUME CountersInv, [Next]_vars PROVE CountersInv'
    OBVIOUS
  <1>1. ASSUME UNCHANGED counters PROVE CountersInv'
    BY <1>1, SameCounters
  <1>2. ASSUME NEW i \in Ids, Receive(i) PROVE CountersInv'
    BY <1>2, ReceiveKeepsRoom
  <1>3. ASSUME NEW i \in Ids, RestartContainer(i) \/ StopContainer(i) PROVE CountersInv'
    BY <1>3, RestartKeepsRoom
  <1>4. ASSUME NEW i \in Ids, Stats(i) PROVE CountersInv'
    BY <1>4, StatsKeepsRoom
  <1>5. CASE List
    <2>1. UNCHANGED <<docker, got, prev, batch, counted>> /\ cpc = "idle" /\ cpc' \in {"idle", "fetch"}
      BY <1>5 DEF List
    <2> QED
      BY <2>1 DEF CountersInv, CountersTyped, Room, CountedWith, Bytes
  <1>6. CASE Gather \/ Send \/ RestartCollector
    BY <1>6, GatherKeepsRoom, SendKeepsRoom, RestartCollectorKeepsRoom
  <1>7. CASE Connect \/ WaitForNotification \/ WatcherFails \/ Query \/ Broadcast \/ DrainEnd
    BY <1>1, <1>7
    DEF Connect, WaitForNotification, WatcherFails, Query, Broadcast, DrainEnd, collector, counters
  <1>8. CASE RestartServer \/ Start \/ Stop \/ Retry
    BY <1>1, <1>8 DEF RestartServer, Start, Stop, Retry, collector, counters
  <1>9. ASSUME NEW b \in boots, History(b) \/ Bootstrap(b) \/ BootstrapFails(b)
        PROVE  CountersInv'
    BY <1>1, <1>9 DEF History, Bootstrap, BootstrapFails, collector, counters
  <1>10. ASSUME NEW k \in DOMAIN sockets, Accept(k) \/ Lose(k) \/ OnMessage(k) \/ OnClose(k)
         PROVE  CountersInv'
    BY <1>1, <1>10 DEF Accept, Lose, OnMessage, OnClose, collector, counters
  <1>11. CASE UNCHANGED vars
    BY <1>1, <1>11 DEF vars, collector, counters
  <1> QED
    BY <1>2, <1>3, <1>4, <1>5, <1>6, <1>7, <1>8, <1>9, <1>10, <1>11 DEF Next

\* Whatever fails or restarts between two readings, the rows in
\* container_metrics never add up to more than the container received.
THEOREM CountsOnce == Spec => []NoByteTwice
  <1>1. CountersInv => NoByteTwice
    <2> SUFFICES ASSUME CountersInv, NEW i \in Ids PROVE counted[i] <= docker[i].total
      BY DEF NoByteTwice
    <2>1. CountedWith(i) <= docker[i].total /\ CountersTyped
      BY DEF CountersInv, Room
    <2> QED
      BY <2>1, CountersAreNumbers DEF CountedWith, None
  <1> QED
    BY InitCountersInv, NextCountersInv, <1>1, PTL DEF Spec

-----------------------------------------------------------------------------
(* The sockets of the page. *)

Row == [t : Nat, id : Ids]
Frame == [t : Nat, ids : SUBSET Ids]
Socket == [state : {"connecting", "open", "lost", "closing", "closed"}, inbox : Seq(Frame)]

SocketsOK ==
    /\ sockets \in Seq(Socket)
    /\ ws \in 0 .. Len(sockets)
    /\ table \in Seq(Row)
    /\ lastID \in 0 .. Len(table) /\ maxID \in 0 .. Len(table) /\ sent \in Nat

SocketInv == SocketsOK /\ PageIsLive

LEMMA SocketElement ==
    ASSUME SocketsOK, NEW k \in DOMAIN sockets
    PROVE  sockets[k] \in Socket
  BY LenProperties, ElementOfSeq DEF SocketsOK

\* Where the watcher is in the table.
Positions ==
    lastID \in 0 .. Len(table) /\ maxID \in 0 .. Len(table) /\ sent \in Nat

\* A step that leaves the page's sockets and the table alone.
LEMMA SameSockets ==
    ASSUME SocketInv, UNCHANGED <<sockets, ws, retry, started, table>>, Positions'
    PROVE  SocketInv'
  BY DEF SocketInv, SocketsOK, PageIsLive, Positions

\* A step that puts other sockets in the sockets' places.
LEMMA OtherSockets ==
    ASSUME SocketsOK,
           sockets' \in [1 .. Len(sockets) -> Socket],
           ws' \in {ws, 0}, UNCHANGED table, Positions'
    PROVE  SocketsOK' /\ DOMAIN sockets' = DOMAIN sockets
  <1>1. Len(sockets) \in Nat /\ DOMAIN sockets = 1 .. Len(sockets)
    BY LenProperties DEF SocketsOK
  <1>2. sockets' \in Seq(Socket)
    BY <1>1, SeqDef
  <1>3. Len(sockets') = Len(sockets)
    BY <1>1, <1>2, LenProperties
  <1> QED
    BY <1>1, <1>2, <1>3 DEF SocketsOK, Positions

LEMMA ChangeSocket ==
    ASSUME SocketsOK, NEW k \in DOMAIN sockets, NEW x \in Socket,
           sockets' = [sockets EXCEPT ![k] = x],
           ws' \in {ws, 0}, UNCHANGED <<table, lastID, maxID, sent>>
    PROVE  SocketsOK' /\ DOMAIN sockets' = DOMAIN sockets
  <1>1. sockets \in [1 .. Len(sockets) -> Socket]
    BY LenProperties, SeqDef DEF SocketsOK
  <1>2. sockets' \in [1 .. Len(sockets) -> Socket] /\ Positions'
    BY <1>1 DEF SocketsOK, Positions
  <1> QED
    BY <1>2, OtherSockets

\* A new socket is on its way.
LEMMA OpenIsLive ==
    ASSUME SocketInv, OpenSocket, UNCHANGED <<table, lastID, maxID, sent>>
    PROVE  SocketInv'
  <1> DEFINE new == [state |-> "connecting", inbox |-> <<>>]
  <1>1. new \in Socket /\ new.state = "connecting"
    BY DEF Socket
  <1>2. sockets' = Append(sockets, new) /\ ws' = Len(sockets) + 1 /\ sockets \in Seq(Socket)
    BY DEF OpenSocket, SocketInv, SocketsOK
  <1> HIDE DEF new
  <1>3. /\ sockets' \in Seq(Socket)
        /\ Len(sockets') = Len(sockets) + 1
        /\ sockets'[Len(sockets) + 1] = new
    BY <1>1, <1>2, AppendProperties
  <1>4. Len(sockets) \in Nat /\ DOMAIN sockets' = 1 .. Len(sockets) + 1
    BY <1>2, <1>3, LenProperties
  <1>5. SocketsOK'
    BY <1>2, <1>3, <1>4 DEF SocketInv, SocketsOK
  <1>6. PageIsLive'
    BY <1>1, <1>3, <1>4 DEF PageIsLive
  <1> QED
    BY <1>5, <1>6 DEF SocketInv

\* The next frame of the page.
LEMMA NextFrameIs ==
    ASSUME SocketsOK, sent < maxID
    PROVE  NextFrame \in Frame /\ Cardinality(NextRows) \in Nat
  <1>1. Len(table) \in Nat /\ maxID \in 0 .. Len(table) /\ sent \in Nat
    BY LenProperties DEF SocketsOK
  <1>2. \A n \in sent + 1 .. maxID : table[n] \in Row
    <2>1. \A n \in sent + 1 .. maxID : n \in 1 .. Len(table)
      BY <1>1
    <2> QED
      BY <2>1, ElementOfSeq DEF SocketsOK
  <1>3. table[sent + 1] \in Row
    BY <1>1, <1>2
  <1>4. NextRows \subseteq sent + 1 .. maxID
    BY DEF NextRows
  <1>5. IsFiniteSet(NextRows)
    <2>1. IsFiniteSet(sent + 1 .. maxID)
      BY <1>1, FS_Interval
    <2> QED
      BY <1>4, <2>1, FS_Subset
  <1>6. Cardinality(NextRows) \in Nat
    BY <1>5, FS_CardinalityType
  <1>7. {table[n].id : n \in NextRows} \in SUBSET Ids
    BY <1>2, <1>4 DEF Row
  <1> QED
    BY <1>3, <1>6, <1>7 DEF NextFrame, Frame, Row

\* What a broadcast does to the sockets.
LEMMA BroadcastSockets ==
    ASSUME SocketsOK, Broadcast
    PROVE  /\ sockets' \in [1 .. Len(sockets) -> Socket]
           /\ DOMAIN sockets = 1 .. Len(sockets)
           /\ \A k \in DOMAIN sockets :
                 /\ sockets'[k].state = sockets[k].state
                 /\ sockets[k].state = "open" =>
                       sockets'[k].inbox = Append(sockets[k].inbox, NextFrame)
                 /\ sockets[k].state # "open" => sockets'[k] = sockets[k]
  <1>1. NextFrame \in Frame /\ DOMAIN sockets = 1 .. Len(sockets)
    BY NextFrameIs, LenProperties DEF Broadcast, SocketsOK
  <1>2. sockets' = [k \in DOMAIN sockets |->
                       IF sockets[k].state = "open"
                       THEN [sockets[k] EXCEPT !.inbox = Append(sockets[k].inbox, NextFrame)]
                       ELSE sockets[k]]
    BY DEF Broadcast
  <1> HIDE DEF NextFrame
  <1>3. ASSUME NEW k \in DOMAIN sockets
        PROVE  /\ sockets'[k] \in Socket /\ sockets'[k].state = sockets[k].state
               /\ sockets[k].state = "open" =>
                     sockets'[k].inbox = Append(sockets[k].inbox, NextFrame)
               /\ sockets[k].state # "open" => sockets'[k] = sockets[k]
    <2>1. sockets[k] \in Socket /\ sockets[k].inbox \in Seq(Frame)
      BY SocketElement DEF Socket
    <2>2. PICK inbox \in Seq(Frame) : inbox = Append(sockets[k].inbox, NextFrame)
      BY <1>1, <2>1, AppendProperties
    <2>3. /\ [sockets[k] EXCEPT !.inbox = inbox] \in Socket
          /\ [sockets[k] EXCEPT !.inbox = inbox].inbox = inbox
          /\ [sockets[k] EXCEPT !.inbox = inbox].state = sockets[k].state
      BY <2>1 DEF Socket
    <2>4. sockets'[k] = IF sockets[k].state = "open" THEN [sockets[k] EXCEPT !.inbox = inbox]
                        ELSE sockets[k]
      BY <1>2, <2>2
    <2> QED
      BY <2>1, <2>2, <2>3, <2>4
  <1>4. sockets' \in [1 .. Len(sockets) -> Socket]
    BY <1>1, <1>2, <1>3
  <1> QED
    BY <1>1, <1>3, <1>4

LEMMA BroadcastKeepsLive == ASSUME SocketInv, Broadcast PROVE SocketInv'
  <1>1. SocketsOK /\ PageIsLive
    BY DEF SocketInv
  <1>2. UNCHANGED <<table, lastID, maxID, started, ws, retry>>
        /\ sent' = sent + Cardinality(NextRows) /\ sent < maxID
    BY DEF Broadcast
  <1>3. Positions'
    BY <1>1, <1>2, NextFrameIs DEF Positions, SocketsOK
  <1>4. SocketsOK' /\ DOMAIN sockets' = DOMAIN sockets
    BY <1>1, <1>2, <1>3, BroadcastSockets, OtherSockets
  <1>5. PageIsLive'
    BY <1>1, <1>2, <1>4, BroadcastSockets DEF PageIsLive
  <1> QED
    BY <1>4, <1>5 DEF SocketInv

\* A socket that breaks keeps the first frames of its inbox.
LEMMA BrokenIs ==
    ASSUME SocketsOK, NEW k \in DOMAIN sockets, NEW x \in Broken(k)
    PROVE  /\ x \in Socket /\ x.state = "lost"
           /\ \E n \in 0 .. Len(sockets[k].inbox) :
                 DOMAIN x.inbox = 1 .. n /\ DOMAIN sockets[k].inbox = 1 .. Len(sockets[k].inbox)
           /\ \A n \in DOMAIN x.inbox : x.inbox[n] = sockets[k].inbox[n]
  <1>1. PICK n \in 0 .. Len(sockets[k].inbox) :
            x = [state |-> "lost", inbox |-> SubSeq(sockets[k].inbox, 1, n)]
    BY DEF Broken
  <1>2. PICK inbox \in Seq(Frame) : inbox = sockets[k].inbox
    BY SocketElement DEF Socket
  <1>3. Len(inbox) \in Nat /\ DOMAIN inbox = 1 .. Len(inbox)
    BY LenProperties
  <1>4. \A m \in 1 .. n : inbox[m] \in Frame
    BY <1>1, <1>2, <1>3, ElementOfSeq
  <1>5. PICK kept : kept = SubSeq(inbox, 1, n)
    OBVIOUS
  <1>6. /\ kept \in Seq(Frame) /\ Len(kept) = n
        /\ \A m \in 1 .. n : kept[m] = inbox[m]
    <2>1. /\ SubSeq(inbox, 1, n) \in Seq(Frame)
          /\ Len(SubSeq(inbox, 1, n)) = IF 1 <= n THEN n - 1 + 1 ELSE 0
          /\ \A m \in 1 .. n - 1 + 1 : SubSeq(inbox, 1, n)[m] = inbox[1 + m - 1]
      BY <1>1, <1>2, <1>3, <1>4, SubSeqProperties
    <2>2. n \in Nat
      BY <1>1, <1>2, <1>3
    <2> QED
      BY <1>5, <2>1, <2>2
  <1>7. DOMAIN kept = 1 .. n
    BY <1>6, LenProperties
  <1>8. x = [state |-> "lost", inbox |-> kept]
    BY <1>1, <1>2, <1>5
  <1> QED
    BY <1>1, <1>2, <1>3, <1>6, <1>7, <1>8 DEF Socket

\* A lost socket still has its close event to come.
LEMMA RestartSockets ==
    ASSUME SocketsOK, RestartServer
    PROVE  /\ sockets' \in [1 .. Len(sockets) -> Socket]
           /\ \A k \in DOMAIN sockets :
                 IF sockets[k].state \in {"connecting", "open"}
                 THEN sockets'[k] \in Broken(k) ELSE sockets'[k] = sockets[k]
  <1>1. DOMAIN sockets = 1 .. Len(sockets)
    BY LenProperties DEF SocketsOK
  <1>2. PICK left : /\ left = [k \in DOMAIN sockets |->
                                  IF sockets[k].state \in {"connecting", "open"}
                                  THEN Broken(k) ELSE {sockets[k]}]
                    /\ sockets' \in [DOMAIN sockets -> UNION {left[k] : k \in DOMAIN sockets}]
                    /\ \A k \in DOMAIN sockets : sockets'[k] \in left[k]
    BY DEF RestartServer
  <1> HIDE DEF Broken
  <1>3. \A k \in DOMAIN sockets :
           IF sockets[k].state \in {"connecting", "open"}
           THEN sockets'[k] \in Broken(k) ELSE sockets'[k] = sockets[k]
    BY <1>2
  <1>4. \A k \in DOMAIN sockets : sockets'[k] \in Socket
    BY <1>3, BrokenIs, SocketElement
  <1> QED
    BY <1>1, <1>2, <1>3, <1>4

LEMMA RestartServerKeepsLive == ASSUME SocketInv, RestartServer PROVE SocketInv'
  <1>1. SocketsOK /\ PageIsLive
    BY DEF SocketInv
  <1>2. /\ lastID' \in {Len(table), 0} /\ maxID' = 0 /\ sent' = 0
        /\ UNCHANGED <<table, started, ws, retry>>
    BY DEF RestartServer
  <1>3. Len(table) \in Nat
    BY <1>1, LenProperties DEF SocketsOK
  <1>4. Positions'
    BY <1>2, <1>3 DEF Positions
  <1>5. SocketsOK' /\ DOMAIN sockets' = DOMAIN sockets
    BY <1>1, <1>2, <1>4, RestartSockets, OtherSockets
  <1>6. \A k \in DOMAIN sockets :
           sockets[k].state \in {"connecting", "open", "lost"} => sockets'[k].state = "lost"
    BY <1>1, RestartSockets, BrokenIs
  <1>7. PageIsLive'
    BY <1>1, <1>2, <1>5, <1>6 DEF PageIsLive
  <1> QED
    BY <1>5, <1>7 DEF SocketInv

LEMMA StopKeeps == ASSUME SocketInv, Stop PROVE SocketInv'
  <1>1. SocketsOK
    BY DEF SocketInv
  <1> DEFINE x == [state |-> "closing", inbox |-> <<>>]
  <1>2. /\ ws' = 0 /\ ~started' /\ UNCHANGED <<table, lastID, maxID, sent>>
        /\ sockets' = IF ws # 0 /\ sockets[ws].state # "closed"
                      THEN [sockets EXCEPT ![ws] = x] ELSE sockets
    BY DEF Stop, collector, pipeline
  <1>3. x \in Socket
    BY DEF Socket
  <1>4. DOMAIN sockets = 1 .. Len(sockets) /\ Len(sockets) \in Nat
    BY <1>1, LenProperties DEF SocketsOK
  <1> HIDE DEF x
  <1>5. SocketsOK'
    <2>1. CASE ws # 0 /\ sockets[ws].state # "closed"
      <3>1. ws \in DOMAIN sockets
        BY <1>1, <1>4, <2>1 DEF SocketsOK
      <3> QED
        BY <1>1, <1>2, <1>3, <2>1, <3>1, ChangeSocket
    <2>2. CASE ~(ws # 0 /\ sockets[ws].state # "closed")
      BY <1>1, <1>2, <1>4, <2>2 DEF SocketsOK
    <2> QED
      BY <2>1, <2>2
  <1> QED
    BY <1>2, <1>5 DEF SocketInv, PageIsLive

LEMMA HandlersKeepLive ==
    ASSUME SocketInv, NEW k \in DOMAIN sockets,
           Accept(k) \/ Lose(k) \/ OnMessage(k) \/ OnClose(k)
    PROVE  SocketInv'
  <1>1. SocketsOK /\ PageIsLive /\ sockets[k] \in Socket
    BY SocketElement DEF SocketInv
  <1>2. UNCHANGED <<table, lastID, maxID, sent, started>>
    BY DEF Accept, Lose, OnMessage, OnClose, pipeline
  <1>3. ASSUME Accept(k) \/ Lose(k) PROVE SocketInv'
    <2>1. PICK x \in Socket : /\ sockets' = [sockets EXCEPT ![k] = x]
                             /\ x.state \in {"open", "lost"}
      <3>1. CASE Accept(k)
        <4>1. [sockets[k] EXCEPT !.state = "open"] \in Socket
          BY <1>1 DEF Socket
        <4> QED
          BY <1>1, <3>1, <4>1 DEF Accept, Socket
      <3>2. CASE Lose(k)
        BY <1>1, <3>2, BrokenIs DEF Lose
      <3> QED
        BY <1>3, <3>1, <3>2
    <2>2. UNCHANGED <<ws, retry>>
      BY <1>3 DEF Accept, Lose
    <2>4. SocketsOK' /\ DOMAIN sockets' = DOMAIN sockets
      BY <1>1, <1>2, <2>1, <2>2, ChangeSocket
    <2>5. \A j \in DOMAIN sockets :
             sockets'[j].state = IF j = k THEN x.state ELSE sockets[j].state
      BY <2>1, <2>4
    <2>6. PageIsLive'
      BY <1>1, <1>2, <2>1, <2>2, <2>4, <2>5 DEF PageIsLive
    <2> QED
      BY <2>4, <2>6 DEF SocketInv
  <1>4. CASE OnMessage(k)
    <2>1. sockets' = [sockets EXCEPT ![k].inbox = Tail(sockets[k].inbox)] /\ UNCHANGED <<ws, retry>>
      BY <1>4 DEF OnMessage
    <2>2. Tail(sockets[k].inbox) \in Seq(Frame)
      BY <1>1, <1>4, HeadTailProperties DEF OnMessage, Socket
    <2>3. [sockets[k] EXCEPT !.inbox = Tail(sockets[k].inbox)] \in Socket
          /\ [sockets[k] EXCEPT !.inbox = Tail(sockets[k].inbox)].state = sockets[k].state
      BY <1>1, <2>2 DEF Socket
    <2>4. SocketsOK' /\ DOMAIN sockets' = DOMAIN sockets
      BY <1>1, <1>2, <2>1, <2>3, ChangeSocket
    <2>5. \A j \in DOMAIN sockets : sockets'[j].state = sockets[j].state
      BY <2>1, <2>3, <2>4
    <2>6. PageIsLive'
      BY <1>1, <1>2, <2>1, <2>4, <2>5 DEF PageIsLive
    <2> QED
      BY <2>4, <2>6 DEF SocketInv
  <1>5. CASE OnClose(k)
    <2>1. /\ sockets' = [sockets EXCEPT ![k].state = "closed"]
          /\ ws' = 0 /\ retry' = (retry \/ started)
      BY <1>5 DEF OnClose
    <2>2. [sockets[k] EXCEPT !.state = "closed"] \in Socket
      BY <1>1 DEF Socket
    <2>3. SocketsOK'
      BY <1>1, <1>2, <2>1, <2>2, ChangeSocket
    <2>4. PageIsLive'
      BY <1>2, <2>1 DEF PageIsLive
    <2> QED
      BY <2>3, <2>4 DEF SocketInv
  <1> QED
    BY <1>3, <1>4, <1>5

LEMMA InitSocketInv == Init => SocketInv
  <1> SUFFICES ASSUME Init PROVE SocketInv
    OBVIOUS
  <1>1. /\ sockets = <<>> /\ table = <<>> /\ ws = 0 /\ ~started
        /\ lastID = 0 /\ maxID = 0 /\ sent = 0
    BY DEF Init
  <1> QED
    BY <1>1, EmptySeq DEF SocketInv, SocketsOK, PageIsLive

\* The rows of a batch go to the end of the table.
LEMMA SendAppends ==
    ASSUME table \in Seq(Row), Send
    PROVE  table' \in Seq(Row) /\ Len(table') \in Nat /\ Len(table') >= Len(table)
  <1>1. Len(table) \in Nat
    BY LenProperties
  <1>2. CASE table' = table
    BY <1>1, <1>2
  <1>3. ASSUME NEW rows \in Rows(Entries(batch)), table' = table \o rows
        PROVE  table' \in Seq(Row) /\ Len(table') \in Nat /\ Len(table') >= Len(table)
    <2>1. IsFiniteSet(Entries(batch))
      BY ContainersAssumption, FS_Subset DEF Entries
    <2>2. PICK m \in Nat : m = Cardinality(Entries(batch))
      BY <2>1, FS_CardinalityType
    <2>3. NextTime \in Nat
      <3>1. table # <<>> => Len(table) \in 1 .. Len(table) /\ table[Len(table)] \in Row
        BY <1>1, EmptySeq, ElementOfSeq
      <3> QED
        BY <3>1 DEF NextTime, Row
    <2>4. [t : {NextTime}, id : Entries(batch)] \subseteq Row
      BY <2>3 DEF Row, Entries
    <2>5. rows \in [1 .. m -> Row]
      BY <2>2, <2>4 DEF Rows
    <2>6. rows \in Seq(Row)
      BY <2>5, SeqDef
    <2>7. Len(rows) \in Nat
      BY <2>6, LenProperties
    <2>8. table \o rows \in Seq(Row) /\ Len(table \o rows) = Len(table) + Len(rows)
      BY <2>6, ConcatProperties
    <2> QED
      BY <1>1, <1>3, <2>7, <2>8
  <1> QED
    BY <1>2, <1>3 DEF Send

LEMMA NextSocketInv == SocketInv /\ [Next]_vars => SocketInv'
  <1> SUFFICES ASSUME SocketInv, [Next]_vars PROVE SocketInv'
    OBVIOUS
  <1>1. Positions /\ table \in Seq(Row) /\ Len(table) \in Nat
    BY LenProperties DEF SocketInv, SocketsOK, Positions
  <1>2. ASSUME UNCHANGED <<pipeline, store>> PROVE SocketInv'
    BY <1>1, <1>2, SameSockets DEF pipeline, store, Positions
  <1>3. ASSUME NEW i \in Ids,
               Receive(i) \/ RestartContainer(i) \/ StopContainer(i) \/ Stats(i)
        PROVE  SocketInv'
    BY <1>2, <1>3 DEF Receive, RestartContainer, StopContainer, Stats
  <1>4. CASE List \/ Gather \/ RestartCollector
    BY <1>2, <1>4 DEF List, Gather, RestartCollector
  <1>5. CASE Send
    <2>1. UNCHANGED <<lastID, maxID, sent, store>>
      BY <1>5 DEF Send
    <2>2. table' \in Seq(Row) /\ Len(table') >= Len(table) /\ Len(table') \in Nat
      BY <1>1, <1>5, SendAppends
    <2> QED
      BY <1>1, <2>1, <2>2 DEF SocketInv, SocketsOK, PageIsLive, store, Positions
  <1>6. CASE Connect \/ WaitForNotification \/ WatcherFails
    BY <1>1, <1>6, SameSockets DEF Connect, WaitForNotification, WatcherFails, store, Positions
  <1>7. CASE Broadcast \/ RestartServer \/ Stop
    BY <1>7, BroadcastKeepsLive, RestartServerKeepsLive, StopKeeps
  <1>12. CASE Query \/ DrainEnd
    <2>1. Limit \in Nat /\ maxID' \in {lastID + Limit, Len(table), maxID}
          /\ (maxID' = lastID + Limit => Len(table) - lastID > Limit \/ maxID' \in {maxID, Len(table)})
      BY <1>12, ContainersAssumption DEF Query, DrainEnd
    <2>2. lastID' \in {lastID, maxID} /\ sent' \in {lastID, sent}
          /\ UNCHANGED <<sockets, ws, retry, started, table>>
      BY <1>12 DEF Query, DrainEnd, store
    <2>3. Positions'
      BY <1>1, <2>1, <2>2 DEF Positions
    <2> QED
      BY <2>2, <2>3, SameSockets
  <1>8. CASE Start \/ Retry
    BY <1>8, OpenIsLive DEF Start, Retry, pipeline
  <1>9. ASSUME NEW b \in boots, History(b) \/ Bootstrap(b) \/ BootstrapFails(b)
        PROVE  SocketInv'
    BY <1>1, <1>9, SameSockets DEF History, Bootstrap, BootstrapFails, pipeline, Positions
  <1>10. ASSUME NEW k \in DOMAIN sockets, Accept(k) \/ Lose(k) \/ OnMessage(k) \/ OnClose(k)
         PROVE  SocketInv'
    BY <1>10, HandlersKeepLive
  <1>11. CASE UNCHANGED vars
    BY <1>2, <1>11 DEF vars
  <1> QED
    BY <1>3, <1>4, <1>5, <1>6, <1>7, <1>8, <1>9, <1>10, <1>11, <1>12
    DEF Next

\* However visits, losses and close events of earlier sockets interleave, an
\* open page has a socket up or on its way, or one of its close events or a
\* retry is still to come.
THEOREM PageStaysLive == Spec => []PageIsLive
  <1>1. SocketInv => PageIsLive
    BY DEF SocketInv
  <1> QED
    BY InitSocketInv, NextSocketInv, <1>1, PTL DEF Spec

-----------------------------------------------------------------------------
(* The series of a container are sequences. *)

IsSequence(s) == \E S : s \in Seq(S)

LEMMA FunctionIsSequence ==
    ASSUME NEW n \in Nat, NEW s, s = [k \in 1 .. n |-> s[k]]
    PROVE  IsSequence(s)
  <1> DEFINE S == {s[k] : k \in 1 .. n}
  <1>1. s \in [1 .. n -> S]
    OBVIOUS
  <1>2. s \in Seq(S)
    BY <1>1, SeqDef
  <1> QED
    BY <1>2 DEF IsSequence

LEMMA TimesIsSequence == ASSUME NEW i, NEW n \in Nat PROVE IsSequence(Times(i, n))
  <1> DEFINE at == {k \in 1 .. n : table[k].id = i}
  <1>1. IsFiniteSet(1 .. n)
    BY FS_Interval
  <1>2. IsFiniteSet(at)
    BY <1>1, FS_Subset
  <1>3. Cardinality(at) \in Nat
    BY <1>2, FS_CardinalityType
  <1>4. Times(i, n) = [r \in 1 .. Cardinality(at) |->
                         table[CHOOSE k \in at : Cardinality({j \in at : j <= k}) = r].t]
    BY DEF Times
  <1> HIDE DEF at
  <1>5. Times(i, n) = [r \in 1 .. Cardinality(at) |-> Times(i, n)[r]]
    BY <1>4
  <1> QED
    BY <1>3, <1>5, FunctionIsSequence

LEMMA NewestIsSequence ==
    ASSUME NEW s, IsSequence(s), NEW n \in Nat
    PROVE  IsSequence(Newest(s, n))
  <1>1. PICK S : s \in Seq(S)
    BY DEF IsSequence
  <1> DEFINE from == IF Len(s) > n THEN Len(s) - n + 1 ELSE 1
  <1>2. Len(s) \in Nat /\ from \in 1 .. Len(s) + 1
    BY <1>1, LenProperties
  <1>3. \A k \in from .. Len(s) : s[k] \in S
    BY <1>1, <1>2, ElementOfSeq
  <1> HIDE DEF from
  <1>4. SubSeq(s, from, Len(s)) \in Seq(S)
    BY <1>2, <1>3, SubSeqProperties
  <1> QED
    BY <1>4 DEF Newest, from, IsSequence

LEMMA PushAppends ==
    ASSUME NEW s, IsSequence(s), NEW t
    PROVE  /\ IsSequence(Push(s, t))
           /\ Push(s, t) # <<>>
           /\ Push(s, t)[Len(Push(s, t))] = t
  <1>1. Cap - 1 \in Nat
    BY ContainersAssumption
  <1> DEFINE kept == Newest(s, Cap - 1)
  <1>2. PICK S : kept \in Seq(S)
    BY <1>1, NewestIsSequence DEF IsSequence
  <1>3. kept \in Seq(S \cup {t}) /\ t \in S \cup {t} /\ Push(s, t) = Append(kept, t)
    BY <1>2, SeqMonotonic DEF Push
  <1> HIDE DEF kept
  <1>4. /\ Append(kept, t) \in Seq(S \cup {t})
        /\ Append(kept, t) # <<>>
        /\ Len(Append(kept, t)) = Len(kept) + 1
        /\ Append(kept, t)[Len(kept) + 1] = t
    BY <1>3, AppendProperties
  <1> QED
    BY <1>3, <1>4 DEF IsSequence

LEMMA DownsampleIsSequence ==
    ASSUME NEW s, IsSequence(s)
    PROVE  IsSequence(Downsample(s))
  <1>1. PICK S : s \in Seq(S)
    BY DEF IsSequence
  <1>2. Len(s) \in Nat /\ MaxPoints \in Nat \ {0}
    BY <1>1, LenProperties, ContainersAssumption
  <1> DEFINE stride == (Len(s) + MaxPoints - 1) \div MaxPoints
             steps == (Len(s) - 1) \div stride
             every == [k \in 1 .. steps + 1 |-> s[(k - 1) * stride + 1]]
  <1>3. Downsample(s) = IF Len(s) <= MaxPoints THEN s
                        ELSE IF every[Len(every)] = s[Len(s)] THEN every ELSE Append(every, s[Len(s)])
    BY DEF Downsample
  <1>4. CASE Len(s) <= MaxPoints
    BY <1>3, <1>4
  <1>5. CASE Len(s) > MaxPoints
    <2>1. stride \in Nat /\ stride > 0
      <3>1. Len(s) + MaxPoints - 1 >= MaxPoints
        BY <1>2, <1>5
      <3> QED
        BY <1>2, <3>1
    <2>2. steps \in Nat
      BY <1>2, <1>5, <2>1
    <2> HIDE DEF steps, stride
    <2>3. every = [k \in 1 .. steps + 1 |-> every[k]] /\ steps + 1 \in Nat
      BY <2>2
    <2> HIDE DEF every
    <2>4. IsSequence(every)
      BY <2>3, FunctionIsSequence
    <2>5. PICK T : every \in Seq(T)
      BY <2>4 DEF IsSequence
    <2>6. every \in Seq(T \cup {s[Len(s)]}) /\ s[Len(s)] \in T \cup {s[Len(s)]}
      BY <2>5, SeqMonotonic
    <2>7. IsSequence(Append(every, s[Len(s)]))
      BY <2>6, AppendProperties DEF IsSequence
    <2>8. Downsample(s) = every \/ Downsample(s) = Append(every, s[Len(s)])
      BY <1>3, <1>5, <1>2
    <2> QED
      BY <2>4, <2>7, <2>8
  <1> QED
    BY <1>2, <1>4, <1>5

LEMMA BootstrappedIsSequence ==
    ASSUME NEW i, NEW n \in Nat
    PROVE  IsSequence(Bootstrapped(i, n))
  BY TimesIsSequence, DownsampleIsSequence, NewestIsSequence, ContainersAssumption DEF Bootstrapped

-----------------------------------------------------------------------------
(* The newest frame. *)

\* Where in socket k's inbox the frames with container i are.
Waiting(i, k) == {n \in DOMAIN sockets[k].inbox : i \in sockets[k].inbox[n].ids}

\* The last frame of i that was sent is the last one in i's series ...
Arrived(i) ==
    /\ list[i] # <<>> /\ list[i][Len(list[i])] = due[i]
    /\ \A k \in DOMAIN sockets : Waiting(i, k) = {}

\* ... or the last one with i in the inbox.
OnItsWay(i) ==
    \E k \in DOMAIN sockets : \E n \in Waiting(i, k) :
        /\ sockets[k].inbox[n].t = due[i]
        /\ \A m \in Waiting(i, k) : m <= n

\* What OneSocket says, without counting.
Alone ==
    \A j, k \in DOMAIN sockets :
        sockets[j].state # "closed" /\ sockets[k].state # "closed" => j = k

Owed(i) == due[i] # 0 => started /\ Alone /\ (Arrived(i) \/ OnItsWay(i))

EmptyWhenClosed ==
    \A k \in DOMAIN sockets : sockets[k].state = "closed" => sockets[k].inbox = <<>>

SeriesOK == (\A i \in Ids : IsSequence(list[i])) /\ \A b \in boots : b.rows \in Nat

NewestInv == EmptyWhenClosed /\ SeriesOK /\ \A i \in Ids : Owed(i)

\* The frames with container i stay where they are in the inboxes.
FramesStay(i) ==
    /\ \A k \in DOMAIN sockets :
          /\ k \in DOMAIN sockets' /\ Waiting(i, k)' = Waiting(i, k)
          /\ \A n \in Waiting(i, k) : sockets'[k].inbox[n] = sockets[k].inbox[n]
    /\ \A k \in DOMAIN sockets' \ DOMAIN sockets : Waiting(i, k)' = {}

\* The page is owed what it was, or nothing.
DueStays(i) == due'[i] = 0 \/ (due'[i] = due[i] /\ started' /\ Alone' /\ ~Dropped(i))

LEMMA OneSocketIsAlone == ASSUME SocketsOK, OneSocket PROVE Alone
  <1> SUFFICES ASSUME NEW j \in DOMAIN sockets, NEW k \in DOMAIN sockets, j # k,
                      sockets[j].state # "closed", sockets[k].state # "closed"
               PROVE  FALSE
    BY DEF Alone
  <1> DEFINE open == {l \in DOMAIN sockets : sockets[l].state # "closed"}
  <1>1. DOMAIN sockets = 1 .. Len(sockets) /\ Len(sockets) \in Nat
    BY LenProperties DEF SocketsOK
  <1>2. IsFiniteSet(DOMAIN sockets)
    BY <1>1, FS_Interval
  <1>3. IsFiniteSet(open)
    BY <1>2, FS_Subset
  <1>4. Cardinality(open) <= 1
    BY DEF OneSocket
  <1>5. j \in open /\ k \in open \ {j}
    OBVIOUS
  <1> HIDE DEF open
  <1>6. IsFiniteSet(open \ {j}) /\ Cardinality(open \ {j}) = Cardinality(open) - 1
    BY <1>3, <1>5, FS_RemoveElement
  <1>7. Cardinality(open) \in Nat /\ Cardinality(open \ {j}) \in Nat
    BY <1>3, <1>6, FS_CardinalityType
  <1>8. Cardinality(open \ {j}) = 0
    BY <1>4, <1>6, <1>7
  <1> QED
    BY <1>5, <1>6, <1>8, FS_EmptySet

LEMMA NothingNewSent ==
    ASSUME SocketsOK', MCNext, sent' = sent \/ wpc' # "emit", NEW i \in Ids
    PROVE  DueStays(i)
  <1>1. due'[i] = IF ~started' \/ ~OneSocket' \/ Dropped(i) THEN 0 ELSE due[i]
    BY DEF MCNext, SentNow
  <1>2. OneSocket' => Alone'
    BY OneSocketIsAlone, PTL
  <1> QED
    BY <1>1, <1>2 DEF DueStays

LEMMA StayOwed ==
    ASSUME NewestInv, EmptyWhenClosed', SeriesOK',
           \A i \in Ids : /\ DueStays(i) /\ (due'[i] # 0 => FramesStay(i))
                          /\ list'[i] = list[i] \/ list[i] = <<>>
    PROVE  NewestInv'
  <1>1. ASSUME NEW i \in Ids, due'[i] # 0 PROVE Owed(i)'
    <2>1. /\ due'[i] = due[i] /\ started' /\ Alone'
          /\ Arrived(i) \/ OnItsWay(i)
          /\ FramesStay(i)
      BY <1>1 DEF DueStays, NewestInv, Owed
    <2>2. ASSUME Arrived(i) PROVE Arrived(i)'
      BY <2>1, <2>2 DEF Arrived, FramesStay
    <2>3. ASSUME OnItsWay(i) PROVE OnItsWay(i)'
      <3>a. PICK k \in DOMAIN sockets : \E n \in Waiting(i, k) :
                sockets[k].inbox[n].t = due[i] /\ \A m \in Waiting(i, k) : m <= n
        BY <2>3 DEF OnItsWay
      <3>1. PICK n \in Waiting(i, k) : sockets[k].inbox[n].t = due[i] /\ \A m \in Waiting(i, k) : m <= n
        BY <3>a
      <3>2. /\ k \in DOMAIN sockets' /\ Waiting(i, k)' = Waiting(i, k)
            /\ sockets'[k].inbox[n] = sockets[k].inbox[n]
        BY <2>1 DEF FramesStay
      <3> QED
        BY <2>1, <3>1, <3>2 DEF OnItsWay
    <2> QED
      BY <2>1, <2>2, <2>3 DEF Owed
  <1>2. ASSUME NEW i \in Ids PROVE Owed(i)'
    BY <1>1 DEF Owed
  <1> QED
    BY <1>2 DEF NewestInv

\* Sockets whose inboxes are as they were keep all frames.
LEMMA SameInboxes ==
    ASSUME EmptyWhenClosed,
           \A k \in DOMAIN sockets :
              /\ k \in DOMAIN sockets' /\ sockets'[k].inbox = sockets[k].inbox
              /\ sockets'[k].state = "closed" =>
                    sockets[k].state = "closed" \/ sockets[k].inbox = <<>>,
           \A k \in DOMAIN sockets' \ DOMAIN sockets : sockets'[k].inbox = <<>>
    PROVE  EmptyWhenClosed' /\ \A i \in Ids : FramesStay(i)
  <1>1. EmptyWhenClosed'
    BY DEF EmptyWhenClosed
  <1>2. ASSUME NEW i \in Ids PROVE FramesStay(i)
    BY DEF FramesStay, Waiting
  <1> QED
    BY <1>1, <1>2

\* Sockets that break: what is due was not among the frames lost with them.
LEMMA BrokenOwed ==
    ASSUME SocketsOK, SocketsOK', NewestInv, MCNext,
           UNCHANGED <<list, boots>>, sent' = sent \/ wpc' # "emit",
           DOMAIN sockets' = DOMAIN sockets,
           \A k \in DOMAIN sockets :
              \/ sockets'[k] = sockets[k]
              \/ sockets[k].state \in {"connecting", "open"} /\ sockets'[k] \in Broken(k)
    PROVE  NewestInv'
  <1>1. EmptyWhenClosed' /\ SeriesOK'
    <2>1. \A k \in DOMAIN sockets : sockets'[k] = sockets[k] \/ sockets'[k].state = "lost"
      BY BrokenIs
    <2> QED
      BY <2>1 DEF NewestInv, EmptyWhenClosed, SeriesOK
  <1>2. ASSUME NEW i \in Ids, due'[i] # 0 PROVE FramesStay(i)
    <2>1. ~Dropped(i)
      BY <1>2, NothingNewSent DEF DueStays
    <2>2. ASSUME NEW k \in DOMAIN sockets
          PROVE  /\ Waiting(i, k)' = Waiting(i, k)
                 /\ \A n \in Waiting(i, k) : sockets'[k].inbox[n] = sockets[k].inbox[n]
      <3>1. CASE sockets'[k] = sockets[k]
        BY <3>1 DEF Waiting
      <3>2. CASE sockets[k].state \in {"connecting", "open"} /\ sockets'[k] \in Broken(k)
        <4>1. /\ sockets'[k].state = "lost"
              /\ \E n \in 0 .. Len(sockets[k].inbox) :
                    DOMAIN sockets'[k].inbox = 1 .. n /\ DOMAIN sockets[k].inbox = 1 .. Len(sockets[k].inbox)
              /\ \A n \in DOMAIN sockets'[k].inbox : sockets'[k].inbox[n] = sockets[k].inbox[n]
          BY <3>2, BrokenIs
        <4>2. DOMAIN sockets'[k].inbox \subseteq DOMAIN sockets[k].inbox
          <5>1. PICK l : l = Len(sockets[k].inbox)
            OBVIOUS
          <5>2. PICK n \in 0 .. l : DOMAIN sockets'[k].inbox = 1 .. n /\ DOMAIN sockets[k].inbox = 1 .. l
            BY <4>1, <5>1
          <5>3. l \in Nat
            BY <5>1, SocketElement, LenProperties DEF Socket
          <5> QED
            BY <5>2, <5>3
        <4>3. ~DroppedFrom(i, k)
          BY <2>1 DEF Dropped
        <4>4. \A n \in DOMAIN sockets[k].inbox :
                 i \in sockets[k].inbox[n].ids => n \in DOMAIN sockets'[k].inbox
          BY <3>2, <4>1, <4>3 DEF DroppedFrom
        <4> QED
          BY <4>1, <4>2, <4>4 DEF Waiting
      <3> QED
        BY <3>1, <3>2
    <2> QED
      BY <2>2 DEF FramesStay
  <1> QED
    BY <1>1, <1>2, NothingNewSent, StayOwed

\* A frame goes to the end of the inbox of every open socket.
LEMMA BroadcastOwed ==
    ASSUME SocketsOK, SocketsOK', NewestInv, MCNext, Broadcast
    PROVE  NewestInv'
  <1>1. DOMAIN sockets' = DOMAIN sockets /\ UNCHANGED <<started, list, boots>>
    BY DEF Broadcast
  <1>2. \A k \in DOMAIN sockets :
           /\ sockets'[k].state = sockets[k].state
           /\ sockets[k].state = "open" => sockets'[k].inbox = Append(sockets[k].inbox, NextFrame)
           /\ sockets[k].state # "open" => sockets'[k] = sockets[k]
    BY BroadcastSockets
  <1>3. PICK f \in Frame : f = NextFrame
    BY NextFrameIs DEF Broadcast
  <1>4. ASSUME NEW k \in DOMAIN sockets, sockets[k].state = "open"
        PROVE  /\ Len(sockets[k].inbox) \in Nat
               /\ DOMAIN sockets[k].inbox = 1 .. Len(sockets[k].inbox)
               /\ DOMAIN sockets'[k].inbox = 1 .. Len(sockets[k].inbox) + 1
               /\ \A n \in DOMAIN sockets[k].inbox : sockets'[k].inbox[n] = sockets[k].inbox[n]
               /\ sockets'[k].inbox[Len(sockets[k].inbox) + 1] = f
    <2>1. PICK inbox \in Seq(Frame) : inbox = sockets[k].inbox
      BY SocketElement DEF Socket
    <2>2. PICK new : new = Append(inbox, f)
      OBVIOUS
    <2>3. /\ new \in Seq(Frame) /\ Len(new) = Len(inbox) + 1
          /\ new[Len(inbox) + 1] = f
          /\ \A n \in 1 .. Len(inbox) : new[n] = inbox[n]
      BY <2>2, AppendProperties
    <2>4. DOMAIN new = 1 .. Len(inbox) + 1 /\ Len(inbox) \in Nat /\ DOMAIN inbox = 1 .. Len(inbox)
      BY <2>3, LenProperties
    <2>5. sockets'[k].inbox = new
      BY <1>2, <1>3, <1>4, <2>1, <2>2
    <2> QED
      BY <2>1, <2>3, <2>4, <2>5
  <1>5. ASSUME NEW i \in Ids, NEW k \in DOMAIN sockets, sockets[k].state = "open"
        PROVE  Waiting(i, k)' = IF i \in f.ids
                                THEN Waiting(i, k) \cup {Len(sockets[k].inbox) + 1}
                                ELSE Waiting(i, k)
    <2>1. PICK l : l = Len(sockets[k].inbox)
      OBVIOUS
    <2>2. /\ l \in Nat
          /\ DOMAIN sockets[k].inbox = 1 .. l
          /\ DOMAIN sockets'[k].inbox = 1 .. l + 1
          /\ \A n \in DOMAIN sockets[k].inbox : sockets'[k].inbox[n] = sockets[k].inbox[n]
          /\ sockets'[k].inbox[l + 1] = f
      BY <1>4, <1>5, <2>1
    <2>3. 1 .. l + 1 = (1 .. l) \cup {l + 1}
      BY <2>2
    <2>4. \A n : n \in DOMAIN sockets'[k].inbox <=> n \in DOMAIN sockets[k].inbox \/ n = l + 1
      BY <2>2, <2>3
    <2>5. \A n : n \in Waiting(i, k)' <=> n \in Waiting(i, k) \/ (n = l + 1 /\ i \in f.ids)
      BY <2>2, <2>4 DEF Waiting
    <2>6. CASE i \in f.ids
      BY <2>1, <2>5, <2>6
    <2>7. CASE i \notin f.ids
      BY <2>1, <2>5, <2>7
    <2> QED
      BY <2>6, <2>7
  <1>6. EmptyWhenClosed' /\ SeriesOK'
    BY <1>1, <1>2 DEF NewestInv, EmptyWhenClosed, SeriesOK
  <1>7. ASSUME NEW i \in Ids, due'[i] # 0 PROVE started' /\ Alone' /\ Alone
    <2>1. started' /\ OneSocket'
      BY <1>7 DEF MCNext
    <2>2. OneSocket' => Alone'
      BY OneSocketIsAlone, PTL
    <2>3. Alone' => Alone
      BY <1>1, <1>2 DEF Alone
    <2> QED
      BY <2>1, <2>2, <2>3
  <1>8. ASSUME NEW i \in Ids, due'[i] # 0 PROVE Owed(i)'
    <2>1. due'[i] = IF SentNow(i) THEN f.t ELSE due[i]
      BY <1>3, <1>8 DEF MCNext
    <2>2. CASE SentNow(i)
      <3>1. i \in f.ids
        BY <1>3, <2>2 DEF SentNow
      <3>2. PICK k \in DOMAIN sockets : sockets[k].state = "open"
        BY <2>2 DEF SentNow
      <3>3. PICK l : l = Len(sockets[k].inbox)
        OBVIOUS
      <3>4. l \in Nat /\ sockets'[k].inbox[l + 1].t = due'[i]
        BY <1>4, <2>1, <2>2, <3>2, <3>3
      <3>5. \A m \in Waiting(i, k) : m \in 1 .. l
        BY <1>4, <3>2, <3>3 DEF Waiting
      <3>6. Waiting(i, k)' = Waiting(i, k) \cup {l + 1}
        BY <1>5, <3>1, <3>2, <3>3
      <3>7. \A m \in Waiting(i, k)' : m <= l + 1
        BY <3>4, <3>5, <3>6
      <3>8. l + 1 \in Waiting(i, k)' /\ k \in DOMAIN sockets'
        BY <1>1, <3>6
      <3>9. OnItsWay(i)'
        BY <3>4, <3>7, <3>8 DEF OnItsWay
      <3> QED
        BY <1>7, <1>8, <3>9 DEF Owed
    <2>3. CASE ~SentNow(i)
      <3>1. due'[i] = due[i]
        BY <2>1, <2>3
      <3>2. (Arrived(i) \/ OnItsWay(i)) /\ list'[i] = list[i]
        BY <1>1, <1>8, <3>1 DEF NewestInv, Owed
      <3>3. \A k \in DOMAIN sockets : sockets[k].state = "open" => i \notin f.ids
        <4>1. Cardinality(NextRows) \in Nat
          BY NextFrameIs DEF Broadcast
        <4>2. wpc = "emit" /\ wpc' = "emit" /\ sent' # sent
          <5>1. wpc = "emit" /\ wpc' = "emit" /\ sent' = sent + Cardinality(NextRows)
            BY DEF Broadcast
          <5>2. Cardinality(NextRows) # 0
            <6>1. sent + 1 \in NextRows
              <7>1. sent \in Nat /\ maxID \in Nat /\ sent < maxID
                BY LenProperties DEF SocketsOK, Broadcast
              <7> QED
                BY <7>1 DEF NextRows
            <6>2. IsFiniteSet(NextRows)
              <7>1. IsFiniteSet(sent + 1 .. maxID)
                BY LenProperties, FS_Interval DEF SocketsOK
              <7> QED
                BY <7>1, FS_Subset DEF NextRows
            <6> QED
              BY <6>1, <6>2, FS_EmptySet
          <5>3. sent \in Nat
            BY DEF SocketsOK
          <5> QED
            BY <4>1, <5>1, <5>2, <5>3
        <4> QED
          BY <1>3, <2>3, <4>2 DEF SentNow
      <3>4. ASSUME NEW k \in DOMAIN sockets
            PROVE  /\ Waiting(i, k)' = Waiting(i, k)
                   /\ \A n \in Waiting(i, k) : sockets'[k].inbox[n] = sockets[k].inbox[n]
        <4>1. CASE sockets[k].state = "open"
          BY <1>4, <1>5, <3>3, <4>1 DEF Waiting
        <4>2. CASE sockets[k].state # "open"
          BY <1>2, <4>2 DEF Waiting
        <4> QED
          BY <4>1, <4>2
      <3>5. FramesStay(i)
        BY <1>1, <3>4 DEF FramesStay
      <3>6. ASSUME Arrived(i) PROVE Arrived(i)'
        BY <1>1, <3>1, <3>2, <3>4, <3>6 DEF Arrived
      <3>7. ASSUME OnItsWay(i) PROVE OnItsWay(i)'
        <4>a. PICK k \in DOMAIN sockets : \E n \in Waiting(i, k) :
                  sockets[k].inbox[n].t = due[i] /\ \A m \in Waiting(i, k) : m <= n
          BY <3>7 DEF OnItsWay
        <4>1. PICK n \in Waiting(i, k) : sockets[k].inbox[n].t = due[i] /\ \A m \in Waiting(i, k) : m <= n
          BY <4>a
        <4>2. k \in DOMAIN sockets' /\ Waiting(i, k)' = Waiting(i, k)
              /\ sockets'[k].inbox[n] = sockets[k].inbox[n]
          BY <1>1, <3>4
        <4> QED
          BY <3>1, <4>1, <4>2 DEF OnItsWay
      <3> QED
        BY <1>7, <1>8, <3>2, <3>6, <3>7 DEF Owed
    <2> QED
      BY <2>2, <2>3
  <1>9. \A i \in Ids : Owed(i)'
    BY <1>8 DEF Owed
  <1> QED
    BY <1>6, <1>9 DEF NewestInv

\* The page takes the oldest frame of an inbox.
LEMMA MessageOwed ==
    ASSUME SocketsOK, SocketsOK', NewestInv, MCNext, NEW k \in DOMAIN sockets, OnMessage(k)
    PROVE  NewestInv'
  <1> DEFINE old == sockets[k].inbox
             new == sockets'[k].inbox
             frame == Head(sockets[k].inbox)
  <1>1. sockets[k] \in Socket
    BY SocketElement
  <1>2. /\ old \in Seq(Frame) /\ old # <<>>
        /\ sockets' = [sockets EXCEPT ![k].inbox = Tail(sockets[k].inbox)]
        /\ UNCHANGED <<table, sent, started, boots>>
    BY <1>1 DEF OnMessage, Socket, pipeline
  <1>3. /\ DOMAIN sockets' = DOMAIN sockets
        /\ \A j \in DOMAIN sockets :
              /\ sockets'[j].state = sockets[j].state
              /\ j # k => sockets'[j] = sockets[j]
        /\ new = Tail(old)
    BY <1>1, <1>2, SocketElement DEF Socket
  <1>4. /\ Len(old) \in Nat \ {0} /\ DOMAIN old = 1 .. Len(old) /\ frame = old[1]
        /\ DOMAIN new = 1 .. Len(old) - 1
        /\ \A n \in 1 .. Len(old) - 1 : new[n] = old[n + 1]
    <2>1. Len(old) \in Nat \ {0} /\ DOMAIN old = 1 .. Len(old)
      BY <1>2, EmptySeq, LenProperties
    <2>2. /\ Tail(old) \in Seq(Frame) /\ Len(Tail(old)) = Len(old) - 1
          /\ \A n \in 1 .. Len(Tail(old)) : Tail(old)[n] = old[n + 1]
      BY <1>2, HeadTailProperties
    <2>3. DOMAIN Tail(old) = 1 .. Len(old) - 1
      BY <2>2, LenProperties
    <2>4. frame = old[1]
      BY <1>2
    <2> QED
      BY <1>3, <2>1, <2>2, <2>3, <2>4
  <1>5. \A i \in Ids : list'[i] = IF i \in frame.ids THEN Push(list[i], frame.t) ELSE list[i]
    BY DEF OnMessage
  <1>6. sockets[k].state # "closed"
    BY <1>2 DEF NewestInv, EmptyWhenClosed
  <1> HIDE DEF old, new, frame
  <1>7. EmptyWhenClosed'
    BY <1>3, <1>6 DEF NewestInv, EmptyWhenClosed
  <1>8. SeriesOK'
    BY <1>2, <1>5, PushAppends DEF NewestInv, SeriesOK
  <1>9. ASSUME NEW i \in Ids, due'[i] # 0 PROVE Owed(i)'
    <2>1. due'[i] = due[i] /\ started' /\ Alone'
      BY <1>2, <1>9, NothingNewSent DEF DueStays
    <2>2. Alone /\ (Arrived(i) \/ OnItsWay(i))
      BY <1>9, <2>1 DEF NewestInv, Owed
    <2>3. ASSUME NEW j \in DOMAIN sockets, j # k PROVE Waiting(i, j)' = {} /\ Waiting(i, j) = {}
      <3>1. sockets[j].state = "closed"
        BY <1>6, <2>2, <2>3 DEF Alone
      <3>2. sockets[j].inbox = <<>> /\ sockets'[j] = sockets[j]
        BY <1>3, <2>3, <3>1 DEF NewestInv, EmptyWhenClosed
      <3> QED
        BY <3>2 DEF Waiting
    <2>4. \A n \in Waiting(i, k) : n \in 1 .. Len(old) /\ i \in old[n].ids
      BY <1>4 DEF Waiting, old
    <2>5. \A n \in 1 .. Len(old) : i \in old[n].ids => n \in Waiting(i, k)
      BY <1>4 DEF Waiting, old
    <2>6. ASSUME NEW n \in Waiting(i, k)' PROVE n \in Nat \ {0} /\ n + 1 \in Waiting(i, k)
      <3>1. n \in 1 .. Len(old) - 1 /\ i \in old[n + 1].ids
        BY <1>4 DEF Waiting, new
      <3> QED
        BY <1>4, <2>5, <3>1
    <2>7. ASSUME NEW n \in Waiting(i, k), n # 1 PROVE n - 1 \in Waiting(i, k)' /\ new[n - 1] = old[n]
      <3>1. n - 1 \in 1 .. Len(old) - 1 /\ new[n - 1] = old[n] /\ i \in old[n].ids
        BY <1>4, <2>4, <2>7
      <3> QED
        BY <1>4, <3>1 DEF Waiting, new
    <2>8. CASE Arrived(i)
      <3>1. Waiting(i, k) = {} /\ i \notin frame.ids
        BY <1>4, <2>5, <2>8 DEF Arrived
      <3>2. Waiting(i, k)' = {} /\ list'[i] = list[i]
        BY <1>5, <2>6, <3>1
      <3>3. Arrived(i)'
        BY <1>3, <2>1, <2>3, <2>8, <3>2 DEF Arrived
      <3> QED
        BY <2>1, <3>3 DEF Owed
    <2>9. CASE OnItsWay(i)
      <3>1. PICK n \in Waiting(i, k) : old[n].t = due[i] /\ \A m \in Waiting(i, k) : m <= n
        BY <2>3, <2>9 DEF OnItsWay, old
      <3>2. CASE n = 1
        <4>1. frame.t = due[i] /\ i \in frame.ids
          BY <1>4, <2>4, <3>1, <3>2
        <4>2. list'[i] # <<>> /\ list'[i][Len(list'[i])] = frame.t
          BY <1>5, <4>1, PushAppends DEF NewestInv, SeriesOK
        <4>3. Waiting(i, k)' = {}
          BY <2>6, <3>1, <3>2
        <4>4. Arrived(i)'
          BY <1>3, <2>1, <2>3, <4>1, <4>2, <4>3 DEF Arrived
        <4> QED
          BY <2>1, <4>4 DEF Owed
      <3>3. CASE n # 1
        <4>1. n - 1 \in Waiting(i, k)' /\ new[n - 1].t = due'[i]
          BY <2>1, <2>7, <3>1, <3>3
        <4>2. \A m \in Waiting(i, k)' : m <= n - 1
          BY <2>4, <2>6, <3>1, <1>4
        <4>3. OnItsWay(i)'
          BY <1>3, <4>1, <4>2 DEF OnItsWay, new
        <4> QED
          BY <2>1, <4>3 DEF Owed
      <3> QED
        BY <3>2, <3>3
    <2> QED
      BY <2>2, <2>8, <2>9
  <1>10. \A i \in Ids : Owed(i)'
    BY <1>9 DEF Owed
  <1> QED
    BY <1>7, <1>8, <1>10 DEF NewestInv

\* A page that is left is owed nothing.
LEMMA StopOwed ==
    ASSUME SocketsOK, SocketsOK', NewestInv, MCNext, Stop
    PROVE  NewestInv'
  <1>1. ~started' /\ UNCHANGED <<list, boots>>
    BY DEF Stop
  <1>2. \A i \in Ids : due'[i] = 0
    BY <1>1 DEF MCNext
  <1>3. EmptyWhenClosed'
    <2> DEFINE x == [state |-> "closing", inbox |-> <<>>]
    <2>1. \/ sockets' = sockets
          \/ sockets' = [sockets EXCEPT ![ws] = x]
      BY DEF Stop
    <2>2. x.state = "closing" /\ x.inbox = <<>>
      OBVIOUS
    <2> HIDE DEF x
    <2>3. ASSUME NEW k \in DOMAIN sockets'
          PROVE  k \in DOMAIN sockets /\ (sockets'[k] = sockets[k] \/ sockets'[k] = x)
      BY <2>1
    <2> QED
      BY <2>2, <2>3 DEF NewestInv, EmptyWhenClosed
  <1> QED
    BY <1>1, <1>2, <1>3 DEF NewestInv, SeriesOK, Owed

LEMMA InitOwed == MCInit => NewestInv
  <1> SUFFICES ASSUME MCInit PROVE NewestInv
    OBVIOUS
  <1>1. sockets = <<>> /\ boots = {} /\ list = [i \in Ids |-> <<>>] /\ due = [i \in Ids |-> 0]
    BY DEF MCInit, Init
  <1>2. \A i \in Ids : list[i] \in Seq(Nat)
    BY <1>1, EmptySeq
  <1> QED
    BY <1>1, <1>2 DEF NewestInv, EmptyWhenClosed, SeriesOK, Owed, IsSequence

LEMMA NextOwed ==
    SocketInv /\ SocketInv' /\ NewestInv /\ [MCNext]_<<vars, due>> => NewestInv'
  <1> SUFFICES ASSUME SocketInv, SocketInv', NewestInv, [MCNext]_<<vars, due>> PROVE NewestInv'
    OBVIOUS
  <1>1. SocketsOK /\ SocketsOK' /\ Len(table) \in Nat
    BY LenProperties DEF SocketInv, SocketsOK
  <1>2. CASE UNCHANGED <<vars, due>>
    <2>1. UNCHANGED <<sockets, list, boots, started, due>>
      BY <1>2 DEF vars, store
    <2> QED
      BY <2>1 DEF NewestInv, EmptyWhenClosed, SeriesOK, Owed, Arrived, OnItsWay, Waiting, Alone
  \* Steps that keep the frames in the inboxes.
  <1>3. ASSUME MCNext,
               \A k \in DOMAIN sockets :
                  /\ k \in DOMAIN sockets' /\ sockets'[k].inbox = sockets[k].inbox
                  /\ sockets'[k].state = "closed" =>
                        sockets[k].state = "closed" \/ sockets[k].inbox = <<>>,
               \A k \in DOMAIN sockets' \ DOMAIN sockets : sockets'[k].inbox = <<>>,
               sent' = sent \/ wpc' # "emit",
               \A i \in Ids : list'[i] = list[i] \/ (list[i] = <<>> /\ IsSequence(list'[i])),
               \A b \in boots' : b.rows \in Nat
        PROVE  NewestInv'
    <2>1. EmptyWhenClosed' /\ \A i \in Ids : FramesStay(i)
      BY <1>3, SameInboxes DEF NewestInv
    <2>2. SeriesOK'
      BY <1>3 DEF NewestInv, SeriesOK
    <2> QED
      BY <1>1, <1>3, <2>1, <2>2, NothingNewSent, StayOwed
  \* Steps that leave the page alone.
  <1>4. ASSUME MCNext, UNCHANGED store, sent' = sent \/ wpc' # "emit"
        PROVE  NewestInv'
    BY <1>3, <1>4 DEF store, NewestInv, SeriesOK
  <1>5. ASSUME MCNext, NEW i \in Ids,
               Receive(i) \/ RestartContainer(i) \/ StopContainer(i) \/ Stats(i)
        PROVE  NewestInv'
    BY <1>4, <1>5 DEF Receive, RestartContainer, StopContainer, Stats, pipeline
  <1>6. ASSUME MCNext, List \/ Gather \/ Send \/ RestartCollector PROVE NewestInv'
    BY <1>4, <1>6 DEF List, Gather, Send, RestartCollector, pipeline
  <1>7. ASSUME MCNext, Connect \/ WaitForNotification \/ WatcherFails \/ DrainEnd PROVE NewestInv'
    BY <1>4, <1>7 DEF Connect, WaitForNotification, WatcherFails, DrainEnd
  <1>8. ASSUME MCNext, Query PROVE NewestInv'
    <2>1. wpc = "drain" /\ UNCHANGED store
      BY <1>8 DEF Query
    <2>2. \A i \in Ids : DueStays(i)
      <3>1. \A i \in Ids : ~SentNow(i)
        BY <2>1 DEF SentNow
      <3>2. \A i \in Ids : due'[i] = IF ~started' \/ ~OneSocket' \/ Dropped(i) THEN 0 ELSE due[i]
        BY <1>8, <3>1 DEF MCNext
      <3>3. OneSocket' => Alone'
        BY <1>1, OneSocketIsAlone, PTL
      <3> QED
        BY <3>2, <3>3 DEF DueStays
    <2>3. UNCHANGED <<sockets, list, boots>>
      BY <2>1 DEF store
    <2>4. EmptyWhenClosed' /\ SeriesOK' /\ \A i \in Ids : FramesStay(i)
      BY <2>3, SameInboxes DEF NewestInv, EmptyWhenClosed, SeriesOK
    <2> QED
      BY <2>2, <2>3, <2>4, StayOwed
  <1>9. ASSUME MCNext, RestartServer PROVE NewestInv'
    <2>1. /\ DOMAIN sockets' = DOMAIN sockets /\ wpc' # "emit" /\ UNCHANGED <<list, boots>>
          /\ \A k \in DOMAIN sockets :
                IF sockets[k].state \in {"connecting", "open"}
                THEN sockets'[k] \in Broken(k) ELSE sockets'[k] = sockets[k]
      <3>1. DOMAIN sockets = 1 .. Len(sockets)
        BY <1>1, LenProperties DEF SocketsOK
      <3>2. wpc' # "emit" /\ UNCHANGED <<list, boots>>
        BY <1>9 DEF RestartServer
      <3> QED
        BY <1>1, <1>9, <3>1, <3>2, RestartSockets
    <2> QED
      BY <1>1, <1>9, <2>1, BrokenOwed
  <1>10. ASSUME MCNext, Start \/ Retry PROVE NewestInv'
    <2> DEFINE new == [state |-> "connecting", inbox |-> <<>>]
    <2>1. new \in Socket /\ new.inbox = <<>>
      BY DEF Socket
    <2>2. sockets' = Append(sockets, new) /\ sockets \in Seq(Socket)
      BY <1>1, <1>10 DEF Start, Retry, OpenSocket, SocketsOK
    <2> HIDE DEF new
    <2>3. /\ Len(sockets') = Len(sockets) + 1 /\ sockets'[Len(sockets) + 1] = new
          /\ \A k \in 1 .. Len(sockets) : sockets'[k] = sockets[k]
          /\ sockets' \in Seq(Socket)
      BY <2>1, <2>2, AppendProperties
    <2>4. /\ Len(sockets) \in Nat /\ DOMAIN sockets = 1 .. Len(sockets)
          /\ DOMAIN sockets' = 1 .. Len(sockets) + 1
      BY <2>2, <2>3, LenProperties
    <2>5. /\ \A k \in DOMAIN sockets : k \in DOMAIN sockets' /\ sockets'[k] = sockets[k]
          /\ \A k \in DOMAIN sockets' \ DOMAIN sockets : sockets'[k].inbox = <<>>
      BY <2>1, <2>3, <2>4
    <2>6. /\ UNCHANGED <<list, sent>>
          /\ \A b \in boots' : b \in boots \/ b.rows = 0
      BY <1>10 DEF Start, Retry, pipeline
    <2> QED
      BY <1>3, <1>10, <2>5, <2>6 DEF NewestInv, SeriesOK
  <1>11. ASSUME MCNext, NEW b \in boots, History(b) \/ BootstrapFails(b) PROVE NewestInv'
    <2>1. /\ UNCHANGED <<sockets, list, sent>>
          /\ \A c \in boots' : c \in boots \/ c.rows = Len(table)
      BY <1>11 DEF History, BootstrapFails, pipeline
    <2> QED
      BY <1>1, <1>3, <1>11, <2>1 DEF NewestInv, SeriesOK
  <1>12. ASSUME MCNext, NEW b \in boots, Bootstrap(b) PROVE NewestInv'
    <2>1. /\ UNCHANGED <<sockets, sent>> /\ boots' \subseteq boots
          /\ list' = IF Empty THEN [i \in Ids |-> Bootstrapped(i, b.rows)] ELSE list
      BY <1>12 DEF Bootstrap, pipeline
    <2>2. b.rows \in Nat
      BY DEF NewestInv, SeriesOK
    <2>3. \A i \in Ids : list'[i] = list[i] \/ (list[i] = <<>> /\ IsSequence(list'[i]))
      BY <2>1, <2>2, BootstrappedIsSequence DEF Empty
    <2> QED
      BY <1>3, <1>12, <2>1, <2>3 DEF NewestInv, SeriesOK
  <1>13. ASSUME MCNext, NEW k \in DOMAIN sockets, Accept(k) \/ OnClose(k) PROVE NewestInv'
    <2>1. PICK st \in {"open", "closed"} :
             /\ sockets' = [sockets EXCEPT ![k].state = st]
             /\ st = "closed" => sockets[k].inbox = <<>>
      <3>1. CASE Accept(k)
        BY <3>1 DEF Accept
      <3>2. CASE OnClose(k)
        BY <3>2 DEF OnClose
      <3> QED
        BY <1>13, <3>1, <3>2
    <2>2. UNCHANGED <<list, sent, boots>>
      BY <1>13 DEF Accept, OnClose, pipeline
    <2>3. DOMAIN sockets' = DOMAIN sockets
      BY <2>1
    <2>4. ASSUME NEW j \in DOMAIN sockets
          PROVE  /\ sockets'[j].inbox = sockets[j].inbox
                 /\ sockets'[j].state = "closed" =>
                       sockets[j].state = "closed" \/ sockets[j].inbox = <<>>
      BY <1>1, <2>1, SocketElement DEF Socket
    <2> QED
      BY <1>3, <1>13, <2>2, <2>3, <2>4 DEF NewestInv, SeriesOK
  <1>14. ASSUME MCNext, NEW k \in DOMAIN sockets, Lose(k) PROVE NewestInv'
    <2>1. PICK x \in Broken(k) : sockets' = [sockets EXCEPT ![k] = x]
      BY <1>14 DEF Lose
    <2>2. /\ sockets[k].state \in {"connecting", "open"} /\ UNCHANGED <<list, boots, sent>>
      BY <1>14 DEF Lose, pipeline
    <2>3. /\ DOMAIN sockets' = DOMAIN sockets
          /\ \A j \in DOMAIN sockets :
                \/ sockets'[j] = sockets[j]
                \/ sockets[j].state \in {"connecting", "open"} /\ sockets'[j] \in Broken(j)
      BY <2>1, <2>2
    <2> QED
      BY <1>1, <1>14, <2>2, <2>3, BrokenOwed
  <1>15. ASSUME MCNext, Broadcast \/ Stop \/ \E k \in DOMAIN sockets : OnMessage(k) PROVE NewestInv'
    BY <1>1, <1>15, BroadcastOwed, StopOwed, MessageOwed
  <1>16. ASSUME MCNext PROVE NewestInv'
    BY <1>5, <1>6, <1>7, <1>8, <1>9, <1>10, <1>11, <1>12, <1>13, <1>14, <1>15, <1>16
    DEF MCNext, Next
  <1> QED
    BY <1>2, <1>16

\* When the page has handled every frame that reaches it, each container's
\* newest point is that of the last frame it was sent on the page's only
\* socket and not lost with it: no late answer of the history, and no earlier
\* visit's, puts an older one in its place.
THEOREM NewestIsShown == MCSpec => []ShowsNewest
  <1>1. NewestInv => ShowsNewest
    <2> SUFFICES ASSUME NewestInv, \A k \in DOMAIN sockets : sockets[k].inbox = <<>>,
                        NEW i \in Ids, due[i] # 0
                 PROVE  list[i] # <<>> /\ list[i][Len(list[i])] = due[i]
      BY DEF ShowsNewest
    <2>1. \A k \in DOMAIN sockets : Waiting(i, k) = {}
      BY DEF Waiting
    <2> QED
      BY <2>1 DEF NewestInv, Owed, Arrived, OnItsWay
  <1>2. MCInit => SocketInv /\ NewestInv
    BY InitSocketInv, InitOwed DEF MCInit
  <1>3. SocketInv /\ [MCNext]_<<vars, due>> => SocketInv'
    <2>1. [MCNext]_<<vars, due>> => [Next]_vars
      BY DEF MCNext
    <2> QED
      BY <2>1, NextSocketInv
  <1> QED
    BY <1>1, <1>2, <1>3, NextOwed, PTL DEF MCSpec
=============================================================================
