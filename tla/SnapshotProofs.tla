--------------------------- MODULE SnapshotProofs ---------------------------
(***************************************************************************)
(* Theorems of SnapshotViewer: comments never outlive their snapshot, an   *)
(* open page always has a socket for its snapshot or is about to open one, *)
(* the page of comments said to be the last is the last, and a settled     *)
(* page misses none, for any number of snapshots, posters, requests and    *)
(* sockets and pages of any length.                                        *)
(***************************************************************************)
EXTENDS MCSnapshotViewer, SequenceTheorems, FiniteSetTheorems, TLAPS

(* The types the argument about sockets needs. *)
SocketsOK ==
    /\ sockets \in Seq(Socket)
    /\ ws \in 0 .. Len(sockets)
    /\ wsSnap \in Nat

\* The store watches the snapshot whose page is open, and means to.
Watching == view # 0 => wsSnap = view /\ ~intentional

SocketInv == SocketsOK /\ Watching /\ ViewIsLive

-----------------------------------------------------------------------------
(* Comments. *)

LEMMA InitNoOrphans == Init => NoOrphans
  <1> SUFFICES ASSUME Init, NEW c \in comments PROVE c.snap \in snaps
    BY DEF NoOrphans
  <1>1. /\ comments = [id : 1 .. OldComments, snap : {OldSnaps}]
        /\ snaps = 1 .. OldSnaps
    BY DEF Init, ServerInit
  <1>2. c.id \in 1 .. OldComments /\ c.snap = OldSnaps
    BY <1>1
  <1> QED
    BY <1>1, <1>2, SnapshotsAssumption DEF SnapshotsAssumption

\* Whatever deletes snapshots takes their comments along.
LEMMA DeleteKeepsNoOrphans ==
    ASSUME NoOrphans, NEW gone, Delete(gone)
    PROVE  NoOrphans'
  BY DEF NoOrphans, Delete

LEMMA NextNoOrphans == NoOrphans /\ [Next]_vars => NoOrphans'
  <1> SUFFICES ASSUME NoOrphans, [Next]_vars PROVE NoOrphans'
    OBVIOUS
  <1>1. CASE ServerNext
    <2>1. CASE CreateSnapshot
      BY <2>1 DEF CreateSnapshot, InsertSnapshot, NoOrphans
    <2>2. ASSUME NEW s \in snaps, DeleteSnapshot(s) PROVE NoOrphans'
      BY <2>2, DeleteKeepsNoOrphans DEF DeleteSnapshot
    <2>3. CASE RunRetention
      BY <2>3, DeleteKeepsNoOrphans DEF RunRetention, PruneOld, PruneCap
    <2>5. ASSUME NEW p \in Posters, NEW s \in snaps, LookUp(p, s) PROVE NoOrphans'
      BY <2>5 DEF LookUp, NoOrphans
    <2>6. ASSUME NEW p \in Posters, InsertComment(p) PROVE NoOrphans'
      BY <2>6 DEF InsertComment, InsertRow, NoOrphans
    <2>7. ASSUME NEW p \in Posters, Refuse(p) PROVE NoOrphans'
      BY <2>7 DEF Refuse, NoOrphans
    <2> QED
      BY <1>1, <2>1, <2>2, <2>3, <2>5, <2>6, <2>7 DEF ServerNext
  <1>2. ASSUME snaps' = snaps, comments' = comments PROVE NoOrphans'
    BY <1>2 DEF NoOrphans
  <1>3. ASSUME NEW p \in Posters, Hear(p) PROVE NoOrphans'
    BY <1>2, <1>3 DEF Hear, Announce
  <1>4. ASSUME NEW r \in Slots,
               ReadRows(r) \/ CountRows(r) \/ ReadFails(r) \/ OnComments(r)
        PROVE  NoOrphans'
    BY <1>2, <1>4 DEF ReadRows, CountRows, ReadFails, OnComments, server
  <1>5. ASSUME NEW q \in asked, OnSnapshot(q) PROVE NoOrphans'
    BY <1>2, <1>5 DEF OnSnapshot, server
  <1>6. ASSUME NEW k \in DOMAIN sockets,
               Accept(k) \/ Lose(k) \/ OnMessage(k) \/ OnClose(k)
        PROVE  NoOrphans'
    BY <1>2, <1>6 DEF Accept, Lose, OnMessage, OnClose, server
  <1>7. ASSUME NEW t \in timers, Retry(t) PROVE NoOrphans'
    BY <1>2, <1>7 DEF Retry, server
  <1>8. ASSUME NEW s \in 1 .. Made, Mount(s) PROVE NoOrphans'
    BY <1>2, <1>8 DEF Mount, server
  <1>9. ASSUME Leave \/ LoadMore PROVE NoOrphans'
    BY <1>2, <1>9 DEF Leave, LoadMore, server
  <1>10. CASE UNCHANGED vars
    BY <1>2, <1>10 DEF vars, server
  <1> QED
    BY <1>1, <1>3, <1>4, <1>5, <1>6, <1>7, <1>8, <1>9, <1>10 DEF Next, ServerAlone

\* A comment never outlives its snapshot.
THEOREM CommentsHaveSnapshots == Spec => []NoOrphans
  BY InitNoOrphans, NextNoOrphans, PTL DEF Spec

-----------------------------------------------------------------------------
(* Sockets. *)

(* Opening a socket. *)
LEMMA OpenSocket ==
    ASSUME NEW opened \in Seq(Socket), NEW s \in Nat, Open(opened, s)
    PROVE  /\ sockets' \in Seq(Socket)
           /\ ws' \in 0 .. Len(sockets')
           /\ \E k \in DOMAIN sockets' :
                 sockets'[k].snap = s /\ sockets'[k].state = "connecting"
  <1> DEFINE new == [snap |-> s, state |-> "connecting", inbox |-> <<>>]
  <1>1. new \in Socket
    BY DEF Socket
  <1>2. /\ sockets' = Append(opened, new)
        /\ ws' = Len(opened) + 1
    BY DEF Open
  <1> HIDE DEF new
  <1>3. /\ sockets' \in Seq(Socket)
        /\ Len(sockets') = Len(opened) + 1
        /\ sockets'[Len(opened) + 1] = new
    BY <1>1, <1>2, AppendProperties
  <1>4. Len(opened) \in Nat /\ DOMAIN sockets' = 1 .. Len(opened) + 1
    BY <1>3, LenProperties
  <1>5. ws' \in 0 .. Len(sockets') /\ Len(opened) + 1 \in DOMAIN sockets'
    BY <1>2, <1>3, <1>4
  <1>6. new.snap = s /\ new.state = "connecting"
    BY DEF new
  <1> QED
    BY <1>3, <1>5, <1>6

\* Every handler of a socket replaces one element by a socket.
LEMMA ChangeSocket ==
    ASSUME SocketsOK, NEW k \in DOMAIN sockets, NEW x \in Socket,
           sockets' = [sockets EXCEPT ![k] = x]
    PROVE  /\ sockets' \in Seq(Socket)
           /\ Len(sockets') = Len(sockets)
           /\ DOMAIN sockets' = DOMAIN sockets
           /\ \A j \in DOMAIN sockets : sockets'[j] = IF j = k THEN x ELSE sockets[j]
  <1>1. sockets \in Seq(Socket) /\ k \in 1 .. Len(sockets) /\ DOMAIN sockets = 1 .. Len(sockets)
    BY LenProperties DEF SocketsOK
  <1>2. /\ sockets' \in Seq(Socket)
        /\ Len(sockets') = Len(sockets)
        /\ \A j \in 1 .. Len(sockets) : sockets'[j] = IF j = k THEN x ELSE sockets[j]
    BY <1>1, ExceptSeq
  <1> QED
    BY <1>1, <1>2, LenProperties

LEMMA InitSocketInv == Init => SocketInv
  BY EmptySeq DEF Init, SocketInv, SocketsOK, Watching, ViewIsLive

\* connectWS from a page: a socket for its snapshot is on its way.
LEMMA ConnectIsLive ==
    ASSUME SocketInv, NEW s \in Nat, ConnectWS(s), view' = s
    PROVE  SocketInv'
  <1> DEFINE opened == IF ws # 0 /\ Live(ws) THEN Closing(ws) ELSE sockets
  <1>1. SocketsOK
    BY DEF SocketInv
  <1>2. opened \in Seq(Socket)
    <2>1. CASE ws # 0
      <3>1. ws \in 1 .. Len(sockets) /\ sockets \in Seq(Socket)
        BY <1>1, <2>1, LenProperties DEF SocketsOK
      <3>2. sockets[ws] \in Socket
        BY <3>1, ElementOfSeq
      <3>3. [sockets[ws] EXCEPT !.state = "closing", !.inbox = <<>>] \in Socket
        BY <3>2, EmptySeq DEF Socket
      <3>4. Closing(ws) = [sockets EXCEPT ![ws] = [sockets[ws] EXCEPT !.state = "closing", !.inbox = <<>>]]
        BY <3>1, <3>2, LenProperties DEF Closing, Socket
      <3>5. Closing(ws) \in Seq(Socket)
        BY <3>1, <3>3, <3>4, ExceptSeq
      <3> QED
        BY <1>1, <3>5 DEF SocketsOK
    <2>2. CASE ws = 0
      BY <1>1, <2>2 DEF SocketsOK
    <2> QED
      BY <2>1, <2>2
  <1>3. Open(opened, s) /\ wsSnap' = s /\ intentional' = FALSE
    BY DEF ConnectWS
  <1> HIDE DEF opened
  <1>4. /\ sockets' \in Seq(Socket)
        /\ ws' \in 0 .. Len(sockets')
        /\ \E k \in DOMAIN sockets' :
              sockets'[k].snap = s /\ sockets'[k].state = "connecting"
    BY <1>2, <1>3, OpenSocket
  <1>5. SocketsOK' /\ Watching'
    BY <1>3, <1>4 DEF SocketsOK, Watching
  <1>6. ViewIsLive'
    BY <1>4 DEF ViewIsLive, Live
  <1> QED
    BY <1>5, <1>6 DEF SocketInv

\* A step that opens and closes no socket, and leaves the page as it is.
LEMMA SameSockets ==
    ASSUME SocketInv, UNCHANGED <<view, sockets, ws, wsSnap, intentional, timers>>
    PROVE  SocketInv'
  BY DEF SocketInv, SocketsOK, Watching, ViewIsLive, Live

\* A step on one socket that leaves it for the same snapshot and live.
LEMMA StaysLive ==
    ASSUME SocketInv, NEW k \in DOMAIN sockets, NEW x \in Socket,
           sockets' = [sockets EXCEPT ![k] = x],
           x.snap = sockets[k].snap,
           x.state \in {"connecting", "open", "lost"} \/ ~Live(k),
           UNCHANGED <<view, ws, wsSnap, intentional, timers>>
    PROVE  SocketInv'
  <1>1. SocketsOK /\ Watching /\ ViewIsLive
    BY DEF SocketInv
  <1>2. /\ sockets' \in Seq(Socket)
        /\ Len(sockets') = Len(sockets)
        /\ DOMAIN sockets' = DOMAIN sockets
        /\ \A j \in DOMAIN sockets : sockets'[j] = IF j = k THEN x ELSE sockets[j]
    BY <1>1, ChangeSocket
  <1>3. SocketsOK' /\ Watching'
    BY <1>1, <1>2 DEF SocketsOK, Watching
  <1>4. ViewIsLive'
    BY <1>1, <1>2 DEF ViewIsLive, Live
  <1> QED
    BY <1>3, <1>4 DEF SocketInv

\* What a socket's element is.
LEMMA SocketElement ==
    ASSUME SocketInv, NEW k \in DOMAIN sockets
    PROVE  /\ sockets[k] \in Socket
           /\ sockets[k].snap \in Nat
           /\ sockets[k].inbox \in Seq(Comment)
           /\ sockets[k] = [snap |-> sockets[k].snap, state |-> sockets[k].state,
                            inbox |-> sockets[k].inbox]
  <1>1. sockets \in Seq(Socket) /\ k \in 1 .. Len(sockets)
    BY LenProperties DEF SocketInv, SocketsOK
  <1>2. sockets[k] \in Socket
    BY <1>1, ElementOfSeq
  <1> QED
    BY <1>2 DEF Socket

\* A run of a list, element by element.
LEMMA RunOfList ==
    ASSUME NEW all \in Seq(Comment), NEW from \in Nat \ {0}, NEW to \in Int, to <= Len(all),
           NEW run, run = SubSeq(all, from, to)
    PROVE  /\ run \in Seq(Comment) /\ DOMAIN run = 1 .. Len(run)
           /\ Len(run) = IF from <= to THEN to - from + 1 ELSE 0
           /\ \A i \in DOMAIN run : /\ i \in Nat \ {0}
                                    /\ from <= to /\ from + i - 1 \in 1 .. Len(all)
                                    /\ run[i] = all[from + i - 1]
           /\ \A q \in from .. to : /\ q - from + 1 \in DOMAIN run
                                    /\ run[q - from + 1] = all[q]
  <1>1. Len(all) \in Nat
    BY LenProperties
  <1>2. \A i \in from .. to : all[i] \in Comment
    <2>1. \A i \in from .. to : i \in 1 .. Len(all)
      BY <1>1
    <2> QED
      BY <2>1, ElementOfSeq
  <1>3. /\ run \in Seq(Comment)
        /\ Len(run) = IF from <= to THEN to - from + 1 ELSE 0
        /\ \A i \in 1 .. to - from + 1 : run[i] = all[from + i - 1]
    BY <1>2, SubSeqProperties
  <1>4. DOMAIN run = 1 .. Len(run)
    BY <1>3, LenProperties
  <1>5. ASSUME NEW i \in DOMAIN run
        PROVE  /\ i \in Nat \ {0}
               /\ from <= to /\ from + i - 1 \in 1 .. Len(all) /\ run[i] = all[from + i - 1]
    <2>1. from <= to /\ i \in 1 .. to - from + 1
      BY <1>3, <1>4
    <2>2. from + i - 1 \in 1 .. Len(all) /\ i \in Nat \ {0}
      BY <1>1, <2>1
    <2>3. run[i] = all[from + i - 1]
      BY <1>3, <2>1
    <2> QED
      BY <2>1, <2>2, <2>3
  <1>6. ASSUME NEW q \in from .. to
        PROVE  q - from + 1 \in DOMAIN run /\ run[q - from + 1] = all[q]
    <2>1. q - from + 1 \in 1 .. to - from + 1 /\ from + (q - from + 1) - 1 = q /\ from <= to
      OBVIOUS
    <2> QED
      BY <1>3, <1>4, <2>1
  <1> QED
    BY <1>3, <1>4, <1>5, <1>6

LEMMA AcceptKeepsLive ==
    ASSUME SocketInv, NEW k \in DOMAIN sockets, Accept(k)
    PROVE  SocketInv'
  <1>1. /\ sockets' = [sockets EXCEPT ![k].state = "open"]
        /\ UNCHANGED <<view, ws, wsSnap, intentional, timers>>
    BY DEF Accept, page
  <1> DEFINE x == [sockets[k] EXCEPT !.state = "open"]
  <1>2. x \in Socket /\ x.snap = sockets[k].snap /\ x.state = "open"
    BY SocketElement DEF Socket
  <1>3. sockets' = [sockets EXCEPT ![k] = x]
    BY <1>1
  <1> HIDE DEF x
  <1> QED
    BY <1>1, <1>2, <1>3, StaysLive

\* What had arrived at a socket that is lost is a sequence of comments.
LEMMA ArrivedIsSeq ==
    ASSUME NEW seq \in Seq(Comment), NEW n \in 0 .. Len(seq),
           NEW kept, kept = SubSeq(seq, 1, n)
    PROVE  /\ kept \in Seq(Comment)
           /\ DOMAIN kept = 1 .. n /\ DOMAIN seq = 1 .. Len(seq) /\ Len(seq) \in Nat
           /\ \A i \in 1 .. n : kept[i] = seq[i]
  <1>1. Len(seq) \in Nat /\ n \in Int /\ n <= Len(seq)
    BY LenProperties
  <1>2. /\ kept \in Seq(Comment) /\ DOMAIN kept = 1 .. Len(kept)
        /\ Len(kept) = IF 1 <= n THEN n - 1 + 1 ELSE 0
        /\ \A i \in DOMAIN kept : kept[i] = seq[1 + i - 1] /\ i \in Nat
    BY <1>1, RunOfList
  <1>3. Len(kept) = n
    BY <1>1, <1>2
  <1>4. \A i \in DOMAIN kept : 1 + i - 1 = i
    BY <1>2
  <1> QED
    BY <1>1, <1>2, <1>3, <1>4, LenProperties

LEMMA LoseKeepsLive ==
    ASSUME SocketInv, NEW k \in DOMAIN sockets, Lose(k)
    PROVE  SocketInv'
  <1>1. PICK n \in 0 .. Len(sockets[k].inbox) :
           sockets' = [sockets EXCEPT ![k].state = "lost",
                                      ![k].inbox = SubSeq(sockets[k].inbox, 1, n)]
    BY DEF Lose
  <1>2. UNCHANGED <<view, ws, wsSnap, intentional, timers>>
    BY DEF Lose, page
  <1>3. PICK kept : kept = SubSeq(sockets[k].inbox, 1, n)
    OBVIOUS
  <1>4. kept \in Seq(Comment)
    BY <1>3, SocketElement, ArrivedIsSeq
  <1> DEFINE x == [sockets[k] EXCEPT !.state = "lost", !.inbox = kept]
  <1>5. x \in Socket /\ x.snap = sockets[k].snap /\ x.state = "lost"
    BY <1>4, SocketElement DEF Socket
  <1>6. sockets' = [sockets EXCEPT ![k] = x]
    BY <1>1, <1>3, SocketElement
  <1> HIDE DEF x
  <1> QED
    BY <1>2, <1>5, <1>6, StaysLive

LEMMA MessageKeepsLive ==
    ASSUME SocketInv, NEW k \in DOMAIN sockets, OnMessage(k)
    PROVE  SocketInv'
  <1>1. /\ sockets[k].inbox # <<>>
        /\ sockets' = [sockets EXCEPT ![k].inbox = Tail(sockets[k].inbox)]
        /\ UNCHANGED <<view, ws, wsSnap, intentional, timers>>
    BY DEF OnMessage
  <1>2. sockets[k] \in Socket /\ Tail(sockets[k].inbox) \in Seq(Comment)
    BY <1>1, SocketElement, HeadTailProperties
  <1> DEFINE x == [sockets[k] EXCEPT !.inbox = Tail(sockets[k].inbox)]
  <1>3. x \in Socket /\ x.snap = sockets[k].snap /\ x.state = sockets[k].state
    BY <1>2 DEF Socket
  <1>4. sockets' = [sockets EXCEPT ![k] = x]
    BY <1>1
  <1>5. x.state \in {"connecting", "open", "lost"} \/ ~Live(k)
    BY <1>3 DEF Live
  <1> HIDE DEF x
  <1> QED
    BY <1>1, <1>3, <1>4, <1>5, StaysLive

\* The close event: if the page still needs this socket, a timer replaces it.
LEMMA CloseKeepsLive ==
    ASSUME SocketInv, NEW k \in DOMAIN sockets, OnClose(k)
    PROVE  SocketInv'
  <1>1. SocketsOK /\ Watching /\ ViewIsLive
    BY DEF SocketInv
  <1>2. /\ sockets' = [sockets EXCEPT ![k].state = "closed", ![k].snap = 0]
        /\ ws' = 0
        /\ IF ~intentional /\ wsSnap = sockets[k].snap
           THEN timers' = timers \cup {[name |-> k, snap |-> sockets[k].snap]}
           ELSE timers' = timers
        /\ UNCHANGED <<view, wsSnap, intentional>>
    BY DEF OnClose, page
  <1> DEFINE x == [sockets[k] EXCEPT !.state = "closed", !.snap = 0]
  <1>3. x \in Socket
    BY SocketElement DEF Socket
  <1>4. sockets' = [sockets EXCEPT ![k] = x]
    BY <1>2, SocketElement
  <1> HIDE DEF x
  <1>5. /\ sockets' \in Seq(Socket)
        /\ Len(sockets') = Len(sockets)
        /\ DOMAIN sockets' = DOMAIN sockets
        /\ \A j \in DOMAIN sockets : j # k => sockets'[j] = sockets[j]
    BY <1>1, <1>3, <1>4, ChangeSocket
  <1>6. SocketsOK'
    BY <1>1, <1>2, <1>5, LenProperties DEF SocketsOK
  <1>7. Watching'
    BY <1>1, <1>2 DEF Watching
  <1>8. timers \subseteq timers'
    BY <1>2
  <1>9. ViewIsLive'
    <2> SUFFICES ASSUME view # 0
                 PROVE  \/ \E j \in DOMAIN sockets' : sockets'[j].snap = view /\ Live(j)'
                        \/ \E t \in timers' : t.snap = view
      BY <1>2 DEF ViewIsLive
    <2>1. CASE \E t \in timers : t.snap = view
      BY <1>8, <2>1
    <2>2. CASE \E j \in DOMAIN sockets : j # k /\ sockets[j].snap = view /\ Live(j)
      BY <1>5, <2>2 DEF Live
    <2>3. CASE sockets[k].snap = view
      <3>1. [name |-> k, snap |-> sockets[k].snap] \in timers'
        BY <1>1, <1>2, <2>3 DEF Watching
      <3> QED
        BY <2>3, <3>1
    <2> QED
      BY <1>1, <2>1, <2>2, <2>3 DEF ViewIsLive
  <1> QED
    BY <1>6, <1>7, <1>9 DEF SocketInv

\* A timer that fires for the page's snapshot opens a socket in its place.
LEMMA RetryKeepsLive ==
    ASSUME SocketInv, NEW t \in timers, Retry(t)
    PROVE  SocketInv'
  <1>1. SocketsOK /\ Watching /\ ViewIsLive
    BY DEF SocketInv
  <1>2. timers' = timers \ {t} /\ UNCHANGED <<view, wsSnap, intentional>>
    BY DEF Retry, page
  <1>3. Watching'
    BY <1>1, <1>2 DEF Watching
  <1>4. CASE wsSnap = t.snap
    <2>1. Open(sockets, t.snap) /\ t.snap \in Nat /\ sockets \in Seq(Socket)
      BY <1>1, <1>4 DEF Retry, SocketsOK
    <2>2. /\ sockets' \in Seq(Socket)
          /\ ws' \in 0 .. Len(sockets')
          /\ \E k \in DOMAIN sockets' :
                sockets'[k].snap = t.snap /\ sockets'[k].state = "connecting"
      BY <2>1, OpenSocket
    <2>3. SocketsOK'
      BY <1>1, <1>2, <2>2 DEF SocketsOK
    <2>4. ViewIsLive'
      BY <1>1, <1>2, <1>4, <2>2 DEF ViewIsLive, Watching, Live
    <2> QED
      BY <1>3, <2>3, <2>4 DEF SocketInv
  <1>5. CASE wsSnap # t.snap
    <2>1. UNCHANGED <<sockets, ws>>
      BY <1>5 DEF Retry
    <2>2. SocketsOK'
      BY <1>1, <1>2, <2>1 DEF SocketsOK
    <2>3. ViewIsLive'
      BY <1>1, <1>2, <1>5, <2>1 DEF ViewIsLive, Watching, Live
    <2> QED
      BY <1>3, <2>2, <2>3 DEF SocketInv
  <1> QED
    BY <1>4, <1>5

\* disconnectWS: nothing is watched any more.
LEMMA LeaveKeeps ==
    ASSUME SocketInv, Leave
    PROVE  SocketInv'
  <1>1. SocketsOK
    BY DEF SocketInv
  <1>2. /\ view' = 0 /\ ws' = 0 /\ wsSnap' = 0
        /\ sockets' = IF ws # 0 /\ Live(ws) THEN Closing(ws) ELSE sockets
    BY DEF Leave, DisconnectWS
  <1>3. sockets' \in Seq(Socket)
    <2>1. CASE ws # 0 /\ Live(ws)
      <3>1. ws \in 1 .. Len(sockets) /\ sockets \in Seq(Socket) /\ ws \in DOMAIN sockets
        BY <1>1, <2>1, LenProperties DEF SocketsOK
      <3>2. sockets[ws] \in Socket
        BY <3>1, ElementOfSeq
      <3>3. [sockets[ws] EXCEPT !.state = "closing", !.inbox = <<>>] \in Socket
        BY <3>2, EmptySeq DEF Socket
      <3>4. Closing(ws) = [sockets EXCEPT ![ws] = [sockets[ws] EXCEPT !.state = "closing", !.inbox = <<>>]]
        BY <3>1, <3>2 DEF Closing, Socket
      <3> QED
        BY <1>2, <2>1, <3>1, <3>3, <3>4, ExceptSeq
    <2> QED
      BY <1>1, <1>2, <2>1 DEF SocketsOK
  <1>4. 0 \in 0 .. Len(sockets')
    BY <1>3, LenProperties
  <1> QED
    BY <1>2, <1>3, <1>4 DEF SocketInv, SocketsOK, Watching, ViewIsLive

\* The broadcast appends to the inboxes of open sockets.
LEMMA HearKeepsLive ==
    ASSUME SocketInv, NEW p \in Posters, Hear(p),
           ServerTypeOK
    PROVE  SocketInv'
  <1>1. SocketsOK /\ Watching /\ ViewIsLive
    BY DEF SocketInv
  <1> DEFINE c == [id |-> posts[p].id, snap |-> posts[p].snap]
             heard(k) == [sockets[k] EXCEPT !.inbox = Append(sockets[k].inbox, c)]
  <1>2. /\ sockets' = [k \in DOMAIN sockets |->
                          IF sockets[k].state = "open" THEN heard(k) ELSE sockets[k]]
        /\ UNCHANGED <<view, ws, wsSnap, intentional, timers>>
    BY DEF Hear, page
  <1>3. c \in Comment
    BY DEF ServerTypeOK, Comment
  <1>4. ASSUME NEW k \in DOMAIN sockets
        PROVE  /\ sockets'[k] \in Socket
               /\ sockets'[k].snap = sockets[k].snap
               /\ sockets'[k].state = sockets[k].state
    <2>1. sockets[k] \in Socket /\ sockets[k].inbox \in Seq(Comment)
      BY SocketElement
    <2>2. Append(sockets[k].inbox, c) \in Seq(Comment)
      BY <1>3, <2>1, AppendProperties
    <2>3. heard(k) \in Socket /\ heard(k).snap = sockets[k].snap /\ heard(k).state = sockets[k].state
      BY <2>1, <2>2 DEF Socket
    <2>4. sockets'[k] = IF sockets[k].state = "open" THEN heard(k) ELSE sockets[k]
      BY <1>2
    <2> QED
      BY <2>1, <2>3, <2>4
  <1> HIDE DEF heard, c
  <1>5. Len(sockets) \in Nat /\ DOMAIN sockets = 1 .. Len(sockets) /\ DOMAIN sockets' = DOMAIN sockets
    BY <1>1, <1>2, LenProperties DEF SocketsOK
  <1>6. sockets' \in [1 .. Len(sockets) -> Socket]
    BY <1>2, <1>4, <1>5
  <1>7. sockets' \in Seq(Socket)
    BY <1>5, <1>6, SeqDef
  <1>10. Len(sockets') = Len(sockets)
    BY <1>5, <1>7, LenProperties
  <1>8. SocketsOK' /\ Watching'
    BY <1>1, <1>2, <1>7, <1>10 DEF SocketsOK, Watching
  <1>9. ViewIsLive'
    BY <1>1, <1>2, <1>4, <1>5 DEF ViewIsLive, Live
  <1> QED
    BY <1>8, <1>9 DEF SocketInv

-----------------------------------------------------------------------------
(* The rows and the handlers of POST requests. *)

LEMMA InitServerTypeOK == Init => ServerTypeOK
  BY SnapshotsAssumption DEF Init, ServerInit, ServerTypeOK, Comment, Idle, SnapshotsAssumption

LEMMA NextServerTypeOK == ServerTypeOK /\ [Next]_vars => ServerTypeOK'
  <1> SUFFICES ASSUME ServerTypeOK, [Next]_vars PROVE ServerTypeOK'
    OBVIOUS
  <1>1. CASE ServerNext
    <2>1. CASE CreateSnapshot
      BY <2>1 DEF CreateSnapshot, InsertSnapshot, ServerTypeOK
    <2>2. ASSUME NEW s \in snaps, DeleteSnapshot(s) PROVE ServerTypeOK'
      BY <2>2 DEF DeleteSnapshot, Delete, ServerTypeOK
    <2>3. CASE RunRetention
      BY <2>3 DEF RunRetention, PruneOld, PruneCap, Delete, ServerTypeOK
    <2>4. ASSUME NEW p \in Posters, NEW s \in snaps, LookUp(p, s) PROVE ServerTypeOK'
      BY <2>4 DEF LookUp, At, ServerTypeOK
    <2>5. ASSUME NEW p \in Posters, InsertComment(p) PROVE ServerTypeOK'
      BY <2>5 DEF InsertComment, InsertRow, At, Idle, Comment, ServerTypeOK
    <2>6. ASSUME NEW p \in Posters, Refuse(p) PROVE ServerTypeOK'
      BY <2>6 DEF Refuse, Idle, ServerTypeOK
    <2> QED
      BY <1>1, <2>1, <2>2, <2>3, <2>4, <2>5, <2>6 DEF ServerNext
  <1>2. ASSUME NEW p \in Posters, Hear(p) PROVE ServerTypeOK'
    BY <1>2 DEF Hear, Announce, Idle, ServerTypeOK
  <1>3. ASSUME UNCHANGED server PROVE ServerTypeOK'
    BY <1>3 DEF server, ServerTypeOK
  <1>4. ASSUME NEW r \in Slots,
               ReadRows(r) \/ CountRows(r) \/ ReadFails(r) \/ OnComments(r)
        PROVE  ServerTypeOK'
    BY <1>3, <1>4 DEF ReadRows, CountRows, ReadFails, OnComments
  <1>5. ASSUME NEW q \in asked, OnSnapshot(q) PROVE ServerTypeOK'
    BY <1>3, <1>5 DEF OnSnapshot
  <1>6. ASSUME NEW k \in DOMAIN sockets,
               Accept(k) \/ Lose(k) \/ OnMessage(k) \/ OnClose(k)
        PROVE  ServerTypeOK'
    BY <1>3, <1>6 DEF Accept, Lose, OnMessage, OnClose
  <1>7. ASSUME NEW t \in timers, Retry(t) PROVE ServerTypeOK'
    BY <1>3, <1>7 DEF Retry
  <1>8. ASSUME NEW s \in 1 .. Made, Mount(s) PROVE ServerTypeOK'
    BY <1>3, <1>8 DEF Mount
  <1>9. ASSUME Leave \/ LoadMore PROVE ServerTypeOK'
    BY <1>3, <1>9 DEF Leave, LoadMore
  <1>10. CASE UNCHANGED vars
    BY <1>3, <1>10 DEF vars
  <1> QED
    BY <1>1, <1>2, <1>4, <1>5, <1>6, <1>7, <1>8, <1>9, <1>10 DEF Next, ServerAlone

-----------------------------------------------------------------------------
(* The page. *)

LEMMA NextSocketInv == ServerTypeOK /\ SocketInv /\ [Next]_vars => SocketInv'
  <1> SUFFICES ASSUME ServerTypeOK, SocketInv, [Next]_vars PROVE SocketInv'
    OBVIOUS
  <1>1. ASSUME UNCHANGED <<page, wsVars>> PROVE SocketInv'
    BY <1>1, SameSockets DEF page, wsVars
  <1>2. CASE ServerAlone \/ UNCHANGED vars
    BY <1>1, <1>2 DEF ServerAlone, vars
  <1>3. ASSUME NEW p \in Posters, Hear(p) PROVE SocketInv'
    BY <1>3, HearKeepsLive
  <1>4. ASSUME NEW r \in Slots, ReadRows(r) \/ CountRows(r) \/ ReadFails(r) PROVE SocketInv'
    BY <1>1, <1>4 DEF ReadRows, CountRows, ReadFails
  <1>5. ASSUME NEW r \in Slots, OnComments(r) PROVE SocketInv'
    BY <1>5, SameSockets DEF OnComments, wsVars
  <1>6. ASSUME NEW q \in asked, OnSnapshot(q) PROVE SocketInv'
    BY <1>6, SameSockets DEF OnSnapshot, wsVars
  <1>7. ASSUME NEW k \in DOMAIN sockets, Accept(k) \/ Lose(k) PROVE SocketInv'
    BY <1>7, AcceptKeepsLive, LoseKeepsLive
  <1>8. ASSUME NEW k \in DOMAIN sockets, OnMessage(k) PROVE SocketInv'
    BY <1>8, MessageKeepsLive
  <1>9. ASSUME NEW k \in DOMAIN sockets, OnClose(k) PROVE SocketInv'
    BY <1>9, CloseKeepsLive
  <1>10. ASSUME NEW t \in timers, Retry(t) PROVE SocketInv'
    BY <1>10, RetryKeepsLive
  <1>11. ASSUME NEW s \in 1 .. Made, Mount(s) PROVE SocketInv'
    <2>1. s \in Nat /\ ConnectWS(s) /\ view' = s
      BY <1>11 DEF Mount
    <2> QED
      BY <2>1, ConnectIsLive
  <1>12. CASE Leave
    BY <1>12, LeaveKeeps
  <1>13. CASE LoadMore
    BY <1>1, <1>13 DEF LoadMore
  <1> QED
    BY <1>2, <1>3, <1>4, <1>5, <1>6, <1>7, <1>8, <1>9, <1>10, <1>11, <1>12, <1>13 DEF Next

\* While a snapshot's page is open, a socket for it is up or on its way, or its
\* close event or a reconnection is still to come.
THEOREM PageIsLive == Spec => []ViewIsLive
  <1>1. Init => ServerTypeOK /\ SocketInv
    BY InitServerTypeOK, InitSocketInv
  <1>2. ServerTypeOK /\ SocketInv /\ [Next]_vars => (ServerTypeOK /\ SocketInv)'
    BY NextServerTypeOK, NextSocketInv
  <1>3. SocketInv => ViewIsLive
    BY DEF SocketInv
  <1> QED
    BY <1>1, <1>2, <1>3, PTL DEF Spec

-----------------------------------------------------------------------------
(* Pages of comments. *)

\* Places run from 1 to the number of ids, each with one id, and an older id
\* comes later.
LEMMA PlaceIsNumber ==
    ASSUME NEW S \in SUBSET Nat, IsFiniteSet(S), NEW i \in S
    PROVE  Place(i, S) \in 1 .. Cardinality(S)
  <1> DEFINE above == {j \in S : j >= i}
  <1>1. above \in SUBSET S /\ i \in above
    OBVIOUS
  <1>2. IsFiniteSet(above) /\ Cardinality(above) <= Cardinality(S)
    BY <1>1, FS_Subset
  <1>3. Cardinality(above) \in Nat /\ Cardinality(S) \in Nat
    BY <1>2, FS_CardinalityType
  <1>4. Cardinality(above) # 0
    BY <1>1, <1>2, FS_EmptySet
  <1>5. Place(i, S) = Cardinality(above)
    BY DEF Place
  <1> HIDE DEF above
  <1> QED
    BY <1>2, <1>3, <1>4, <1>5

LEMMA OlderIsLater ==
    ASSUME NEW S \in SUBSET Nat, IsFiniteSet(S), NEW i \in S, NEW j \in S, i < j
    PROVE  Place(i, S) > Place(j, S)
  <1> DEFINE A == {k \in S : k >= i}
             B == {k \in S : k >= j}
  <1>1. A \in SUBSET S /\ B \in SUBSET A
    <2>1. \A k \in S : k \in Nat /\ (k >= j => k >= i)
      OBVIOUS
    <2> QED
      BY <2>1
  <1>2. i \in A /\ i \notin B
    OBVIOUS
  <1>3. Place(i, S) = Cardinality(A) /\ Place(j, S) = Cardinality(B)
    BY DEF Place
  <1> HIDE DEF A, B
  <1>4. IsFiniteSet(A)
    BY <1>1, FS_Subset
  <1>5. IsFiniteSet(B) /\ Cardinality(B) <= Cardinality(A) /\ Cardinality(A) # Cardinality(B)
    BY <1>1, <1>2, <1>4, FS_Subset
  <1>6. Cardinality(A) \in Nat /\ Cardinality(B) \in Nat
    BY <1>4, <1>5, FS_CardinalityType
  <1> QED
    BY <1>3, <1>5, <1>6

LEMMA EveryPlaceIsTaken ==
    ASSUME NEW S \in SUBSET Nat, IsFiniteSet(S), NEW n \in 1 .. Cardinality(S)
    PROVE  \E i \in S : Place(i, S) = n
  <1> DEFINE f == [i \in S |-> Place(i, S)]
             T == 1 .. Cardinality(S)
  <1>1. Cardinality(S) \in Nat
    BY FS_CardinalityType
  <1>2. IsFiniteSet(T) /\ Cardinality(T) = Cardinality(S)
    BY <1>1, FS_Interval
  <1>3. f \in [S -> T]
    BY PlaceIsNumber
  <1>4. ASSUME NEW i \in S, NEW j \in S, f[i] = f[j] PROVE i = j
    <2>1. Place(i, S) = Place(j, S) /\ Place(i, S) \in Nat
      BY <1>1, <1>4, PlaceIsNumber
    <2>2. ~(i < j) /\ ~(j < i)
      BY <2>1, OlderIsLater
    <2> QED
      BY <2>2
  <1> HIDE DEF f
  <1>5. f \in Injection(S, T)
    BY <1>3, <1>4 DEF Injection, IsInjective
  <1> HIDE DEF T
  <1>6. f \in Surjection(S, T)
    BY <1>2, <1>5, FS_Injection
  <1>7. \E i \in S : f[i] = n
    BY <1>6 DEF Surjection, T
  <1> QED
    BY <1>7 DEF f

PagesTyped ==
    /\ reads \in [Slots -> Read]
    /\ offset \in Nat /\ view \in Nat
    /\ \A c \in comments : c.id \in 1 .. lastComment
    /\ \A s \in snaps : s \in 1 .. lastSnap

\* The list of a snapshot's comments holds them all, each in its place.
LEMMA ListedIs ==
    ASSUME ServerTypeOK, PagesTyped, NEW s \in Nat
    PROVE  /\ IsFiniteSet(IdsOf(s)) /\ IdsOf(s) \in SUBSET Nat
           /\ Cardinality(IdsOf(s)) \in Nat
           /\ Listed(s) \in Seq(Comment) /\ Len(Listed(s)) = Cardinality(IdsOf(s))
           /\ \A n \in 1 .. Cardinality(IdsOf(s)) :
                 /\ Listed(s)[n].id \in IdsOf(s) /\ Listed(s)[n].snap = s
                 /\ Listed(s)[n] = [id |-> Listed(s)[n].id, snap |-> s]
                 /\ Place(Listed(s)[n].id, IdsOf(s)) = n
  <1>1. lastComment \in Nat /\ IsFiniteSet(1 .. lastComment)
    BY FS_Interval DEF ServerTypeOK
  <1>2. IdsOf(s) \in SUBSET (1 .. lastComment)
    BY DEF IdsOf, PagesTyped
  <1>3. IsFiniteSet(IdsOf(s)) /\ IdsOf(s) \in SUBSET Nat
    BY <1>1, <1>2, FS_Subset
  <1>4. Cardinality(IdsOf(s)) \in Nat
    BY <1>3, FS_CardinalityType
  <1> DEFINE at(n) == CHOOSE i \in IdsOf(s) : Place(i, IdsOf(s)) = n
  <1>5. \A n \in 1 .. Cardinality(IdsOf(s)) :
           at(n) \in IdsOf(s) /\ Place(at(n), IdsOf(s)) = n
    BY <1>3, EveryPlaceIsTaken
  <1>6. Listed(s) = [n \in 1 .. Cardinality(IdsOf(s)) |-> [id |-> at(n), snap |-> s]]
    BY DEF Listed
  <1> HIDE DEF at
  <1>7. \A n \in 1 .. Cardinality(IdsOf(s)) : [id |-> at(n), snap |-> s] \in Comment
    BY <1>3, <1>5 DEF Comment
  <1>8. Listed(s) \in [1 .. Cardinality(IdsOf(s)) -> Comment]
    BY <1>6, <1>7
  <1>9. Listed(s) \in Seq(Comment) /\ Len(Listed(s)) = Cardinality(IdsOf(s))
    BY <1>4, <1>8, SeqDef
  <1>10. \A n \in 1 .. Cardinality(IdsOf(s)) :
            /\ Listed(s)[n] = [id |-> at(n), snap |-> s]
            /\ Listed(s)[n].id = at(n) /\ Listed(s)[n].snap = s
    BY <1>6
  <1> QED
    BY <1>3, <1>4, <1>5, <1>9, <1>10

LEMMA IdsAreFinite ==
    ServerTypeOK /\ PagesTyped =>
        \A s \in Nat : IsFiniteSet(IdsOf(s)) /\ Cardinality(IdsOf(s)) \in Nat
  BY ListedIs

\* No comment of s older than one of the rows is missing from them.
NoneOlder(rows, s) ==
    \A c \in comments :
        c.snap = s /\ (\E i \in DOMAIN rows : c.id < rows[i].id)
            => \E i \in DOMAIN rows : rows[i] = c

Complete(a) == NoneOlder(a.rows, a.snap)
Counted(rows) == \A i \in DOMAIN rows : rows[i].id <= lastComment

\* A page that was read is complete, unless its snapshot is gone since or
\* there is more of its comments.
ReadOK(a) ==
    /\ a.stage # "free" => a.snap \in 1 .. lastSnap
    /\ a.stage \in {"rows", "answered"} =>
          /\ Counted(a.rows)
          /\ \/ Complete(a)
             \/ a.snap \notin snaps
             \/ a.stage = "rows" /\ a.offset + Len(a.rows) < Cardinality(IdsOf(a.snap))
             \/ a.stage = "answered" /\ a.more

Asked == {reads[r] : r \in Slots}

PagesInv == PagesTyped /\ \A a \in Asked : ReadOK(a)

\* What a step of the server does to the rows.
ServerMoves ==
    /\ lastSnap' >= lastSnap /\ lastComment' >= lastComment
    /\ \A s \in snaps' : s \in snaps \/ (s > lastSnap /\ s \in 1 .. lastSnap')
    /\ \A c \in comments' : c \in comments \/ (c.id > lastComment /\ c.id \in 1 .. lastComment')
    /\ \A c \in comments : c \in comments' \/ c.snap \notin snaps'

LEMMA ServerStep == ASSUME ServerTypeOK, [Next]_vars PROVE ServerMoves
  <1>1. lastSnap \in Nat /\ lastComment \in Nat
    BY DEF ServerTypeOK
  <1>2. ASSUME UNCHANGED <<snaps, lastSnap, comments, lastComment>> PROVE ServerMoves
    BY <1>1, <1>2 DEF ServerMoves
  <1>3. CASE ServerNext
    <2>1. CASE CreateSnapshot
      BY <1>1, <2>1 DEF CreateSnapshot, InsertSnapshot, ServerMoves
    <2>2. ASSUME NEW gone, Delete(gone), UNCHANGED <<lastSnap, lastComment>> PROVE ServerMoves
      BY <1>1, <2>2 DEF Delete, ServerMoves
    <2>3. ASSUME NEW s \in snaps, DeleteSnapshot(s) PROVE ServerMoves
      BY <2>2, <2>3 DEF DeleteSnapshot
    <2>4. CASE RunRetention
      BY <2>2, <2>4 DEF RunRetention, PruneOld, PruneCap
    <2>5. ASSUME NEW p \in Posters, NEW s \in snaps, LookUp(p, s) PROVE ServerMoves
      BY <1>2, <2>5 DEF LookUp
    <2>6. ASSUME NEW p \in Posters, InsertComment(p) PROVE ServerMoves
      BY <1>1, <2>6 DEF InsertComment, InsertRow, ServerMoves
    <2>7. ASSUME NEW p \in Posters, Refuse(p) PROVE ServerMoves
      BY <1>2, <2>7 DEF Refuse
    <2> QED
      BY <1>3, <2>1, <2>3, <2>4, <2>5, <2>6, <2>7 DEF ServerNext
  <1>4. ASSUME NEW p \in Posters, Hear(p) PROVE ServerMoves
    BY <1>2, <1>4 DEF Hear, Announce
  <1>5. ASSUME UNCHANGED server PROVE ServerMoves
    BY <1>2, <1>5 DEF server
  <1>6. ASSUME NEW r \in Slots,
               ReadRows(r) \/ CountRows(r) \/ ReadFails(r) \/ OnComments(r)
        PROVE  ServerMoves
    BY <1>5, <1>6 DEF ReadRows, CountRows, ReadFails, OnComments
  <1>7. ASSUME NEW k \in DOMAIN sockets,
               Accept(k) \/ Lose(k) \/ OnMessage(k) \/ OnClose(k)
        PROVE  ServerMoves
    BY <1>5, <1>7 DEF Accept, Lose, OnMessage, OnClose
  <1>8. ASSUME \/ \E q \in asked : OnSnapshot(q)
               \/ \E t \in timers : Retry(t)
               \/ \E s \in 1 .. Made : Mount(s)
               \/ Leave \/ LoadMore \/ UNCHANGED vars
        PROVE  ServerMoves
    BY <1>5, <1>8 DEF OnSnapshot, Retry, Mount, Leave, LoadMore, vars
  <1> QED
    BY <1>3, <1>4, <1>6, <1>7, <1>8 DEF Next, ServerAlone

\* A page stays as complete as it is, whatever the server does.
LEMMA ReadStays ==
    ASSUME ServerTypeOK, ServerTypeOK', PagesTyped, PagesTyped', NoOrphans, ServerMoves,
           NEW a \in Read, ReadOK(a)
    PROVE  ReadOK(a)'
  <1>1. /\ lastSnap \in Nat /\ lastSnap' \in Nat /\ lastComment \in Nat /\ lastComment' \in Nat
        /\ a.snap \in Nat /\ a.offset \in Nat /\ a.rows \in Seq(Comment)
    BY DEF ServerTypeOK, Read
  <1>2. Len(a.rows) \in Nat /\ \A i \in DOMAIN a.rows : a.rows[i].id \in Nat
    <2>1. \A i \in DOMAIN a.rows : a.rows[i] \in Comment
      BY <1>1, LenProperties, ElementOfSeq
    <2> QED
      BY <1>1, <2>1, LenProperties DEF Comment
  <1>3. a.stage # "free" => a.snap \in 1 .. lastSnap'
    BY <1>1 DEF ReadOK, ServerMoves
  <1>4. ASSUME a.stage \in {"rows", "answered"} PROVE Counted(a.rows)'
    <2>1. lastComment' >= lastComment /\ \A i \in DOMAIN a.rows : a.rows[i].id <= lastComment
      BY <1>4 DEF ReadOK, ServerMoves, Counted
    <2> QED
      <3>1. \A i \in DOMAIN a.rows : a.rows[i].id <= lastComment'
        BY <1>1, <1>2, <2>1
      <3> QED
        BY <3>1 DEF Counted
  <1>5. ASSUME a.stage \in {"rows", "answered"}, Complete(a) PROVE Complete(a)'
    <2>1. ASSUME NEW c \in comments', c \notin comments
          PROVE  \A i \in DOMAIN a.rows : ~(c.id < a.rows[i].id)
      <3>1. c.id > lastComment /\ c.id \in Nat
        BY <1>1, <2>1 DEF ServerMoves
      <3>2. \A i \in DOMAIN a.rows : a.rows[i].id <= lastComment
        BY <1>5 DEF ReadOK, Counted
      <3> QED
        BY <1>1, <1>2, <3>1, <3>2
    <2> QED
      BY <1>5, <2>1 DEF Complete, NoneOlder
  <1>6. ASSUME a.stage \in {"rows", "answered"}, a.snap \notin snaps PROVE a.snap \notin snaps'
    BY <1>1, <1>6 DEF ServerMoves, ReadOK
  <1>7. \A s \in Nat : IsFiniteSet(IdsOf(s)') /\ Cardinality(IdsOf(s)') \in Nat
    <2>1. (ServerTypeOK /\ PagesTyped =>
             \A s \in Nat : IsFiniteSet(IdsOf(s)) /\ Cardinality(IdsOf(s)) \in Nat)'
      BY IdsAreFinite, PTL
    <2> QED
      BY <2>1
  <1>8. ASSUME a.snap \in snaps'
        PROVE  Cardinality(IdsOf(a.snap)) <= Cardinality(IdsOf(a.snap)')
    <2>1. IdsOf(a.snap) \in SUBSET (IdsOf(a.snap)')
      BY <1>8 DEF IdsOf, ServerMoves
    <2>2. IsFiniteSet(IdsOf(a.snap)')
      BY <1>1, <1>7
    <2> QED
      BY <2>1, <2>2, FS_Subset
  <1>9. Cardinality(IdsOf(a.snap)) \in Nat /\ Cardinality(IdsOf(a.snap)') \in Nat
    BY <1>1, <1>7, ListedIs
  <1>10. ASSUME a.stage = "rows", a.offset + Len(a.rows) < Cardinality(IdsOf(a.snap)), a.snap \in snaps'
        PROVE  a.offset + Len(a.rows) < Cardinality(IdsOf(a.snap)')
    BY <1>1, <1>2, <1>8, <1>9, <1>10
  <1> QED
    BY <1>3, <1>4, <1>5, <1>6, <1>10 DEF ReadOK

\* A run of the list of a snapshot's comments lacks none older than its own
\* when it ends where the list ends.
LEMMA RunIsComplete ==
    ASSUME ServerTypeOK, PagesTyped, NEW s \in Nat, NEW from \in Nat \ {0}, NEW to \in Int,
           to <= Cardinality(IdsOf(s)), NEW run, run = SubSeq(Listed(s), from, to)
    PROVE  /\ Counted(run)
           /\ (from <= to => to = Cardinality(IdsOf(s))) => NoneOlder(run, s)
  <1> DEFINE all == Listed(s)
             ids == IdsOf(s)
             n == Cardinality(ids)
  <1>1. /\ IsFiniteSet(ids) /\ ids \in SUBSET Nat /\ n \in Nat
        /\ all \in Seq(Comment) /\ Len(all) = n
        /\ \A m \in 1 .. n : /\ all[m].id \in ids /\ all[m].snap = s
                             /\ all[m] = [id |-> all[m].id, snap |-> s]
                             /\ Place(all[m].id, ids) = m
    BY ListedIs
  <1>2. /\ \A i \in DOMAIN run : /\ i \in Nat \ {0}
                                 /\ from <= to /\ from + i - 1 \in 1 .. Len(all)
                                 /\ run[i] = all[from + i - 1]
        /\ \A q \in from .. to : /\ q - from + 1 \in DOMAIN run
                                 /\ run[q - from + 1] = all[q]
    <2>1. run = SubSeq(all, from, to) /\ to <= Len(all)
      BY <1>1
    <2> HIDE DEF all, n
    <2> QED
      BY <1>1, <2>1, RunOfList
  <1>3. to <= n
    OBVIOUS
  <1>4. \A i \in ids : i <= lastComment
    BY DEF ServerTypeOK, PagesTyped, IdsOf
  <1>5. \A c \in comments : c.snap = s => c.id \in ids /\ c = [id |-> c.id, snap |-> s]
    BY DEF ServerTypeOK, Comment, IdsOf
  <1>6. \A i \in ids : Place(i, ids) \in 1 .. n
    BY <1>1, PlaceIsNumber
  <1>7. \A i, j \in ids : i < j => Place(i, ids) > Place(j, ids)
    BY <1>1, OlderIsLater
  <1> HIDE DEF all, ids, n
  <1>8. \A i \in DOMAIN run : run[i].id \in ids /\ Place(run[i].id, ids) = from + i - 1
    BY <1>1, <1>2
  <1>9. ASSUME NEW i \in DOMAIN run PROVE run[i].id <= lastComment
    BY <1>4, <1>8
  <1>10. ASSUME from <= to => to = n,
                NEW c \in comments, c.snap = s, NEW i \in DOMAIN run, c.id < run[i].id
         PROVE  \E j \in DOMAIN run : run[j] = c
    <2> DEFINE q == Place(c.id, ids)
    <2>1. c.id \in ids /\ c = [id |-> c.id, snap |-> s]
      BY <1>5, <1>10
    <2>2. q \in 1 .. n
      BY <1>6, <2>1
    <2>3. q > from + i - 1
      BY <1>7, <1>8, <1>10, <2>1
    <2>4. from + i - 1 \in 1 .. n /\ from <= to
      BY <1>1, <1>2
    <2> HIDE DEF q
    <2>5. i \in Nat /\ i >= 1
      BY <1>2
    <2>6. q \in from .. to
      BY <1>1, <1>10, <2>2, <2>3, <2>4, <2>5
    <2>7. q - from + 1 \in DOMAIN run /\ run[q - from + 1] = all[q]
      BY <1>2, <2>6
    <2>8. all[q].id \in ids /\ Place(all[q].id, ids) = q /\ all[q] = [id |-> all[q].id, snap |-> s]
      BY <1>1, <2>2
    <2>9. all[q].id = c.id
      <3>1. ~(all[q].id < c.id) /\ ~(c.id < all[q].id)
        BY <1>7, <2>1, <2>2, <2>8 DEF q
      <3>2. all[q].id \in Nat /\ c.id \in Nat
        BY <1>1, <2>1, <2>8
      <3> QED
        BY <3>1, <3>2
    <2>10. all[q] = c
      BY <2>1, <2>8, <2>9
    <2> QED
      BY <2>7, <2>10
  <1> QED
    BY <1>9, <1>10 DEF n, ids, Counted, NoneOlder

\* A page that ends the list, or is full, is as it should be.
LEMMA PageOK ==
    ASSUME ServerTypeOK, PagesTyped, NEW s \in 1 .. lastSnap,
           NEW from \in Nat \ {0}, NEW to \in Int, to <= Cardinality(IdsOf(s)),
           to = Cardinality(IdsOf(s)) \/ to = from + PageSize - 1,
           NEW rows, rows = SubSeq(Listed(s), from, to),
           NEW b \in Read, b.snap = s, b.stage = "rows", b.offset + 1 = from, b.rows = rows
    PROVE  ReadOK(b)
  <1> DEFINE n == Cardinality(IdsOf(s))
  <1>1. s \in Nat /\ n \in Nat /\ Listed(s) \in Seq(Comment) /\ Len(Listed(s)) = n
    <2>1. s \in Nat
      OBVIOUS
    <2> QED
      BY <2>1, ListedIs
  <1>2. Counted(rows) /\ ((from <= to => to = n) => NoneOlder(rows, s))
    BY <1>1, RunIsComplete
  <1>3. Len(rows) = IF from <= to THEN to - from + 1 ELSE 0
    BY <1>1, RunOfList
  <1>4. CASE from <= to => to = n
    <2>1. Complete(b)
      BY <1>2, <1>4 DEF Complete
    <2> QED
      BY <1>2, <2>1 DEF ReadOK
  <1>5. CASE from <= to /\ to # n
    <2>1. to < n /\ Len(b.rows) = to - from + 1
      BY <1>1, <1>3, <1>5
    <2>2. b.offset \in Nat /\ from = b.offset + 1
      BY DEF Read
    <2> DEFINE l == Len(b.rows)
               o == b.offset
    <2>3. l = to - from + 1 /\ o \in Nat /\ from = o + 1
      BY <2>1, <2>2
    <2> HIDE DEF l, o
    <2>5. o + l = to
      BY <2>3
    <2>4. b.offset + Len(b.rows) < Cardinality(IdsOf(b.snap))
      BY <2>1, <2>5 DEF l, o
    <2> QED
      BY <1>2, <2>4 DEF ReadOK
  <1> QED
    BY <1>4, <1>5

\* A request, once ReadRows has read its rows.
Filled(a) ==
    LET from == a.offset + 1
        all == Listed(a.snap)
        to == IF Len(all) < from + PageSize - 1 THEN Len(all) ELSE from + PageSize - 1
    IN  [a EXCEPT !.stage = "rows", !.rows = SubSeq(all, from, to)]

\* The rows a request reads are a run of the list.
LEMMA RowsRead ==
    ASSUME ServerTypeOK, PagesTyped, NEW a \in Read, a.snap \in 1 .. lastSnap
    PROVE  Filled(a) \in Read /\ ReadOK(Filled(a))
  <1> DEFINE s == a.snap
             n == Cardinality(IdsOf(s))
             from == a.offset + 1
             to == IF Len(Listed(s)) < from + PageSize - 1 THEN Len(Listed(s))
                   ELSE from + PageSize - 1
             rows == SubSeq(Listed(s), from, to)
             b == Filled(a)
  <1>1. a.offset \in Nat /\ s \in Nat /\ from \in Nat \ {0}
    BY DEF Read
  <1>2. n \in Nat /\ Listed(s) \in Seq(Comment) /\ Len(Listed(s)) = n
    BY <1>1, ListedIs
  <1>3. /\ to \in Int /\ to <= n
        /\ to = n \/ to = from + PageSize - 1
    <2>1. to = IF n < from + PageSize - 1 THEN n ELSE from + PageSize - 1
      BY <1>2
    <2>2. from + PageSize - 1 \in Int
      BY <1>1, SnapshotViewerAssumption
    <2> HIDE DEF n
    <2> QED
      BY <1>2, <2>1, <2>2
  <1>4. s \in 1 .. lastSnap /\ rows = SubSeq(Listed(s), from, to) /\ from = a.offset + 1
    OBVIOUS
  <1>5. b = [a EXCEPT !.stage = "rows", !.rows = rows]
    BY DEF Filled
  <1> HIDE DEF n, b, rows, to, from
  <1>6. rows \in Seq(Comment)
    BY <1>1, <1>2, <1>3, <1>4, RunOfList
  <1>7. /\ b.snap = s /\ b.stage = "rows" /\ b.offset + 1 = from /\ b.rows = rows
        /\ b \in Read
    BY <1>5, <1>6, <1>4 DEF Read
  <1> HIDE DEF s
  <1>8. to \in Int /\ to <= Cardinality(IdsOf(s)) /\ (to = Cardinality(IdsOf(s)) \/ to = from + PageSize - 1)
    BY <1>3 DEF n
  <1>9. ReadOK(b)
    BY <1>1, <1>7, <1>4, <1>8, PageOK
  <1> QED
    BY <1>7, <1>9 DEF b

\* A request starts.
LEMMA RequestAsks ==
    ASSUME ServerTypeOK, PagesInv, NEW kind \in {"load", "more"}, NEW s \in Nat, NEW from \in Nat,
           Request(kind, s, from)
    PROVE  /\ reads' \in [Slots -> Read]
           /\ \A a \in Asked' : a \in Asked \/ (ReadOK(a) /\ a.stage = "found")
  <1>1. CASE ~GetSnapshot(s)
    BY <1>1 DEF Request, PagesInv, PagesTyped, Asked
  <1>2. CASE GetSnapshot(s)
    <2>1. PICK r \in Slots : reads' = [reads EXCEPT ![r] =
              [NoRead EXCEPT !.stage = "found", !.kind = kind, !.snap = s, !.offset = from]]
      BY <1>2 DEF Request, Free
    <2> DEFINE b == [NoRead EXCEPT !.stage = "found", !.kind = kind, !.snap = s, !.offset = from]
    <2>2. b.stage = "found" /\ b.snap = s
      BY DEF NoRead
    <2>3. b \in Read
      BY EmptySeq DEF NoRead, Read
    <2>4. ReadOK(b)
      BY <1>2, <2>2 DEF ReadOK, GetSnapshot, PagesInv, PagesTyped
    <2> HIDE DEF b
    <2> QED
      BY <2>1, <2>2, <2>3, <2>4 DEF PagesInv, PagesTyped, Asked, b
  <1> QED
    BY <1>1, <1>2

LEMMA InitPagesInv == Init => PagesInv
  <1> SUFFICES ASSUME Init PROVE PagesInv
    OBVIOUS
  <1>1. NoRead \in Read
    BY EmptySeq DEF NoRead, Read
  <1>2. reads = [r \in Slots |-> NoRead]
    BY DEF Init
  <1>3. \A c \in comments : c.id \in 1 .. lastComment
    BY DEF Init, ServerInit
  <1>4. \A s \in snaps : s \in 1 .. lastSnap
    BY DEF Init, ServerInit
  <1>5. PagesTyped
    BY <1>1, <1>2, <1>3, <1>4 DEF Init, PagesTyped
  <1>6. ReadOK(NoRead)
    BY DEF ReadOK, NoRead
  <1> QED
    BY <1>2, <1>5, <1>6 DEF PagesInv, Asked

\* Every request is as it was, or is as it should be.
LEMMA NextReads ==
    ASSUME ServerTypeOK, PagesInv, [Next]_vars
    PROVE  /\ reads' \in [Slots -> Read]
           /\ \A a \in Asked' : \/ a \in Asked
                                \/ a = NoRead
                                \/ UNCHANGED server /\ a \in Read /\ ReadOK(a)
  <1> USE DEF PagesInv, PagesTyped
  <1>1. ASSUME UNCHANGED reads
        PROVE  /\ reads' \in [Slots -> Read]
               /\ \A a \in Asked' : a \in Asked
    BY <1>1 DEF Asked
  <1>2. ASSUME NEW r \in Slots, NEW b \in Read, reads' = [reads EXCEPT ![r] = b]
        PROVE  /\ reads' \in [Slots -> Read]
               /\ \A a \in Asked' : a \in Asked \/ a = b
    BY <1>2 DEF Asked
  <1>3. NoRead \in Read
    BY EmptySeq DEF NoRead, Read
  <1>4. ASSUME NEW r \in Slots, ReadFails(r) \/ OnComments(r)
        PROVE  /\ reads' \in [Slots -> Read]
               /\ \A a \in Asked' : a \in Asked \/ a = NoRead
    BY <1>2, <1>3, <1>4 DEF ReadFails, OnComments
  <1>5. ASSUME NEW r \in Slots, ReadRows(r)
        PROVE  /\ reads' \in [Slots -> Read]
               /\ \A a \in Asked' : a \in Asked \/ (UNCHANGED server /\ a \in Read /\ ReadOK(a))
    <2>1. reads[r] \in Read /\ reads[r] \in Asked /\ reads[r].stage = "found"
      BY <1>5 DEF ReadRows, Asked
    <2>2. reads[r].snap \in 1 .. lastSnap
      BY <2>1 DEF ReadOK
    <2>3. ServerTypeOK /\ PagesTyped
      OBVIOUS
    <2>4. Filled(reads[r]) \in Read /\ ReadOK(Filled(reads[r]))
      <3> HIDE DEF PagesInv, PagesTyped
      <3> QED
        BY <2>1, <2>2, <2>3, RowsRead
    <2>5. reads' = [reads EXCEPT ![r] = Filled(reads[r])] /\ UNCHANGED server
      BY <1>5 DEF ReadRows, Filled
    <2> QED
      BY <1>2, <2>4, <2>5
  <1>6. ASSUME NEW r \in Slots, CountRows(r)
        PROVE  /\ reads' \in [Slots -> Read]
               /\ \A a \in Asked' : a \in Asked \/ (UNCHANGED server /\ a \in Read /\ ReadOK(a))
    <2> DEFINE a == reads[r]
               left == a.offset + Len(a.rows) < Len(Listed(a.snap))
               b == [a EXCEPT !.stage = "answered", !.more = left]
    <2>1. a \in Read /\ a \in Asked /\ a.stage = "rows"
      BY <1>6 DEF CountRows, Asked
    <2>2. a.snap \in Nat
      BY <2>1 DEF Read
    <2>3. left = (a.offset + Len(a.rows) < Cardinality(IdsOf(a.snap)))
      BY <2>2, ListedIs
    <2>4. reads' = [reads EXCEPT ![r] = b] /\ UNCHANGED server
      BY <1>6 DEF CountRows
    <2>5. left \in BOOLEAN
      BY <2>3
    <2> HIDE DEF left
    <2>6. b \in Read /\ b.stage = "answered" /\ b.more = left /\ b.snap = a.snap /\ b.rows = a.rows
      BY <2>1, <2>5 DEF Read
    <2>7. ReadOK(b)
      BY <2>1, <2>3, <2>6 DEF ReadOK, Complete
    <2> HIDE DEF b
    <2> QED
      BY <1>2, <2>4, <2>6, <2>7
  <1>7. ASSUME NEW kind \in {"load", "more"}, NEW s \in Nat, NEW from \in Nat, Request(kind, s, from), UNCHANGED server
        PROVE  /\ reads' \in [Slots -> Read]
               /\ \A a \in Asked' : a \in Asked \/ (UNCHANGED server /\ a \in Read /\ ReadOK(a))
    <2>1. \A a \in Asked' : a \in Asked \/ ReadOK(a)
      BY <1>7, RequestAsks
    <2>2. reads' \in [Slots -> Read]
      BY <1>7, RequestAsks
    <2>3. \A a \in Asked' : a \in Read
      BY <2>2 DEF Asked
    <2> QED
      BY <1>7, <2>1, <2>2, <2>3
  <1>8. ASSUME NEW s \in 1 .. Made, Mount(s)
        PROVE  /\ reads' \in [Slots -> Read]
               /\ \A a \in Asked' : a \in Asked \/ (UNCHANGED server /\ a \in Read /\ ReadOK(a))
    BY <1>7, <1>8 DEF Mount
  <1>9. ASSUME NEW q \in asked, OnSnapshot(q)
        PROVE  /\ reads' \in [Slots -> Read]
               /\ \A a \in Asked' : a \in Asked \/ (UNCHANGED server /\ a \in Read /\ ReadOK(a))
    BY <1>1, <1>7, <1>9 DEF OnSnapshot
  <1>10. ASSUME LoadMore
        PROVE  /\ reads' \in [Slots -> Read]
               /\ \A a \in Asked' : a \in Asked \/ (UNCHANGED server /\ a \in Read /\ ReadOK(a))
    BY <1>7, <1>10 DEF LoadMore
  <1>11. ASSUME \/ ServerAlone
                \/ \E p \in Posters : Hear(p)
                \/ \E k \in DOMAIN sockets : Accept(k) \/ Lose(k) \/ OnMessage(k) \/ OnClose(k)
                \/ \E t \in timers : Retry(t)
                \/ Leave
                \/ UNCHANGED vars
         PROVE  UNCHANGED reads
    <2>1. ASSUME NEW k \in DOMAIN sockets, Accept(k) \/ Lose(k) \/ OnMessage(k) \/ OnClose(k)
          PROVE  UNCHANGED reads
      BY <2>1 DEF Accept, Lose, OnMessage, OnClose, http
    <2>2. ASSUME ServerAlone \/ (\E p \in Posters : Hear(p))
          PROVE  UNCHANGED reads
      BY <2>2 DEF ServerAlone, Hear, http
    <2>3. ASSUME (\E t \in timers : Retry(t)) \/ Leave \/ UNCHANGED vars
          PROVE  UNCHANGED reads
      BY <2>3 DEF Retry, Leave, vars, http
    <2> QED
      BY <1>11, <2>1, <2>2, <2>3
  <1> QED
    BY <1>1, <1>4, <1>5, <1>6, <1>8, <1>9, <1>10, <1>11 DEF Next

LEMMA NextPagesTyped ==
    ASSUME ServerTypeOK, PagesInv, [Next]_vars
    PROVE  PagesTyped'
  <1>1. reads' \in [Slots -> Read]
    BY NextReads
  <1>2. ServerMoves
    BY ServerStep
  <1>3. lastSnap \in Nat /\ lastComment \in Nat
    BY DEF ServerTypeOK
  <1>4. ServerTypeOK'
    BY NextServerTypeOK
  <1>5. \A s \in snaps' : s \in 1 .. lastSnap'
    <2> SUFFICES ASSUME NEW s \in snaps' PROVE s \in 1 .. lastSnap'
      OBVIOUS
    <2>1. lastSnap' >= lastSnap /\ lastSnap' \in Int
      BY <1>2, <1>3, <1>4 DEF ServerMoves, ServerTypeOK
    <2>2. CASE s \in snaps
      BY <1>3, <2>1, <2>2 DEF PagesInv, PagesTyped
    <2> QED
      BY <1>2, <2>2 DEF ServerMoves
  <1>6. \A c \in comments' : c.id \in 1 .. lastComment'
    <2> SUFFICES ASSUME NEW c \in comments' PROVE c.id \in 1 .. lastComment'
      OBVIOUS
    <2>1. lastComment' >= lastComment /\ lastComment' \in Int
      BY <1>2, <1>3, <1>4 DEF ServerMoves, ServerTypeOK
    <2>2. CASE c \in comments
      BY <1>3, <2>1, <2>2 DEF PagesInv, PagesTyped
    <2> QED
      BY <1>2, <2>2 DEF ServerMoves
  <1>7. offset' \in Nat /\ view' \in Nat
    <2>1. offset \in Nat /\ view \in Nat /\ reads \in [Slots -> Read]
      BY DEF PagesInv, PagesTyped
    <2>2. ASSUME NEW r \in Slots, OnComments(r) PROVE offset' \in Nat /\ view' \in Nat
      <3>1. Len(reads[r].rows) \in Nat
        BY <2>1, LenProperties DEF Read
      <3> QED
        <4>1. CASE view = 0
          BY <2>1, <2>2, <4>1 DEF OnComments
        <4>2. CASE view # 0
          <5>1. view' = view
            BY <2>2 DEF OnComments
          <5>2. offset' = (IF reads[r].kind = "load" THEN 0 ELSE offset) + Len(reads[r].rows)
            BY <2>2, <4>2 DEF OnComments
          <5> DEFINE from == IF reads[r].kind = "load" THEN 0 ELSE offset
                     n == Len(reads[r].rows)
          <5>3. from \in Nat
            BY <2>1
          <5> HIDE DEF from, n
          <5>4. from + n \in Nat
            BY <3>1, <5>3 DEF n
          <5> QED
            BY <2>1, <5>1, <5>2, <5>4 DEF from, n
        <4> QED
          BY <4>1, <4>2
    <2>3. ASSUME NEW s \in 1 .. Made, Mount(s) PROVE offset' \in Nat /\ view' \in Nat
      BY <2>1, <2>3 DEF Mount
    <2>4. ASSUME NEW k \in DOMAIN sockets, Accept(k) \/ Lose(k) \/ OnMessage(k) \/ OnClose(k)
          PROVE  UNCHANGED <<offset, view>>
      BY <2>4 DEF Accept, Lose, OnMessage, OnClose, page
    <2>5. ASSUME NEW r \in Slots, ReadRows(r) \/ CountRows(r) \/ ReadFails(r)
          PROVE  UNCHANGED <<offset, view>>
      BY <2>5 DEF ReadRows, CountRows, ReadFails, page
    <2>6. ASSUME \/ ServerAlone
                 \/ \E p \in Posters : Hear(p)
                 \/ \E q \in asked : OnSnapshot(q)
                 \/ \E t \in timers : Retry(t)
                 \/ LoadMore
                 \/ UNCHANGED vars
          PROVE  UNCHANGED <<offset, view>>
      BY <2>6 DEF ServerAlone, Hear, OnSnapshot, Retry, LoadMore, vars, page
    <2>7. CASE Leave
      BY <2>7 DEF Leave
    <2> QED
      BY <2>1, <2>2, <2>3, <2>4, <2>5, <2>6, <2>7 DEF Next
  <1> QED
    BY <1>1, <1>5, <1>6, <1>7 DEF PagesTyped

LEMMA NextPagesInv ==
    ASSUME ServerTypeOK, ServerTypeOK', NoOrphans, PagesInv, [Next]_vars
    PROVE  PagesInv'
  <1>1. PagesTyped /\ PagesTyped' /\ ServerMoves
    BY NextPagesTyped, ServerStep DEF PagesInv
  <1>2. ASSUME NEW a \in Read, ReadOK(a) PROVE ReadOK(a)'
    BY <1>1, <1>2, ReadStays
  <1>3. ASSUME NEW a \in Asked' PROVE ReadOK(a)'
    <2>1. CASE a \in Asked
      <3>1. a \in Read /\ ReadOK(a)
        BY <2>1 DEF PagesInv, PagesTyped, Asked
      <3> QED
        BY <1>2, <3>1
    <2>2. CASE a = NoRead
      BY <2>2 DEF ReadOK, NoRead
    <2>3. CASE a \in Read /\ ReadOK(a)
      BY <1>2, <2>3
    <2> QED
      BY <1>3, <2>1, <2>2, <2>3, NextReads
  <1> QED
    BY <1>1, <1>3 DEF PagesInv

LEMMA PagesInvLast == NoOrphans /\ PagesInv => LastPageIsLast
  <1> SUFFICES ASSUME NoOrphans, PagesInv, NEW r \in Slots,
                      reads[r].stage = "answered", ~reads[r].more
               PROVE  NoneOlder(reads[r].rows, reads[r].snap)
    BY DEF LastPageIsLast, NoneOlder
  <1>1. ReadOK(reads[r])
    BY DEF PagesInv, Asked
  <1>2. CASE Complete(reads[r])
    BY <1>2 DEF Complete
  <1>3. CASE reads[r].snap \notin snaps
    BY <1>3 DEF NoOrphans, NoneOlder
  <1> QED
    BY <1>1, <1>2, <1>3 DEF ReadOK

\* A page of comments answered without has_more is the last one: the page and
\* the count are two statements, between which comments are stored and
\* snapshots are deleted.
THEOREM PagesMissNone == Spec => []LastPageIsLast
  <1> DEFINE Inv == ServerTypeOK /\ NoOrphans /\ PagesInv
  <1>1. Init => Inv
    BY InitServerTypeOK, InitNoOrphans, InitPagesInv
  <1>2. Inv /\ [Next]_vars => Inv'
    BY NextServerTypeOK, NextNoOrphans, NextPagesInv
  <1>3. Inv => LastPageIsLast
    BY PagesInvLast
  <1> QED
    BY <1>1, <1>2, <1>3, PTL DEF Spec

-----------------------------------------------------------------------------
(* What a settled page has on the screen or on its way to it. *)

Among(c, seq) == \E i \in DOMAIN seq : seq[i] = c

LEMMA AmongAppend ==
    ASSUME NEW seq \in Seq(Comment), NEW d \in Comment
    PROVE  /\ Among(d, Append(seq, d))
           /\ \A c : Among(c, seq) => Among(c, Append(seq, d))
  <1>1. Len(seq) \in Nat /\ DOMAIN seq = 1 .. Len(seq)
    BY LenProperties
  <1>2. /\ DOMAIN Append(seq, d) = 1 .. Len(seq) + 1
        /\ \A i \in 1 .. Len(seq) : Append(seq, d)[i] = seq[i]
        /\ Append(seq, d)[Len(seq) + 1] = d
    BY <1>1, AppendProperties, LenProperties
  <1>3. Len(seq) + 1 \in 1 .. Len(seq) + 1 /\ \A i \in 1 .. Len(seq) : i \in 1 .. Len(seq) + 1
    BY <1>1
  <1> QED
    BY <1>1, <1>2, <1>3 DEF Among

LEMMA AmongTail ==
    ASSUME NEW seq \in Seq(Comment), seq # <<>>, NEW c, Among(c, seq)
    PROVE  c = Head(seq) \/ Among(c, Tail(seq))
  <1>1. Len(seq) \in Nat /\ DOMAIN seq = 1 .. Len(seq) /\ Head(seq) = seq[1]
    BY LenProperties, HeadTailProperties
  <1>2. /\ Tail(seq) \in Seq(Comment) /\ Len(Tail(seq)) = Len(seq) - 1
        /\ \A i \in 1 .. Len(Tail(seq)) : Tail(seq)[i] = seq[i + 1]
    BY HeadTailProperties
  <1>3. DOMAIN Tail(seq) = 1 .. Len(seq) - 1
    BY <1>2, LenProperties
  <1>4. PICK i \in 1 .. Len(seq) : seq[i] = c
    BY <1>1 DEF Among
  <1>5. CASE i = 1
    BY <1>1, <1>4, <1>5
  <1>6. CASE i # 1
    <2>1. i - 1 \in 1 .. Len(seq) - 1 /\ (i - 1) + 1 = i
      BY <1>1, <1>6
    <2>2. Tail(seq)[i - 1] = c
      BY <1>2, <1>4, <2>1
    <2> QED
      BY <1>3, <2>1, <2>2 DEF Among
  <1> QED
    BY <1>5, <1>6

LEMMA AmongCons ==
    ASSUME NEW seq \in Seq(Comment), NEW d \in Comment
    PROVE  /\ <<d>> \o seq \in Seq(Comment)
           /\ Among(d, <<d>> \o seq)
           /\ \A c : Among(c, seq) => Among(c, <<d>> \o seq)
  <1> DEFINE one == <<d>>
  <1>1. one \in Seq(Comment) /\ Len(one) = 1 /\ one[1] = d
    OBVIOUS
  <1> HIDE DEF one
  <1>2. /\ one \o seq \in Seq(Comment)
        /\ Len(one \o seq) = Len(one) + Len(seq)
        /\ \A i \in 1 .. Len(one) + Len(seq) :
              (one \o seq)[i] = IF i <= Len(one) THEN one[i] ELSE seq[i - Len(one)]
    BY <1>1, ConcatProperties
  <1>3. Len(seq) \in Nat /\ DOMAIN seq = 1 .. Len(seq) /\ DOMAIN (one \o seq) = 1 .. 1 + Len(seq)
    BY <1>1, <1>2, LenProperties
  <1>4. (one \o seq)[1] = d /\ 1 \in DOMAIN (one \o seq)
    BY <1>1, <1>2, <1>3
  <1>5. ASSUME NEW i \in DOMAIN seq
        PROVE  i + 1 \in DOMAIN (one \o seq) /\ (one \o seq)[i + 1] = seq[i]
    <2>1. i + 1 \in 1 .. 1 + Len(seq) /\ ~(i + 1 <= 1) /\ (i + 1) - 1 = i
      BY <1>3
    <2> QED
      BY <1>1, <1>2, <1>3, <2>1
  <1>6. Among(d, one \o seq) /\ \A c : Among(c, seq) => Among(c, one \o seq)
    BY <1>4, <1>5 DEF Among
  <1> QED
    BY <1>2, <1>6 DEF one

ShownOK == shown \in Seq(Comment)

LEMMA NextShownOK ==
    ASSUME ShownOK, SocketInv, PagesTyped, [Next]_vars
    PROVE  ShownOK'
  <1>1. shown \in Seq(Comment) /\ sockets \in Seq(Socket) /\ reads \in [Slots -> Read]
    BY DEF ShownOK, SocketInv, SocketsOK, PagesTyped
  <1>2. CASE Leave
    BY <1>2, EmptySeq DEF Leave, ShownOK
  <1>3. ASSUME NEW r \in Slots, OnComments(r) PROVE ShownOK'
    <2>1. reads[r].rows \in Seq(Comment)
      BY <1>1 DEF Read
    <2>2. CASE view = 0
      BY <1>1, <1>3, <2>2 DEF OnComments, ShownOK
    <2>3. CASE view # 0
      <3> DEFINE kept == IF reads[r].kind = "load" THEN <<>> ELSE shown
      <3>1. kept \in Seq(Comment)
        BY <1>1, EmptySeq
      <3>2. shown' = kept \o reads[r].rows
        BY <1>3, <2>3 DEF OnComments
      <3> HIDE DEF kept
      <3> QED
        BY <2>1, <3>1, <3>2, ConcatProperties DEF ShownOK
    <2> QED
      BY <2>2, <2>3
  <1>4. ASSUME NEW k \in DOMAIN sockets, OnMessage(k) PROVE ShownOK'
    <2>1. sockets[k].inbox \in Seq(Comment) /\ sockets[k].inbox # <<>>
      BY <1>4, SocketElement DEF OnMessage
    <2> DEFINE d == Head(sockets[k].inbox)
    <2>2. d \in Comment
      BY <2>1, HeadTailProperties
    <2>3. shown' = shown \/ shown' = <<d>> \o shown
      BY <1>4 DEF OnMessage
    <2> HIDE DEF d
    <2> QED
      BY <1>1, <2>2, <2>3, AmongCons DEF ShownOK
  <1>5. ASSUME NEW k \in DOMAIN sockets, Accept(k) \/ Lose(k) \/ OnClose(k) PROVE UNCHANGED shown
    BY <1>5 DEF Accept, Lose, OnClose, page
  <1>6. ASSUME NEW r \in Slots, ReadRows(r) \/ CountRows(r) \/ ReadFails(r) PROVE UNCHANGED shown
    BY <1>6 DEF ReadRows, CountRows, ReadFails, page
  <1>7. ASSUME \/ ServerAlone
               \/ \E p \in Posters : Hear(p)
               \/ \E q \in asked : OnSnapshot(q)
        PROVE  UNCHANGED shown
    BY <1>7 DEF ServerAlone, Hear, OnSnapshot, page
  <1>8. ASSUME \/ \E t \in timers : Retry(t)
               \/ \E s \in 1 .. Made : Mount(s)
               \/ LoadMore
               \/ UNCHANGED vars
        PROVE  UNCHANGED shown
    BY <1>8 DEF Retry, Mount, LoadMore, vars, page
  <1>9. ASSUME UNCHANGED shown PROVE ShownOK'
    BY <1>9 DEF ShownOK
  <1> QED
    BY <1>2, <1>3, <1>4, <1>5, <1>6, <1>7, <1>8, <1>9 DEF Next

\* A comment is on the screen, or in the inbox of socket k.
There(c, k) ==
    \/ Among(c, shown)
    \/ k \in DOMAIN sockets /\ Among(c, sockets[k].inbox)

Entry(i) == [id |-> i, snap |-> view]

DueInv == due # {} => Settled /\ \A d \in due : There(Entry(d.id), d.to)

\* What is there stays, as long as the page is settled.
LEMMA MessageStays ==
    ASSUME ShownOK, SocketInv, view # 0, NEW k \in DOMAIN sockets, OnMessage(k),
           NEW c, c.snap = view, NEW j, There(c, j)
    PROVE  There(c, j)'
  <1>1. wsSnap = view
    BY DEF SocketInv, Watching
  <1>2. /\ sockets[k].inbox \in Seq(Comment) /\ sockets[k].inbox # <<>>
        /\ sockets \in Seq(Socket) /\ shown \in Seq(Comment)
    BY SocketElement DEF OnMessage, SocketInv, SocketsOK, ShownOK
  <1> DEFINE d == Head(sockets[k].inbox)
  <1>3. d \in Comment
    BY <1>2, HeadTailProperties
  <1>4. /\ shown' = IF d.snap = view THEN <<d>> \o shown ELSE shown
        /\ sockets' = [sockets EXCEPT ![k].inbox = Tail(@)]
    BY <1>1 DEF OnMessage
  <1> HIDE DEF d
  <1>5. Among(c, shown) => Among(c, shown)'
    <2>1. Among(c, shown) => Among(c, shown')
      BY <1>2, <1>3, <1>4, AmongCons
    <2> QED
      BY <2>1 DEF Among
  <1>6. ASSUME j \in DOMAIN sockets, j # k, Among(c, sockets[j].inbox)
        PROVE  There(c, j)'
    <2>1. j \in DOMAIN sockets' /\ sockets'[j].inbox = sockets[j].inbox
      BY <1>2, <1>4, <1>6
    <2> QED
      BY <1>6, <2>1 DEF There, Among
  <1>7. ASSUME j = k, Among(c, sockets[k].inbox) PROVE There(c, j)'
    <2>1. CASE c = d
      <3>1. Among(c, shown')
        BY <1>2, <1>3, <1>4, <2>1, AmongCons
      <3> QED
        BY <3>1 DEF There, Among
    <2>2. CASE Among(c, Tail(sockets[k].inbox))
      <3>1. k \in DOMAIN sockets' /\ sockets'[k].inbox = Tail(sockets[k].inbox)
        <4>1. sockets[k] \in Socket
          BY SocketElement
        <4>2. DOMAIN sockets' = DOMAIN sockets
          BY <1>2, <1>4
        <4>3. sockets'[k] = [sockets[k] EXCEPT !.inbox = Tail(sockets[k].inbox)]
          BY <1>2, <1>4
        <4> QED
          BY <4>1, <4>2, <4>3 DEF Socket
      <3> QED
        BY <1>7, <2>2, <3>1 DEF There, Among
    <2> QED
      BY <1>2, <1>7, <2>1, <2>2, AmongTail DEF d
  <1> QED
    BY <1>5, <1>6, <1>7 DEF There

\* A step that moves neither the screen nor the inbox.
LEMMA InboxStays ==
    ASSUME NEW j, UNCHANGED shown,
           j \in DOMAIN sockets => j \in DOMAIN sockets' /\ sockets'[j].inbox = sockets[j].inbox,
           NEW c, There(c, j)
    PROVE  There(c, j)'
  BY DEF There, Among

LEMMA AnnouncementStays ==
    ASSUME SocketInv, ServerTypeOK, NEW p \in Posters, Hear(p), NEW c, NEW k, There(c, k)
    PROVE  There(c, k)'
  <1> DEFINE d == [id |-> posts[p].id, snap |-> posts[p].snap]
  <1>1. /\ shown' = shown
        /\ sockets' = [j \in DOMAIN sockets |->
                          IF sockets[j].state = "open"
                          THEN [sockets[j] EXCEPT !.inbox = Append(@, d)]
                          ELSE sockets[j]]
    BY DEF Hear, page
  <1>2. d \in Comment
    BY DEF ServerTypeOK, Comment
  <1> HIDE DEF d
  <1>3. CASE Among(c, shown)
    BY <1>1, <1>3 DEF There, Among
  <1>4. ASSUME k \in DOMAIN sockets, Among(c, sockets[k].inbox)
        PROVE  There(c, k)'
    <2>1. sockets[k].inbox \in Seq(Comment) /\ sockets[k] \in Socket
      BY <1>4, SocketElement
    <2>2. Among(c, Append(sockets[k].inbox, d))
      BY <1>2, <1>4, <2>1, AmongAppend
    <2>3. \/ sockets'[k].inbox = sockets[k].inbox
          \/ sockets'[k].inbox = Append(sockets[k].inbox, d)
      BY <1>1, <1>4, <2>1 DEF Socket
    <2>4. Among(c, sockets'[k].inbox) /\ k \in DOMAIN sockets'
      BY <1>1, <1>4, <2>2, <2>3
    <2> QED
      BY <2>4 DEF There, Among
  <1> QED
    BY <1>3, <1>4 DEF There

\* What is announced is in the inbox of every open socket.
LEMMA AnnouncementArrives ==
    ASSUME SocketInv, ServerTypeOK, NEW p \in Posters, Hear(p),
           NEW d, d = [id |-> posts[p].id, snap |-> posts[p].snap],
           NEW k \in DOMAIN sockets, sockets[k].state = "open"
    PROVE  There(d, k)'
  <1>1. sockets' = [j \in DOMAIN sockets |->
                       IF sockets[j].state = "open"
                       THEN [sockets[j] EXCEPT !.inbox = Append(@, d)]
                       ELSE sockets[j]]
    BY DEF Hear
  <1>2. d \in Comment
    BY DEF ServerTypeOK, Comment
  <1>4. sockets[k].inbox \in Seq(Comment) /\ sockets[k] \in Socket
    BY SocketElement
  <1>5. Among(d, Append(sockets[k].inbox, d))
    BY <1>2, <1>4, AmongAppend
  <1>6. k \in DOMAIN sockets' /\ sockets'[k].inbox = Append(sockets[k].inbox, d)
    BY <1>1, <1>4 DEF Socket
  <1> QED
    BY <1>5, <1>6 DEF There, Among

\* Of a socket that is lost only what is dropped is there no more.
LEMMA LossStays ==
    ASSUME SocketInv, NEW k \in DOMAIN sockets, Lose(k),
           NEW d, NEW c, c.id = d.id, ~Dropped(d), There(c, d.to)
    PROVE  There(c, d.to)'
  <1> DEFINE j == d.to
  <1>1. PICK n \in 0 .. Len(sockets[k].inbox) :
           sockets' = [sockets EXCEPT ![k].state = "lost",
                                      ![k].inbox = SubSeq(sockets[k].inbox, 1, n)]
    BY DEF Lose
  <1>2. shown' = shown /\ sockets[k].state # "lost"
    BY DEF Lose, page
  <1>3. PICK kept : kept = SubSeq(sockets[k].inbox, 1, n)
    OBVIOUS
  <1>4. sockets[k] \in Socket /\ sockets[k].inbox \in Seq(Comment)
    BY SocketElement
  <1>5. /\ DOMAIN kept = 1 .. n /\ \A i \in 1 .. n : kept[i] = sockets[k].inbox[i]
    BY <1>3, <1>4, ArrivedIsSeq
  <1>6. /\ DOMAIN sockets' = DOMAIN sockets
        /\ sockets'[k].state = "lost" /\ sockets'[k].inbox = kept
        /\ \A i \in DOMAIN sockets : i # k => sockets'[i] = sockets[i]
    BY <1>1, <1>3, <1>4 DEF Socket
  <1>7. CASE Among(c, shown)
    BY <1>2, <1>7 DEF There, Among
  <1>8. CASE j \in DOMAIN sockets /\ j # k
    BY <1>2, <1>6, <1>8, InboxStays
  <1>9. ASSUME j = k, Among(c, sockets[k].inbox) PROVE There(c, j)'
    <2>1. PICK i \in DOMAIN sockets[k].inbox : sockets[k].inbox[i] = c
      BY <1>9 DEF Among
    <2>2. i \in DOMAIN kept
      BY <1>2, <1>6, <1>9, <2>1 DEF Dropped
    <2>3. Among(c, kept)
      BY <1>5, <2>1, <2>2 DEF Among
    <2>4. j \in DOMAIN sockets' /\ sockets'[j].inbox = kept
      BY <1>6, <1>9
    <2> QED
      BY <2>3, <2>4 DEF There, Among
  <1> QED
    BY <1>7, <1>8, <1>9 DEF There

\* What is there is there after any step of a page that is settled before and
\* after it, unless it is dropped.
LEMMA SettledStays ==
    ASSUME ServerTypeOK, PagesInv, ShownOK, SocketInv, Settled, Settled', view' = view, Next,
           NEW d, ~Dropped(d), NEW c, c.snap = view, c.id = d.id, There(c, d.to)
    PROVE  There(c, d.to)'
  <1> DEFINE j == d.to
  <1>1. view # 0 /\ Free = Slots /\ Free' = Slots
    BY DEF Settled
  <1>2. sockets \in Seq(Socket) /\ DOMAIN sockets = 1 .. Len(sockets) /\ Len(sockets) \in Nat
    BY LenProperties DEF SocketInv, SocketsOK
  <1>3. ASSUME UNCHANGED <<shown, sockets>> PROVE There(c, j)'
    BY <1>3 DEF There, Among
  <1>4. CASE ServerAlone
    BY <1>3, <1>4 DEF ServerAlone, page, wsVars
  <1>5. ASSUME NEW p \in Posters, Hear(p) PROVE There(c, j)'
    BY <1>5, AnnouncementStays
  <1>6. ASSUME NEW r \in Slots, ReadRows(r) \/ CountRows(r) \/ ReadFails(r) \/ OnComments(r)
        PROVE  FALSE
    <2>1. reads[r].stage = "free"
      BY <1>1 DEF Free
    <2> QED
      BY <1>6, <2>1 DEF ReadRows, CountRows, ReadFails, OnComments
  <1>7. ASSUME NEW q \in asked, OnSnapshot(q) PROVE There(c, j)'
    BY <1>3, <1>7 DEF OnSnapshot, wsVars
  <1>8. ASSUME NEW k \in DOMAIN sockets, OnMessage(k) PROVE There(c, j)'
    BY <1>1, <1>8, MessageStays
  <1>9. ASSUME NEW k \in DOMAIN sockets, Accept(k) \/ OnClose(k) PROVE There(c, j)'
    <2>1. shown' = shown
      BY <1>9 DEF Accept, OnClose, page
    <2>2. j \in DOMAIN sockets => j \in DOMAIN sockets' /\ sockets'[j].inbox = sockets[j].inbox
      <3>1. j \in DOMAIN sockets => sockets[j] \in Socket
        BY SocketElement
      <3> QED
        BY <1>9, <3>1 DEF Accept, OnClose, Socket
    <2> QED
      BY <2>1, <2>2, InboxStays
  <1>14. ASSUME NEW k \in DOMAIN sockets, Lose(k) PROVE There(c, j)'
    BY <1>14, LossStays
  <1>10. ASSUME NEW t \in timers, Retry(t) PROVE There(c, j)'
    <2>1. shown' = shown
      BY <1>10 DEF Retry, page
    <2>2. CASE UNCHANGED sockets
      BY <1>3, <2>1, <2>2
    <2>3. ASSUME NEW s, Open(sockets, s) PROVE There(c, j)'
      <3> DEFINE new == [snap |-> s, state |-> "connecting", inbox |-> <<>>]
      <3>1. sockets' = Append(sockets, new)
        BY <2>3 DEF Open
      <3> HIDE DEF new
      <3>2. j \in DOMAIN sockets => j \in DOMAIN sockets' /\ sockets'[j].inbox = sockets[j].inbox
        BY <1>2, <3>1
      <3> QED
        BY <2>1, <3>2, InboxStays
    <2> QED
      BY <1>10, <2>2, <2>3 DEF Retry
  <1>11. ASSUME NEW s \in 1 .. Made, Mount(s) PROVE FALSE
    BY <1>1, <1>11 DEF Mount
  <1>12. CASE Leave
    BY <1>1, <1>12 DEF Leave
  <1>13. CASE LoadMore
    BY <1>3, <1>13 DEF LoadMore, page, wsVars
  <1> QED
    BY <1>4, <1>5, <1>6, <1>7, <1>8, <1>9, <1>10, <1>11, <1>12, <1>13, <1>14 DEF Next

\* Only the announcement of a comment ends the work of the request that
\* stored it.
LEMMA OnlyAnnounced ==
    ASSUME ServerTypeOK, Next, NEW p \in Posters, posts[p].pc = "stored", posts'[p].pc = "idle"
    PROVE  Hear(p)
  <1>1. posts \in [Posters -> [pc : {"idle", "found", "stored"}, snap : Nat, id : Nat]]
    BY DEF ServerTypeOK
  <1>2. ASSUME UNCHANGED posts PROVE FALSE
    BY <1>2
  <1>3. ASSUME NEW q \in Posters, NEW new, posts' = [posts EXCEPT ![q] = new], posts[q].pc # "stored"
        PROVE  FALSE
    BY <1>1, <1>3
  <1>4. CASE ServerAlone
    <2>1. ASSUME NEW q \in Posters, NEW s \in snaps, LookUp(q, s) PROVE FALSE
      BY <1>3, <2>1 DEF LookUp, At
    <2>2. ASSUME NEW q \in Posters, Refuse(q) PROVE FALSE
      BY <1>3, <2>2 DEF Refuse
    <2>3. ASSUME NEW q \in Posters, InsertComment(q) PROVE FALSE
      BY <1>3, <2>3 DEF InsertComment, At
    <2>4. ASSUME CreateSnapshot \/ (\E s \in snaps : DeleteSnapshot(s)) \/ RunRetention PROVE FALSE
      BY <1>2, <2>4 DEF CreateSnapshot, DeleteSnapshot, RunRetention, PruneOld, PruneCap
    <2> QED
      BY <1>4, <2>1, <2>2, <2>3, <2>4 DEF ServerAlone, ServerNext
  <1>5. ASSUME NEW q \in Posters, Hear(q) PROVE Hear(p)
    <2>1. p = q
      BY <1>1, <1>5 DEF Hear, Announce
    <2> QED
      BY <1>5, <2>1
  <1>6. ASSUME NEW r \in Slots, ReadRows(r) \/ CountRows(r) \/ ReadFails(r) \/ OnComments(r)
        PROVE  UNCHANGED posts
    BY <1>6 DEF ReadRows, CountRows, ReadFails, OnComments, server
  <1>7. ASSUME NEW k \in DOMAIN sockets, Accept(k) \/ Lose(k) \/ OnMessage(k) \/ OnClose(k)
        PROVE  UNCHANGED posts
    BY <1>7 DEF Accept, Lose, OnMessage, OnClose, server
  <1>8. ASSUME \/ \E q \in asked : OnSnapshot(q)
               \/ \E t \in timers : Retry(t)
               \/ \E s \in 1 .. Made : Mount(s)
               \/ Leave \/ LoadMore
        PROVE  UNCHANGED posts
    BY <1>8 DEF OnSnapshot, Retry, Mount, Leave, LoadMore, server
  <1> QED
    BY <1>2, <1>4, <1>5, <1>6, <1>7, <1>8 DEF Next

LEMMA NextDueInv ==
    ASSUME ServerTypeOK, PagesInv, ShownOK, SocketInv, DueInv, [MCNext]_<<vars, due>>
    PROVE  DueInv'
  <1>1. CASE UNCHANGED <<vars, due>>
    BY <1>1 DEF DueInv, Settled, There, Among, Entry, Free, vars, page, http, wsVars
  <1>2. CASE MCNext
    <2>1. CASE ~Settled \/ ~Settled' \/ view' # view
      BY <1>2, <2>1 DEF MCNext, DueInv
    <2>2. CASE Settled /\ Settled' /\ view' = view
      <3>1. Next /\ due' = {d \in due : ~Dropped(d)} \cup Announced
        BY <1>2, <2>2 DEF MCNext
      <3>2. ASSUME NEW d \in due, ~Dropped(d), NEW c, c = Entry(d.id) PROVE There(c, d.to)'
        <4>1. There(c, d.to) /\ c.snap = view /\ c.id = d.id
          BY <3>2 DEF DueInv, Entry
        <4> QED
          BY <2>2, <3>1, <3>2, <4>1, SettledStays
      <3>3. ASSUME NEW d \in Announced, NEW c, c = Entry(d.id) PROVE There(c, d.to)'
        <4>1. PICK p \in Posters : /\ posts[p].pc = "stored" /\ posts[p].snap = view
                                   /\ posts'[p].pc = "idle" /\ d.id = posts[p].id
                                   /\ d.to \in DOMAIN sockets /\ sockets[d.to].state = "open"
          BY <3>3 DEF Announced
        <4>2. Hear(p)
          BY <3>1, <4>1, OnlyAnnounced
        <4>3. c = [id |-> posts[p].id, snap |-> posts[p].snap]
          BY <3>3, <4>1 DEF Entry
        <4> QED
          BY <4>1, <4>2, <4>3, AnnouncementArrives
      <3>4. ASSUME NEW d \in due' PROVE There(Entry(d.id), d.to)'
        <4>1. PICK c : c = Entry(d.id)
          OBVIOUS
        <4>2. There(c, d.to)'
          BY <3>1, <3>2, <3>3, <3>4, <4>1
        <4>3. Entry(d.id)' = c
          BY <2>2, <4>1 DEF Entry
        <4> QED
          BY <4>2, <4>3 DEF There
      <3> QED
        BY <2>2, <3>4 DEF DueInv
    <2> QED
      BY <2>1, <2>2
  <1> QED
    BY <1>1, <1>2

LEMMA DueInvSees == DueInv => SettledPageSees
  <1> SUFFICES ASSUME NEW d \in due, There(Entry(d.id), d.to)
               PROVE  \/ \E n \in DOMAIN shown : shown[n].id = d.id
                      \/ \E n \in DOMAIN sockets[d.to].inbox : sockets[d.to].inbox[n].id = d.id
    BY DEF DueInv, SettledPageSees
  <1>1. Entry(d.id).id = d.id
    BY DEF Entry
  <1> QED
    BY <1>1 DEF There, Among

\* A comment announced to a socket while a page is settled is on the page's
\* screen or in that socket's inbox until the page asks again or is left, unless
\* the socket is lost before it arrives: whatever sockets of earlier pages
\* close, whatever reconnects and whatever else is lost.
THEOREM SettledPageMissesNone == MCSpec => []SettledPageSees
  <1> DEFINE Inv == ServerTypeOK /\ NoOrphans /\ PagesInv /\ SocketInv /\ ShownOK /\ DueInv
  <1>1. MCInit => Inv
    <2>1. MCInit => DueInv /\ ShownOK
      BY EmptySeq DEF MCInit, Init, DueInv, ShownOK
    <2> QED
      BY <2>1, InitServerTypeOK, InitNoOrphans, InitPagesInv, InitSocketInv DEF MCInit
  <1>2. Inv /\ [MCNext]_<<vars, due>> => Inv'
    <2> SUFFICES ASSUME Inv, [MCNext]_<<vars, due>> PROVE Inv'
      OBVIOUS
    <2>1. [Next]_vars
      BY DEF MCNext
    <2>2. ServerTypeOK' /\ NoOrphans' /\ SocketInv'
      BY <2>1, NextServerTypeOK, NextNoOrphans, NextSocketInv
    <2>3. PagesInv'
      BY <2>1, <2>2, NextPagesInv
    <2>4. ShownOK'
      BY <2>1, NextShownOK DEF PagesInv
    <2>5. DueInv'
      BY NextDueInv
    <2> QED
      BY <2>2, <2>3, <2>4, <2>5
  <1>3. Inv => SettledPageSees
    BY DueInvSees
  <1> QED
    BY <1>1, <1>2, <1>3, PTL DEF MCSpec
=============================================================================
