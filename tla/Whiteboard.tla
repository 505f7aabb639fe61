----------------------------- MODULE Whiteboard -----------------------------
(***************************************************************************)
(* The shared whiteboard: one page per peer (CanvasBoard.tsx), its worker  *)
(* with the replicated document (whiteboardWorker.ts), and the relay that  *)
(* carries the document's updates between the peers.                       *)
(*                                                                         *)
(* The page and the worker talk through two FIFO queues: toWorker holds    *)
(* the user's edits, toMain the frames and the states of the socket.  The  *)
(* page moves a dragged shape at once in its own copy and lets the worker  *)
(* reconcile; the worker collects moves and writes them every 50 ms.       *)
(*                                                                         *)
(* The document is Yjs (external): the transactions a peer has heard of,   *)
(* in whatever order.  One that comes after others is applied with them.   *)
(* A key of the map holds a chain of items: each write goes to the right   *)
(* of the item its author saw, writes that saw the same item are ordered   *)
(* by author, and the rightmost item is the value unless it is deleted.    *)
(* An item is named by the authors along its chain (path), so that the     *)
(* rightmost is the greatest path.                                         *)
(*                                                                         *)
(* Left out: the vertical axis, sizes and colours, and the wire encoding.  *)
(***************************************************************************)
EXTENDS Integers, Sequences, FiniteSets

CONSTANTS
    Peers,       \* the client ids, numbers: Yjs orders writes by them
    Ids,         \* the shape ids, numbers: their order is that of the strings
    Seeds,       \* DEFAULT_SEEDS: a function from some ids to shapes
    Points,      \* the pointer's places, Width apart at most for a hit
    Width,       \* the width of every shape
    Texts,       \* what a user types
    Casts        \* the scenarios followed, each with its bounds

ASSUME WhiteboardAssumption ==
    /\ Peers \subseteq Nat
    /\ Ids \subseteq Nat /\ IsFiniteSet(Ids)
    /\ Points \subseteq Int
    /\ DOMAIN Seeds \subseteq Ids
    /\ \A k \in DOMAIN Seeds : DOMAIN Seeds[k] = {"kind", "x", "text"}
    /\ Width \in Nat
    /\ \A c \in Casts :
          /\ c.canvases \subseteq c.pages /\ c.pages \subseteq c.peers
          /\ c.peers \subseteq Peers
          /\ c.inputs \in Nat /\ c.others \in Nat /\ c.drops \in Nat

Nobody == -1                 \* null, for an id
NoText == ""

VARIABLES
    \* the worker of each peer
    writes,      \* the Y.Doc: the transactions known that set shapes
    dead,        \* its delete set: <<id, path>> of items, some still to come
    clock,       \* the transactions of its own that set shapes
    pending,     \* the moves not yet in the document: a function on some ids
    flushTimer,  \* flushTimer !== null
    timeouts,    \* the flush timeouts that are armed (commit clears none)
    seeding,     \* the timeout of seedIfMissing is armed
    provider,    \* "none", "connecting", "open", "closed"
    \* the queues; net holds, for each peer, one from every other
    toWorker, toMain, net,
    \* the page of each peer
    mounted, shapes, ui, status, drawScheduled,
    painted,     \* the canvas shows the page's shapes and its rectangle
    \* bookkeeping
    unused,      \* the ids no newShapeId has returned
    cast,        \* the scenario: the peers that come, those of them whose page
                 \* is followed (of the rest, the worker alone, which takes the
                 \* edits of a page in any order), those whose canvas is
                 \* followed too, and the bounds
    inputs, others, drops,   \* counted: user inputs, edits of the rest, and
                             \* sockets that fail or close
    unheard      \* some edit was made while its author's socket was not open

worker == <<writes, dead, clock, pending, flushTimer, timeouts, seeding, provider>>
page == <<mounted, shapes, ui, status, drawScheduled, painted>>
vars == <<worker, toWorker, toMain, net, page, unused, cast, inputs, others,
          drops, unheard>>

-----------------------------------------------------------------------------
(* The replicated map. *)

\* A transaction is [by, clock, after, items]: its author, its number among the
\* author's, the stamps of those it comes after, and per id the item it sets,
\* [path, shape], with a shape [kind, x, text].
Stamp(t) == <<t.by, t.clock>>

\* Those that are not waiting for another.
Applied(p) ==
    LET known == {Stamp(t) : t \in writes[p]}
    IN  {t \in writes[p] : t.after \subseteq known}

\* The order of the items of one key: where two paths part, one ends or has the
\* lower author.
LeftOf(a, b) ==
    \E i \in DOMAIN b :
        /\ \A j \in 1 .. i - 1 : j \in DOMAIN a /\ a[j] = b[j]
        /\ i \in DOMAIN a => a[i] < b[i]

\* The rightmost item of a key, as a set: empty before the first write.
Rightmost(p, k) ==
    LET items == {t.items[k] : t \in {u \in Applied(p) : k \in DOMAIN u.items}}
    IN  {i \in items : \A o \in items \ {i} : LeftOf(o.path, i.path)}

Item(p, k) == CHOOSE i \in Rightmost(p, k) : TRUE
Path(p, k) == IF Rightmost(p, k) = {} THEN <<>> ELSE Item(p, k).path

\* What the document shows.
Present(p) == {k \in Ids : \E i \in Rightmost(p, k) : <<k, i.path>> \notin dead[p]}
Board(p) == [k \in Present(p) |-> Item(p, k).shape]

-----------------------------------------------------------------------------
(* The frame: parallel arrays over the sorted ids. *)

EmptyFrame == [ids |-> <<>>, kinds |-> <<>>, texts |-> <<>>, coords |-> <<>>]

\* ids.sort(): every id at its place.
Place(k, ids) == Cardinality({j \in ids : j <= k})
Sorted(ids) ==
    [i \in 1 .. Cardinality(ids) |-> CHOOSE k \in ids : Place(k, ids) = i]

\* packAndPost
Pack(b) ==
    LET ids == Sorted(DOMAIN b)
    IN  [ids |-> ids,
         kinds |-> [i \in DOMAIN ids |-> b[ids[i]].kind],
         texts |-> [i \in DOMAIN ids |-> b[ids[i]].text],
         coords |-> [i \in DOMAIN ids |-> b[ids[i]].x]]

FrameOf(b) == [type |-> "frame", frame |-> Pack(b)]
Status(s) == [type |-> "status", state |-> s]

\* self.postMessage
ToPage(p, m) == toMain' = IF p \in cast.pages THEN [toMain EXCEPT ![p] = Append(@, m)]
                          ELSE toMain

-----------------------------------------------------------------------------
(* The relay: a message goes to every other peer whose socket is open, to  *)
(* one after the other.  What two peers send reaches the rest in any order.*)

NoMail == [q \in Peers |-> <<>>]

Others(p) == {q \in Peers \ {p} : provider[q] = "open"}
Send(n, p, m) ==
    [q \in Peers |-> IF q \in Others(p) THEN [n[q] EXCEPT ![p] = Append(@, m)] ELSE n[q]]
Relay(n, p, m) == IF provider[p] = "open" THEN Send(n, p, m) ELSE n

\* doc.transact: the function new of shapes to set and the set gone of ids to
\* delete.  One that changes something posts one frame and one update.
Transact(p, new, gone) ==
    IF new = <<>> /\ gone = {}
    THEN UNCHANGED <<writes, dead, clock, toMain, net, unheard>>
    ELSE LET before == {u \in Applied(p) :
                 u.by = p \/ \E k \in DOMAIN new \cap DOMAIN u.items : u.items[k].path = Path(p, k)}
             made == [by |-> p, clock |-> clock[p] + 1,
                      after |-> UNION {u.after \cup {Stamp(u)} : u \in before},
                      items |-> [k \in DOMAIN new |->
                                    [path |-> Append(Path(p, k), p), shape |-> new[k]]]]
             m == [type |-> "update",
                   writes |-> IF new = <<>> THEN {} ELSE {made},
                   dead |-> {<<k, Path(p, k)>> : k \in gone}]
         IN  /\ writes' = [writes EXCEPT ![p] = @ \cup m.writes]
             /\ dead' = [dead EXCEPT ![p] = @ \cup m.dead]
             /\ clock' = IF new = <<>> THEN clock ELSE [clock EXCEPT ![p] = @ + 1]
             /\ ToPage(p, FrameOf(Board(p)'))
             /\ net' = Relay(net, p, m)
             /\ unheard' = (unheard \/ provider[p] # "open")

\* No shape to set.
None == <<>>

-----------------------------------------------------------------------------
(* The worker: the throttle. *)

\* scheduleFlush
ScheduleFlush(p) ==
    /\ flushTimer' = [flushTimer EXCEPT ![p] = TRUE]
    /\ timeouts' = IF flushTimer[p] THEN timeouts
                   ELSE [timeouts EXCEPT ![p] = @ + 1]

\* Mutant: the handle of the timeout is kept.
FlushPending_KeepTimer(p) ==
    /\ pending' = [pending EXCEPT ![p] = None]
    /\ Transact(p, [k \in DOMAIN pending[p] \cap Present(p) |->
                       [Board(p)[k] EXCEPT !.x = pending[p][k]]], {})
    /\ UNCHANGED flushTimer

\* Mutant: the captured record is changed in place.
FlushPending_InPlace(p) ==
    /\ flushTimer' = [flushTimer EXCEPT ![p] = FALSE]
    /\ pending' = [pending EXCEPT ![p] = None]
    /\ writes' = [writes EXCEPT ![p] = {[t EXCEPT !.items = [k \in DOMAIN @ |->
                     IF k \in DOMAIN pending[p] /\ @[k].path = Path(p, k)
                     THEN [@[k] EXCEPT !.shape.x = pending[p][k]] ELSE @[k]]] : t \in @}]
    /\ UNCHANGED <<dead, clock, net, unheard>>
    /\ ToPage(p, FrameOf(Board(p)'))

\* flushPending: the record of each shape still there is set again, moved.
FlushPending(p) ==
    /\ flushTimer' = [flushTimer EXCEPT ![p] = FALSE]
    /\ pending' = [pending EXCEPT ![p] = None]
    /\ Transact(p, [k \in DOMAIN pending[p] \cap Present(p) |->
                       [Board(p)[k] EXCEPT !.x = pending[p][k]]], {})

\* The timeout of scheduleFlush.
FlushTimeout(p) ==
    /\ timeouts[p] > 0
    /\ timeouts' = [timeouts EXCEPT ![p] = @ - 1]
    /\ FlushPending(p)
    /\ UNCHANGED <<seeding, provider, toWorker, page, unused, cast, inputs, others, drops>>

\* seedIfMissing, 500 ms after initialize.
SeedIfMissing(p) ==
    /\ seeding[p]
    /\ seeding' = [seeding EXCEPT ![p] = FALSE]
    /\ Transact(p, [k \in DOMAIN Seeds \ Present(p) |-> Seeds[k]], {})
    /\ UNCHANGED <<pending, flushTimer, timeouts, provider, toWorker, page,
                   unused, cast, inputs, others, drops>>

-----------------------------------------------------------------------------
(* The worker: the messages of the page. *)

Receive(p, type) ==
    /\ toWorker[p] # <<>>
    /\ Head(toWorker[p]).type = type
    /\ toWorker' = [toWorker EXCEPT ![p] = Tail(@)]
    /\ UNCHANGED <<page, unused, cast, inputs, others, drops>>

Msg(p) == Head(toWorker[p])

\* initialize: idempotent.  The first "connecting" is emitted before the
\* listener is there, so that it posts no status.
Initialize(p) ==
    /\ Receive(p, "init")
    /\ IF provider[p] # "none"
       THEN UNCHANGED <<provider, seeding, toMain>>
       ELSE /\ provider' = [provider EXCEPT ![p] = "connecting"]
            /\ seeding' = [seeding EXCEPT ![p] = TRUE]
            /\ ToPage(p, FrameOf(Board(p)))
    /\ UNCHANGED <<writes, dead, clock, pending, flushTimer, timeouts, net, unheard>>

OnMove(p) ==
    /\ Receive(p, "move")
    /\ pending' = [pending EXCEPT ![p] =
                     [k \in DOMAIN @ \cup {Msg(p).id} |->
                        IF k = Msg(p).id THEN Msg(p).x ELSE @[k]]]
    /\ ScheduleFlush(p)
    /\ UNCHANGED <<writes, dead, clock, seeding, provider, toMain, net, unheard>>

\* A commit flushes at once and leaves the timeout armed.
OnCommit(p) ==
    /\ Receive(p, "commit")
    /\ FlushPending(p)
    /\ UNCHANGED <<timeouts, seeding, provider>>

OnCreate(p) ==
    /\ Receive(p, "create")
    /\ Transact(p, [k \in {Msg(p).id} |-> Msg(p).shape], {})
    /\ UNCHANGED <<pending, flushTimer, timeouts, seeding, provider>>

\* The pending move of the shape goes with it.
OnDelete(p) ==
    /\ Receive(p, "delete")
    /\ pending' = [pending EXCEPT ![p] =
                     [k \in DOMAIN @ \ {Msg(p).id} |-> @[k]]]
    /\ Transact(p, None, {Msg(p).id} \cap Present(p))
    /\ UNCHANGED <<flushTimer, timeouts, seeding, provider>>

OnSetText(p) ==
    /\ Receive(p, "setText")
    /\ Transact(p, [k \in {Msg(p).id} \cap Present(p) |->
                       [Board(p)[k] EXCEPT !.text = Msg(p).text]], {})
    /\ UNCHANGED <<pending, flushTimer, timeouts, seeding, provider>>

\* clear leaves the pending moves, which find no shape.
OnClear(p) ==
    /\ Receive(p, "clear")
    /\ Transact(p, None, Present(p))
    /\ UNCHANGED <<pending, flushTimer, timeouts, seeding, provider>>

-----------------------------------------------------------------------------
(* The provider (y-websocket): its socket and its messages. *)

Socket(p, from, to) ==
    /\ provider[p] \in from
    /\ provider' = [provider EXCEPT ![p] = to]
    /\ UNCHANGED <<writes, dead, clock, pending, flushTimer, timeouts, seeding, toWorker,
                   page, unused, cast, inputs, others, unheard>>

PostStatus(p, s) == ToPage(p, Status(s))

\* The socket opens: the peer asks the others for what it lacks.  Nobody asks
\* the peer.
Open(p) ==
    /\ Socket(p, {"connecting"}, "open")
    /\ PostStatus(p, "open")
    /\ net' = Send(net, p, [type |-> "step1"])
    /\ UNCHANGED drops

Drop(p) ==
    /\ drops < cast.drops
    /\ drops' = drops + 1
    /\ Socket(p, {"open"}, "closed")
    /\ PostStatus(p, "closed")
    /\ net' = [net EXCEPT ![p] = NoMail]

\* connection-error; the provider tries again.
Fail(p) ==
    /\ drops < cast.drops
    /\ drops' = drops + 1
    /\ Socket(p, {"connecting"}, "closed")
    /\ PostStatus(p, "error")
    /\ UNCHANGED net

Retry(p) ==
    /\ Socket(p, {"closed"}, "connecting")
    /\ PostStatus(p, "connecting")
    /\ UNCHANGED <<net, drops>>

\* The next message of another peer: a request, answered to all, or what that
\* peer made or knows.
Deliver(p) == \E from \in Peers :
    /\ provider[p] = "open"
    /\ net[p][from] # <<>>
    /\ LET m == Head(net[p][from])
           rest == [net EXCEPT ![p][from] = Tail(@)]
       IN  \/ /\ m.type = "step1"
              /\ net' = Relay(rest, p, [type |-> "update", writes |-> writes[p],
                                        dead |-> dead[p]])
              /\ UNCHANGED <<writes, dead, toMain>>
           \/ /\ m.type = "update"
              /\ net' = rest
              /\ writes' = [writes EXCEPT ![p] = @ \cup m.writes]
              /\ dead' = [dead EXCEPT ![p] = @ \cup m.dead]
              /\ IF Applied(p)' = Applied(p) /\ Present(p)' = Present(p)
                 THEN UNCHANGED toMain
                 ELSE ToPage(p, FrameOf(Board(p)'))
    /\ UNCHANGED <<clock, pending, flushTimer, timeouts, seeding, provider, toWorker,
                   page, unused, cast, inputs, others, drops, unheard>>

-----------------------------------------------------------------------------
(* The page: what comes from the worker, and the animation frame. *)

NoDrag == [id |-> Nobody, offset |-> 0]

PageStep(p) == p \in cast.pages /\ mounted[p] /\ UNCHANGED <<worker, net, mounted, cast, drops, unheard>>

\* scheduleDraw
ScheduleDraw(p) ==
    drawScheduled' = [drawScheduled EXCEPT ![p] = p \in cast.canvases]

\* The canvas is behind once what it shows has changed.
Repaint(p, changed) == painted' = [painted EXCEPT ![p] = @ /\ ~changed]

\* Mutant: a frame that comes during a drag is dropped.
ApplyFrame_NotDuringDrag(p) ==
    /\ PageStep(p)
    /\ toMain[p] # <<>>
    /\ Head(toMain[p]).type = "frame"
    /\ toMain' = [toMain EXCEPT ![p] = Tail(@)]
    /\ IF ui[p].drag # NoDrag THEN UNCHANGED <<shapes, drawScheduled, painted>>
       ELSE /\ shapes' = [shapes EXCEPT ![p] = Head(toMain[p]).frame]
            /\ ScheduleDraw(p)
            /\ Repaint(p, Head(toMain[p]).frame # shapes[p])
    /\ UNCHANGED <<toWorker, ui, status, unused, inputs, others>>

\* worker.onmessage: a frame replaces the page's copy, drag or no drag.  Its
\* closure is that of the first render, where no text is being edited.
ApplyFrame(p) ==
    /\ PageStep(p)
    /\ toMain[p] # <<>>
    /\ Head(toMain[p]).type = "frame"
    /\ toMain' = [toMain EXCEPT ![p] = Tail(@)]
    /\ shapes' = [shapes EXCEPT ![p] = Head(toMain[p]).frame]
    /\ ScheduleDraw(p)
    /\ Repaint(p, Head(toMain[p]).frame # shapes[p])
    /\ UNCHANGED <<toWorker, ui, status, unused, inputs, others>>

OnStatus(p) ==
    /\ PageStep(p)
    /\ toMain[p] # <<>>
    /\ Head(toMain[p]).type = "status"
    /\ toMain' = [toMain EXCEPT ![p] = Tail(@)]
    /\ status' = [status EXCEPT ![p] = Head(toMain[p]).state]
    /\ UNCHANGED <<toWorker, shapes, ui, drawScheduled, painted, unused, inputs, others>>

\* draw: the shapes, and the rectangle being drawn.  Its closure is that of the
\* first render: nothing is selected or edited.
Draw(p) ==
    /\ PageStep(p)
    /\ drawScheduled[p]
    /\ drawScheduled' = [drawScheduled EXCEPT ![p] = FALSE]
    /\ painted' = [painted EXCEPT ![p] = TRUE]
    /\ UNCHANGED <<toWorker, toMain, shapes, ui, status, unused, inputs, others>>

-----------------------------------------------------------------------------
(* The page: the user. *)

Tools == {"select", "rect", "text"}
NoRect == [start |-> 0, end |-> 0, on |-> FALSE]

\* The state of a page nobody has touched.
NewUi == [tool |-> "select", drag |-> NoDrag, rect |-> NoRect,
          selected |-> Nobody, editing |-> Nobody, typed |-> NoText]

Input(p) ==
    /\ PageStep(p)
    /\ inputs < cast.inputs
    /\ inputs' = inputs + 1
    /\ UNCHANGED <<toMain, status, others>>

\* postMessage of one message, or of none.
Post(p, m) == toWorker' = [toWorker EXCEPT ![p] = @ \o m]

\* React's state and refs of the pointer and of the editor; a change of the
\* selection or of the text edited asks for a drawing.
SetUi(p, new, draw) ==
    /\ ui' = [ui EXCEPT ![p] = new]
    /\ IF draw \/ new.selected # ui[p].selected \/ new.editing # ui[p].editing
       THEN ScheduleDraw(p) ELSE UNCHANGED drawScheduled
    /\ Repaint(p, new.rect # ui[p].rect)
    /\ UNCHANGED shapes

\* hitTest: the topmost shape under the point, 0 when there is none.
HitTest(p, x) ==
    LET hits == {i \in DOMAIN shapes[p].ids :
                   x \in shapes[p].coords[i]..(shapes[p].coords[i] + Width)}
    IN  IF hits = {} THEN 0 ELSE CHOOSE i \in hits : \A j \in hits : j <= i

\* onPointerDown with the rectangle tool
DownRect(p) == \E x \in Points :
    /\ Input(p)
    /\ ui[p].tool = "rect"
    /\ SetUi(p, [ui[p] EXCEPT !.rect = [start |-> x, end |-> x, on |-> TRUE],
                              !.selected = Nobody], TRUE)
    /\ UNCHANGED <<toWorker, unused>>

\* onPointerDown with the text tool: a new text, edited at once
DownText(p) == \E x \in Points : \E k \in unused :
    /\ Input(p)
    /\ ui[p].tool = "text"
    /\ unused' = unused \ {k}
    /\ Post(p, <<[type |-> "create", id |-> k,
                  shape |-> [kind |-> "text", x |-> x, text |-> NoText]]>>)
    /\ SetUi(p, [ui[p] EXCEPT !.selected = k, !.editing = k, !.typed = NoText],
             FALSE)

\* onPointerDown with the select tool
DownSelect(p) == \E x \in Points :
    /\ Input(p)
    /\ ui[p].tool = "select"
    /\ LET i == HitTest(p, x)
           id == shapes[p].ids[i]
       IN  IF i = 0 THEN SetUi(p, [ui[p] EXCEPT !.selected = Nobody], FALSE)
           ELSE SetUi(p, [ui[p] EXCEPT !.selected = id,
                    !.drag = [id |-> id, offset |-> x - shapes[p].coords[i]]], FALSE)
    /\ UNCHANGED <<toWorker, unused>>

\* onPointerMove while a rectangle is drawn
MoveRect(p) == \E x \in Points :
    /\ Input(p)
    /\ ui[p].rect.on
    /\ SetUi(p, [ui[p] EXCEPT !.rect.end = x], TRUE)
    /\ UNCHANGED <<toWorker, unused>>

\* onPointerMove during a drag: the page's copy moves at once
MoveDrag(p) == \E x \in Points :
    /\ Input(p)
    /\ ~ui[p].rect.on
    /\ ui[p].drag # NoDrag
    /\ LET to == x - ui[p].drag.offset
           at == {i \in DOMAIN shapes[p].ids : shapes[p].ids[i] = ui[p].drag.id}
       IN  /\ shapes' = [shapes EXCEPT ![p].coords =
                           [i \in DOMAIN @ |-> IF i \in at THEN to ELSE @[i]]]
           /\ IF at = {} THEN UNCHANGED drawScheduled ELSE ScheduleDraw(p)
           /\ Post(p, <<[type |-> "move", id |-> ui[p].drag.id, x |-> to]>>)
    /\ Repaint(p, shapes'[p] # shapes[p])
    /\ UNCHANGED <<ui, unused>>

\* onPointerUp while a rectangle is drawn: one that is too small is dropped
UpRect(p) ==
    /\ Input(p)
    /\ ui[p].rect.on
    /\ LET r == ui[p].rect
           x == IF r.start < r.end THEN r.start ELSE r.end
       IN  IF r.start = r.end
           THEN /\ SetUi(p, [ui[p] EXCEPT !.rect = NoRect], TRUE)
                /\ UNCHANGED <<toWorker, unused>>
           ELSE \E k \in unused :
                /\ unused' = unused \ {k}
                /\ Post(p, <<[type |-> "create", id |-> k,
                       shape |-> [kind |-> "rect", x |-> x, text |-> NoText]]>>)
                /\ SetUi(p, [ui[p] EXCEPT !.rect = NoRect, !.selected = k,
                                          !.tool = "select"], TRUE)

\* onPointerUp at the end of a drag
UpDrag(p) ==
    /\ Input(p)
    /\ ~ui[p].rect.on
    /\ ui[p].drag # NoDrag
    /\ SetUi(p, [ui[p] EXCEPT !.drag = NoDrag], FALSE)
    /\ Post(p, <<[type |-> "commit"]>>)
    /\ UNCHANGED unused

\* onDoubleClick: the editor opens with the text the page knows
DoubleClick(p) == \E x \in Points :
    /\ Input(p)
    /\ LET i == HitTest(p, x)
       IN  /\ i # 0
           /\ shapes[p].kinds[i] = "text"
           /\ SetUi(p, [ui[p] EXCEPT !.selected = shapes[p].ids[i],
                          !.editing = shapes[p].ids[i],
                          !.typed = shapes[p].texts[i]], FALSE)
    /\ UNCHANGED <<toWorker, unused>>

\* The tool buttons, and V, R and T when no text is edited.
SetTool(p) == \E t \in Tools \ {ui[p].tool} :
    /\ Input(p)
    /\ SetUi(p, [ui[p] EXCEPT !.tool = t], FALSE)
    /\ UNCHANGED <<toWorker, unused>>

\* onKey: Delete or Backspace, which the editor keeps for itself
DeleteKey(p) ==
    /\ Input(p)
    /\ ui[p].editing = Nobody
    /\ ui[p].selected # Nobody
    /\ Post(p, <<[type |-> "delete", id |-> ui[p].selected]>>)
    /\ SetUi(p, [ui[p] EXCEPT !.selected = Nobody], FALSE)
    /\ UNCHANGED unused

\* The Delete button, also while a text is edited
DeleteButton(p) ==
    /\ Input(p)
    /\ ui[p].selected # Nobody
    /\ Post(p, <<[type |-> "delete", id |-> ui[p].selected]>>)
    /\ SetUi(p, [ui[p] EXCEPT !.selected = Nobody], FALSE)
    /\ UNCHANGED unused

ClearButton(p) ==
    /\ Input(p)
    /\ Post(p, <<[type |-> "clear"]>>)
    /\ SetUi(p, [ui[p] EXCEPT !.selected = Nobody], FALSE)
    /\ UNCHANGED unused

\* The editor's onChange
Type(p) == \E t \in Texts :
    /\ Input(p)
    /\ ui[p].editing # Nobody
    /\ SetUi(p, [ui[p] EXCEPT !.typed = t], FALSE)
    /\ Post(p, <<[type |-> "setText", id |-> ui[p].editing, text |-> t]>>)
    /\ UNCHANGED unused

\* commitText: Enter, Escape or blur; the text goes again, typed or not
CommitText(p) ==
    /\ Input(p)
    /\ ui[p].editing # Nobody
    /\ Post(p, <<[type |-> "setText", id |-> ui[p].editing, text |-> ui[p].typed]>>)
    /\ SetUi(p, [ui[p] EXCEPT !.editing = Nobody], FALSE)
    /\ UNCHANGED unused

-----------------------------------------------------------------------------
(* The life of a page. *)

\* The effect that starts the worker; the resize effect asks for a drawing.
Mount(p) ==
    /\ p \in cast.peers /\ ~mounted[p]
    /\ mounted' = [mounted EXCEPT ![p] = TRUE]
    /\ Post(p, <<[type |-> "init"]>>)
    /\ ScheduleDraw(p)
    /\ UNCHANGED <<worker, toMain, net, shapes, ui, status, painted, unused,
                   cast, inputs, others, drops, unheard>>

\* An edit of a page that is not followed.
OtherEdit(p) ==
    /\ p \notin cast.pages /\ mounted[p]
    /\ others < cast.others
    /\ toWorker[p] = <<>>
    /\ others' = others + 1
    /\ \/ /\ \E k \in unused : \E x \in Points :
                /\ unused' = unused \ {k}
                /\ Post(p, <<[type |-> "create", id |-> k,
                       shape |-> [kind |-> "rect", x |-> x, text |-> NoText]]>>)
       \/ /\ \E k \in Ids \ unused :
                \/ \E x \in Points : Post(p, <<[type |-> "move", id |-> k, x |-> x]>>)
                \/ \E t \in Texts : Post(p, <<[type |-> "setText", id |-> k, text |-> t]>>)
                \/ Post(p, <<[type |-> "delete", id |-> k]>>)
          /\ UNCHANGED unused
       \/ /\ Post(p, <<[type |-> "commit"]>>) \/ Post(p, <<[type |-> "clear"]>>)
          /\ UNCHANGED unused
    /\ UNCHANGED <<worker, toMain, net, page, cast, inputs, drops, unheard>>

-----------------------------------------------------------------------------
Init ==
    /\ writes = [p \in Peers |-> {}]
    /\ dead = [p \in Peers |-> {}]
    /\ clock = [p \in Peers |-> 0]
    /\ pending = [p \in Peers |-> None]
    /\ flushTimer = [p \in Peers |-> FALSE]
    /\ timeouts = [p \in Peers |-> 0]
    /\ seeding = [p \in Peers |-> FALSE]
    /\ provider = [p \in Peers |-> "none"]
    /\ toWorker = [p \in Peers |-> <<>>]
    /\ toMain = [p \in Peers |-> <<>>]
    /\ net = [p \in Peers |-> NoMail]
    /\ mounted = [p \in Peers |-> FALSE]
    /\ shapes = [p \in Peers |-> EmptyFrame]
    /\ ui = [p \in Peers |-> NewUi]
    /\ status = [p \in Peers |-> "init"]
    /\ drawScheduled = [p \in Peers |-> FALSE]
    /\ painted = [p \in Peers |-> FALSE]
    /\ unused = Ids \ DOMAIN Seeds
    /\ cast \in Casts
    /\ inputs = 0
    /\ others = 0
    /\ drops = 0
    /\ unheard = FALSE

Worker(p) ==
    \/ Initialize(p) \/ OnMove(p) \/ OnCommit(p) \/ OnCreate(p)
    \/ OnDelete(p) \/ OnSetText(p) \/ OnClear(p)
    \/ FlushTimeout(p) \/ SeedIfMissing(p)

Provider(p) == Open(p) \/ Drop(p) \/ Fail(p) \/ Retry(p) \/ Deliver(p)

Page(p) == Mount(p) \/ ApplyFrame(p) \/ OnStatus(p) \/ Draw(p)

User(p) ==
    \/ DownRect(p) \/ DownText(p) \/ DownSelect(p)
    \/ MoveRect(p) \/ MoveDrag(p) \/ UpRect(p) \/ UpDrag(p) \/ DoubleClick(p)
    \/ SetTool(p) \/ DeleteKey(p) \/ DeleteButton(p) \/ ClearButton(p)
    \/ Type(p) \/ CommitText(p)

Next == \E p \in Peers :
    Worker(p) \/ Provider(p) \/ Page(p) \/ User(p) \/ OtherEdit(p)

Spec == Init /\ [][Next]_vars

-----------------------------------------------------------------------------
(* Properties. *)

\* A move the worker has taken is never forgotten: while one is pending, a
\* timeout that will write it is armed (scheduleFlush arms one only when it
\* believes that none is, and commit flushes under an armed one).
MoveIsTimed ==
    \A p \in Peers : pending[p] # None => flushTimer[p] /\ timeouts[p] > 0

Idle(p) ==
    /\ mounted[p]
    /\ toWorker[p] = <<>> /\ toMain[p] = <<>>
    /\ pending[p] = None

\* What the user has done ahead of the worker is reconciled: once the queues
\* are empty and nothing is pending, the page has the document's board, the
\* canvas shows it, and the status is that of the socket.
SettledShows ==
    \A p \in cast.pages : Idle(p) =>
        /\ shapes[p] = Pack(Board(p))
        /\ p \in cast.canvases => painted[p] \/ drawScheduled[p]
        /\ status[p] = "open" <=> provider[p] = "open"

\* Peers that edited on open sockets only, none of which failed, show the same
\* board once nothing is under way, whoever came first, whatever they did at the
\* same time and in whatever order their messages came: the relay keeps no state,
\* so a peer that joins has to get the board from the others.
Converged ==
    ~unheard /\ drops = 0 /\ (\A p \in Peers : net[p] = NoMail)
      => \A p, q \in Peers :
            Idle(p) /\ Idle(q) /\ provider[p] = "open" /\ provider[q] = "open"
              => Board(p) = Board(q)
=============================================================================
