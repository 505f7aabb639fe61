-------------------------- MODULE WhiteboardProofs --------------------------
(***************************************************************************)
(* Theorems about the whiteboard, for any peers, shapes and users: the     *)
(* worker's throttle forgets no move, an idle page shows its worker's      *)
(* board, and peers that never lose their socket come to show the same     *)
(* board.                                                                  *)
(***************************************************************************)
EXTENDS Whiteboard, SequenceTheorems, FiniteSetTheorems, TLAPS

throttle == <<pending, flushTimer, timeouts>>

\* Timeouts that commit left armed may outnumber the one whose handle is kept,
\* but a kept handle always has a timeout, and a pending move a kept handle.
ThrottleInv ==
    /\ DOMAIN pending = Peers
    /\ flushTimer \in [Peers -> BOOLEAN]
    /\ timeouts \in [Peers -> Nat]
    /\ \A p \in Peers :
          /\ flushTimer[p] => timeouts[p] > 0
          /\ pending[p] # None => flushTimer[p]

LEMMA SameThrottle == ASSUME ThrottleInv, UNCHANGED throttle PROVE ThrottleInv'
  BY DEF ThrottleInv, throttle

LEMMA InitThrottle == Init => ThrottleInv
  BY DEF Init, ThrottleInv

\* The function with no entries is the one in which no move is pending.
LEMMA EmptyIsNone == ASSUME NEW f PROVE [k \in {} |-> f[k]] = None
  BY SMT DEF None

\* After a flush nothing is pending, and the handle is gone: whether the timeout
\* fired or a commit flushed under it.
LEMMA FlushKeeps ==
  ASSUME ThrottleInv, NEW p \in Peers, FlushPending(p), timeouts' \in [Peers -> Nat],
         \A q \in Peers \ {p} : timeouts'[q] = timeouts[q]
  PROVE  ThrottleInv'
  BY DEF ThrottleInv, FlushPending

LEMMA TimeoutKeeps == ASSUME ThrottleInv, NEW p \in Peers, FlushTimeout(p) PROVE ThrottleInv'
<1>1. timeouts' \in [Peers -> Nat]
  BY DEF ThrottleInv, FlushTimeout
<1>2. \A q \in Peers \ {p} : timeouts'[q] = timeouts[q]
  BY DEF ThrottleInv, FlushTimeout
<1> QED BY <1>1, <1>2, FlushKeeps DEF FlushTimeout

LEMMA CommitKeeps == ASSUME ThrottleInv, NEW p \in Peers, OnCommit(p) PROVE ThrottleInv'
<1>1. timeouts' = timeouts
  BY DEF OnCommit
<1> QED BY <1>1, FlushKeeps DEF OnCommit, ThrottleInv

\* scheduleFlush arms a timeout exactly when no handle is kept.
LEMMA MoveKeeps == ASSUME ThrottleInv, NEW p \in Peers, OnMove(p) PROVE ThrottleInv'
<1>1. flushTimer' = [flushTimer EXCEPT ![p] = TRUE]
  BY DEF OnMove, ScheduleFlush
<1>2. timeouts' = IF flushTimer[p] THEN timeouts ELSE [timeouts EXCEPT ![p] = @ + 1]
  BY DEF OnMove, ScheduleFlush
<1>3. /\ DOMAIN pending' = Peers
      /\ \A q \in Peers \ {p} : pending'[q] = pending[q]
  BY DEF OnMove, ThrottleInv
<1>4. flushTimer'[p] /\ timeouts'[p] > 0
  BY <1>1, <1>2 DEF ThrottleInv
<1> QED BY <1>1, <1>2, <1>3, <1>4 DEF ThrottleInv

\* A shape that is deleted takes its move along, which leaves none where none was.
LEMMA DeleteKeeps == ASSUME ThrottleInv, NEW p \in Peers, OnDelete(p) PROVE ThrottleInv'
<1>1. ASSUME pending[p] = None PROVE pending'[p] = None
  <2>1. DOMAIN pending[p] = {} BY <1>1 DEF None
  <2> QED BY <2>1, EmptyIsNone DEF OnDelete, ThrottleInv
<1> QED BY <1>1 DEF ThrottleInv, OnDelete

LEMMA NextThrottle == ThrottleInv /\ [Next]_vars => ThrottleInv'
<1> SUFFICES ASSUME ThrottleInv, [Next]_vars PROVE ThrottleInv'
  OBVIOUS
<1>1. CASE UNCHANGED vars
  BY <1>1, SameThrottle DEF vars, worker, throttle
<1>2. ASSUME NEW p \in Peers, Worker(p) PROVE ThrottleInv'
  <2>1. ASSUME Initialize(p) \/ OnCreate(p) \/ OnSetText(p) \/ OnClear(p) \/ SeedIfMissing(p)
        PROVE  UNCHANGED throttle
    BY <2>1 DEF Initialize, OnCreate, OnSetText, OnClear, SeedIfMissing, throttle
  <2> QED BY <1>2, <2>1, SameThrottle, MoveKeeps, CommitKeeps, DeleteKeeps, TimeoutKeeps DEF Worker
<1>3. ASSUME NEW p \in Peers, Provider(p) PROVE UNCHANGED throttle
  BY <1>3 DEF Provider, Open, Drop, Fail, Retry, Socket, Deliver, throttle
<1>4. ASSUME NEW p \in Peers, Page(p) PROVE UNCHANGED throttle
  BY <1>4 DEF Page, Mount, ApplyFrame, OnStatus, Draw, PageStep, worker, throttle
<1>5. ASSUME NEW p \in Peers, User(p) PROVE UNCHANGED throttle
  <2>1. Input(p)
    BY <1>5 DEF User, DownRect, DownText, DownSelect, MoveRect, MoveDrag, UpRect, UpDrag,
                DoubleClick, SetTool, DeleteKey, DeleteButton, ClearButton, Type, CommitText
  <2> QED BY <2>1 DEF Input, PageStep, worker, throttle
<1>6. ASSUME NEW p \in Peers, OtherEdit(p) PROVE UNCHANGED throttle
  BY <1>6 DEF OtherEdit, worker, throttle
<1> QED BY <1>1, <1>2, <1>3, <1>4, <1>5, <1>6, SameThrottle DEF Next

\* A move the worker has taken has a timeout that will write it, although a
\* commit flushes without clearing the timeout (whiteboardWorker.ts:23-36).
THEOREM MovesAreWritten == Spec => []MoveIsTimed
<1>1. ThrottleInv => MoveIsTimed
  BY DEF ThrottleInv, MoveIsTimed
<1> QED BY <1>1, InitThrottle, NextThrottle, PTL DEF Spec

-----------------------------------------------------------------------------
(* Every action is of one peer: what it keeps for the others.               *)

\* A function that changed at p, or not at all.
OnlyAt(new, old, p) ==
    DOMAIN new = DOMAIN old /\ \A q \in DOMAIN old \ {p} : new[q] = old[q]

LEMMA SameOnly == ASSUME NEW old, NEW p PROVE OnlyAt(old, old, p)
  BY DEF OnlyAt

LocalDoc(p) == OnlyAt(writes', writes, p) /\ OnlyAt(dead', dead, p)

LocalWorker(p) ==
    /\ LocalDoc(p) /\ OnlyAt(pending', pending, p)
    /\ OnlyAt(provider', provider, p) /\ OnlyAt(toMain', toMain, p)

LocalPage(p) ==
    /\ OnlyAt(mounted', mounted, p) /\ OnlyAt(shapes', shapes, p) /\ OnlyAt(ui', ui, p)
    /\ OnlyAt(status', status, p) /\ OnlyAt(drawScheduled', drawScheduled, p)
    /\ OnlyAt(painted', painted, p)

Local(p) ==
    LocalWorker(p) /\ LocalPage(p) /\ OnlyAt(toWorker', toWorker, p) /\ UNCHANGED cast

LEMMA ToPageOnly == ASSUME NEW p, NEW m, ToPage(p, m) PROVE OnlyAt(toMain', toMain, p)
  BY DEF ToPage, OnlyAt

\* What a transaction does to the peer's own document and page: nothing, or a
\* frame of what it made of the board.
LEMMA TransactDoes ==
    ASSUME NEW p, NEW new, NEW gone, Transact(p, new, gone)
    PROVE  /\ LocalDoc(p) /\ OnlyAt(toMain', toMain, p)
           /\ \/ new = <<>> /\ gone = {} /\ UNCHANGED <<writes, dead, toMain>>
              \/ ToPage(p, FrameOf(Board(p)'))
<1>1. CASE new = <<>> /\ gone = {}
  BY <1>1 DEF Transact, LocalDoc, OnlyAt
<1>2. CASE ~ (new = <<>> /\ gone = {})
  <2>1. ToPage(p, FrameOf(Board(p)'))
    BY <1>2 DEF Transact
  <2>2. LocalDoc(p)
    <3>1. \E w, d : writes' = [writes EXCEPT ![p] = w] /\ dead' = [dead EXCEPT ![p] = d]
      BY <1>2 DEF Transact
    <3> QED
      BY <3>1 DEF LocalDoc, OnlyAt
  <2> QED
    BY <2>1, <2>2, ToPageOnly
<1> QED
  BY <1>1, <1>2

LEMMA PageUnchanged == ASSUME NEW p, UNCHANGED page PROVE LocalPage(p)
  BY DEF page, LocalPage, OnlyAt

LEMMA WorkerLocal == ASSUME NEW p, Worker(p) PROVE Local(p)
<1>1. UNCHANGED page /\ UNCHANGED cast
  BY DEF Worker, Initialize, OnMove, OnCommit, OnCreate, OnDelete, OnSetText, OnClear,
         FlushTimeout, SeedIfMissing, Receive
<1>2. OnlyAt(toWorker', toWorker, p)
  <2>1. toWorker' = toWorker \/ toWorker' = [toWorker EXCEPT ![p] = Tail(@)]
    BY DEF Worker, Initialize, OnMove, OnCommit, OnCreate, OnDelete, OnSetText, OnClear,
           FlushTimeout, SeedIfMissing, Receive
  <2> QED
    BY <2>1 DEF OnlyAt
<1>3. LocalWorker(p)
  <2>1. CASE Initialize(p)
    <3>1. provider' = provider \/ provider' = [provider EXCEPT ![p] = "connecting"]
      BY <2>1 DEF Initialize
    <3>2. OnlyAt(provider', provider, p)
      BY <3>1 DEF OnlyAt
    <3>3. OnlyAt(toMain', toMain, p)
      BY <2>1, ToPageOnly, SameOnly DEF Initialize
    <3> QED
      BY <2>1, <3>2, <3>3 DEF Initialize, LocalWorker, LocalDoc, OnlyAt
  <2>2. CASE OnMove(p)
    BY <2>2 DEF OnMove, LocalWorker, LocalDoc, OnlyAt
  <2>3. CASE OnCommit(p) \/ FlushTimeout(p)
    <3>1. FlushPending(p) /\ UNCHANGED provider
      BY <2>3 DEF OnCommit, FlushTimeout
    <3>2. LocalDoc(p) /\ OnlyAt(toMain', toMain, p)
      BY <3>1, TransactDoes DEF FlushPending
    <3> QED
      BY <3>1, <3>2 DEF FlushPending, LocalWorker, LocalDoc, OnlyAt
  <2>4. CASE OnDelete(p)
    <3>1. LocalDoc(p) /\ OnlyAt(toMain', toMain, p)
      BY <2>4, TransactDoes DEF OnDelete
    <3> QED
      BY <2>4, <3>1 DEF OnDelete, LocalWorker, LocalDoc, OnlyAt
  <2>5. CASE OnCreate(p) \/ OnSetText(p) \/ OnClear(p) \/ SeedIfMissing(p)
    <3>1. UNCHANGED <<pending, provider>> /\ \E new, gone : Transact(p, new, gone)
      BY <2>5 DEF OnCreate, OnSetText, OnClear, SeedIfMissing
    <3>2. LocalDoc(p) /\ OnlyAt(toMain', toMain, p)
      BY <3>1, TransactDoes
    <3> QED
      BY <3>1, <3>2 DEF LocalWorker, LocalDoc, OnlyAt
  <2> QED
    BY <2>1, <2>2, <2>3, <2>4, <2>5 DEF Worker
<1> QED
  BY <1>1, <1>2, <1>3, PageUnchanged DEF Local

\* What the document of p shows has not changed.
SameDoc(p) == Applied(p)' = Applied(p) /\ Present(p)' = Present(p)

LEMMA DocStays == ASSUME NEW p, writes'[p] = writes[p], dead'[p] = dead[p] PROVE SameDoc(p)
  BY DEF SameDoc, Present, Rightmost, Applied

\* A message of the relay that changes what the document shows posts a frame.
LEMMA DeliverDoes ==
    ASSUME NEW p, Deliver(p)
    PROVE  /\ LocalDoc(p) /\ OnlyAt(toMain', toMain, p)
           /\ \/ SameDoc(p) /\ UNCHANGED toMain
              \/ ToPage(p, FrameOf(Board(p)'))
<1>1. CASE UNCHANGED <<writes, dead, toMain>>
  BY <1>1, SameOnly, DocStays DEF LocalDoc
<1>2. ASSUME NEW w, NEW d, writes' = [writes EXCEPT ![p] = w], dead' = [dead EXCEPT ![p] = d]
      PROVE  LocalDoc(p)
  BY <1>2 DEF LocalDoc, OnlyAt
<1>3. \/ UNCHANGED <<writes, dead, toMain>>
      \/ /\ \E w, d : writes' = [writes EXCEPT ![p] = w] /\ dead' = [dead EXCEPT ![p] = d]
         /\ \/ SameDoc(p) /\ UNCHANGED toMain
            \/ ToPage(p, FrameOf(Board(p)'))
  BY DEF Deliver, SameDoc
<1> QED
  BY <1>1, <1>2, <1>3, ToPageOnly, SameOnly

LEMMA ProviderLocal == ASSUME NEW p, Provider(p) PROVE Local(p)
<1>1. UNCHANGED page /\ UNCHANGED cast /\ UNCHANGED toWorker /\ UNCHANGED pending
  BY DEF Provider, Open, Drop, Fail, Retry, Socket, Deliver, page
<1>2. OnlyAt(provider', provider, p)
  <2>1. provider' = provider \/ \E s : provider' = [provider EXCEPT ![p] = s]
    BY DEF Provider, Open, Drop, Fail, Retry, Socket, Deliver
  <2> QED
    BY <2>1 DEF OnlyAt
<1>3. LocalDoc(p) /\ OnlyAt(toMain', toMain, p)
  <2>1. CASE Deliver(p)
    BY <2>1, DeliverDoes
  <2>2. CASE ~Deliver(p)
    <3>1. UNCHANGED <<writes, dead>> /\ \E s : ToPage(p, Status(s))
      BY <2>2 DEF Provider, Open, Drop, Fail, Retry, Socket, PostStatus
    <3> QED
      BY <3>1, ToPageOnly, SameOnly DEF LocalDoc
  <2> QED
    BY <2>1, <2>2
<1> QED
  BY <1>1, <1>2, <1>3, PageUnchanged, SameOnly DEF Local, LocalWorker

LEMMA PageLocal == ASSUME NEW p, Page(p) PROVE Local(p)
<1>1. UNCHANGED worker /\ UNCHANGED cast
  BY DEF Page, Mount, ApplyFrame, OnStatus, Draw, PageStep
<1>2. OnlyAt(toMain', toMain, p) /\ OnlyAt(toWorker', toWorker, p)
  BY DEF Page, Mount, ApplyFrame, OnStatus, Draw, Post, OnlyAt
<1>3. OnlyAt(mounted', mounted, p) /\ OnlyAt(shapes', shapes, p)
  BY DEF Page, Mount, ApplyFrame, OnStatus, Draw, PageStep, OnlyAt
<1>4. OnlyAt(ui', ui, p) /\ OnlyAt(status', status, p)
  BY DEF Page, Mount, ApplyFrame, OnStatus, Draw, PageStep, OnlyAt
<1>5. OnlyAt(drawScheduled', drawScheduled, p) /\ OnlyAt(painted', painted, p)
  BY DEF Page, Mount, ApplyFrame, OnStatus, Draw, PageStep, ScheduleDraw, Repaint, OnlyAt
<1> QED
  BY <1>1, <1>2, <1>3, <1>4, <1>5, SameOnly DEF Local, LocalWorker, LocalDoc, LocalPage, worker

\* What the user does: he drags a shape, or changes React's state, and posts a
\* message or none.  The rectangle being drawn changes with a drawing asked for.
UiFields == {"tool", "drag", "rect", "selected", "editing", "typed"}

Posts(p) == UNCHANGED toWorker \/ \E m : Post(p, <<m>>)

SetsUi(p) == \E new, draw :
    /\ SetUi(p, new, draw)
    /\ DOMAIN new = UiFields
    /\ draw \/ new.rect = ui[p].rect

LEMMA UserDoes ==
    ASSUME NEW p, DOMAIN ui[p] = UiFields, User(p)
    PROVE  Input(p) /\ Posts(p) /\ (SetsUi(p) \/ MoveDrag(p))
<1>1. Input(p)
  BY DEF User, DownRect, DownText, DownSelect, MoveRect, MoveDrag, UpRect, UpDrag,
         DoubleClick, SetTool, DeleteKey, DeleteButton, ClearButton, Type, CommitText
<1>2. Posts(p)
  <2>1. CASE DownRect(p) \/ DownSelect(p) \/ MoveRect(p) \/ DoubleClick(p) \/ SetTool(p)
    BY <2>1 DEF DownRect, DownSelect, MoveRect, DoubleClick, SetTool, Posts
  <2>2. CASE DownText(p) \/ MoveDrag(p) \/ UpDrag(p)
    BY <2>2 DEF DownText, MoveDrag, UpDrag, Posts
  <2>3. CASE UpRect(p)
    BY <2>3 DEF UpRect, Posts
  <2>4. CASE DeleteKey(p) \/ DeleteButton(p) \/ ClearButton(p) \/ Type(p) \/ CommitText(p)
    BY <2>4 DEF DeleteKey, DeleteButton, ClearButton, Type, CommitText, Posts
  <2> QED
    BY <2>1, <2>2, <2>3, <2>4 DEF User
<1>3. ASSUME ~MoveDrag(p) PROVE SetsUi(p)
  <2>1. ASSUME NEW new, SetUi(p, new, FALSE), DOMAIN new = UiFields, new.rect = ui[p].rect
        PROVE  SetsUi(p)
    BY <2>1 DEF SetsUi
  <2>2. ASSUME NEW new, SetUi(p, new, TRUE), DOMAIN new = UiFields
        PROVE  SetsUi(p)
    BY <2>2 DEF SetsUi
  <2>3. CASE DownRect(p)
    <3>1. PICK x : SetUi(p, [ui[p] EXCEPT !.rect = [start |-> x, end |-> x, on |-> TRUE],
                                          !.selected = Nobody], TRUE)
      BY <2>3 DEF DownRect
    <3> DEFINE new == [ui[p] EXCEPT !.rect = [start |-> x, end |-> x, on |-> TRUE],
                                    !.selected = Nobody]
    <3>2. DOMAIN new = UiFields
      OBVIOUS
    <3> QED
      BY <2>2, <3>1, <3>2
  <2>4. CASE MoveRect(p)
    <3>1. PICK x : SetUi(p, [ui[p] EXCEPT !.rect.end = x], TRUE)
      BY <2>4 DEF MoveRect
    <3> DEFINE new == [ui[p] EXCEPT !.rect.end = x]
    <3>2. DOMAIN new = UiFields
      OBVIOUS
    <3> QED
      BY <2>2, <3>1, <3>2
  <2>5. CASE UpRect(p)
    <3>1. \/ SetUi(p, [ui[p] EXCEPT !.rect = NoRect], TRUE)
          \/ \E k : SetUi(p, [ui[p] EXCEPT !.rect = NoRect, !.selected = k,
                                           !.tool = "select"], TRUE)
      BY <2>5 DEF UpRect
    <3>2. CASE SetUi(p, [ui[p] EXCEPT !.rect = NoRect], TRUE)
      <4>1. DOMAIN [ui[p] EXCEPT !.rect = NoRect] = UiFields
        OBVIOUS
      <4> QED
        BY <2>2, <3>2, <4>1
    <3>3. ASSUME NEW k, SetUi(p, [ui[p] EXCEPT !.rect = NoRect, !.selected = k,
                                               !.tool = "select"], TRUE)
          PROVE  SetsUi(p)
      <4>1. DOMAIN [ui[p] EXCEPT !.rect = NoRect, !.selected = k, !.tool = "select"] = UiFields
        OBVIOUS
      <4> QED
        BY <2>2, <3>3, <4>1
    <3> QED
      BY <3>1, <3>2, <3>3
  <2>6. CASE DownText(p) \/ DownSelect(p) \/ UpDrag(p) \/ DoubleClick(p) \/ SetTool(p)
             \/ DeleteKey(p) \/ DeleteButton(p) \/ ClearButton(p) \/ Type(p) \/ CommitText(p)
    <3>1. ASSUME NEW a, NEW b, NEW c, SetUi(p, [ui[p] EXCEPT !.selected = a, !.editing = b,
                                                             !.typed = c], FALSE)
          PROVE  SetsUi(p)
      <4> DEFINE new == [ui[p] EXCEPT !.selected = a, !.editing = b, !.typed = c]
      <4>1. DOMAIN new = UiFields /\ new.rect = ui[p].rect
        BY DEF UiFields
      <4> QED
        BY <2>1, <3>1, <4>1
    <3>2. ASSUME NEW a, \/ SetUi(p, [ui[p] EXCEPT !.selected = a], FALSE)
                        \/ SetUi(p, [ui[p] EXCEPT !.editing = a], FALSE)
                        \/ SetUi(p, [ui[p] EXCEPT !.typed = a], FALSE)
                        \/ SetUi(p, [ui[p] EXCEPT !.tool = a], FALSE)
                        \/ SetUi(p, [ui[p] EXCEPT !.drag = a], FALSE)
          PROVE  SetsUi(p)
      <4>1. ASSUME NEW f \in {"selected", "editing", "typed", "tool", "drag"},
                   SetUi(p, [ui[p] EXCEPT ![f] = a], FALSE)
            PROVE  SetsUi(p)
        <5> DEFINE new == [ui[p] EXCEPT ![f] = a]
        <5>1. DOMAIN new = UiFields /\ new.rect = ui[p].rect
          BY DEF UiFields
        <5> QED
          BY <2>1, <4>1, <5>1
      <4> QED
        BY <3>2, <4>1
    <3>3. ASSUME NEW a, NEW b, SetUi(p, [ui[p] EXCEPT !.selected = a, !.drag = b], FALSE)
          PROVE  SetsUi(p)
      <4> DEFINE new == [ui[p] EXCEPT !.selected = a, !.drag = b]
      <4>1. DOMAIN new = UiFields /\ new.rect = ui[p].rect
        BY DEF UiFields
      <4> QED
        BY <2>1, <3>3, <4>1
    <3>4. CASE DownText(p) \/ DoubleClick(p)
      BY <3>1, <3>4 DEF DownText, DoubleClick
    <3>5. CASE DownSelect(p)
      BY <3>2, <3>3, <3>5 DEF DownSelect
    <3>6. CASE UpDrag(p) \/ SetTool(p) \/ Type(p) \/ CommitText(p)
      BY <3>2, <3>6 DEF UpDrag, SetTool, Type, CommitText
    <3>7. CASE DeleteKey(p) \/ DeleteButton(p) \/ ClearButton(p)
      BY <3>2, <3>7 DEF DeleteKey, DeleteButton, ClearButton
    <3> QED
      BY <2>6, <3>4, <3>5, <3>6, <3>7
  <2> QED
    BY <1>3, <2>3, <2>4, <2>5, <2>6 DEF User
<1> QED
  BY <1>1, <1>2, <1>3

\* The places of the page's copy during a drag of id to to.
Dragged(f, id, to) ==
    [i \in DOMAIN f.coords |-> IF i \in DOMAIN f.ids /\ f.ids[i] = id THEN to ELSE f.coords[i]]

LEMMA DragDoes ==
    ASSUME NEW p, MoveDrag(p)
    PROVE  \E to :
             /\ shapes' = [shapes EXCEPT ![p].coords = Dragged(shapes[p], ui[p].drag.id, to)]
             /\ \/ ScheduleDraw(p)
                \/ \A i \in DOMAIN shapes[p].ids : shapes[p].ids[i] # ui[p].drag.id
             /\ Post(p, <<[type |-> "move", id |-> ui[p].drag.id, x |-> to]>>)
<1>1. PICK x : LET to == x - ui[p].drag.offset
                   at == {i \in DOMAIN shapes[p].ids : shapes[p].ids[i] = ui[p].drag.id}
               IN  /\ shapes' = [shapes EXCEPT ![p].coords =
                                   [i \in DOMAIN @ |-> IF i \in at THEN to ELSE @[i]]]
                   /\ IF at = {} THEN UNCHANGED drawScheduled ELSE ScheduleDraw(p)
                   /\ Post(p, <<[type |-> "move", id |-> ui[p].drag.id, x |-> to]>>)
  BY DEF MoveDrag
<1> DEFINE to == x - ui[p].drag.offset
           at == {i \in DOMAIN shapes[p].ids : shapes[p].ids[i] = ui[p].drag.id}
           new == [i \in DOMAIN shapes[p].coords |-> IF i \in at THEN to ELSE shapes[p].coords[i]]
<1>2. shapes' = [shapes EXCEPT ![p].coords = new]
  BY <1>1
<1>3. IF at = {} THEN UNCHANGED drawScheduled ELSE ScheduleDraw(p)
  BY <1>1
<1>4. Post(p, <<[type |-> "move", id |-> ui[p].drag.id, x |-> to]>>)
  BY <1>1
<1> HIDE DEF to
<1>5. new = Dragged(shapes[p], ui[p].drag.id, to)
  BY DEF Dragged
<1>6. ScheduleDraw(p) \/ \A i \in DOMAIN shapes[p].ids : shapes[p].ids[i] # ui[p].drag.id
  BY <1>3
<1> HIDE DEF at, new
<1> QED
  BY <1>2, <1>4, <1>5, <1>6

LEMMA UserLocal == ASSUME NEW p, DOMAIN ui[p] = UiFields, User(p) PROVE Local(p)
<1>1. UNCHANGED <<worker, mounted, cast, toMain, status>>
  BY UserDoes DEF Input, PageStep
<1>2. OnlyAt(toWorker', toWorker, p)
  BY UserDoes DEF Posts, Post, OnlyAt
<1>3. CASE SetsUi(p)
  <2>1. PICK new, draw : SetUi(p, new, draw)
    BY <1>3 DEF SetsUi
  <2>2. OnlyAt(shapes', shapes, p) /\ OnlyAt(ui', ui, p)
    BY <2>1 DEF SetUi, OnlyAt
  <2>3. OnlyAt(drawScheduled', drawScheduled, p)
    BY <2>1 DEF SetUi, ScheduleDraw, OnlyAt
  <2>4. OnlyAt(painted', painted, p)
    BY <2>1 DEF SetUi, Repaint, OnlyAt
  <2> QED
    BY <1>1, <1>2, <2>2, <2>3, <2>4, SameOnly DEF Local, LocalWorker, LocalDoc, LocalPage, worker
<1>4. CASE MoveDrag(p)
  <2>1. OnlyAt(shapes', shapes, p) /\ UNCHANGED ui
    <3>1. PICK to : shapes' = [shapes EXCEPT ![p].coords = Dragged(shapes[p], ui[p].drag.id, to)]
      BY <1>4, DragDoes
    <3> QED
      BY <1>4, <3>1 DEF MoveDrag, OnlyAt
  <2>2. OnlyAt(drawScheduled', drawScheduled, p)
    BY <1>4 DEF MoveDrag, ScheduleDraw, OnlyAt
  <2>3. OnlyAt(painted', painted, p)
    BY <1>4 DEF MoveDrag, Repaint, OnlyAt
  <2> QED
    BY <1>1, <1>2, <2>1, <2>2, <2>3, SameOnly DEF Local, LocalWorker, LocalDoc, LocalPage, worker
<1> QED
  BY <1>3, <1>4, UserDoes

LEMMA OtherLocal == ASSUME NEW p, OtherEdit(p) PROVE Local(p) /\ Posts(p)
<1>1. UNCHANGED <<worker, page, toMain, cast>>
  BY DEF OtherEdit
<1>2. Posts(p) /\ OnlyAt(toWorker', toWorker, p)
  BY DEF OtherEdit, Posts, Post, OnlyAt
<1> QED
  BY <1>1, <1>2, SameOnly DEF Local, LocalWorker, LocalDoc, LocalPage, worker, page

-----------------------------------------------------------------------------
(* Queues.                                                                  *)

IsSeq(q) == \E S : q \in Seq(S)

LEMMA SeqIs ==
    ASSUME NEW q, IsSeq(q)
    PROVE  Len(q) \in Nat /\ DOMAIN q = 1 .. Len(q)
  BY LenProperties DEF IsSeq

LEMMA AppendIs ==
    ASSUME NEW q, IsSeq(q), NEW m
    PROVE  /\ IsSeq(Append(q, m))
           /\ DOMAIN Append(q, m) = 1 .. Len(q) + 1
           /\ \A i \in DOMAIN q : Append(q, m)[i] = q[i]
           /\ Append(q, m)[Len(q) + 1] = m
<1>1. PICK S : q \in Seq(S)
  BY DEF IsSeq
<1> DEFINE T == S \cup {m}
<1>2. q \in Seq(T)
  BY <1>1, SeqMonotonic
<1>3. m \in T
  OBVIOUS
<1> HIDE DEF T
<1>4. /\ Append(q, m) \in Seq(T) /\ Len(Append(q, m)) = Len(q) + 1
      /\ \A i \in 1 .. Len(q) : Append(q, m)[i] = q[i]
      /\ Append(q, m)[Len(q) + 1] = m
  BY <1>2, <1>3, AppendProperties
<1>5. DOMAIN Append(q, m) = 1 .. Len(q) + 1
  BY <1>4, LenProperties
<1> QED
  BY <1>4, <1>5, SeqIs DEF IsSeq

LEMMA PostIs == ASSUME NEW q, IsSeq(q), NEW m PROVE q \o <<m>> = Append(q, m)
<1>1. PICK S : q \in Seq(S)
  BY DEF IsSeq
<1> DEFINE T == S \cup {m}
<1>2. q \in Seq(T)
  BY <1>1, SeqMonotonic
<1> HIDE DEF T
<1> QED
  BY <1>2, AppendIsConcat DEF T

LEMMA TailIs ==
    ASSUME NEW q, IsSeq(q), q # <<>>
    PROVE  /\ IsSeq(Tail(q)) /\ 1 \in DOMAIN q /\ Head(q) = q[1]
           /\ Len(q) \in Nat /\ Len(q) > 0 /\ DOMAIN Tail(q) = 1 .. Len(q) - 1
           /\ \A i \in 1 .. Len(q) - 1 : Tail(q)[i] = q[i + 1]
<1>1. PICK S : q \in Seq(S)
  BY DEF IsSeq
<1>2. Tail(q) \in Seq(S) /\ Head(q) = q[1] /\ Len(Tail(q)) = Len(q) - 1
  BY <1>1, HeadTailProperties
<1>3. \A i \in 1 .. Len(q) - 1 : Tail(q)[i] = q[i + 1]
  BY <1>1, HeadTailProperties
<1>4. Len(q) \in Nat /\ Len(q) > 0 /\ DOMAIN q = 1 .. Len(q)
  BY <1>1, EmptySeq, LenProperties
<1>5. DOMAIN Tail(q) = 1 .. Len(q) - 1
  BY <1>2, LenProperties
<1> QED
  BY <1>2, <1>3, <1>4, <1>5 DEF IsSeq

\* The last message of a type, at i; and none.
IsLast(q, type, i) ==
    /\ i \in DOMAIN q /\ q[i].type = type
    /\ \A j \in DOMAIN q : j > i => q[j].type # type
Absent(q, type) == \A j \in DOMAIN q : q[j].type # type

LEMMA AppendLast ==
    ASSUME NEW q, IsSeq(q), NEW m, NEW type
    PROVE  /\ m.type = type => IsLast(Append(q, m), type, Len(q) + 1)
           /\ m.type # type => /\ Absent(q, type) => Absent(Append(q, m), type)
                               /\ \A i : IsLast(q, type, i) => IsLast(Append(q, m), type, i)
<1> DEFINE a == Append(q, m)
           n == Len(q)
<1>1. /\ n \in Nat /\ DOMAIN q = 1 .. n /\ DOMAIN a = 1 .. n + 1
      /\ \A i \in 1 .. n : a[i] = q[i]
      /\ a[n + 1] = m
  BY SeqIs, AppendIs
<1> HIDE DEF a, n
<1>2. ASSUME m.type = type PROVE IsLast(a, type, n + 1)
  BY <1>1, <1>2 DEF IsLast
<1>3. \A j \in 1 .. n + 1 : j \in 1 .. n \/ j = n + 1
  BY <1>1
<1>4. ASSUME m.type # type, Absent(q, type) PROVE Absent(a, type)
  BY <1>1, <1>3, <1>4 DEF Absent
<1>5. ASSUME m.type # type, NEW i, IsLast(q, type, i) PROVE IsLast(a, type, i)
  <2>1. i \in 1 .. n /\ i \in 1 .. n + 1 /\ a[i].type = type
    BY <1>1, <1>5 DEF IsLast
  <2>2. ASSUME NEW j \in 1 .. n + 1, j > i PROVE a[j].type # type
    BY <1>1, <1>3, <1>5, <2>2 DEF IsLast
  <2> QED
    BY <1>1, <2>1, <2>2 DEF IsLast
<1> QED
  BY <1>2, <1>4, <1>5 DEF a, n

LEMMA TailLast ==
    ASSUME NEW q, IsSeq(q), q # <<>>, NEW type
    PROVE  /\ Absent(q, type) => Absent(Tail(q), type)
           /\ \A i : IsLast(q, type, i) =>
                \/ i = 1 /\ Head(q).type = type /\ Absent(Tail(q), type)
                \/ i - 1 \in DOMAIN Tail(q) /\ IsLast(Tail(q), type, i - 1) /\ Tail(q)[i - 1] = q[i]
<1> DEFINE t == Tail(q)
           n == Len(q)
<1>1. /\ n \in Nat /\ n > 0 /\ DOMAIN q = 1 .. n /\ DOMAIN t = 1 .. n - 1 /\ Head(q) = q[1]
      /\ \A i \in 1 .. n - 1 : t[i] = q[i + 1]
  BY SeqIs, TailIs
<1> HIDE DEF t, n
<1>2. \A j \in 1 .. n - 1 : j + 1 \in 1 .. n /\ t[j] = q[j + 1]
  BY <1>1
<1>3. ASSUME Absent(q, type) PROVE Absent(t, type)
  BY <1>1, <1>2, <1>3 DEF Absent
<1>4. ASSUME NEW i, IsLast(q, type, i)
      PROVE  \/ i = 1 /\ Head(q).type = type /\ Absent(t, type)
             \/ i - 1 \in DOMAIN t /\ IsLast(t, type, i - 1) /\ t[i - 1] = q[i]
  <2>1. i \in 1 .. n /\ q[i].type = type
    BY <1>1, <1>4 DEF IsLast
  <2>2. ASSUME NEW j \in 1 .. n - 1, j + 1 > i PROVE t[j].type # type
    BY <1>1, <1>2, <1>4, <2>2 DEF IsLast
  <2>3. CASE i = 1
    <3>1. \A j \in 1 .. n - 1 : j + 1 > i
      BY <1>1, <2>3
    <3> QED
      BY <1>1, <2>1, <2>2, <2>3, <3>1 DEF Absent
  <2>4. CASE i # 1
    <3>1. i - 1 \in 1 .. n - 1 /\ (i - 1) + 1 = i
      BY <1>1, <2>1, <2>4
    <3>2. t[i - 1] = q[i]
      BY <1>1, <3>1
    <3>3. \A j \in 1 .. n - 1 : j > i - 1 => j + 1 > i
      BY <1>1, <2>1
    <3> QED
      BY <1>1, <2>1, <2>2, <3>1, <3>2, <3>3 DEF IsLast
  <2> QED
    BY <2>3, <2>4
<1> QED
  BY <1>3, <1>4 DEF t

LEMMA TailLastAt ==
    ASSUME NEW q, IsSeq(q), q # <<>>, NEW type, NEW i, IsLast(q, type, i)
    PROVE  \/ i = 1 /\ Head(q).type = type /\ Absent(Tail(q), type)
           \/ IsLast(Tail(q), type, i - 1) /\ Tail(q)[i - 1] = q[i]
  BY TailLast

-----------------------------------------------------------------------------
(* Frames.                                                                  *)

LEMMA PlaceIsNumber ==
    ASSUME NEW S \in SUBSET Nat, IsFiniteSet(S), NEW k \in S
    PROVE  Place(k, S) \in 1 .. Cardinality(S)
<1> DEFINE below == {j \in S : j <= k}
<1>1. below \in SUBSET S /\ k \in below
  OBVIOUS
<1>2. IsFiniteSet(below) /\ Cardinality(below) <= Cardinality(S)
  BY <1>1, FS_Subset
<1>3. Cardinality(below) \in Nat /\ Cardinality(S) \in Nat
  BY <1>2, FS_CardinalityType
<1>4. Cardinality(below) # 0
  BY <1>1, <1>2, FS_EmptySet
<1>5. Place(k, S) = Cardinality(below)
  BY DEF Place
<1> HIDE DEF below
<1> QED
  BY <1>2, <1>3, <1>4, <1>5

LEMMA GreaterIsLater ==
    ASSUME NEW S \in SUBSET Nat, IsFiniteSet(S), NEW j \in S, NEW k \in S, j < k
    PROVE  Place(j, S) < Place(k, S)
<1> DEFINE J == {i \in S : i <= j}
           K == {i \in S : i <= k}
<1>1. K \in SUBSET S /\ J \in SUBSET K
  <2>1. \A i \in S : i \in Nat /\ (i <= j => i <= k)
    OBVIOUS
  <2> QED
    BY <2>1
<1>2. k \in K /\ k \notin J
  OBVIOUS
<1>3. Place(j, S) = Cardinality(J) /\ Place(k, S) = Cardinality(K)
  BY DEF Place
<1> HIDE DEF J, K
<1>4. IsFiniteSet(K)
  BY <1>1, FS_Subset
<1>5. IsFiniteSet(J) /\ Cardinality(J) <= Cardinality(K) /\ Cardinality(J) # Cardinality(K)
  BY <1>1, <1>2, <1>4, FS_Subset
<1>6. Cardinality(J) \in Nat /\ Cardinality(K) \in Nat
  BY <1>4, <1>5, FS_CardinalityType
<1> QED
  BY <1>3, <1>5, <1>6

\* Sorted lists ids of the set: each place is taken.
LEMMA SortedIn ==
    ASSUME NEW S \in SUBSET Nat, IsFiniteSet(S), NEW n \in 1 .. Cardinality(S)
    PROVE  Sorted(S)[n] \in S
<1> DEFINE f == [k \in S |-> Place(k, S)]
           T == 1 .. Cardinality(S)
<1>1. Cardinality(S) \in Nat
  BY FS_CardinalityType
<1>2. IsFiniteSet(T) /\ Cardinality(T) = Cardinality(S)
  BY <1>1, FS_Interval
<1>3. f \in [S -> T]
  BY PlaceIsNumber
<1>4. ASSUME NEW j \in S, NEW k \in S, f[j] = f[k] PROVE j = k
  <2>1. Place(j, S) = Place(k, S) /\ Place(j, S) \in Nat
    BY <1>1, <1>4, PlaceIsNumber
  <2>2. ~(j < k) /\ ~(k < j)
    BY <2>1, GreaterIsLater
  <2> QED
    BY <2>2
<1> HIDE DEF f
<1>5. f \in Injection(S, T)
  BY <1>3, <1>4 DEF Injection, IsInjective
<1> HIDE DEF T
<1>6. f \in Surjection(S, T)
  BY <1>2, <1>5, FS_Injection
<1>7. \E k \in S : f[k] = n
  BY <1>6 DEF Surjection, T
<1>8. \E k \in S : Place(k, S) = n
  BY <1>7 DEF f
<1>9. Sorted(S)[n] = CHOOSE k \in S : Place(k, S) = n
  BY DEF Sorted
<1> QED
  BY <1>8, <1>9

FrameShape(f) ==
    /\ f = [ids |-> f.ids, kinds |-> f.kinds, texts |-> f.texts, coords |-> f.coords]
    /\ f.coords = [i \in DOMAIN f.coords |-> f.coords[i]]

\* A frame lists shapes of the board it was packed from.
LEMMA PackIs ==
    ASSUME NEW b, DOMAIN b \in SUBSET Nat, IsFiniteSet(DOMAIN b)
    PROVE  /\ FrameShape(Pack(b))
           /\ DOMAIN Pack(b).coords = DOMAIN Pack(b).ids
           /\ \A i \in DOMAIN Pack(b).ids : Pack(b).ids[i] \in DOMAIN b
<1> DEFINE ids == Sorted(DOMAIN b)
<1>1. Pack(b) = [ids |-> ids,
                 kinds |-> [i \in DOMAIN ids |-> b[ids[i]].kind],
                 texts |-> [i \in DOMAIN ids |-> b[ids[i]].text],
                 coords |-> [i \in DOMAIN ids |-> b[ids[i]].x]]
  BY DEF Pack
<1>2. DOMAIN ids = 1 .. Cardinality(DOMAIN b)
  BY DEF Sorted
<1>3. \A i \in DOMAIN ids : ids[i] \in DOMAIN b
  BY <1>2, SortedIn
<1> HIDE DEF ids
<1> QED
  BY <1>1, <1>3 DEF FrameShape

LEMMA BoardPacks ==
    ASSUME NEW p
    PROVE  /\ FrameShape(Pack(Board(p)))
           /\ DOMAIN Pack(Board(p)).coords = DOMAIN Pack(Board(p)).ids
           /\ \A i \in DOMAIN Pack(Board(p)).ids : Pack(Board(p)).ids[i] \in Present(p)
<1>1. DOMAIN Board(p) = Present(p)
  BY DEF Board
<1>2. Present(p) \subseteq Ids
  BY DEF Present
<1>3. Present(p) \in SUBSET Nat /\ IsFiniteSet(Present(p))
  BY <1>2, FS_Subset, WhiteboardAssumption DEF WhiteboardAssumption
<1> QED
  BY <1>1, <1>3, PackIs

BoardsPacked == \A q : FrameShape(Pack(Board(q)))

LEMMA BoardsPack == BoardsPacked
  BY BoardPacks DEF BoardsPacked

-----------------------------------------------------------------------------
(* The page and its worker.                                                 *)

\* A shape that is being moved ahead of the document: the move is on its way
\* to the worker, or waits there to be written.
IsMoving(p, k) ==
    \/ k \in DOMAIN pending[p]
    \/ \E i \in DOMAIN toWorker[p] : toWorker[p][i].type = "move" /\ toWorker[p][i].id = k

\* The frame f shows what now does, but for shapes that are being moved.
Near(p, f, now) ==
    /\ f.ids = now.ids /\ f.kinds = now.kinds /\ f.texts = now.texts
    /\ DOMAIN f.coords = DOMAIN now.coords
    /\ \A i \in DOMAIN now.coords : IsMoving(p, now.ids[i]) \/ f.coords[i] = now.coords[i]

LastFrameIs(q, f) == \E i : IsLast(q, "frame", i) /\ q[i].frame = f

\* The board is in the last frame on its way to the page, or on the page.
ShownInv(p) ==
    \/ provider[p] = "none"
    \/ Absent(toMain[p], "frame") /\ Near(p, shapes[p], Pack(Board(p)))
    \/ LastFrameIs(toMain[p], Pack(Board(p)))

\* What the messages of the queue q make of the status s tells whether open.
Tells(q, s, open) ==
    \/ Absent(q, "status") /\ (s = "open" <=> open)
    \/ \E i : IsLast(q, "status", i) /\ (q[i].state = "open" <=> open)

StatusInv(p) == Tells(toMain[p], status[p], provider[p] = "open")

\* The page's first message starts the worker.
FirstInv(p) ==
    provider[p] = "none" =>
        IF mounted[p] THEN toWorker[p] # <<>> /\ Head(toWorker[p]).type = "init"
        ELSE toWorker[p] = <<>>

PaintInv(p) == mounted[p] /\ p \in cast.canvases => painted[p] \/ drawScheduled[p]

FramesOK(q) == \A i \in DOMAIN q : q[i].type = "frame" => FrameShape(q[i].frame)

PageInv(p) ==
    /\ IsSeq(toMain[p]) /\ IsSeq(toWorker[p]) /\ painted[p] \in BOOLEAN
    /\ FrameShape(shapes[p]) /\ FramesOK(toMain[p])
    /\ ShownInv(p) /\ StatusInv(p) /\ FirstInv(p) /\ PaintInv(p)

PeersInv ==
    /\ cast \in Casts
    /\ DOMAIN writes = Peers /\ DOMAIN dead = Peers
    /\ DOMAIN pending = Peers /\ DOMAIN provider = Peers
    /\ DOMAIN toWorker = Peers /\ DOMAIN toMain = Peers /\ DOMAIN mounted = Peers
    /\ DOMAIN shapes = Peers /\ DOMAIN ui = Peers /\ DOMAIN status = Peers
    /\ DOMAIN drawScheduled = Peers /\ DOMAIN painted = Peers
    /\ \A p \in Peers : DOMAIN ui[p] = UiFields

\* The peer p has the state it had.
Same(p) ==
    /\ writes'[p] = writes[p] /\ dead'[p] = dead[p]
    /\ pending'[p] = pending[p] /\ provider'[p] = provider[p]
    /\ toWorker'[p] = toWorker[p] /\ toMain'[p] = toMain[p] /\ mounted'[p] = mounted[p]
    /\ shapes'[p] = shapes[p] /\ status'[p] = status[p]
    /\ drawScheduled'[p] = drawScheduled[p] /\ painted'[p] = painted[p]

LEMMA LocalKeepsOthers ==
    ASSUME PeersInv, NEW p \in Peers, Local(p), NEW q \in Peers, q # p
    PROVE  Same(q) /\ ui'[q] = ui[q]
  BY DEF PeersInv, Local, LocalWorker, LocalDoc, LocalPage, OnlyAt, Same

LEMMA SameBoard == ASSUME NEW p, SameDoc(p) PROVE Board(p)' = Board(p)
  BY DEF SameDoc, Board, Item, Rightmost

LEMMA SameKeeps == ASSUME NEW p, PageInv(p), Same(p), UNCHANGED cast PROVE PageInv(p)'
<1>1. Board(p)' = Board(p)
  BY SameBoard, DocStays DEF Same
<1>2. \A k : IsMoving(p, k)' <=> IsMoving(p, k)
  BY DEF IsMoving, Same
<1>3. ShownInv(p)'
  <2>1. ShownInv(p)
    BY DEF PageInv
  <2>2. Near(p, shapes[p], Pack(Board(p))) => Near(p, shapes[p], Pack(Board(p)))'
    BY <1>1, <1>2 DEF Near, Same
  <2> QED
    BY <1>1, <2>1, <2>2 DEF ShownInv, Same
<1>4. StatusInv(p)' /\ FirstInv(p)' /\ PaintInv(p)'
  BY DEF PageInv, StatusInv, FirstInv, PaintInv, Same
<1> QED
  BY <1>3, <1>4 DEF PageInv, Same

\* What the queue to the page says after one more message.
LEMMA FramePosted ==
    ASSUME NEW q, IsSeq(q), NEW f, FrameShape(f), FramesOK(q)
    PROVE  LET a == Append(q, [type |-> "frame", frame |-> f])
           IN  /\ IsSeq(a) /\ FramesOK(a) /\ LastFrameIs(a, f)
               /\ \A s, open : Tells(q, s, open) => Tells(a, s, open)
<1> DEFINE m == [type |-> "frame", frame |-> f]
           a == Append(q, m)
           n == Len(q)
<1>1. m.type = "frame" /\ m.frame = f /\ m.type # "status"
  OBVIOUS
<1>2. /\ IsSeq(a) /\ DOMAIN q = 1 .. n /\ DOMAIN a = 1 .. n + 1 /\ n \in Nat
      /\ \A i \in DOMAIN q : a[i] = q[i]
      /\ a[n + 1] = m
  BY SeqIs, AppendIs
<1>3. IsLast(a, "frame", n + 1)
  BY <1>1, AppendLast
<1>4. /\ Absent(q, "status") => Absent(a, "status")
      /\ \A i : IsLast(q, "status", i) => IsLast(a, "status", i)
  <2> HIDE DEF m
  <2> QED
    BY <1>1, AppendLast
<1> HIDE DEF m, a, n
<1>5. LastFrameIs(a, f)
  BY <1>1, <1>2, <1>3 DEF LastFrameIs
<1>6. FramesOK(a)
  <2>1. \A i \in 1 .. n + 1 : i \in 1 .. n \/ i = n + 1
    BY <1>2
  <2> QED
    BY <1>1, <1>2, <2>1 DEF FramesOK
<1>7. ASSUME NEW s, NEW open, Tells(q, s, open) PROVE Tells(a, s, open)
  <2>1. \A i : IsLast(q, "status", i) => a[i] = q[i]
    BY <1>2 DEF IsLast
  <2> QED
    BY <1>4, <1>7, <2>1 DEF Tells
<1> QED
  BY <1>2, <1>5, <1>6, <1>7 DEF a, m

LEMMA StatusPosted ==
    ASSUME NEW q, IsSeq(q), NEW state, FramesOK(q), NEW a, a = Append(q, Status(state))
    PROVE  /\ IsSeq(a) /\ FramesOK(a)
           /\ \A s : Tells(a, s, state = "open")
           /\ Absent(q, "frame") => Absent(a, "frame")
           /\ \A f : LastFrameIs(q, f) => LastFrameIs(a, f)
<1> DEFINE m == Status(state)
           n == Len(q)
<1>0. a = Append(q, m)
  OBVIOUS
<1>1. m.type = "status" /\ m.state = state /\ m.type # "frame"
  BY DEF Status
<1>2. /\ IsSeq(a) /\ DOMAIN q = 1 .. n /\ DOMAIN a = 1 .. n + 1 /\ n \in Nat
      /\ \A i \in DOMAIN q : a[i] = q[i]
      /\ a[n + 1] = m
  BY SeqIs, AppendIs
<1>3. IsLast(a, "status", n + 1)
  BY <1>1, AppendLast
<1>4. /\ Absent(q, "frame") => Absent(a, "frame")
      /\ \A i : IsLast(q, "frame", i) => IsLast(a, "frame", i)
  <2> HIDE DEF m
  <2>1. "frame" # m.type
    BY <1>1
  <2> QED
    BY <1>0, <2>1, AppendLast
<1> HIDE DEF m, n
<1>5. \A s : Tells(a, s, state = "open")
  BY <1>1, <1>2, <1>3 DEF Tells
<1>6. FramesOK(a)
  <2>1. \A i \in 1 .. n + 1 : i \in 1 .. n \/ i = n + 1
    BY <1>2
  <2> QED
    BY <1>1, <1>2, <2>1 DEF FramesOK
<1>7. ASSUME NEW f, LastFrameIs(q, f) PROVE LastFrameIs(a, f)
  <2>1. \A i : IsLast(q, "frame", i) => a[i] = q[i]
    BY <1>2 DEF IsLast
  <2> QED
    BY <1>4, <1>7, <2>1 DEF LastFrameIs
<1> QED
  BY <1>2, <1>4, <1>5, <1>6, <1>7

\* The worker does its part: it posts a frame of what it made of the board, or
\* leaves the board alone and forgets no move of a shape that is there.
LEMMA WorkerKeeps ==
    ASSUME PeersInv, NEW p \in Peers, p \in cast.pages, PageInv(p),
           UNCHANGED page, UNCHANGED cast, provider'[p] = provider[p], IsSeq(toWorker'[p]),
           provider[p] # "none" \/ toWorker'[p] = toWorker[p],
           \/ ToPage(p, FrameOf(Board(p)'))
           \/ /\ UNCHANGED toMain /\ SameDoc(p)
              /\ \A k \in Present(p) : IsMoving(p, k) => IsMoving(p, k)'
    PROVE  PageInv(p)'
<1>1. /\ mounted' = mounted /\ shapes' = shapes /\ status' = status
      /\ drawScheduled' = drawScheduled /\ painted' = painted
  BY DEF page
<1>2. FirstInv(p)' /\ PaintInv(p)'
  BY <1>1 DEF PageInv, FirstInv, PaintInv
<1>3. IsSeq(toMain[p]) /\ FramesOK(toMain[p]) /\ Tells(toMain[p], status[p], provider[p] = "open")
  BY DEF PageInv, StatusInv
<1>4. CASE ToPage(p, FrameOf(Board(p)'))
  <2> DEFINE f == Pack(Board(p))'
  <2>1. toMain'[p] = Append(toMain[p], [type |-> "frame", frame |-> f])
    BY <1>4 DEF ToPage, FrameOf, PeersInv
  <2>2. FrameShape(f)
    <3>1. BoardsPacked'
      BY BoardsPack, PTL
    <3> QED
      BY <3>1 DEF BoardsPacked
  <2> HIDE DEF f
  <2>3. /\ IsSeq(toMain'[p]) /\ FramesOK(toMain'[p]) /\ LastFrameIs(toMain'[p], f)
        /\ Tells(toMain'[p], status[p], provider[p] = "open")
    BY <1>3, <2>1, <2>2, FramePosted
  <2> QED
    BY <1>1, <1>2, <2>3 DEF PageInv, ShownInv, StatusInv, f
<1>5. CASE /\ UNCHANGED toMain /\ SameDoc(p)
           /\ \A k \in Present(p) : IsMoving(p, k) => IsMoving(p, k)'
  <2>1. Board(p)' = Board(p)
    BY <1>5, SameBoard, DocStays
  <2>2. Near(p, shapes[p], Pack(Board(p))) => Near(p, shapes[p], Pack(Board(p)))'
    BY <1>1, <1>5, <2>1, BoardPacks DEF Near
  <2> QED
    BY <1>1, <1>2, <1>5, <2>1, <2>2 DEF PageInv, ShownInv, StatusInv
<1> QED
  BY <1>4, <1>5

\* The worker takes a message: what moves, but for the message itself, moves on.
LEMMA Received ==
    ASSUME PeersInv, NEW p \in Peers, PageInv(p), NEW type, Receive(p, type)
    PROVE  /\ UNCHANGED page /\ UNCHANGED cast
           /\ IsSeq(toWorker[p]) /\ toWorker[p] # <<>> /\ IsSeq(toWorker'[p])
           /\ type # "init" => provider[p] # "none"
           /\ \A i \in DOMAIN toWorker[p] :
                i # 1 => \E j \in DOMAIN toWorker'[p] : toWorker'[p][j] = toWorker[p][i]
           /\ toWorker[p][1] = Msg(p) /\ Msg(p).type = type
<1>1. UNCHANGED page /\ UNCHANGED cast /\ toWorker[p] # <<>> /\ IsSeq(toWorker[p])
  BY DEF Receive, PageInv
<1>2. toWorker'[p] = Tail(toWorker[p]) /\ Msg(p) = toWorker[p][1] /\ Msg(p).type = type
  BY <1>1, TailIs DEF Receive, PeersInv, Msg
<1>3. type # "init" => provider[p] # "none"
  BY <1>1, <1>2 DEF PageInv, FirstInv, Msg
<1> DEFINE q == toWorker[p]
           n == Len(q)
<1>4. /\ IsSeq(Tail(q)) /\ n \in Nat /\ DOMAIN q = 1 .. n /\ DOMAIN Tail(q) = 1 .. n - 1
      /\ \A i \in 1 .. n - 1 : Tail(q)[i] = q[i + 1]
  BY <1>1, SeqIs, TailIs
<1>5. ASSUME NEW i \in 1 .. n, i # 1
      PROVE  \E j \in 1 .. n - 1 : Tail(q)[j] = q[i]
  <2>1. i - 1 \in 1 .. n - 1 /\ (i - 1) + 1 = i
    BY <1>4, <1>5
  <2> QED
    BY <1>4, <2>1
<1> QED
  BY <1>1, <1>2, <1>3, <1>4, <1>5

\* Moves in the queue stay there when the message taken is no move.
LEMMA QueuedMovesStay ==
    ASSUME PeersInv, NEW p \in Peers, PageInv(p), NEW type, Receive(p, type), type # "move",
           NEW k, IsMoving(p, k), k \in DOMAIN pending[p] => k \in DOMAIN pending'[p]
    PROVE  IsMoving(p, k)'
<1>1. CASE k \in DOMAIN pending[p]
  BY <1>1 DEF IsMoving
<1>2. CASE k \notin DOMAIN pending[p]
  <2>1. PICK i \in DOMAIN toWorker[p] : toWorker[p][i].type = "move" /\ toWorker[p][i].id = k
    BY <1>2 DEF IsMoving
  <2>2. i # 1
    BY <2>1, Received
  <2>3. PICK j \in DOMAIN toWorker'[p] : toWorker'[p][j] = toWorker[p][i]
    BY <2>2, Received
  <2> QED
    BY <2>1, <2>3 DEF IsMoving
<1> QED
  BY <1>1, <1>2

LEMMA InitializePage ==
    ASSUME PeersInv, NEW p \in Peers, p \in cast.pages, PageInv(p), Initialize(p)
    PROVE  PageInv(p)'
<1>1. Receive(p, "init") /\ UNCHANGED <<writes, dead, pending>>
  BY DEF Initialize
<1>2. /\ UNCHANGED page /\ UNCHANGED cast /\ IsSeq(toWorker'[p])
  BY <1>1, Received
<1>3. Board(p)' = Board(p) /\ SameDoc(p)
  BY <1>1, SameBoard, DocStays
<1>4. CASE provider[p] # "none"
  <2>1. UNCHANGED <<provider, toMain>>
    BY <1>4 DEF Initialize
  <2>2. \A k \in Present(p) : IsMoving(p, k) => IsMoving(p, k)'
    BY <1>1, QueuedMovesStay
  <2> QED
    BY <1>2, <1>3, <1>4, <2>1, <2>2, DocStays, WorkerKeeps
<1>5. CASE provider[p] = "none"
  <2>1. provider'[p] = "connecting" /\ ToPage(p, FrameOf(Board(p)))
    BY <1>5 DEF Initialize, PeersInv
  <2> DEFINE f == Pack(Board(p))
  <2>2. toMain'[p] = Append(toMain[p], [type |-> "frame", frame |-> f]) /\ FrameShape(f)
    BY <2>1, BoardsPack DEF ToPage, FrameOf, PeersInv, BoardsPacked
  <2>3. /\ IsSeq(toMain[p]) /\ FramesOK(toMain[p])
        /\ Tells(toMain[p], status[p], provider[p] = "open")
    BY DEF PageInv, StatusInv
  <2>4. f = Pack(Board(p))'
    BY <1>3
  <2> HIDE DEF f
  <2>5. /\ IsSeq(toMain'[p]) /\ FramesOK(toMain'[p]) /\ LastFrameIs(toMain'[p], f)
        /\ Tells(toMain'[p], status[p], provider[p] = "open")
    BY <2>2, <2>3, FramePosted
  <2>6. (provider[p] = "open") = (provider'[p] = "open")
    BY <1>5, <2>1
  <2>7. /\ mounted' = mounted /\ shapes' = shapes /\ status' = status
        /\ drawScheduled' = drawScheduled /\ painted' = painted
    BY <1>2 DEF page
  <2>8. ShownInv(p)' /\ StatusInv(p)'
    BY <2>4, <2>5, <2>6, <2>7 DEF ShownInv, StatusInv
  <2>9. FirstInv(p)' /\ PaintInv(p)'
    BY <1>2, <2>1, <2>7 DEF FirstInv, PaintInv, PageInv
  <2> QED
    BY <1>2, <2>5, <2>7, <2>8, <2>9 DEF PageInv
<1> QED
  BY <1>4, <1>5

LEMMA FlushPage ==
    ASSUME PeersInv, NEW p \in Peers, p \in cast.pages, PageInv(p), OnCommit(p) \/ FlushTimeout(p)
    PROVE  PageInv(p)'
<1>1. FlushPending(p) /\ UNCHANGED provider /\ UNCHANGED page /\ UNCHANGED cast
  BY DEF OnCommit, FlushTimeout, Receive
<1>2. /\ IsSeq(toWorker'[p])
      /\ provider[p] # "none" \/ toWorker'[p] = toWorker[p]
  BY Received DEF OnCommit, FlushTimeout, PageInv
<1> DEFINE new == [k \in DOMAIN pending[p] \cap Present(p) |->
                     [Board(p)[k] EXCEPT !.x = pending[p][k]]]
<1>3. Transact(p, new, {})
  BY <1>1 DEF FlushPending
<1>4. CASE ToPage(p, FrameOf(Board(p)'))
  BY <1>1, <1>2, <1>4, WorkerKeeps
<1>5. CASE new = <<>> /\ UNCHANGED <<writes, dead, toMain>>
  <2>1. DOMAIN pending[p] \cap Present(p) = {}
    <3>1. DOMAIN new = DOMAIN pending[p] \cap Present(p)
      OBVIOUS
    <3> HIDE DEF new
    <3> QED
      BY <1>5, <3>1
  <2>2. ASSUME NEW k \in Present(p), IsMoving(p, k) PROVE IsMoving(p, k)'
    <3>1. k \notin DOMAIN pending[p]
      BY <2>1, <2>2
    <3>2. CASE OnCommit(p)
      BY <2>2, <3>1, <3>2, QueuedMovesStay DEF OnCommit
    <3>3. CASE FlushTimeout(p)
      BY <2>2, <3>1, <3>3 DEF FlushTimeout, IsMoving
    <3> QED
      BY <3>2, <3>3
  <2> QED
    BY <1>1, <1>2, <1>5, <2>2, DocStays, WorkerKeeps
<1> QED
  BY <1>3, <1>4, <1>5, TransactDoes

LEMMA MovePage ==
    ASSUME PeersInv, NEW p \in Peers, p \in cast.pages, PageInv(p), OnMove(p)
    PROVE  PageInv(p)'
<1>1. Receive(p, "move") /\ UNCHANGED <<writes, dead, provider, toMain>>
  BY DEF OnMove
<1>2. DOMAIN pending'[p] = DOMAIN pending[p] \cup {Msg(p).id}
  BY DEF OnMove, PeersInv
<1>3. ASSUME NEW k, IsMoving(p, k) PROVE IsMoving(p, k)'
  <2>1. CASE k \in DOMAIN pending'[p]
    BY <2>1 DEF IsMoving
  <2>2. CASE k \notin DOMAIN pending'[p]
    <3>1. PICK i \in DOMAIN toWorker[p] : toWorker[p][i].type = "move" /\ toWorker[p][i].id = k
      BY <1>2, <1>3, <2>2 DEF IsMoving
    <3>2. i # 1
      BY <1>1, <1>2, <2>2, <3>1, Received
    <3>3. PICK j \in DOMAIN toWorker'[p] : toWorker'[p][j] = toWorker[p][i]
      BY <1>1, <3>2, Received
    <3> QED
      BY <3>1, <3>3 DEF IsMoving
  <2> QED
    BY <2>1, <2>2
<1>4. UNCHANGED page /\ UNCHANGED cast /\ IsSeq(toWorker'[p]) /\ provider[p] # "none"
  BY <1>1, Received
<1> QED
  BY <1>1, <1>3, <1>4, DocStays, WorkerKeeps

LEMMA DeletePage ==
    ASSUME PeersInv, NEW p \in Peers, p \in cast.pages, PageInv(p), OnDelete(p)
    PROVE  PageInv(p)'
<1>1. Receive(p, "delete") /\ UNCHANGED provider /\ Transact(p, None, {Msg(p).id} \cap Present(p))
  BY DEF OnDelete
<1>2. UNCHANGED page /\ UNCHANGED cast /\ IsSeq(toWorker'[p]) /\ provider[p] # "none"
  BY <1>1, Received
<1>3. DOMAIN pending'[p] = DOMAIN pending[p] \ {Msg(p).id}
  BY DEF OnDelete, PeersInv
<1>4. CASE ToPage(p, FrameOf(Board(p)'))
  BY <1>1, <1>2, <1>4, WorkerKeeps
<1>5. CASE {Msg(p).id} \cap Present(p) = {} /\ UNCHANGED <<writes, dead, toMain>>
  <2>1. ASSUME NEW k \in Present(p), IsMoving(p, k) PROVE IsMoving(p, k)'
    <3>1. k \in DOMAIN pending[p] => k \in DOMAIN pending'[p]
      BY <1>3, <1>5
    <3> QED
      BY <1>1, <2>1, <3>1, QueuedMovesStay
  <2> QED
    BY <1>1, <1>2, <1>5, <2>1, DocStays, WorkerKeeps
<1> QED
  BY <1>1, <1>4, <1>5, TransactDoes

LEMMA EditPage ==
    ASSUME PeersInv, NEW p \in Peers, p \in cast.pages, PageInv(p),
           OnCreate(p) \/ OnSetText(p) \/ OnClear(p) \/ SeedIfMissing(p)
    PROVE  PageInv(p)'
<1>1. UNCHANGED <<pending, provider>> /\ \E new, gone : Transact(p, new, gone)
  BY DEF OnCreate, OnSetText, OnClear, SeedIfMissing
<1>2. CASE SeedIfMissing(p)
  <2>1. UNCHANGED page /\ UNCHANGED cast /\ toWorker' = toWorker /\ IsSeq(toWorker'[p])
    BY <1>2 DEF SeedIfMissing, PageInv
  <2>2. \A k : IsMoving(p, k) => IsMoving(p, k)'
    BY <1>1, <2>1 DEF IsMoving
  <2> QED
    BY <1>1, <2>1, <2>2, TransactDoes, DocStays, WorkerKeeps
<1>3. CASE ~SeedIfMissing(p)
  <2>1. PICK type \in {"create", "setText", "clear"} : Receive(p, type)
    BY <1>3 DEF OnCreate, OnSetText, OnClear
  <2>2. UNCHANGED page /\ UNCHANGED cast /\ IsSeq(toWorker'[p]) /\ provider[p] # "none"
    BY <2>1, Received
  <2>3. \A k : IsMoving(p, k) => IsMoving(p, k)'
    BY <1>1, <2>1, QueuedMovesStay
  <2> QED
    BY <1>1, <2>2, <2>3, TransactDoes, DocStays, WorkerKeeps
<1> QED
  BY <1>2, <1>3

LEMMA WorkerPage ==
    ASSUME PeersInv, NEW p \in Peers, p \in cast.pages, PageInv(p), Worker(p)
    PROVE  PageInv(p)'
  BY InitializePage, FlushPage, MovePage, DeletePage, EditPage DEF Worker

LEMMA ProviderPage ==
    ASSUME PeersInv, NEW p \in Peers, p \in cast.pages, PageInv(p), Provider(p)
    PROVE  PageInv(p)'
<1>1. UNCHANGED page /\ UNCHANGED cast /\ UNCHANGED <<toWorker, pending>>
  BY DEF Provider, Open, Drop, Fail, Retry, Socket, Deliver, page
<1>2. \A k : IsMoving(p, k)' <=> IsMoving(p, k)
  BY <1>1 DEF IsMoving
<1>3. IsSeq(toWorker'[p])
  BY <1>1 DEF PageInv
<1>4. CASE Deliver(p)
  <2>1. UNCHANGED provider
    BY <1>4 DEF Deliver
  <2> QED
    BY <1>1, <1>2, <1>3, <1>4, <2>1, DeliverDoes, WorkerKeeps DEF PeersInv
<1>5. CASE ~Deliver(p)
  <2>1. PICK s : /\ UNCHANGED <<writes, dead>> /\ ToPage(p, Status(s))
                 /\ provider[p] # "none" /\ provider'[p] # "none"
                 /\ (s = "open") <=> (provider'[p] = "open")
    <3>1. CASE Open(p)
      BY <3>1 DEF Open, Socket, PostStatus, PeersInv
    <3>2. CASE Drop(p)
      BY <3>2 DEF Drop, Socket, PostStatus, PeersInv
    <3>3. CASE Fail(p)
      <4>1. /\ UNCHANGED <<writes, dead>> /\ ToPage(p, Status("error"))
            /\ provider[p] # "none" /\ provider'[p] = "closed"
        BY <3>3 DEF Fail, Socket, PostStatus, PeersInv
      <4> QED
        BY <4>1
    <3>4. CASE Retry(p)
      BY <3>4 DEF Retry, Socket, PostStatus, PeersInv
    <3> QED
      BY <1>5, <3>1, <3>2, <3>3, <3>4 DEF Provider
  <2>2. toMain'[p] = Append(toMain[p], Status(s)) /\ IsSeq(toMain[p]) /\ FramesOK(toMain[p])
    BY <2>1 DEF ToPage, PeersInv, PageInv
  <2>3. /\ IsSeq(toMain'[p]) /\ FramesOK(toMain'[p])
        /\ Tells(toMain'[p], status[p], s = "open")
        /\ Absent(toMain[p], "frame") => Absent(toMain'[p], "frame")
        /\ \A f : LastFrameIs(toMain[p], f) => LastFrameIs(toMain'[p], f)
    <3>1. PICK a : a = toMain'[p]
      OBVIOUS
    <3>2. IsSeq(toMain[p]) /\ FramesOK(toMain[p]) /\ a = Append(toMain[p], Status(s))
      BY <2>2, <3>1
    <3>3. IsSeq(a) /\ FramesOK(a)
      BY <3>2, StatusPosted
    <3>4. Tells(a, status[p], s = "open")
      BY <3>2, StatusPosted
    <3>5. ASSUME Absent(toMain[p], "frame") PROVE Absent(a, "frame")
      <4>1. Status(s).type # "frame"
        BY DEF Status
      <4> QED
        BY <3>2, <3>5, <4>1, AppendLast
    <3>6. ASSUME NEW f, LastFrameIs(toMain[p], f) PROVE LastFrameIs(a, f)
      BY <3>2, <3>6, StatusPosted
    <3> QED
      BY <3>1, <3>3, <3>4, <3>5, <3>6
  <2>4. Board(p)' = Board(p)
    BY <2>1, SameBoard, DocStays
  <2>5. /\ mounted' = mounted /\ shapes' = shapes /\ status' = status
        /\ drawScheduled' = drawScheduled /\ painted' = painted
    BY <1>1 DEF page
  <2>6. ShownInv(p)'
    <3>1. Near(p, shapes[p], Pack(Board(p))) => Near(p, shapes[p], Pack(Board(p)))'
      BY <1>2, <2>4, <2>5 DEF Near
    <3>2. \/ Absent(toMain[p], "frame") /\ Near(p, shapes[p], Pack(Board(p)))
          \/ LastFrameIs(toMain[p], Pack(Board(p)))
      BY <2>1 DEF PageInv, ShownInv
    <3> QED
      BY <2>3, <2>4, <3>1, <3>2 DEF ShownInv
  <2>7. StatusInv(p)'
    <3>1. (s = "open") = (provider'[p] = "open")
      BY <2>1
    <3> QED
      BY <2>3, <2>5, <3>1 DEF StatusInv
  <2>8. FirstInv(p)' /\ PaintInv(p)'
    BY <1>1, <2>1, <2>5 DEF FirstInv, PaintInv, PageInv
  <2> QED
    BY <1>3, <2>3, <2>5, <2>6, <2>7, <2>8 DEF PageInv
<1> QED
  BY <1>4, <1>5

\* The page posts a message, or none: what moves, moves on.
LEMMA Posted ==
    ASSUME PeersInv, NEW p \in Peers, IsSeq(toWorker[p]), Posts(p), pending'[p] = pending[p]
    PROVE  /\ IsSeq(toWorker'[p])
           /\ \A k : IsMoving(p, k) => IsMoving(p, k)'
           /\ toWorker[p] # <<>> => toWorker'[p] # <<>> /\ Head(toWorker'[p]) = Head(toWorker[p])
<1> DEFINE q == toWorker[p]
<1>1. CASE UNCHANGED toWorker
  BY <1>1 DEF IsMoving
<1>2. CASE \E m : Post(p, <<m>>)
  <2>1. PICK m : Post(p, <<m>>)
    BY <1>2
  <2>2. toWorker'[p] = q \o <<m>>
    BY <2>1 DEF Post, PeersInv
  <2>3. PICK a : a = toWorker'[p]
    OBVIOUS
  <2>4. a = Append(q, m)
    BY <2>2, <2>3, PostIs
  <2>5. /\ IsSeq(a) /\ DOMAIN q = 1 .. Len(q) /\ DOMAIN a = 1 .. Len(q) + 1 /\ Len(q) \in Nat
        /\ \A i \in DOMAIN q : a[i] = q[i]
        /\ a[Len(q) + 1] = m
    BY <2>4, SeqIs, AppendIs
  <2>6. ASSUME NEW k, IsMoving(p, k) PROVE IsMoving(p, k)'
    <3>1. CASE k \in DOMAIN pending[p]
      BY <3>1 DEF IsMoving
    <3>2. CASE k \notin DOMAIN pending[p]
      <4>1. PICK i \in DOMAIN q : q[i].type = "move" /\ q[i].id = k
        BY <2>6, <3>2 DEF IsMoving
      <4>2. i \in DOMAIN a /\ a[i] = q[i]
        BY <2>5
      <4> QED
        BY <2>3, <4>1, <4>2 DEF IsMoving
    <3> QED
      BY <3>1, <3>2
  <2>7. ASSUME q # <<>> PROVE a # <<>> /\ Head(a) = Head(q)
    <3>1. 1 \in DOMAIN q /\ Head(q) = q[1]
      BY <2>7, TailIs
    <3>2. 1 \in DOMAIN a /\ a[1] = q[1]
      BY <2>5, <3>1
    <3>3. a # <<>>
      BY <3>2
    <3>4. Head(a) = a[1]
      BY <2>5, <3>3, TailIs
    <3> QED
      BY <3>1, <3>2, <3>3, <3>4
  <2> QED
    BY <2>3, <2>5, <2>6, <2>7
<1> QED
  BY <1>1, <1>2 DEF Posts

\* What is the same on the page keeps what is known of it.
LEMMA ShownStays ==
    ASSUME NEW p, ShownInv(p), UNCHANGED worker, toMain'[p] = toMain[p], shapes'[p] = shapes[p],
           \A k : IsMoving(p, k) => IsMoving(p, k)'
    PROVE  ShownInv(p)'
<1>1. UNCHANGED <<writes, dead, pending, provider>>
  BY DEF worker
<1>2. Board(p)' = Board(p)
  BY <1>1, SameBoard, DocStays
<1>3. Near(p, shapes[p], Pack(Board(p))) => Near(p, shapes[p], Pack(Board(p)))'
  BY <1>2 DEF Near
<1> QED
  BY <1>1, <1>2, <1>3 DEF ShownInv

LEMMA MountPage ==
    ASSUME PeersInv, NEW p \in Peers, p \in cast.pages, PageInv(p), Mount(p)
    PROVE  PageInv(p)'
<1>1. /\ ~mounted[p] /\ UNCHANGED <<worker, toMain, shapes, status, painted, cast>>
      /\ mounted'[p] = TRUE /\ Post(p, <<[type |-> "init"]>>) /\ ScheduleDraw(p)
  BY DEF Mount, PeersInv
<1>2. UNCHANGED <<writes, dead, pending, provider>>
  BY <1>1 DEF worker
<1>3. Posts(p)
  BY <1>1 DEF Posts
<1>4. /\ IsSeq(toWorker[p]) /\ IsSeq(toWorker'[p])
      /\ \A k : IsMoving(p, k) => IsMoving(p, k)'
  BY <1>2, <1>3, Posted DEF PageInv
<1>5. ShownInv(p)' /\ StatusInv(p)'
  BY <1>1, <1>2, <1>4, ShownStays DEF PageInv, StatusInv
<1>6. FirstInv(p)'
  <2>1. CASE provider[p] # "none"
    BY <1>2, <2>1 DEF FirstInv
  <2>2. CASE provider[p] = "none"
    <3>1. toWorker[p] = <<>>
      BY <1>1, <2>2 DEF PageInv, FirstInv
    <3>2. toWorker'[p] = <<[type |-> "init"]>>
      BY <1>1, <3>1 DEF Post, PeersInv
    <3>3. toWorker'[p] # <<>> /\ Head(toWorker'[p]).type = "init"
      BY <3>2
    <3> QED
      BY <1>1, <3>3 DEF FirstInv
  <2> QED
    BY <2>1, <2>2
<1>7. PaintInv(p)'
  BY <1>1 DEF PaintInv, ScheduleDraw, PeersInv
<1> QED
  BY <1>1, <1>4, <1>5, <1>6, <1>7 DEF PageInv

LEMMA ApplyFramePage ==
    ASSUME PeersInv, NEW p \in Peers, p \in cast.pages, PageInv(p), ApplyFrame(p)
    PROVE  PageInv(p)'
<1> DEFINE q == toMain[p]
<1>1. /\ q # <<>> /\ Head(q).type = "frame" /\ UNCHANGED <<worker, mounted, cast, toWorker, status>>
      /\ toMain'[p] = Tail(q) /\ shapes'[p] = Head(q).frame
      /\ drawScheduled'[p] = (p \in cast.canvases)
  BY DEF ApplyFrame, PageStep, ScheduleDraw, PeersInv
<1>2. painted'[p] = (painted[p] /\ Head(q).frame = shapes[p])
  BY DEF ApplyFrame, Repaint, PeersInv
<1>3. UNCHANGED <<writes, dead, pending, provider>>
  BY <1>1 DEF worker
<1>4. IsSeq(q) /\ FramesOK(q) /\ Head(q) = q[1] /\ 1 \in DOMAIN q
  BY <1>1, TailIs DEF PageInv
<1>5. IsSeq(Tail(q)) /\ DOMAIN q = 1 .. Len(q) /\ Len(q) \in Nat /\ DOMAIN Tail(q) = 1 .. Len(q) - 1
      /\ \A i \in 1 .. Len(q) - 1 : Tail(q)[i] = q[i + 1]
  BY <1>1, <1>4, SeqIs, TailIs
<1>6. FramesOK(Tail(q)) /\ FrameShape(shapes'[p])
  <2>1. FrameShape(shapes'[p])
    BY <1>1, <1>4 DEF FramesOK
  <2>2. ASSUME NEW i \in 1 .. Len(q) - 1, Tail(q)[i].type = "frame"
        PROVE  FrameShape(Tail(q)[i].frame)
    <3>1. i + 1 \in DOMAIN q /\ Tail(q)[i] = q[i + 1]
      BY <1>5
    <3> QED
      BY <1>4, <2>2, <3>1 DEF FramesOK
  <2> QED
    BY <1>5, <2>1, <2>2 DEF FramesOK
<1>7. Board(p)' = Board(p)
  BY <1>3, SameBoard, DocStays
<1>8. ShownInv(p)'
  <2>1. CASE provider[p] = "none"
    BY <1>3, <2>1 DEF ShownInv
  <2>2. CASE provider[p] # "none"
    <3>1. ~Absent(q, "frame")
      BY <1>1, <1>4 DEF Absent
    <3>2. PICK i : IsLast(q, "frame", i) /\ q[i].frame = Pack(Board(p))
      BY <2>2, <3>1 DEF PageInv, ShownInv, LastFrameIs
    <3>3. CASE i = 1 /\ Absent(Tail(q), "frame")
      <4>1. shapes'[p] = Pack(Board(p))'
        BY <1>1, <1>4, <1>7, <3>2, <3>3
      <4>2. Near(p, shapes[p], Pack(Board(p)))'
        BY <4>1 DEF Near
      <4> QED
        BY <1>1, <3>3, <4>2 DEF ShownInv
    <3>4. CASE IsLast(Tail(q), "frame", i - 1) /\ Tail(q)[i - 1] = q[i]
      <4>1. LastFrameIs(Tail(q), Pack(Board(p)))
        BY <3>2, <3>4 DEF LastFrameIs
      <4> QED
        BY <1>1, <1>7, <4>1 DEF ShownInv
    <3> QED
      <4>1. IsSeq(q) /\ q # <<>> /\ IsLast(q, "frame", i)
        BY <1>1, <1>4, <3>2
      <4>2. \/ i = 1 /\ Head(q).type = "frame" /\ Absent(Tail(q), "frame")
            \/ IsLast(Tail(q), "frame", i - 1) /\ Tail(q)[i - 1] = q[i]
        BY <4>1, TailLastAt, Zenon
      <4> QED
        BY <3>3, <3>4, <4>2
  <2> QED
    BY <2>1, <2>2
<1>9. StatusInv(p)'
  <2>1. Tells(q, status[p], provider[p] = "open")
    BY DEF PageInv, StatusInv
  <2>2. Absent(q, "status") => Absent(Tail(q), "status")
    BY <1>1, <1>4, TailLast
  <2>3. ASSUME NEW i, IsLast(q, "status", i)
        PROVE  IsLast(Tail(q), "status", i - 1) /\ Tail(q)[i - 1] = q[i]
    <3>1. \/ i = 1 /\ Head(q).type = "status" /\ Absent(Tail(q), "status")
          \/ IsLast(Tail(q), "status", i - 1) /\ Tail(q)[i - 1] = q[i]
      <4>1. IsSeq(q) /\ q # <<>>
        BY <1>1, <1>4
      <4> QED
        BY <2>3, <4>1, TailLastAt, Zenon
    <3> QED
      BY <1>1, <3>1
  <2>4. Tells(Tail(q), status[p], provider[p] = "open")
    BY <2>1, <2>2, <2>3 DEF Tells
  <2> QED
    BY <1>1, <1>3, <2>4 DEF StatusInv
<1>10. FirstInv(p)' /\ PaintInv(p)'
  BY <1>1, <1>3 DEF PageInv, FirstInv, PaintInv
<1> QED
  BY <1>1, <1>2, <1>5, <1>6, <1>8, <1>9, <1>10 DEF PageInv

LEMMA OnStatusPage ==
    ASSUME PeersInv, NEW p \in Peers, p \in cast.pages, PageInv(p), OnStatus(p)
    PROVE  PageInv(p)'
<1> DEFINE q == toMain[p]
<1>1. /\ q # <<>> /\ Head(q).type = "status"
      /\ UNCHANGED <<worker, mounted, cast, toWorker, shapes, drawScheduled, painted>>
      /\ toMain'[p] = Tail(q) /\ status'[p] = Head(q).state
  BY DEF OnStatus, PageStep, PeersInv
<1>2. UNCHANGED <<writes, dead, pending, provider>>
  BY <1>1 DEF worker
<1>3. IsSeq(q) /\ FramesOK(q) /\ Head(q) = q[1] /\ 1 \in DOMAIN q
  BY <1>1, TailIs DEF PageInv
<1>4. IsSeq(Tail(q)) /\ DOMAIN q = 1 .. Len(q) /\ Len(q) \in Nat /\ DOMAIN Tail(q) = 1 .. Len(q) - 1
      /\ \A i \in 1 .. Len(q) - 1 : Tail(q)[i] = q[i + 1]
  BY <1>1, <1>3, SeqIs, TailIs
<1>5. FramesOK(Tail(q))
  <2>1. ASSUME NEW i \in 1 .. Len(q) - 1, Tail(q)[i].type = "frame"
        PROVE  FrameShape(Tail(q)[i].frame)
    <3>1. i + 1 \in DOMAIN q /\ Tail(q)[i] = q[i + 1]
      BY <1>4
    <3> QED
      BY <1>3, <2>1, <3>1 DEF FramesOK
  <2> QED
    BY <1>4, <2>1 DEF FramesOK
<1>6. Board(p)' = Board(p)
  BY <1>2, SameBoard, DocStays
<1>7. ShownInv(p)'
  <2>1. \A k : IsMoving(p, k)' <=> IsMoving(p, k)
    BY <1>1, <1>2 DEF IsMoving
  <2>2. Near(p, shapes[p], Pack(Board(p))) => Near(p, shapes[p], Pack(Board(p)))'
    BY <1>1, <1>6, <2>1 DEF Near
  <2>3. Absent(q, "frame") => Absent(Tail(q), "frame")
    BY <1>1, <1>3, TailLast
  <2>4. ASSUME NEW i, IsLast(q, "frame", i)
        PROVE  IsLast(Tail(q), "frame", i - 1) /\ Tail(q)[i - 1] = q[i]
    <3>1. \/ i = 1 /\ Head(q).type = "frame" /\ Absent(Tail(q), "frame")
          \/ IsLast(Tail(q), "frame", i - 1) /\ Tail(q)[i - 1] = q[i]
      <4>1. IsSeq(q) /\ q # <<>>
        BY <1>1, <1>3
      <4> QED
        BY <2>4, <4>1, TailLastAt, Zenon
    <3> QED
      BY <1>1, <3>1
  <2>5. LastFrameIs(q, Pack(Board(p))) => LastFrameIs(Tail(q), Pack(Board(p)))
    BY <2>4 DEF LastFrameIs
  <2> QED
    BY <1>1, <1>2, <1>6, <2>2, <2>3, <2>5 DEF PageInv, ShownInv
<1>8. StatusInv(p)'
  <2>1. ~Absent(q, "status")
    BY <1>1, <1>3 DEF Absent
  <2>2. PICK i : IsLast(q, "status", i) /\ (q[i].state = "open" <=> provider[p] = "open")
    BY <2>1 DEF PageInv, StatusInv, Tells
  <2>3. CASE i = 1 /\ Absent(Tail(q), "status")
    <3>1. status'[p] = q[i].state
      BY <1>1, <1>3, <2>3
    <3> QED
      BY <1>1, <1>2, <2>2, <2>3, <3>1 DEF StatusInv, Tells
  <2>4. CASE IsLast(Tail(q), "status", i - 1) /\ Tail(q)[i - 1] = q[i]
    BY <1>1, <1>2, <2>2, <2>4 DEF StatusInv, Tells
  <2> QED
    <3>1. IsSeq(q) /\ q # <<>> /\ IsLast(q, "status", i)
      BY <1>1, <1>3, <2>2
    <3>2. \/ i = 1 /\ Head(q).type = "status" /\ Absent(Tail(q), "status")
          \/ IsLast(Tail(q), "status", i - 1) /\ Tail(q)[i - 1] = q[i]
      BY <3>1, TailLastAt, Zenon
    <3> QED
      BY <2>3, <2>4, <3>2
<1>9. FirstInv(p)' /\ PaintInv(p)'
  BY <1>1, <1>2 DEF PageInv, FirstInv, PaintInv
<1> QED
  BY <1>1, <1>4, <1>5, <1>7, <1>8, <1>9 DEF PageInv

LEMMA DrawPage ==
    ASSUME PeersInv, NEW p \in Peers, p \in cast.pages, PageInv(p), Draw(p)
    PROVE  PageInv(p)'
<1>1. /\ UNCHANGED <<worker, mounted, cast, toWorker, toMain, shapes, status>>
      /\ painted'[p] = TRUE
  BY DEF Draw, PageStep, PeersInv
<1>2. UNCHANGED <<writes, dead, pending, provider>>
  BY <1>1 DEF worker
<1>3. \A k : IsMoving(p, k) => IsMoving(p, k)'
  BY <1>1, <1>2 DEF IsMoving
<1>4. ShownInv(p)' /\ StatusInv(p)' /\ FirstInv(p)' /\ PaintInv(p)'
  BY <1>1, <1>2, <1>3, ShownStays DEF PageInv, StatusInv, FirstInv, PaintInv
<1> QED
  BY <1>1, <1>4 DEF PageInv

LEMMA SetsUiPage ==
    ASSUME PeersInv, NEW p \in Peers, p \in cast.pages, PageInv(p), Input(p), Posts(p), SetsUi(p)
    PROVE  PageInv(p)'
<1>1. UNCHANGED <<worker, mounted, cast, toMain, status>>
  BY DEF Input, PageStep
<1>2. UNCHANGED <<writes, dead, pending, provider>> /\ mounted[p]
  BY <1>1 DEF worker, Input, PageStep
<1>3. PICK new, draw : SetUi(p, new, draw) /\ (draw \/ new.rect = ui[p].rect)
  BY DEF SetsUi
<1>4. UNCHANGED shapes /\ painted'[p] = (painted[p] /\ ~(new.rect # ui[p].rect))
  BY <1>3 DEF SetUi, Repaint, PeersInv
<1>5. /\ draw => drawScheduled'[p] = (p \in cast.canvases)
      /\ drawScheduled'[p] = drawScheduled[p] \/ drawScheduled'[p] = (p \in cast.canvases)
  BY <1>3 DEF SetUi, ScheduleDraw, PeersInv
<1>6. /\ IsSeq(toWorker'[p])
      /\ \A k : IsMoving(p, k) => IsMoving(p, k)'
      /\ toWorker[p] # <<>> => toWorker'[p] # <<>> /\ Head(toWorker'[p]) = Head(toWorker[p])
  BY <1>2, Posted DEF PageInv
<1>7. ShownInv(p)' /\ StatusInv(p)'
  BY <1>1, <1>2, <1>4, <1>6, ShownStays DEF PageInv, StatusInv
<1>8. FirstInv(p)'
  BY <1>1, <1>2, <1>6 DEF PageInv, FirstInv
<1>9. PaintInv(p)'
  BY <1>1, <1>2, <1>3, <1>4, <1>5 DEF PageInv, PaintInv
<1> QED
  BY <1>1, <1>4, <1>6, <1>7, <1>8, <1>9 DEF PageInv

\* A drag moves the shape on the page and posts the move: the page is ahead of
\* the document in that shape only, and the canvas is behind only with a drawing
\* asked for.
LEMMA MoveDragPage ==
    ASSUME PeersInv, NEW p \in Peers, p \in cast.pages, PageInv(p), Input(p), MoveDrag(p)
    PROVE  PageInv(p)'
<1>1. UNCHANGED <<worker, mounted, cast, toMain, status>>
  BY DEF Input, PageStep
<1>2. UNCHANGED <<writes, dead, pending, provider>> /\ mounted[p]
  BY <1>1 DEF worker, Input, PageStep
<1>3. PICK to :
        /\ shapes' = [shapes EXCEPT ![p].coords = Dragged(shapes[p], ui[p].drag.id, to)]
        /\ \/ ScheduleDraw(p)
           \/ \A i \in DOMAIN shapes[p].ids : shapes[p].ids[i] # ui[p].drag.id
        /\ Post(p, <<[type |-> "move", id |-> ui[p].drag.id, x |-> to]>>)
  BY DragDoes
<1>0. PICK id : id = ui[p].drag.id
  OBVIOUS
<1> DEFINE f == shapes[p]
           g == [f EXCEPT !.coords = Dragged(f, id, to)]
           m == [type |-> "move", id |-> id, x |-> to]
<1>4. shapes'[p] = g
  BY <1>0, <1>3 DEF PeersInv
<1>5. FrameShape(f)
  BY DEF PageInv
<1>6. /\ g.ids = f.ids /\ g.kinds = f.kinds /\ g.texts = f.texts
      /\ g.coords = Dragged(f, id, to) /\ FrameShape(g)
  <2>1. /\ g.ids = f.ids /\ g.kinds = f.kinds /\ g.texts = f.texts
        /\ g.coords = Dragged(f, id, to)
        /\ g = [ids |-> g.ids, kinds |-> g.kinds, texts |-> g.texts, coords |-> g.coords]
    BY <1>5 DEF FrameShape
  <2>2. g.coords = [i \in DOMAIN g.coords |-> g.coords[i]]
    BY <2>1 DEF Dragged
  <2> QED
    BY <2>1, <2>2 DEF FrameShape
<1>7. DOMAIN Dragged(f, id, to) = DOMAIN f.coords
  BY DEF Dragged
<1>8. \A i \in DOMAIN f.coords :
        (i \in DOMAIN f.ids /\ f.ids[i] = id) \/ Dragged(f, id, to)[i] = f.coords[i]
  BY DEF Dragged
<1>9. Posts(p)
  BY <1>3 DEF Posts
<1>10. /\ IsSeq(toWorker[p]) /\ IsSeq(toWorker'[p])
       /\ \A k : IsMoving(p, k) => IsMoving(p, k)'
       /\ toWorker[p] # <<>> => toWorker'[p] # <<>> /\ Head(toWorker'[p]) = Head(toWorker[p])
  BY <1>2, <1>9, Posted DEF PageInv
<1>11. IsMoving(p, id)'
  <2>1. PICK a : a = toWorker'[p]
    OBVIOUS
  <2>2. toWorker'[p] = toWorker[p] \o <<m>>
    BY <1>0, <1>3 DEF Post, PeersInv
  <2>3. m.type = "move" /\ m.id = id
    OBVIOUS
  <2> HIDE DEF m
  <2>4. a = Append(toWorker[p], m)
    BY <1>10, <2>1, <2>2, PostIs
  <2>5. Len(toWorker[p]) + 1 \in DOMAIN a /\ a[Len(toWorker[p]) + 1] = m
    <3>1. DOMAIN a = 1 .. Len(toWorker[p]) + 1 /\ a[Len(toWorker[p]) + 1] = m
      BY <1>10, <2>4, AppendIs
    <3>2. Len(toWorker[p]) \in Nat
      BY <1>10, SeqIs
    <3> QED
      BY <3>1, <3>2
  <2> QED
    BY <2>1, <2>3, <2>5 DEF IsMoving
<1>12. Board(p)' = Board(p)
  BY <1>2, SameBoard, DocStays
<1>13. PICK now : now = Pack(Board(p)) /\ now = Pack(Board(p))'
  BY <1>12
<1> HIDE DEF g, f, m
<1>14. ASSUME Near(p, f, now) PROVE Near(p, shapes[p], now)'
  <2>1. ASSUME NEW i \in DOMAIN now.coords
        PROVE  IsMoving(p, now.ids[i])' \/ g.coords[i] = now.coords[i]
    <3>1. i \in DOMAIN f.coords /\ f.ids = now.ids
      BY <1>14, <2>1 DEF Near
    <3>2. CASE i \in DOMAIN f.ids /\ f.ids[i] = id
      BY <1>11, <3>1, <3>2
    <3>3. CASE Dragged(f, id, to)[i] = f.coords[i]
      BY <1>6, <1>10, <1>14, <2>1, <3>3 DEF Near
    <3> QED
      BY <1>8, <3>1, <3>2, <3>3
  <2>2. /\ g.ids = now.ids /\ g.kinds = now.kinds /\ g.texts = now.texts
        /\ DOMAIN g.coords = DOMAIN now.coords
    BY <1>6, <1>7, <1>14 DEF Near
  <2> QED
    BY <1>4, <2>1, <2>2 DEF Near
<1>15. ShownInv(p)'
  <2>1. \/ provider[p] = "none"
        \/ Absent(toMain[p], "frame") /\ Near(p, f, now)
        \/ LastFrameIs(toMain[p], now)
    BY <1>13 DEF PageInv, ShownInv, f
  <2> QED
    BY <1>1, <1>2, <1>13, <1>14, <2>1 DEF ShownInv
<1>16. StatusInv(p)' /\ FirstInv(p)'
  BY <1>1, <1>2, <1>10 DEF PageInv, StatusInv, FirstInv
<1>17. painted'[p] = (painted[p] /\ ~(shapes'[p] # shapes[p]))
  BY DEF MoveDrag, Repaint, PeersInv
<1>18. PaintInv(p)'
  <2>1. CASE ScheduleDraw(p)
    BY <1>1, <1>2, <2>1 DEF PaintInv, ScheduleDraw, PeersInv
  <2>2. CASE \A i \in DOMAIN shapes[p].ids : shapes[p].ids[i] # ui[p].drag.id
    <3>1. Dragged(f, id, to) = [i \in DOMAIN f.coords |-> f.coords[i]]
      BY <1>0, <2>2 DEF Dragged, f
    <3>2. g.coords = f.coords
      BY <1>5, <1>6, <3>1 DEF FrameShape
    <3>3. g = f
      BY <1>5, <1>6, <3>2 DEF FrameShape
    <3>4. painted'[p] = painted[p]
      BY <1>4, <1>17, <3>3 DEF f, PageInv
    <3>5. drawScheduled' = drawScheduled \/ drawScheduled'[p] = (p \in cast.canvases)
      BY DEF MoveDrag, ScheduleDraw, PeersInv
    <3> QED
      BY <1>1, <1>2, <3>4, <3>5 DEF PageInv, PaintInv
  <2> QED
    BY <1>3, <2>1, <2>2
<1> QED
  BY <1>1, <1>4, <1>6, <1>10, <1>15, <1>16, <1>17, <1>18 DEF PageInv

LEMMA UserPage ==
    ASSUME PeersInv, NEW p \in Peers, p \in cast.pages, PageInv(p), User(p)
    PROVE  PageInv(p)'
<1>1. Input(p) /\ Posts(p) /\ (SetsUi(p) \/ MoveDrag(p))
  BY UserDoes DEF PeersInv
<1> QED
  BY <1>1, SetsUiPage, MoveDragPage

-----------------------------------------------------------------------------
(* Every step keeps what is known of every page.                            *)

BoardInv == PeersInv /\ \A p \in cast.pages : PageInv(p)

LEMMA PagesArePeers == ASSUME PeersInv PROVE cast.pages \subseteq Peers
  BY WhiteboardAssumption DEF WhiteboardAssumption, PeersInv

LEMMA InitBoard == Init => BoardInv
<1> SUFFICES ASSUME Init PROVE BoardInv
  OBVIOUS
<1>1. PeersInv
  BY DEF Init, PeersInv, NewUi, UiFields
<1>2. ASSUME NEW p \in Peers PROVE PageInv(p)
  <2>1. /\ toMain[p] = <<>> /\ toWorker[p] = <<>> /\ painted[p] = FALSE /\ provider[p] = "none"
        /\ shapes[p] = EmptyFrame /\ mounted[p] = FALSE /\ status[p] = "init"
    BY DEF Init
  <2>2. IsSeq(<<>>)
    BY DEF IsSeq
  <2>3. FrameShape(EmptyFrame)
    BY DEF FrameShape, EmptyFrame
  <2>4. FramesOK(<<>>) /\ \A type : Absent(<<>>, type)
    BY DEF FramesOK, Absent
  <2>5. StatusInv(p)
    BY <2>1, <2>4 DEF StatusInv, Tells
  <2> QED
    BY <2>1, <2>2, <2>3, <2>4, <2>5 DEF PageInv, ShownInv, FirstInv, PaintInv
<1> QED
  BY <1>1, <1>2, PagesArePeers DEF BoardInv

LEMMA PageKeepsUi ==
    ASSUME NEW p, DOMAIN ui[p] = UiFields, p \in DOMAIN ui,
           Worker(p) \/ Provider(p) \/ Page(p) \/ User(p) \/ OtherEdit(p)
    PROVE  DOMAIN ui'[p] = UiFields
<1>1. CASE Worker(p)
  BY <1>1 DEF Worker, Initialize, OnMove, OnCommit, OnCreate, OnDelete, OnSetText, OnClear,
              FlushTimeout, SeedIfMissing, Receive, page
<1>2. CASE Provider(p)
  BY <1>2 DEF Provider, Open, Drop, Fail, Retry, Socket, Deliver, page
<1>3. CASE Page(p)
  BY <1>3 DEF Page, Mount, ApplyFrame, OnStatus, Draw
<1>4. CASE User(p)
  <2>1. CASE SetsUi(p)
    BY <2>1 DEF SetsUi, SetUi
  <2>2. CASE MoveDrag(p)
    BY <2>2 DEF MoveDrag
  <2> QED
    BY <1>4, <2>1, <2>2, UserDoes
<1>5. CASE OtherEdit(p)
  BY <1>5 DEF OtherEdit, page
<1> QED
  BY <1>1, <1>2, <1>3, <1>4, <1>5

LEMMA NextBoard == BoardInv /\ [Next]_vars => BoardInv'
<1> SUFFICES ASSUME BoardInv, [Next]_vars PROVE BoardInv'
  OBVIOUS
<1>1. PeersInv /\ cast.pages \subseteq Peers
  BY PagesArePeers DEF BoardInv
<1>2. CASE UNCHANGED vars
  <2>1. UNCHANGED <<writes, dead, pending, provider, toWorker, toMain, cast>>
    BY <1>2 DEF vars, worker
  <2>2. UNCHANGED <<mounted, shapes, ui, status, drawScheduled, painted>>
    BY <1>2 DEF vars, page
  <2>3. PeersInv'
    BY <1>1, <2>1, <2>2 DEF PeersInv
  <2>4. \A p : Same(p)
    BY <2>1, <2>2 DEF Same
  <2> QED
    BY <2>1, <2>3, <2>4, SameKeeps DEF BoardInv
<1>3. ASSUME NEW p \in Peers, Worker(p) \/ Provider(p) \/ Page(p) \/ User(p) \/ OtherEdit(p)
      PROVE  BoardInv'
  <2>1. p \in DOMAIN ui /\ DOMAIN ui[p] = UiFields
    BY <1>1 DEF PeersInv
  <2>2. Local(p)
    BY <1>3, <2>1, WorkerLocal, ProviderLocal, PageLocal, UserLocal, OtherLocal
  <2>3. UNCHANGED cast
    BY <2>2 DEF Local
  <2>4. ASSUME NEW q \in Peers, q # p PROVE Same(q) /\ ui'[q] = ui[q]
    BY <1>1, <2>2, <2>4, LocalKeepsOthers
  <2>5. PeersInv'
    <3>1. /\ cast' \in Casts
          /\ DOMAIN writes' = Peers /\ DOMAIN dead' = Peers
          /\ DOMAIN pending' = Peers /\ DOMAIN provider' = Peers
          /\ DOMAIN toWorker' = Peers /\ DOMAIN toMain' = Peers /\ DOMAIN mounted' = Peers
          /\ DOMAIN shapes' = Peers /\ DOMAIN ui' = Peers /\ DOMAIN status' = Peers
          /\ DOMAIN drawScheduled' = Peers /\ DOMAIN painted' = Peers
      BY <1>1, <2>2, <2>3 DEF PeersInv, Local, LocalWorker, LocalDoc, LocalPage, OnlyAt
    <3>2. DOMAIN ui'[p] = UiFields
      BY <1>3, <2>1, PageKeepsUi
    <3>3. \A q \in Peers : DOMAIN ui'[q] = UiFields
      BY <1>1, <2>4, <3>2 DEF PeersInv
    <3> QED
      BY <3>1, <3>3 DEF PeersInv
  <2>6. ASSUME NEW q \in cast.pages PROVE PageInv(q)'
    <3>1. q \in Peers /\ PageInv(q)
      BY <1>1 DEF BoardInv
    <3>2. CASE q # p
      BY <2>3, <2>4, <3>1, <3>2, SameKeeps
    <3>3. CASE q = p
      <4>1. ~OtherEdit(p)
        BY <3>3 DEF OtherEdit
      <4>2. CASE Page(p)
        BY <1>1, <3>1, <3>3, <4>2, MountPage, ApplyFramePage, OnStatusPage, DrawPage DEF Page
      <4> QED
        BY <1>1, <1>3, <3>1, <3>3, <4>1, <4>2, WorkerPage, ProviderPage, UserPage
    <3> QED
      BY <3>2, <3>3
  <2> QED
    BY <2>3, <2>5, <2>6 DEF BoardInv
<1> QED
  BY <1>2, <1>3 DEF Next

\* Two frames with the same arrays are one.
LEMMA NearIsEqual ==
    ASSUME NEW p, NEW f, NEW g, FrameShape(f), FrameShape(g), Near(p, f, g),
           \A k : ~IsMoving(p, k)
    PROVE  f = g
<1>1. /\ f.ids = g.ids /\ f.kinds = g.kinds /\ f.texts = g.texts
      /\ DOMAIN f.coords = DOMAIN g.coords
      /\ \A i \in DOMAIN g.coords : f.coords[i] = g.coords[i]
  BY DEF Near
<1>2. f.coords = g.coords
  <2>1. /\ f.coords = [i \in DOMAIN f.coords |-> f.coords[i]]
        /\ g.coords = [i \in DOMAIN g.coords |-> g.coords[i]]
    BY DEF FrameShape
  <2> HIDE DEF FrameShape
  <2> QED
    BY <1>1, <2>1
<1> QED
  BY <1>1, <1>2 DEF FrameShape

\* A page that is idle shows its worker's board, whatever the user dragged ahead
\* of it, its canvas is painted or about to be, and its status is the socket's.
THEOREM PagesSettle == Spec => []SettledShows
<1>1. ASSUME BoardInv, NEW p \in cast.pages, Idle(p)
      PROVE  /\ shapes[p] = Pack(Board(p))
             /\ p \in cast.canvases => painted[p] \/ drawScheduled[p]
             /\ status[p] = "open" <=> provider[p] = "open"
  <2>1. PageInv(p) /\ mounted[p] /\ toWorker[p] = <<>> /\ toMain[p] = <<>> /\ pending[p] = None
    BY <1>1 DEF BoardInv, Idle
  <2>2. provider[p] # "none"
    BY <2>1 DEF PageInv, FirstInv
  <2>3. \A type, i : ~IsLast(toMain[p], type, i)
    BY <2>1 DEF IsLast
  <2>4. \A k : ~IsMoving(p, k)
    BY <2>1 DEF IsMoving, None
  <2>5. Near(p, shapes[p], Pack(Board(p)))
    BY <2>1, <2>2, <2>3 DEF PageInv, ShownInv, LastFrameIs
  <2>6. shapes[p] = Pack(Board(p))
    BY <2>1, <2>4, <2>5, NearIsEqual, BoardPacks DEF PageInv
  <2>7. status[p] = "open" <=> provider[p] = "open"
    BY <2>1, <2>3 DEF PageInv, StatusInv, Tells
  <2> QED
    BY <2>1, <2>6, <2>7 DEF PageInv, PaintInv
<1>2. BoardInv => SettledShows
  BY <1>1 DEF SettledShows
<1> QED
  BY <1>2, InitBoard, NextBoard, PTL DEF Spec

-----------------------------------------------------------------------------
(* The documents and the queues of the relay.                              *)

Queues(box) == DOMAIN box = Peers /\ \A r \in Peers : IsSeq(box[r])

AllQueues(n) == DOMAIN n = Peers /\ \A q \in Peers : Queues(n[q])

DocsInv == DOMAIN writes = Peers /\ DOMAIN dead = Peers /\ AllQueues(net)

\* What a message adds: one place in the queue of its sender to each receiver.
Sent(n, p, m, s) ==
    \A q \in Peers :
        /\ \A r \in Peers \ {p} : s[q][r] = n[q][r]
        /\ q \in Others(p) => s[q][p] = Append(n[q][p], m)
        /\ q \notin Others(p) => s[q][p] = n[q][p]

LEMMA SendIs ==
    ASSUME NEW n, AllQueues(n), NEW p \in Peers, NEW m, NEW s, s = Send(n, p, m)
    PROVE  AllQueues(s) /\ Sent(n, p, m, s)
<1>1. DOMAIN s = Peers
  BY DEF Send
<1>2. ASSUME NEW q \in Peers
      PROVE  /\ Queues(s[q])
             /\ \A r \in Peers \ {p} : s[q][r] = n[q][r]
             /\ q \in Others(p) => s[q][p] = Append(n[q][p], m)
             /\ q \notin Others(p) => s[q][p] = n[q][p]
  <2>1. PICK a : a = Append(n[q][p], m)
    OBVIOUS
  <2>2. IsSeq(n[q][p])
    BY DEF AllQueues, Queues
  <2>3. IsSeq(a)
    BY <2>1, <2>2, AppendIs, Zenon
  <2>4. s[q] = IF q \in Others(p) THEN [n[q] EXCEPT ![p] = a] ELSE n[q]
    BY <2>1 DEF Send
  <2>5. CASE q \in Others(p)
    <3>1. /\ DOMAIN s[q] = Peers /\ s[q][p] = a
          /\ \A r \in Peers \ {p} : s[q][r] = n[q][r]
      BY <2>4, <2>5 DEF AllQueues, Queues
    <3>2. ASSUME NEW r \in Peers PROVE IsSeq(s[q][r])
      <4>1. CASE r = p
        BY <2>3, <3>1, <4>1
      <4>2. CASE r # p
        <5>1. s[q][r] = n[q][r]
          BY <3>1, <4>2
        <5>2. IsSeq(n[q][r])
          BY DEF AllQueues, Queues
        <5> QED
          BY <5>1, <5>2
      <4> QED
        BY <4>1, <4>2
    <3>3. Queues(s[q])
      BY <3>1, <3>2 DEF Queues
    <3> QED
      BY <2>1, <2>5, <3>1, <3>3, Zenon
  <2>6. CASE q \notin Others(p)
    <3>1. s[q] = n[q]
      BY <2>4, <2>6
    <3> QED
      BY <2>6, <3>1, Zenon DEF AllQueues
  <2> QED
    BY <2>5, <2>6
<1> QED
  BY <1>1, <1>2 DEF AllQueues, Sent

LEMMA RelayIs ==
    ASSUME NEW n, AllQueues(n), NEW p \in Peers, NEW m, NEW s, s = Relay(n, p, m)
    PROVE  AllQueues(s)
<1>1. s = Send(n, p, m) \/ s = n
  BY DEF Relay
<1> QED
  BY <1>1, SendIs

LEMMA TransactDocs ==
    ASSUME DocsInv, NEW p \in Peers, NEW new, NEW gone, Transact(p, new, gone)
    PROVE  DocsInv'
<1>1. CASE UNCHANGED <<writes, dead, net>>
  BY <1>1 DEF DocsInv
<1>2. ASSUME NEW m, NEW d, NEW t,
             writes' = [writes EXCEPT ![p] = d], dead' = [dead EXCEPT ![p] = t],
             net' = Relay(net, p, m)
      PROVE  DocsInv'
  <2>1. AllQueues(net')
    BY <1>2, RelayIs DEF DocsInv
  <2>2. DOMAIN writes' = Peers /\ DOMAIN dead' = Peers
    BY <1>2 DEF DocsInv
  <2> QED
    BY <2>1, <2>2 DEF DocsInv, AllQueues, Queues
<1> QED
  BY <1>1, <1>2 DEF Transact

LEMMA InitDocs == Init => DocsInv
<1>1. IsSeq(<<>>)
  BY DEF IsSeq
<1> QED
  BY <1>1 DEF Init, DocsInv, AllQueues, Queues, NoMail

\* What a message taken leaves: the rest of its queue.
Rest(p, f, t, n) ==
    n[p][f] = t /\ \A q, r \in Peers : q # p \/ r # f => n[q][r] = net[q][r]

LEMMA TakenIs ==
    ASSUME DocsInv, NEW p \in Peers, NEW f \in Peers, net[p][f] # <<>>,
           NEW t, t = Tail(net[p][f]), NEW n, n = [net EXCEPT ![p][f] = Tail(@)]
    PROVE  IsSeq(net[p][f]) /\ AllQueues(n) /\ Rest(p, f, t, n)
<1>1. IsSeq(net[p][f]) /\ IsSeq(t)
  BY TailIs DEF DocsInv, AllQueues, Queues
<1>2. n = [net EXCEPT ![p] = [net[p] EXCEPT ![f] = t]]
  OBVIOUS
<1>3. PICK b : b = [net[p] EXCEPT ![f] = t]
  OBVIOUS
<1>4. DOMAIN b = Peers /\ b[f] = t /\ \A r \in Peers \ {f} : b[r] = net[p][r]
  BY <1>3 DEF DocsInv, AllQueues, Queues
<1>5. Queues(b)
  BY <1>1, <1>4 DEF DocsInv, AllQueues, Queues
<1>6. DOMAIN n = Peers /\ n[p] = b /\ \A q \in Peers \ {p} : n[q] = net[q]
  BY <1>2, <1>3 DEF DocsInv, AllQueues
<1> QED
  BY <1>1, <1>4, <1>5, <1>6 DEF DocsInv, AllQueues, Rest

LEMMA NextDocs == DocsInv /\ [Next]_vars => DocsInv'
<1> SUFFICES ASSUME DocsInv, [Next]_vars PROVE DocsInv'
  OBVIOUS
<1>1. ASSUME UNCHANGED <<writes, dead, net>> PROVE DocsInv'
  BY <1>1 DEF DocsInv
<1>2. CASE UNCHANGED vars
  BY <1>1, <1>2 DEF vars, worker
<1>3. ASSUME NEW p \in Peers, Page(p) PROVE DocsInv'
  BY <1>1, <1>3 DEF Page, Mount, ApplyFrame, OnStatus, Draw, PageStep, worker
<1>4. ASSUME NEW p \in Peers, User(p) PROVE DocsInv'
  <2>1. Input(p)
    BY <1>4 DEF User, DownRect, DownText, DownSelect, MoveRect, MoveDrag, UpRect, UpDrag,
                DoubleClick, SetTool, DeleteKey, DeleteButton, ClearButton, Type, CommitText
  <2> QED
    BY <1>1, <2>1 DEF Input, PageStep, worker
<1>5. ASSUME NEW p \in Peers, OtherEdit(p) PROVE DocsInv'
  BY <1>1, <1>5 DEF OtherEdit, worker
<1>6. ASSUME NEW p \in Peers, Worker(p) PROVE DocsInv'
  <2>1. CASE Initialize(p) \/ OnMove(p)
    BY <1>1, <2>1 DEF Initialize, OnMove
  <2>2. CASE OnCommit(p) \/ OnCreate(p) \/ OnDelete(p) \/ OnSetText(p) \/ OnClear(p)
             \/ FlushTimeout(p) \/ SeedIfMissing(p)
    <3>1. PICK new, gone : Transact(p, new, gone)
      BY <2>2 DEF OnCommit, OnCreate, OnDelete, OnSetText, OnClear, FlushTimeout, SeedIfMissing,
                  FlushPending
    <3> QED
      BY <3>1, TransactDocs
  <2> QED
    BY <1>6, <2>1, <2>2 DEF Worker
<1>7. ASSUME NEW p \in Peers, Open(p) \/ Drop(p) \/ Fail(p) \/ Retry(p) PROVE DocsInv'
  <2>1. UNCHANGED <<writes, dead>>
    BY <1>7 DEF Open, Drop, Fail, Retry, Socket
  <2>2. AllQueues(net')
    <3>1. ASSUME NEW m, net' = Send(net, p, m)
          PROVE  AllQueues(net')
      BY <3>1, SendIs DEF DocsInv
    <3>2. CASE net' = [net EXCEPT ![p] = NoMail]
      <4>1. IsSeq(<<>>)
        BY DEF IsSeq
      <4>2. Queues(NoMail)
        BY <4>1 DEF NoMail, Queues
      <4> QED
        BY <3>2, <4>2 DEF DocsInv, AllQueues
    <3>3. CASE UNCHANGED net
      BY <3>3 DEF DocsInv
    <3>4. (\E m : net' = Send(net, p, m)) \/ net' = [net EXCEPT ![p] = NoMail] \/ UNCHANGED net
      BY <1>7 DEF Open, Drop, Fail, Retry
    <3> QED
      BY <3>1, <3>2, <3>3, <3>4
  <2> QED
    BY <2>1, <2>2 DEF DocsInv, AllQueues, Queues
<1>8. ASSUME NEW p \in Peers, Deliver(p) PROVE DocsInv'
  <2>1. PICK f \in Peers :
          /\ net[p][f] # <<>>
          /\ \/ UNCHANGED <<writes, dead>>
                /\ \E m : net' = Relay([net EXCEPT ![p][f] = Tail(@)], p, m)
             \/ /\ \E d : writes' = [writes EXCEPT ![p] = d]
                /\ \E d : dead' = [dead EXCEPT ![p] = d]
                /\ net' = [net EXCEPT ![p][f] = Tail(@)]
    BY <1>8 DEF Deliver
  <2>2. PICK rest : rest = [net EXCEPT ![p][f] = Tail(@)]
    OBVIOUS
  <2>3. AllQueues(rest)
    BY <2>1, <2>2, TakenIs
  <2>4. AllQueues(net')
    BY <2>1, <2>2, <2>3, RelayIs
  <2>5. DOMAIN writes' = Peers /\ DOMAIN dead' = Peers
    BY <2>1 DEF DocsInv
  <2> QED
    BY <2>4, <2>5 DEF DocsInv, AllQueues, Queues
<1> QED
  BY <1>2, <1>3, <1>4, <1>5, <1>6, <1>7, <1>8 DEF Next, Provider

-----------------------------------------------------------------------------
(* Convergence.  While every edit is made on an open socket and no socket  *)
(* fails, what any peer knows every peer knows that is online, or has it   *)
(* coming, or has asked one who knows; and messages tell what their        *)
(* senders know.                                                           *)

Online(p) == provider[p] = "open"

\* What a peer knows and what an update tells, of either kind.
Kinds == {"writes", "dead"}
Known(p, w) == IF w = "writes" THEN writes[p] ELSE dead[p]

Carries(s, w, x) == \E i \in DOMAIN s : s[i].type = "update" /\ x \in s[i][w]

Asks(s) == \E i \in DOMAIN s : s[i].type = "step1"

\* With the queues n.
Told(n, q, w, x) ==
    \/ x \in Known(q, w)
    \/ \E r \in Peers : Carries(n[q][r], w, x)
    \/ \E r \in Peers : x \in Known(r, w) /\ Asks(n[r][q])

Spread(n) ==
    \A q \in Peers : Online(q) =>
        \A r \in Peers : \A w \in Kinds : \A x \in Known(r, w) : Told(n, q, w, x)

Sincere(n) ==
    \A q, r \in Peers : \A w \in Kinds : \A x : Carries(n[q][r], w, x) => x \in Known(r, w)

Unmet(p) == \A w \in Kinds : Known(p, w) = {}

AllHear(n) == Spread(n) /\ Sincere(n) /\ \A p \in Peers : Online(p) \/ Unmet(p)

KnowInv ==
    /\ DOMAIN provider = Peers /\ drops \in Nat
    /\ ~unheard /\ drops = 0 => AllHear(net)

\* a is s with m at its end.
Longer(s, m, a, w, x) ==
    /\ Carries(s, w, x) => Carries(a, w, x)
    /\ m.type = "update" /\ x \in m[w] => Carries(a, w, x)
    /\ Asks(s) => Asks(a)
    /\ m.type = "step1" => Asks(a)
    /\ Carries(a, w, x) => Carries(s, w, x) \/ (m.type = "update" /\ x \in m[w])

LEMMA AppendCarries ==
    ASSUME NEW s, IsSeq(s), NEW m, NEW a, a = Append(s, m), NEW w, NEW x
    PROVE  Longer(s, m, a, w, x)
<1>0. PICK n : n = Len(s)
  OBVIOUS
<1>1. /\ n \in Nat /\ DOMAIN s = 1 .. n /\ DOMAIN a = 1 .. n + 1
      /\ \A i \in 1 .. n : a[i] = s[i] /\ i \in 1 .. n + 1
      /\ a[n + 1] = m /\ n + 1 \in 1 .. n + 1
  BY <1>0, SeqIs, AppendIs
<1>2. \A i \in 1 .. n + 1 : i \in 1 .. n \/ i = n + 1
  BY <1>1
<1>3. Carries(s, w, x) => Carries(a, w, x)
  BY <1>1 DEF Carries
<1>4. m.type = "update" /\ x \in m[w] => Carries(a, w, x)
  BY <1>1 DEF Carries
<1>5. Asks(s) => Asks(a)
  BY <1>1 DEF Asks
<1>6. m.type = "step1" => Asks(a)
  BY <1>1 DEF Asks
<1>7. Carries(a, w, x) => Carries(s, w, x) \/ (m.type = "update" /\ x \in m[w])
  BY <1>1, <1>2 DEF Carries
<1> QED
  BY <1>3, <1>4, <1>5, <1>6, <1>7 DEF Longer

\* t is s without m at its head.
Shorter(s, m, t, w, x) ==
    /\ Carries(t, w, x) => Carries(s, w, x)
    /\ Carries(s, w, x) => Carries(t, w, x) \/ (m.type = "update" /\ x \in m[w])
    /\ Asks(s) => Asks(t) \/ m.type = "step1"
    /\ m.type = "update" /\ x \in m[w] => Carries(s, w, x)

LEMMA TailCarries ==
    ASSUME NEW s, IsSeq(s), s # <<>>, NEW m, m = Head(s), NEW t, t = Tail(s), NEW w, NEW x
    PROVE  Shorter(s, m, t, w, x)
<1>0. PICK n : n = Len(s)
  OBVIOUS
<1>1. /\ n \in Nat /\ n > 0 /\ DOMAIN s = 1 .. n /\ DOMAIN t = 1 .. n - 1 /\ m = s[1]
      /\ \A i \in 1 .. n - 1 : t[i] = s[i + 1]
  BY <1>0, SeqIs, TailIs
<1>2. /\ \A i \in 1 .. n - 1 : i + 1 \in 1 .. n
      /\ \A i \in 1 .. n : i = 1 \/ (i - 1 \in 1 .. n - 1 /\ (i - 1) + 1 = i)
  BY <1>1
<1>3. \A i \in 1 .. n : i = 1 \/ (i - 1 \in DOMAIN t /\ t[i - 1] = s[i])
  BY <1>1, <1>2
<1>4. Carries(s, w, x) => Carries(t, w, x) \/ (m.type = "update" /\ x \in m[w])
  BY <1>1, <1>3 DEF Carries
<1>5. Asks(s) => Asks(t) \/ m.type = "step1"
  BY <1>1, <1>3 DEF Asks
<1>6. Carries(t, w, x) => Carries(s, w, x)
  BY <1>1, <1>2 DEF Carries
<1>7. m.type = "update" /\ x \in m[w] => Carries(s, w, x)
  BY <1>1 DEF Carries
<1> QED
  BY <1>4, <1>5, <1>6, <1>7 DEF Shorter

\* A step that touches neither documents nor queues nor who is online.
LEMMA SameKnow ==
    ASSUME KnowInv, UNCHANGED <<writes, dead, net>>, DOMAIN provider' = Peers,
           drops' \in Nat, ~unheard' => ~unheard, drops' = 0 => drops = 0,
           \A q \in Peers : Online(q)' <=> Online(q)
    PROVE  KnowInv'
<1>1. \A p, w : Known(p, w)' = Known(p, w)
  BY DEF Known
<1>2. \A q, w, x : Told(net, q, w, x) => Told(net, q, w, x)'
  BY <1>1 DEF Told
<1>3. Spread(net) => Spread(net)'
  BY <1>1, <1>2 DEF Spread
<1>4. Sincere(net) => Sincere(net)'
  BY <1>1 DEF Sincere
<1>5. AllHear(net) => AllHear(net)'
  BY <1>1, <1>3, <1>4 DEF AllHear, Unmet
<1> QED
  BY <1>5 DEF KnowInv

\* What a message that is sent does to what the queues tell and ask.
Spoken(n, p, m, s, q, r, w, x) ==
    /\ Carries(n[q][r], w, x) => Carries(s[q][r], w, x)
    /\ Asks(n[q][r]) => Asks(s[q][r])
    /\ Carries(s[q][r], w, x) =>
          Carries(n[q][r], w, x) \/ (r = p /\ m.type = "update" /\ x \in m[w])
    /\ q # p /\ Online(q) /\ m.type = "update" /\ x \in m[w] => Carries(s[q][p], w, x)
    /\ q # p /\ Online(q) /\ m.type = "step1" => Asks(s[q][p])

LEMMA SendCarries ==
    ASSUME NEW n, AllQueues(n), NEW p \in Peers, NEW m, NEW s, s = Send(n, p, m),
           NEW q \in Peers, NEW r \in Peers, NEW w, NEW x
    PROVE  Spoken(n, p, m, s, q, r, w, x)
<1>1. PICK a : a = Append(n[q][p], m)
  OBVIOUS
<1>2. Sent(n, p, m, s)
  BY SendIs
<1>3. /\ r # p => s[q][r] = n[q][r]
      /\ s[q][p] = n[q][p] \/ s[q][p] = a
      /\ q \in Others(p) => s[q][p] = a
  BY <1>1, <1>2 DEF Sent
<1>4. q # p /\ Online(q) => q \in Others(p)
  BY DEF Others, Online
<1>5. IsSeq(n[q][p])
  BY DEF AllQueues, Queues
<1>6. Longer(n[q][p], m, a, w, x)
  BY <1>1, <1>5, AppendCarries, Zenon
<1> QED
  BY <1>3, <1>4, <1>6 DEF Longer, Spoken

\* An online peer that knows what the update m says tells it to all others.
LEMMA Telling ==
    ASSUME NEW p \in Peers, Online(p), UNCHANGED provider,
           NEW n, AllQueues(n), NEW m, m.type = "update", net' = Relay(n, p, m),
           \A w \in Kinds : Known(p, w)' = Known(p, w) \cup m[w],
           \A w \in Kinds : \A q \in Peers \ {p} : Known(q, w)' = Known(q, w),
           Sincere(n), \A q \in Peers : Online(q) \/ Unmet(q),
           \A q \in Peers : Online(q) =>
              \A r \in Peers : \A w \in Kinds : \A x \in Known(r, w) :
                 Told(n, q, w, x) \/ x \in m[w]
    PROVE  AllHear(net)'
<1>1. net' = Send(n, p, m)
  BY DEF Relay, Online
<1>2. ASSUME NEW q \in Peers, NEW r \in Peers, NEW w, NEW x
      PROVE  /\ Carries(n[q][r], w, x) => Carries(net'[q][r], w, x)
             /\ Asks(n[q][r]) => Asks(net'[q][r])
             /\ Carries(net'[q][r], w, x) => Carries(n[q][r], w, x) \/ (r = p /\ x \in m[w])
             /\ q # p /\ Online(q) /\ x \in m[w] => Carries(net'[q][p], w, x)
  <2>1. Spoken(n, p, m, net', q, r, w, x)
    BY <1>1, SendCarries
  <2> QED
    BY <2>1 DEF Spoken
<1>3. \A q \in Peers : Online(q)' <=> Online(q)
  BY DEF Online
<1>4. \A q \in Peers : \A w \in Kinds : \A x \in Known(q, w) : x \in Known(q, w)'
  OBVIOUS
<1>5. ASSUME NEW q \in Peers, NEW w \in Kinds, NEW x, Told(n, q, w, x)
      PROVE  Told(net, q, w, x)'
  BY <1>2, <1>4, <1>5 DEF Told
<1>6. ASSUME NEW q \in Peers, Online(q), NEW w \in Kinds, NEW x \in m[w]
      PROVE  Told(net, q, w, x)'
  <2>1. CASE q = p
    BY <1>6, <2>1 DEF Told
  <2>2. CASE q # p
    BY <1>2, <1>6, <2>2 DEF Told
  <2> QED
    BY <2>1, <2>2
<1>7. Spread(net)'
  <2>1. ASSUME NEW q \in Peers, Online(q)', NEW r \in Peers, NEW w \in Kinds, NEW x \in Known(r, w)'
        PROVE  Told(net, q, w, x)'
    <3>1. x \in Known(r, w) \/ x \in m[w]
      BY <2>1
    <3> QED
      BY <1>3, <1>5, <1>6, <2>1, <3>1
  <2> QED
    BY <2>1 DEF Spread
<1>8. Sincere(net)'
  <2>1. ASSUME NEW q \in Peers, NEW r \in Peers, NEW w \in Kinds, NEW x, Carries(net'[q][r], w, x)
        PROVE  x \in Known(r, w)'
    <3>1. Carries(n[q][r], w, x) \/ (r = p /\ x \in m[w])
      BY <1>2, <2>1
    <3>2. Carries(n[q][r], w, x) => x \in Known(r, w)
      BY DEF Sincere
    <3> QED
      BY <1>4, <3>1, <3>2
  <2> QED
    BY <2>1 DEF Sincere
<1>9. \A q \in Peers : Online(q)' \/ Unmet(q)'
  BY <1>3 DEF Unmet
<1> QED
  BY <1>7, <1>8, <1>9 DEF AllHear

LEMMA TransactKnow ==
    ASSUME DocsInv, KnowInv, NEW p \in Peers, NEW new, NEW gone, Transact(p, new, gone),
           UNCHANGED <<provider, drops>>
    PROVE  KnowInv'
<1>1. CASE new = <<>> /\ gone = {}
  <2>1. UNCHANGED <<writes, dead, net, unheard>>
    BY <1>1 DEF Transact
  <2> QED
    BY <2>1, SameKnow DEF KnowInv, Online
<1>2. ASSUME ~(new = <<>> /\ gone = {}), ~unheard', drops' = 0
      PROVE  AllHear(net)'
  <2>1. ~unheard /\ Online(p) /\ drops = 0
    BY <1>2 DEF Transact, Online
  <2>2. PICK m : /\ m.type = "update" /\ net' = Relay(net, p, m)
                 /\ writes' = [writes EXCEPT ![p] = @ \cup m.writes]
                 /\ dead' = [dead EXCEPT ![p] = @ \cup m.dead]
    BY <1>2 DEF Transact
  <2>3. /\ \A w \in Kinds : Known(p, w)' = Known(p, w) \cup m[w]
        /\ \A w \in Kinds : \A q \in Peers \ {p} : Known(q, w)' = Known(q, w)
    BY <2>2 DEF Kinds, Known, DocsInv
  <2>4. Spread(net) /\ Sincere(net) /\ \A q \in Peers : Online(q) \/ Unmet(q)
    BY <2>1 DEF KnowInv, AllHear
  <2>5. \A q \in Peers : Online(q) =>
          \A r \in Peers : \A w \in Kinds : \A x \in Known(r, w) :
             Told(net, q, w, x) \/ x \in m[w]
    BY <2>4 DEF Spread
  <2>6. AllQueues(net)
    BY DEF DocsInv
  <2> QED
    BY <2>1, <2>2, <2>3, <2>4, <2>5, <2>6, Telling
<1> QED
  BY <1>1, <1>2 DEF KnowInv

LEMMA DeliverKnow ==
    ASSUME DocsInv, KnowInv, NEW p \in Peers, Deliver(p)
    PROVE  KnowInv'
<1>1. PICK f \in Peers : LET m == Head(net[p][f])
                             n == [net EXCEPT ![p][f] = Tail(@)]
                         IN  /\ net[p][f] # <<>>
                             /\ \/ /\ m.type = "step1"
                                   /\ net' = Relay(n, p, [type |-> "update", writes |-> writes[p],
                                                          dead |-> dead[p]])
                                   /\ UNCHANGED <<writes, dead>>
                                \/ /\ m.type = "update" /\ net' = n
                                   /\ writes' = [writes EXCEPT ![p] = @ \cup m.writes]
                                   /\ dead' = [dead EXCEPT ![p] = @ \cup m.dead]
  BY DEF Deliver
<1>2. PICK m : m = Head(net[p][f])
  OBVIOUS
<1>3. PICK t : t = Tail(net[p][f])
  OBVIOUS
<1>4. PICK n : n = [net EXCEPT ![p][f] = Tail(@)]
  OBVIOUS
<1>5. PICK a : a = [type |-> "update", writes |-> writes[p], dead |-> dead[p]]
  OBVIOUS
<1>6. /\ net[p][f] # <<>>
      /\ \/ m.type = "step1" /\ net' = Relay(n, p, a) /\ UNCHANGED <<writes, dead>>
         \/ /\ m.type = "update" /\ net' = n
            /\ writes' = [writes EXCEPT ![p] = @ \cup m.writes]
            /\ dead' = [dead EXCEPT ![p] = @ \cup m.dead]
  BY <1>1, <1>2, <1>4, <1>5
<1>7. Online(p) /\ UNCHANGED <<provider, drops, unheard>>
  BY DEF Deliver, Online
<1>8. /\ IsSeq(net[p][f]) /\ AllQueues(n) /\ n[p][f] = t
      /\ \A q, r \in Peers : q # p \/ r # f => n[q][r] = net[q][r]
  <2>1. IsSeq(net[p][f]) /\ AllQueues(n) /\ Rest(p, f, t, n)
    BY <1>3, <1>4, <1>6, TakenIs
  <2> QED
    BY <2>1 DEF Rest
<1>9. ASSUME NEW w, NEW x
      PROVE  /\ Carries(t, w, x) => Carries(net[p][f], w, x)
             /\ Carries(net[p][f], w, x) => Carries(t, w, x) \/ (m.type = "update" /\ x \in m[w])
             /\ Asks(net[p][f]) => Asks(t) \/ m.type = "step1"
             /\ m.type = "update" /\ x \in m[w] => Carries(net[p][f], w, x)
  <2>1. Shorter(net[p][f], m, t, w, x)
    BY <1>2, <1>3, <1>6, <1>8, TailCarries, Zenon
  <2> QED
    BY <2>1 DEF Shorter
<1>10. \A q \in Peers : Online(q)' <=> Online(q)
  BY <1>7 DEF Online
<1>11. ASSUME Sincere(net) PROVE Sincere(n)
  <2>1. ASSUME NEW q \in Peers, NEW r \in Peers, NEW w \in Kinds, NEW x, Carries(n[q][r], w, x)
        PROVE  Carries(net[q][r], w, x)
    BY <1>8, <1>9, <2>1
  <2> QED
    BY <1>11, <2>1 DEF Sincere
<1>12. ASSUME AllHear(net), m.type = "step1", net' = Relay(n, p, a), UNCHANGED <<writes, dead>>
       PROVE  AllHear(net)'
  <2>1. /\ \A w \in Kinds : a[w] = Known(p, w)
        /\ \A w \in Kinds : \A q \in Peers : Known(q, w)' = Known(q, w)
        /\ a.type = "update"
    BY <1>5, <1>12 DEF Kinds, Known
  <2>2. ASSUME NEW q \in Peers, Online(q), NEW s \in Peers, NEW w \in Kinds, NEW x \in Known(s, w)
        PROVE  Told(n, q, w, x) \/ x \in a[w]
    <3>1. Told(net, q, w, x)
      BY <1>12, <2>2 DEF AllHear, Spread
    <3>2. CASE x \in Known(q, w)
      BY <3>2 DEF Told
    <3>3. CASE \E r \in Peers : Carries(net[q][r], w, x)
      <4>1. \A r \in Peers : Carries(net[q][r], w, x) => Carries(n[q][r], w, x)
        BY <1>8, <1>9, <1>12
      <4> QED
        BY <3>3, <4>1 DEF Told
    <3>4. CASE \E r \in Peers : x \in Known(r, w) /\ Asks(net[r][q])
      <4>1. PICK r \in Peers : x \in Known(r, w) /\ Asks(net[r][q])
        BY <3>4
      <4>2. CASE r = p
        BY <2>1, <4>1, <4>2
      <4>3. CASE r # p
        <5>1. Asks(n[r][q])
          BY <1>8, <4>1, <4>3
        <5> QED
          BY <4>1, <5>1 DEF Told
      <4> QED
        BY <4>2, <4>3
    <3> QED
      BY <3>1, <3>2, <3>3, <3>4 DEF Told
  <2>3. Sincere(n) /\ \A q \in Peers : Online(q) \/ Unmet(q)
    BY <1>11, <1>12 DEF AllHear
  <2>4. \A w \in Kinds : Known(p, w)' = Known(p, w) \cup a[w]
    BY <2>1
  <2>5. \A q \in Peers : Online(q) =>
          \A r \in Peers : \A w \in Kinds : \A x \in Known(r, w) :
             Told(n, q, w, x) \/ x \in a[w]
    BY <2>2
  <2> QED
    BY <1>7, <1>8, <1>12, <2>1, <2>3, <2>4, <2>5, Telling
<1>13. ASSUME AllHear(net), m.type = "update", net' = n,
              writes' = [writes EXCEPT ![p] = @ \cup m.writes],
              dead' = [dead EXCEPT ![p] = @ \cup m.dead]
       PROVE  AllHear(net)'
  <2>1. /\ \A w \in Kinds : Known(p, w)' = Known(p, w) \cup m[w]
        /\ \A w \in Kinds : \A q \in Peers \ {p} : Known(q, w)' = Known(q, w)
    BY <1>13 DEF Kinds, Known, DocsInv
  <2>2. \A q \in Peers : \A w \in Kinds : \A x \in Known(q, w) : x \in Known(q, w)'
    BY <2>1
  <2>3. ASSUME NEW q \in Peers, NEW w \in Kinds, NEW x, Told(net, q, w, x)
        PROVE  Told(net, q, w, x)'
    <3>1. CASE x \in Known(q, w)
      BY <2>2, <3>1 DEF Told
    <3>2. ASSUME NEW r \in Peers, Carries(net[q][r], w, x) PROVE Told(net, q, w, x)'
      <4>1. CASE q = p /\ r = f
        <5>1. Carries(n[p][f], w, x) \/ x \in Known(p, w)'
          BY <1>8, <1>9, <2>1, <3>2, <4>1
        <5> QED
          BY <1>13, <4>1, <5>1 DEF Told
      <4>2. CASE q # p \/ r # f
        <5>1. Carries(n[q][r], w, x)
          BY <1>8, <3>2, <4>2
        <5> QED
          BY <1>13, <5>1 DEF Told
      <4> QED
        BY <4>1, <4>2
    <3>3. ASSUME NEW r \in Peers, x \in Known(r, w), Asks(net[r][q]) PROVE Told(net, q, w, x)'
      <4>1. Asks(n[r][q])
        BY <1>8, <1>9, <1>13, <3>3
      <4> QED
        BY <1>13, <2>2, <3>3, <4>1 DEF Told
    <3> QED
      BY <2>3, <3>1, <3>2, <3>3 DEF Told
  <2>4. Spread(net)'
    <3>1. ASSUME NEW q \in Peers, Online(q)', NEW r \in Peers, NEW w \in Kinds,
                 NEW x \in Known(r, w)'
          PROVE  Told(net, q, w, x)'
      <4>1. \E s \in Peers : x \in Known(s, w)
        <5>1. CASE x \in Known(r, w)
          BY <5>1
        <5>2. CASE x \notin Known(r, w)
          <6>1. x \in m[w]
            BY <2>1, <3>1, <5>2
          <6>2. Carries(net[p][f], w, x)
            BY <1>9, <1>13, <6>1
          <6> QED
            BY <1>13, <6>2 DEF AllHear, Sincere
        <5> QED
          BY <5>1, <5>2
      <4>2. Told(net, q, w, x)
        BY <1>10, <1>13, <3>1, <4>1 DEF AllHear, Spread
      <4> QED
        BY <2>3, <4>2
    <3> QED
      BY <3>1 DEF Spread
  <2>5. Sincere(net)'
    <3>1. ASSUME NEW q \in Peers, NEW r \in Peers, NEW w \in Kinds, NEW x, Carries(net'[q][r], w, x)
          PROVE  x \in Known(r, w)'
      <4>1. x \in Known(r, w)
        BY <1>11, <1>13, <3>1 DEF AllHear, Sincere
      <4> QED
        BY <2>2, <4>1
    <3> QED
      BY <3>1 DEF Sincere
  <2>6. \A q \in Peers : Online(q)' \/ Unmet(q)'
    <3>1. ASSUME NEW q \in Peers, ~Online(q)' PROVE Unmet(q)'
      <4>1. Unmet(q) /\ q # p
        BY <1>7, <1>10, <1>13, <3>1 DEF AllHear
      <4> QED
        BY <2>1, <4>1 DEF Unmet
    <3> QED
      BY <3>1
  <2> QED
    BY <2>4, <2>5, <2>6 DEF AllHear
<1>14. AllHear(net) => AllHear(net)'
  BY <1>6, <1>12, <1>13
<1> QED
  BY <1>7, <1>14 DEF KnowInv

\* A peer that comes asks all who are there, and nobody else knows anything.
LEMMA OpenKnow ==
    ASSUME DocsInv, KnowInv, NEW p \in Peers, Open(p)
    PROVE  KnowInv'
<1> DEFINE m == [type |-> "step1"]
<1>1. /\ provider[p] = "connecting" /\ provider' = [provider EXCEPT ![p] = "open"]
      /\ UNCHANGED <<writes, dead, drops, unheard>>
      /\ net' = Send(net, p, m)
  BY DEF Open, Socket
<1>2. m.type = "step1"
  OBVIOUS
<1> HIDE DEF m
<1>3. /\ DOMAIN provider' = Peers
      /\ \A q \in Peers \ {p} : Online(q)' <=> Online(q)
      /\ \A q \in Peers : Online(q) => Online(q)'
      /\ Online(p)'
  BY <1>1 DEF KnowInv, Online
<1>4. \A w : \A q : Known(q, w)' = Known(q, w)
  BY <1>1 DEF Known
<1>5. ASSUME NEW q \in Peers, NEW r \in Peers, NEW w, NEW x
      PROVE  /\ Carries(net[q][r], w, x) => Carries(net'[q][r], w, x)
             /\ Asks(net[q][r]) => Asks(net'[q][r])
             /\ Carries(net'[q][r], w, x) => Carries(net[q][r], w, x)
             /\ q # p /\ Online(q) => Asks(net'[q][p])
  <2>1. AllQueues(net)
    BY DEF DocsInv
  <2>2. Spoken(net, p, m, net', q, r, w, x)
    BY <1>1, <2>1, SendCarries
  <2> QED
    BY <1>2, <2>2 DEF Spoken
<1>6. ASSUME AllHear(net) PROVE AllHear(net)'
  <2>1. ASSUME NEW q \in Peers, Online(q)', NEW r \in Peers, NEW w \in Kinds, NEW x \in Known(r, w)
        PROVE  Told(net, q, w, x)'
    <3>1. CASE Online(q)
      <4>1. Told(net, q, w, x)
        BY <1>6, <2>1, <3>1 DEF AllHear, Spread
      <4> QED
        BY <1>4, <1>5, <4>1 DEF Told
    <3>2. CASE ~Online(q)
      <4>1. q = p
        BY <1>3, <2>1, <3>2
      <4>2. Online(r)
        BY <1>6, <2>1 DEF AllHear, Unmet
      <4>3. Asks(net'[r][q])
        BY <1>5, <3>2, <4>1, <4>2
      <4> QED
        BY <1>4, <2>1, <4>3 DEF Told
    <3> QED
      BY <3>1, <3>2
  <2>2. Spread(net)'
    BY <1>4, <2>1 DEF Spread
  <2>3. Sincere(net)'
    BY <1>4, <1>5, <1>6 DEF AllHear, Sincere
  <2>4. \A q \in Peers : Online(q)' \/ Unmet(q)'
    BY <1>3, <1>4, <1>6 DEF AllHear, Unmet
  <2> QED
    BY <2>2, <2>3, <2>4 DEF AllHear
<1> QED
  BY <1>1, <1>3, <1>6 DEF KnowInv

LEMMA InitKnow == Init => KnowInv
<1> SUFFICES ASSUME Init PROVE KnowInv
  OBVIOUS
<1>1. DOMAIN provider = Peers /\ drops = 0
  BY DEF Init
<1>2. ASSUME NEW p \in Peers PROVE ~Online(p) /\ Unmet(p) /\ \A r \in Peers : net[p][r] = <<>>
  BY DEF Init, Online, Unmet, Known, NoMail
<1>3. \A w, x : ~Carries(<<>>, w, x)
  BY DEF Carries
<1>4. Spread(net) /\ Sincere(net)
  BY <1>2, <1>3 DEF Spread, Sincere
<1> QED
  BY <1>1, <1>2, <1>4 DEF KnowInv, AllHear

LEMMA NextKnow == DocsInv /\ KnowInv /\ [Next]_vars => KnowInv'
<1> SUFFICES ASSUME DocsInv, KnowInv, [Next]_vars PROVE KnowInv'
  OBVIOUS
<1>1. ASSUME UNCHANGED <<writes, dead, net, provider, drops, unheard>> PROVE KnowInv'
  BY <1>1, SameKnow DEF KnowInv, Online
<1>2. CASE UNCHANGED vars
  BY <1>1, <1>2 DEF vars, worker
<1>3. ASSUME NEW p \in Peers, Page(p) PROVE KnowInv'
  BY <1>1, <1>3 DEF Page, Mount, ApplyFrame, OnStatus, Draw, PageStep, worker
<1>4. ASSUME NEW p \in Peers, User(p) PROVE KnowInv'
  <2>1. Input(p)
    BY <1>4 DEF User, DownRect, DownText, DownSelect, MoveRect, MoveDrag, UpRect, UpDrag,
                DoubleClick, SetTool, DeleteKey, DeleteButton, ClearButton, Type, CommitText
  <2> QED
    BY <1>1, <2>1 DEF Input, PageStep, worker
<1>5. ASSUME NEW p \in Peers, OtherEdit(p) PROVE KnowInv'
  BY <1>1, <1>5 DEF OtherEdit, worker
<1>6. ASSUME NEW p \in Peers, Worker(p) PROVE KnowInv'
  <2>1. CASE Initialize(p)
    <3>1. UNCHANGED <<writes, dead, net, drops, unheard>>
      BY <2>1 DEF Initialize, Receive
    <3>2. \/ UNCHANGED provider
          \/ provider[p] = "none" /\ provider' = [provider EXCEPT ![p] = "connecting"]
      BY <2>1 DEF Initialize
    <3>3. DOMAIN provider' = Peers /\ \A q \in Peers : Online(q)' <=> Online(q)
      BY <3>2 DEF KnowInv, Online
    <3> QED
      BY <3>1, <3>3, SameKnow DEF KnowInv
  <2>2. CASE OnMove(p)
    BY <1>1, <2>2 DEF OnMove, Receive
  <2>3. CASE OnCommit(p) \/ OnCreate(p) \/ OnDelete(p) \/ OnSetText(p) \/ OnClear(p)
             \/ FlushTimeout(p) \/ SeedIfMissing(p)
    <3>1. UNCHANGED <<provider, drops>>
      BY <2>3 DEF OnCommit, OnCreate, OnDelete, OnSetText, OnClear, FlushTimeout, SeedIfMissing,
                  Receive
    <3>2. PICK new, gone : Transact(p, new, gone)
      BY <2>3 DEF OnCommit, OnCreate, OnDelete, OnSetText, OnClear, FlushTimeout, SeedIfMissing,
                  FlushPending
    <3> QED
      BY <3>1, <3>2, TransactKnow
  <2> QED
    BY <1>6, <2>1, <2>2, <2>3 DEF Worker
<1>7. ASSUME NEW p \in Peers, Provider(p) PROVE KnowInv'
  <2>1. CASE Drop(p) \/ Fail(p)
    <3>1. drops' = drops + 1 /\ DOMAIN provider' = Peers
      BY <2>1 DEF Drop, Fail, Socket, KnowInv
    <3> QED
      BY <3>1 DEF KnowInv
  <2>2. CASE Retry(p)
    <3>1. UNCHANGED <<writes, dead, net, drops, unheard>>
      BY <2>2 DEF Retry, Socket
    <3>2. provider[p] = "closed" /\ provider' = [provider EXCEPT ![p] = "connecting"]
      BY <2>2 DEF Retry, Socket
    <3>3. DOMAIN provider' = Peers /\ \A q \in Peers : Online(q)' <=> Online(q)
      BY <3>2 DEF KnowInv, Online
    <3> QED
      BY <3>1, <3>3, SameKnow DEF KnowInv
  <2> QED
    BY <1>7, <2>1, <2>2, DeliverKnow, OpenKnow DEF Provider
<1> QED
  BY <1>2, <1>3, <1>4, <1>5, <1>6, <1>7 DEF Next

\* Peers that edited on open sockets only, none of which failed, show the same
\* board once nothing is under way, however many they are, whoever came first,
\* whatever they did at the same time and in whatever order their messages came
\* (whiteboardWorker.ts:96-165; the relay keeps no state, so that a newcomer has
\* to get the board from the others).
THEOREM PeersConverge == Spec => []Converged
<1>1. ASSUME KnowInv, ~unheard, drops = 0, \A r \in Peers : net[r] = NoMail,
             NEW p \in Peers, NEW q \in Peers, Online(q), NEW w \in Kinds
      PROVE  Known(p, w) \subseteq Known(q, w)
  <2>1. \A r, s \in Peers : net[r][s] = <<>>
    BY <1>1 DEF NoMail
  <2>2. \A r, s \in Peers : ~Asks(net[r][s]) /\ \A x : ~Carries(net[r][s], w, x)
    BY <2>1 DEF Asks, Carries
  <2>3. \A x \in Known(p, w) : Told(net, q, w, x)
    BY <1>1 DEF KnowInv, AllHear, Spread
  <2> QED
    BY <2>2, <2>3 DEF Told
<1>2. ASSUME NEW p \in Peers, NEW q \in Peers, writes[p] = writes[q], dead[p] = dead[q]
      PROVE  Board(p) = Board(q)
  <2>1. Applied(p) = Applied(q)
    BY <1>2 DEF Applied
  <2>2. \A k : Rightmost(p, k) = Rightmost(q, k)
    BY <2>1 DEF Rightmost
  <2>3. Present(p) = Present(q) /\ \A k : Item(p, k) = Item(q, k)
    BY <1>2, <2>2 DEF Present, Item
  <2> QED
    BY <2>3 DEF Board
<1>3. KnowInv => Converged
  <2> SUFFICES ASSUME KnowInv, ~unheard, drops = 0, \A r \in Peers : net[r] = NoMail,
                      NEW p \in Peers, NEW q \in Peers, Online(p), Online(q)
               PROVE  Board(p) = Board(q)
    BY DEF Converged, Online
  <2>1. \A w \in Kinds : Known(p, w) = Known(q, w)
    BY <1>1
  <2>2. writes[p] = writes[q] /\ dead[p] = dead[q]
    BY <2>1 DEF Kinds, Known
  <2> QED
    BY <1>2, <2>2
<1> QED
  BY <1>3, InitDocs, NextDocs, InitKnow, NextKnow, PTL DEF Spec
=============================================================================
