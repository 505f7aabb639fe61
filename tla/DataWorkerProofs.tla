-------------------------- MODULE DataWorkerProofs --------------------------
(***************************************************************************)
(* Theorems about DataWorker, for every size of the ring and of the slots, *)
(* every number of points, and both ways of handing over a frame.          *)
(***************************************************************************)
EXTENDS DataWorker, TLAPS, SequenceTheorems, WellFoundedInduction

-----------------------------------------------------------------------------
(* Numbers. *)

\* The order of the natural numbers as a relation, to use WFMin.
LEMMA NatOrder ==
    \E R : IsWellFoundedOn(R, Nat) /\ \A x, y \in Nat : x < y => <<x, y>> \in R
<1>1. \A x, y \in Nat : x < y => <<x, y>> \in OpToRel(<, Nat)
  BY DEF OpToRel
<1>2. QED
  BY <1>1, NatLessThanWellFounded, Zenon

LEMMA LeastElement ==
    ASSUME NEW T, T \subseteq Nat, T # {}
    PROVE  \E x \in T : \A y \in T : x <= y
<1>1. PICK R : IsWellFoundedOn(R, Nat) /\ \A x, y \in Nat : x < y => <<x, y>> \in R
  BY NatOrder
<1>2. IsWellFoundedOn(R, Nat)
  BY <1>1
<1>3. PICK x \in T : \A y \in T : ~ (<<y, x>> \in R)
  BY <1>2, WFMin, Zenon
<1>4. ASSUME NEW y \in T PROVE x <= y
  <2>1. x \in Nat /\ y \in Nat
    OBVIOUS
  <2>2. ~ (y < x)
    BY <1>1, <1>3, <2>1, Zenon
  <2>3. QED
    BY <2>1, <2>2
<1>5. QED
  BY <1>4

LEMMA GreatestElement ==
    ASSUME NEW n \in Nat, NEW T, T \subseteq 0..n, T # {}
    PROVE  \E x \in T : \A y \in T : y <= x
<1> DEFINE D == {n - y : y \in T}
<1>1. D \subseteq Nat /\ D # {}
  <2>1. \A y \in T : n - y \in Nat
    OBVIOUS
  <2>2. QED
    BY <2>1
<1>2. PICK d \in D : \A e \in D : d <= e
  BY <1>1, LeastElement, Zenon
<1>3. PICK x \in T : d = n - x
  OBVIOUS
<1>4. ASSUME NEW y \in T PROVE y <= x
  <2>1. n - y \in D
    OBVIOUS
  <2>2. n - x <= n - y
    BY <1>2, <1>3, <2>1
  <2>3. QED
    BY <2>2
<1>5. QED
  BY <1>4

LEMMA CeilDivPositive ==
    ASSUME NEW a \in Nat \ {0}, NEW b \in Nat \ {0}
    PROVE  CeilDiv(a, b) \in Nat \ {0}
<1> DEFINE n == a + b - 1
           q == n \div b
           r == n % b
<1>1. n \in Nat /\ n >= b /\ q \in Nat /\ r \in 0..b-1 /\ n = b * q + r
  OBVIOUS
<1>2. q # 0
  BY <1>1
<1>3. QED
  BY <1>1, <1>2 DEF CeilDiv

\* CeilDiv rounds up, and no further.
LEMMA CeilDivBound ==
    ASSUME NEW a \in Nat \ {0}, NEW b \in Nat \ {0}
    PROVE  (CeilDiv(a, b) - 1) * b < a
<1> DEFINE n == a + b - 1
           q == n \div b
           r == n % b
<1>1. n \in Nat /\ q \in Nat /\ r \in 0..b-1 /\ n = b * q + r
  OBVIOUS
<1>2. CeilDiv(a, b) = q
  BY DEF CeilDiv
<1> HIDE DEF q, r
<1>3. (q - 1) * b = b * q - b
  BY <1>1
<1>4. b * q \in Nat
  BY <1>1
<1>5. b * q - b <= a - 1
  BY <1>1, <1>4
<1>6. QED
  BY <1>2, <1>3, <1>4, <1>5

LEMMA CeilDivZero ==
    ASSUME NEW b \in Nat \ {0}
    PROVE  CeilDiv(0, b) = 0
BY DEF CeilDiv

\* The two slots: consecutive generations use different ones.
LEMMA OtherSlot ==
    ASSUME NEW g \in Nat
    PROVE  g % 2 \in 0..1 /\ (g + 1) % 2 \in 0..1 /\ (g + 1) % 2 # g % 2
OBVIOUS

-----------------------------------------------------------------------------
(* The ring, the window and the messages are well formed. *)

RingInv ==
    /\ streamed \in Point
    /\ wire \in Seq(Point)
    /\ buf \in [0..BufferSize - 1 -> Point]
    /\ head \in 0..BufferSize - 1
    /\ size \in 0..BufferSize
    /\ pushed \in Seq(Point)
    /\ windowMs \in Windows \cup {NoWindow}
    /\ inbox \in Seq(Message)

LEMMA PushAllKeepsRing ==
    ASSUME RingInv, NEW pts \in Seq(Point), PushAll(pts)
    PROVE  /\ buf' \in [0..BufferSize - 1 -> Point]
           /\ head' \in 0..BufferSize - 1
           /\ size' \in 0..BufferSize
           /\ pushed' \in Seq(Point)
<1> DEFINE n == Len(pts)
           At(i) == {k \in 1..n : (head + k - 1) % BufferSize = i}
           Last(S) == CHOOSE k \in S : \A j \in S : j <= k
<1>1. n \in Nat /\ \A k \in 1..n : pts[k] \in Point
  BY ElementOfSeq, LenProperties
<1>2. ASSUME NEW i \in 0..BufferSize - 1, At(i) # {} PROVE pts[Last(At(i))] \in Point
  <2>1. At(i) \subseteq 0..n
    BY <1>1
  <2>2. \E x \in At(i) : \A y \in At(i) : y <= x
    BY <1>1, <1>2, <2>1, GreatestElement, Zenon
  <2>3. Last(At(i)) \in At(i)
    BY <2>2, Zenon
  <2>4. QED
    BY <1>1, <2>3
<1>3. buf' = [i \in DOMAIN buf |-> IF At(i) = {} THEN buf[i] ELSE pts[Last(At(i))]]
  BY DEF PushAll
<1>4. buf' \in [0..BufferSize - 1 -> Point]
  <2> HIDE DEF At, Last
  <2> QED
    BY <1>2, <1>3 DEF RingInv
<1>5. head' \in 0..BufferSize - 1 /\ size' \in 0..BufferSize
  <2>1. head' = (head + n) % BufferSize /\ size' = IF size + n < BufferSize THEN size + n ELSE BufferSize
    BY DEF PushAll
  <2> HIDE DEF n
  <2>2. head + n \in Nat /\ size \in 0..BufferSize /\ BufferSize \in Nat \ {0}
    BY <1>1, DataWorkerAssumption DEF RingInv
  <2>3. (head + n) % BufferSize \in 0..BufferSize - 1
    BY <2>2
  <2>4. QED
    BY <1>1, <2>1, <2>2, <2>3
<1>6. pushed' \in Seq(Point)
  BY ConcatProperties DEF PushAll, RingInv
<1>7. QED
  BY <1>4, <1>5, <1>6

\* The server samples a long history: what it returns are points it has.
LEMMA HistoryIsSeq ==
    ASSUME NEW n \in Point
    PROVE  FetchHistory(n) \in Seq(Point)
<1> DEFINE stride == IF n > BufferSize THEN CeilDiv(n, BufferSize) ELSE 1
           count == CeilDiv(n, stride)
           sampled == [k \in 1..count |-> 1 + (k - 1) * stride]
<1>0. n \in Nat /\ MaxPoints \in Nat /\ n <= MaxPoints
  BY DataWorkerAssumption DEF Point
<1>1. stride \in Nat \ {0}
  <2>1. CASE n > BufferSize
    BY <1>0, <2>1, CeilDivPositive, DataWorkerAssumption
  <2>2. CASE ~(n > BufferSize)
    BY <2>2
  <2>3. QED
    BY <2>1, <2>2
<1> HIDE DEF stride
<1>2. count \in Nat
  BY <1>0, <1>1 DEF CeilDiv
<1>3. ASSUME NEW k \in 1..count PROVE 1 + (k - 1) * stride \in Point
  <2>1. n # 0
    BY <1>0, <1>1, <1>3, CeilDivZero
  <2>2. (count - 1) * stride < n
    BY <1>0, <1>1, <2>1, CeilDivBound
  <2> HIDE DEF count
  <2>3. (k - 1) \in Nat /\ k - 1 <= count - 1
    BY <1>2
  <2>4. (k - 1) * stride \in Nat /\ (k - 1) * stride <= (count - 1) * stride
    BY <1>1, <1>2, <2>3
  <2>5. (count - 1) * stride \in Int
    BY <1>1, <1>2
  <2>6. QED
    BY <1>0, <2>2, <2>4, <2>5 DEF Point
<1> HIDE DEF count
<1>4. sampled \in Seq(Point)
  BY <1>2, <1>3
<1>5. FetchHistory(n) = IF n = 0 \/ sampled[Len(sampled)] = n THEN sampled ELSE Append(sampled, n)
  BY DEF FetchHistory, stride, count
<1> HIDE DEF sampled
<1>6. QED
  BY <1>4, <1>5

LEMMA ReadPoint ==
    ASSUME RingInv, NEW i \in Nat
    PROVE  Read(i) \in Point
<1>1. StartIdx \in Nat /\ BufferSize \in Nat \ {0}
  BY DataWorkerAssumption DEF RingInv, StartIdx
<1>2. (StartIdx + i) % BufferSize \in 0..BufferSize - 1
  BY <1>1
<1>3. QED
  BY <1>2 DEF Read, RingInv

\* The window always holds the newest point.
LEMMA OffsetInRing ==
    ASSUME RingInv, size > 0
    PROVE  StartOffset \in 0..size - 1
<1>0. size \in Nat \ {0}
  BY DataWorkerAssumption DEF RingInv
<1>1. CASE windowMs = NoWindow
  BY <1>0, <1>1 DEF StartOffset
<1>2. CASE windowMs # NoWindow
  <2> DEFINE cutoff == Read(size - 1) - windowMs
             T == {i \in 0..size - 1 : Read(i) >= cutoff}
             First(i) == Read(i) >= cutoff /\ \A j \in 0..i - 1 : Read(j) < cutoff
  <2>1. windowMs \in Nat /\ Read(size - 1) \in Int
    <3>1. Read(size - 1) \in Point
      BY <1>0, ReadPoint
    <3>2. QED
      BY <1>2, <3>1, DataWorkerAssumption DEF RingInv, Point
  <2>2. cutoff \in Int /\ Read(size - 1) >= cutoff
    BY <2>1
  <2>3. StartOffset = CHOOSE i \in 0..size - 1 : First(i)
    BY <1>2 DEF StartOffset
  <2> HIDE DEF cutoff
  <2>4. T \subseteq Nat /\ T # {}
    BY <1>0, <2>2
  <2>5. PICK x \in T : \A y \in T : x <= y
    BY <2>4, LeastElement, Zenon
  <2>6. ASSUME NEW j \in 0..x - 1 PROVE Read(j) < cutoff
    <3>1. j \in 0..size - 1 /\ j \notin T
      BY <1>0, <2>5, <2>6
    <3>2. Read(j) \in Int
      BY <3>1, ReadPoint, DataWorkerAssumption DEF Point
    <3>3. QED
      BY <2>2, <3>1, <3>2
  <2>7. x \in 0..size - 1 /\ First(x)
    BY <2>5, <2>6
  <2> HIDE DEF First
  <2>8. QED
    BY <2>3, <2>7, Zenon
<1>3. QED
  BY <1>1, <1>2

\* A frame is a sequence of points, and never empty.
LEMMA FrameIsSeq ==
    ASSUME RingInv, size > 0
    PROVE  Frame \in Seq(Point)
<1> DEFINE sliceSize == size - StartOffset
           stride == CeilDiv(sliceSize, MaxRenderPoints)
           count == CeilDiv(sliceSize, stride)
<1>1. sliceSize \in Nat \ {0} /\ StartOffset \in Nat
  <2>1. StartOffset \in 0..size - 1
    BY OffsetInRing
  <2>2. size \in Nat \ {0}
    BY DataWorkerAssumption DEF RingInv
  <2>3. QED
    BY <2>1, <2>2
<1>2. Frame = [k \in 1..count |-> Read(StartOffset + (k - 1) * stride)]
  BY DEF Frame
<1> HIDE DEF sliceSize
<1>3. stride \in Nat \ {0}
  BY <1>1, CeilDivPositive, DataWorkerAssumption
<1> HIDE DEF stride
<1>4. count \in Nat \ {0}
  BY <1>1, <1>3, CeilDivPositive
<1> HIDE DEF count
<1>5. ASSUME NEW k \in 1..count PROVE Read(StartOffset + (k - 1) * stride) \in Point
  <2>1. k - 1 \in Nat
    BY <1>4
  <2>2. (k - 1) * stride \in Nat
    BY <2>1, <1>3
  <2>3. StartOffset + (k - 1) * stride \in Nat
    BY <1>1, <2>2
  <2>4. QED
    BY <2>3, ReadPoint
<1>6. Frame \in [1..count -> Point]
  BY <1>2, <1>5
<1>7. QED
  BY <1>4, <1>6, SeqDef

\* What loading the history pushes is a sequence of points.
LEMMA LoadedIsSeq ==
    ASSUME RingInv, LoadHistory
    PROVE  \E pts \in Seq(Point) : PushAll(pts)
<1>1. PICK n \in {streamed, streamed + 1} \cap 0..MaxPoints :
          LET series == FetchHistory(n)
              start == IF Len(series) > BufferSize THEN Len(series) - BufferSize ELSE 0
          IN PushAll(SubSeq(series, start + 1, Len(series)))
  BY DEF LoadHistory
<1> DEFINE series == FetchHistory(n)
           start == IF Len(series) > BufferSize THEN Len(series) - BufferSize ELSE 0
<1>2. series \in Seq(Point) /\ Len(series) \in Nat
  <2>1. n \in Point
    BY DEF Point
  <2>2. QED
    BY <2>1, HistoryIsSeq, LenProperties
<1>3. PushAll(SubSeq(series, start + 1, Len(series)))
  BY <1>1
<1> HIDE DEF series
<1>4. start \in Nat
  BY <1>2, DataWorkerAssumption
<1> HIDE DEF start
<1>5. \A i \in start + 1 .. Len(series) : series[i] \in Point
  BY <1>2, <1>4, ElementOfSeq
<1>6. SubSeq(series, start + 1, Len(series)) \in Seq(Point)
  BY <1>2, <1>4, <1>5, SubSeqProperties
<1>7. QED
  BY <1>3, <1>6

LEMMA InitRing == Init => RingInv
<1> SUFFICES ASSUME Init PROVE RingInv
  OBVIOUS
<1>1. <<>> \in Seq(Point) /\ <<>> \in Seq(Message)
  BY EmptySeq
<1>2. 0 \in Point
  BY DataWorkerAssumption DEF Point
<1>3. QED
  BY <1>1, <1>2, DataWorkerAssumption DEF Init, RingInv, Point

LEMMA StepRing == RingInv /\ [Next]_vars => RingInv'
<1> SUFFICES ASSUME RingInv, [Next]_vars PROVE RingInv'
  OBVIOUS
<1> USE DEF server, socket, ring, output, main
<1>1. CASE Stream
  <2>1. streamed' \in Point /\ wire' \in Seq(Point)
    <3>1. streamed' = streamed + 1 /\ streamed' \in Point
      BY <1>1, DataWorkerAssumption DEF Stream, RingInv, Point
    <3>2. wire' = wire \/ wire' = Append(wire, streamed')
      BY <1>1, <3>1 DEF Stream
    <3>3. wire \in Seq(Point) /\ \A x \in Point : Append(wire, x) \in Seq(Point)
      BY DEF RingInv
    <3>4. QED
      BY <3>1, <3>2, <3>3
  <2>2. QED
    BY <1>1, <2>1 DEF Stream, RingInv
<1>2. CASE LoadHistory
  <2>1. PICK pts \in Seq(Point) : PushAll(pts)
    BY <1>2, LoadedIsSeq
  <2>2. QED
    BY <1>2, <2>1, PushAllKeepsRing DEF LoadHistory, RingInv
<1>3. CASE OnMetricMessage
  <2>1. Head(wire) \in Point /\ Tail(wire) \in Seq(Point)
    BY <1>3, HeadTailProperties DEF OnMetricMessage, RingInv
  <2>2. <<Head(wire)>> \in Seq(Point)
    BY <2>1
  <2>3. QED
    BY <1>3, <2>1, <2>2, PushAllKeepsRing DEF OnMetricMessage, RingInv
<1>4. CASE OnMessage
  <2>1. Head(inbox) \in Message /\ Tail(inbox) \in Seq(Message)
    BY <1>4, HeadTailProperties DEF OnMessage, RingInv
  <2>2. QED
    BY <1>4, <2>1 DEF OnMessage, RingInv, Message
<1>5. CASE Mount \/ SetRange
  <2>1. \A w \in Windows \cup {NoWindow}, t \in {"kick", "setRange"} :
            [type |-> t, windowMs |-> w] \in Message
    BY DEF Message
  <2>2. \A m \in Message : Append(inbox, m) \in Seq(Message)
    BY DEF RingInv
  <2>3. CASE Mount
    BY <2>1, <2>2, <2>3 DEF Mount, Post, RingInv
  <2>4. CASE SetRange
    BY <2>1, <2>2, <2>4 DEF SetRange, Post, RingInv
  <2>5. QED
    BY <1>5, <2>3, <2>4
<1>6. CASE Open \/ Closed \/ Stop
  <2>1. /\ wire' = <<>> /\ UNCHANGED <<streamed, ring, windowMs>>
        /\ inbox' = inbox \/ inbox' = <<>>
    BY <1>6 DEF Open, Closed, Stop
  <2>2. <<>> \in Seq(Point) /\ <<>> \in Seq(Message)
    OBVIOUS
  <2>3. QED
    BY <2>1, <2>2 DEF RingInv
<1>7. CASE HistoryFails \/ Connect
  BY <1>7 DEF HistoryFails, Connect, RingInv
<1>8. CASE Flush
  BY <1>8 DEF Flush, FlushNothing, FlushFrameTransfer, FlushFrameSAB, WritePoint, PostTick, RingInv
<1>9. CASE Unmount \/ Tick
  BY <1>9 DEF Unmount, Tick, RingInv
<1>10. CASE UNCHANGED vars
  BY <1>10 DEF vars, RingInv
<1>11. QED
  BY <1>1, <1>2, <1>3, <1>4, <1>5, <1>6, <1>7, <1>8, <1>9, <1>10 DEF Next, Worker, Page, Flush

-----------------------------------------------------------------------------
(* The ring holds the last points that were pushed. *)

\* An integer is the remainder it leaves in any division with one.
LEMMA ModUnique ==
    ASSUME NEW b \in Nat \ {0}, NEW x \in Nat, NEW q \in Nat, NEW r \in 0..b - 1,
           x = b * q + r
    PROVE  x % b = r
<1> DEFINE p == x \div b
           s == x % b
<1>1. p \in Nat /\ s \in 0..b - 1 /\ x = b * p + s
  OBVIOUS
<1> HIDE DEF p, s
<1>2. b * p \in Nat /\ b * q \in Nat
  BY <1>1
<1>3. CASE p < q
  <2>1. b * p + b <= b * q
    <3>1. q - (p + 1) \in Nat
      BY <1>1, <1>3
    <3>2. b * (q - (p + 1)) \in Nat
      BY <3>1
    <3>3. b * (q - (p + 1)) = b * q - (b * p + b)
      BY <1>1
    <3>4. QED
      BY <1>2, <3>2, <3>3
  <2>2. QED
    BY <1>1, <1>2, <2>1
<1>4. CASE q < p
  <2>1. b * q + b <= b * p
    <3>1. p - (q + 1) \in Nat
      BY <1>1, <1>4
    <3>2. b * (p - (q + 1)) \in Nat
      BY <3>1
    <3>3. b * (p - (q + 1)) = b * p - (b * q + b)
      BY <1>1
    <3>4. QED
      BY <1>2, <3>2, <3>3
  <2>2. QED
    BY <1>1, <1>2, <2>1
<1>5. CASE p = q
  <2>1. s = r
    BY <1>1, <1>2, <1>5
  <2>2. QED
    BY <2>1 DEF s
<1>6. QED
  BY <1>1, <1>3, <1>4, <1>5

\* Reducing a summand first changes no remainder.
LEMMA ModAdd ==
    ASSUME NEW b \in Nat \ {0}, NEW a \in Nat, NEW i \in Nat
    PROVE  ((a % b) + i) % b = (a + i) % b
<1> DEFINE q == a \div b
           r == a % b
           p == (r + i) \div b
           s == (r + i) % b
<1>1. q \in Nat /\ r \in 0..b - 1 /\ a = b * q + r
  OBVIOUS
<1> HIDE DEF q, r
<1>2. r + i \in Nat
  BY <1>1
<1>3. p \in Nat /\ s \in 0..b - 1 /\ r + i = b * p + s
  BY <1>2
<1> HIDE DEF p, s
<1>4. b * q \in Nat /\ b * p \in Nat /\ b * (q + p) = b * q + b * p
  BY <1>1, <1>3
<1>5. a + i = b * (q + p) + s
  BY <1>1, <1>3, <1>4
<1>6. (a + i) % b = s
  <2>1. q + p \in Nat /\ a + i \in Nat
    BY <1>1, <1>3
  <2>2. QED
    BY <1>3, <1>5, <2>1, ModUnique
<1>7. QED
  BY <1>6 DEF r, s

\* Numbers with the same remainder are a whole divisor apart.
LEMMA ModApart ==
    ASSUME NEW b \in Nat \ {0}, NEW x \in Nat, NEW y \in Nat, x % b = y % b, x < y
    PROVE  x + b <= y
<1> DEFINE p == x \div b
           q == y \div b
           r == x % b
<1>1. p \in Nat /\ r \in 0..b - 1 /\ x = b * p + r
  OBVIOUS
<1>2. q \in Nat /\ y = b * q + r
  OBVIOUS
<1> HIDE DEF p, q, r
<1>3. b * p \in Nat /\ b * q \in Nat
  BY <1>1, <1>2
<1>4. p < q
  <2>1. CASE p = q
    BY <1>1, <1>2, <1>3, <2>1
  <2>2. CASE q < p
    <3>1. p - q \in Nat
      BY <1>1, <1>2, <2>2
    <3>2. b * (p - q) \in Nat /\ b * (p - q) = b * p - b * q
      BY <1>1, <1>2, <3>1
    <3>3. QED
      BY <1>1, <1>2, <1>3, <3>2
  <2>3. QED
    BY <1>1, <1>2, <2>1, <2>2
<1>5. q - (p + 1) \in Nat
  BY <1>1, <1>2, <1>4
<1>6. b * (q - (p + 1)) \in Nat
  BY <1>5
<1>7. b * (q - (p + 1)) = b * q - (b * p + b)
  BY <1>1, <1>2
<1>8. QED
  BY <1>1, <1>2, <1>3, <1>6, <1>7

LEMMA ModSkip ==
    ASSUME NEW b \in Nat \ {0}, NEW x \in Nat
    PROVE  (x + b) % b = x % b
<1> DEFINE p == x \div b
           r == x % b
<1>1. p \in Nat /\ r \in 0..b - 1 /\ x = b * p + r
  OBVIOUS
<1> HIDE DEF p, r
<1>2. b * (p + 1) = b * p + b /\ b * p \in Nat
  BY <1>1
<1>3. x + b = b * (p + 1) + r /\ x + b \in Nat /\ p + 1 \in Nat
  BY <1>1, <1>2
<1>4. (x + b) % b = r
  BY <1>1, <1>3, ModUnique
<1>5. QED
  BY <1>4 DEF r

\* Where the points are: of the n that were pushed, the last ones, as many as
\* the ring has room for, each at its number modulo the capacity.
HoldsLast ==
    LET n == Len(pushed) IN
    /\ head = n % BufferSize
    /\ size = IF n < BufferSize THEN n ELSE BufferSize
    /\ \A m \in 1..n : m + BufferSize > n => buf[(m - 1) % BufferSize] = pushed[m]

LEMMA PushAllHolds ==
    ASSUME RingInv, HoldsLast, NEW pts \in Seq(Point), PushAll(pts)
    PROVE  HoldsLast'
<1> DEFINE B == BufferSize
           N == Len(pushed)
           n == Len(pts)
           At(i) == {k \in 1..n : (head + k - 1) % B = i}
           Last(S) == CHOOSE k \in S : \A j \in S : j <= k
<1>1. N \in Nat /\ n \in Nat /\ B \in Nat \ {0}
  BY LenProperties, DataWorkerAssumption DEF RingInv
<1>2. /\ head = N % B
      /\ size = IF N < B THEN N ELSE B
      /\ \A m \in 1..N : m + B > N => buf[(m - 1) % B] = pushed[m]
  BY DEF HoldsLast
<1>3. /\ buf' = [i \in DOMAIN buf |-> IF At(i) = {} THEN buf[i] ELSE pts[Last(At(i))]]
      /\ head' = (head + n) % B
      /\ size' = IF size + n < B THEN size + n ELSE B
      /\ pushed' = pushed \o pts
  BY DEF PushAll
<1>4. DOMAIN buf = 0..B - 1
  BY DEF RingInv
<1>5. /\ Len(pushed') = N + n
      /\ \A m \in 1..N : pushed'[m] = pushed[m]
      /\ \A m \in N + 1..N + n : pushed'[m] = pts[m - N]
  <2>1. pushed \in Seq(Point)
    BY DEF RingInv
  <2>2. /\ Len(pushed \o pts) = N + n
        /\ \A i \in 1..N + n : (pushed \o pts)[i] = IF i <= N THEN pushed[i] ELSE pts[i - N]
    BY <2>1, ConcatProperties
  <2> DEFINE both == pushed \o pts
  <2>3. pushed' = both
    BY <1>3
  <2> HIDE DEF N, n, both
  <2>4. \A m \in N + 1..N + n : m \in 1..N + n /\ ~(m <= N)
    BY <1>1
  <2>5. \A m \in 1..N : m \in 1..N + n /\ m <= N
    BY <1>1
  <2>6. Len(both) = N + n /\ \A i \in 1..N + n : both[i] = IF i <= N THEN pushed[i] ELSE pts[i - N]
    BY <2>2 DEF both
  <2>7. QED
    BY <2>3, <2>4, <2>5, <2>6
<1> HIDE DEF B, N, n
<1>6. \A k \in 1..n : (head + k - 1) % B = (N + k - 1) % B
  <2>1. ASSUME NEW k \in 1..n PROVE (head + k - 1) % B = (N + k - 1) % B
    <3>1. k - 1 \in Nat
      BY <1>1
    <3>2. ((N % B) + (k - 1)) % B = (N + (k - 1)) % B
      BY <1>1, <3>1, ModAdd
    <3>3. N % B \in Nat
      BY <1>1
    <3>4. (N % B) + (k - 1) = head + k - 1 /\ N + (k - 1) = N + k - 1
      BY <1>1, <1>2, <3>3
    <3>5. QED
      BY <3>2, <3>4
  <2>2. QED
    BY <2>1
<1>7. ASSUME NEW m \in 1..N + n, m + B > N + n PROVE buf'[(m - 1) % B] = pushed'[m]
  <2> DEFINE i == (m - 1) % B
  <2>1. m \in Nat /\ m - 1 \in Nat /\ i \in 0..B - 1
    BY <1>1
  <2> HIDE DEF i
  <2>2. \A k \in At(i) : k \in 1..n /\ (N + k - 1) % B = (m - 1) % B /\ N + k - 1 \in Nat
    BY <1>1, <1>6 DEF i
  <2>3. CASE m <= N
    <3>1. At(i) = {}
      <4>1. ASSUME NEW k \in At(i) PROVE FALSE
        <5>1. m - 1 < N + k - 1
          BY <1>1, <2>1, <2>2, <2>3
        <5>2. m - 1 + B <= N + k - 1
          BY <1>1, <2>1, <2>2, <5>1, ModApart
        <5>3. QED
          BY <1>1, <1>7, <2>1, <2>2, <5>2
      <4>2. QED
        BY <4>1, Zenon
    <3>2. buf'[i] = buf[i]
      BY <1>3, <1>4, <2>1, <3>1
    <3>3. m \in 1..N /\ m + B > N
      BY <1>1, <1>7, <2>1, <2>3
    <3>4. QED
      BY <1>2, <1>5, <3>2, <3>3 DEF i
  <2>4. CASE m > N
    <3> DEFINE k == m - N
    <3>1. k \in 1..n /\ N + k - 1 = m - 1
      BY <1>1, <2>1, <2>4
    <3> HIDE DEF k
    <3>2. k \in At(i)
      BY <1>6, <3>1 DEF i
    <3>3. ASSUME NEW j \in At(i) PROVE j <= k
      <4>1. j \in 1..n /\ (N + j - 1) % B = (m - 1) % B /\ N + j - 1 \in Nat
        BY <2>2
      <4>2. CASE j > k
        <5>1. m - 1 < N + j - 1
          BY <1>1, <3>1, <4>1, <4>2
        <5>2. m - 1 + B <= N + j - 1
          BY <1>1, <2>1, <4>1, <5>1, ModApart
        <5>3. QED
          BY <1>1, <1>7, <2>1, <4>1, <5>2
      <4>3. QED
        BY <3>1, <4>1, <4>2
    <3>4. \A j \in At(i) : (\A l \in At(i) : l <= j) => j = k
      <4>1. ASSUME NEW j \in At(i), \A l \in At(i) : l <= j PROVE j = k
        <5>1. j <= k /\ k <= j /\ j \in 1..n
          BY <2>2, <3>2, <3>3, <4>1
        <5>2. QED
          BY <3>1, <5>1
      <4>2. QED
        BY <4>1
    <3> HIDE DEF At
    <3>5. Last(At(i)) = k
      BY <3>2, <3>3, <3>4
    <3> HIDE DEF Last
    <3>6. buf'[i] = pts[k]
      BY <1>3, <1>4, <2>1, <3>2, <3>5
    <3>7. pushed'[m] = pts[m - N]
      BY <1>1, <1>5, <2>1, <2>4
    <3>8. QED
      BY <3>6, <3>7 DEF i, k
  <2>5. QED
    BY <1>1, <2>1, <2>3, <2>4
<1>8. head' = (N + n) % B
  BY <1>1, <1>2, <1>3, ModAdd
<1>9. size' = IF N + n < B THEN N + n ELSE B
  BY <1>1, <1>2, <1>3
<1>10. QED
  BY <1>5, <1>7, <1>8, <1>9 DEF HoldsLast, B

\* The points pushed into the ring are points.
LEMMA StepHolds == RingInv /\ HoldsLast /\ [Next]_vars => HoldsLast'
<1> SUFFICES ASSUME RingInv, HoldsLast, [Next]_vars PROVE HoldsLast'
  OBVIOUS
<1>1. CASE LoadHistory
  <2>1. PICK pts \in Seq(Point) : PushAll(pts)
    BY <1>1, LoadedIsSeq
  <2>2. QED
    BY <2>1, PushAllHolds
<1>2. CASE OnMetricMessage
  <2>1. Head(wire) \in Point
    BY <1>2, HeadTailProperties DEF OnMetricMessage, RingInv
  <2>2. <<Head(wire)>> \in Seq(Point)
    BY <2>1
  <2>3. QED
    BY <1>2, <2>2, PushAllHolds DEF OnMetricMessage
<1>3. CASE UNCHANGED ring
  BY <1>3 DEF HoldsLast, ring
<1>4. ~LoadHistory /\ ~OnMetricMessage => UNCHANGED ring
  BY DEF Next, Worker, Page, Stream, HistoryFails, Connect, Open, Closed, FlushNothing,
         FlushFrameTransfer, FlushFrameSAB, WritePoint, PostTick, OnMessage, Mount, Unmount,
         SetRange, Tick, Stop, vars
<1>5. QED
  BY <1>1, <1>2, <1>3, <1>4

LEMMA HoldsLastReads ==
    ASSUME RingInv, HoldsLast
    PROVE  RingHoldsLast
<1> DEFINE B == BufferSize
           N == Len(pushed)
<1>1. N \in Nat /\ B \in Nat \ {0} /\ pushed \in Seq(Point)
  BY LenProperties, DataWorkerAssumption DEF RingInv
<1>2. /\ head = N % B
      /\ size = IF N < B THEN N ELSE B
      /\ \A m \in 1..N : m + B > N => buf[(m - 1) % B] = pushed[m]
  BY DEF HoldsLast
<1> DEFINE first == N - size + 1
           s == [i \in 1..size |-> Read(i - 1)]
           t == SubSeq(pushed, first, N)
<1> HIDE DEF B, N
<1>3. first \in 1..N + 1 /\ size \in Nat /\ size <= B /\ size = N - first + 1
  BY <1>1, <1>2
<1>4. ASSUME NEW i \in 1..size PROVE Read(i - 1) = pushed[first + i - 1]
  <2> DEFINE m == first + i - 1
  <2>1. m \in 1..N /\ m + B > N /\ i - 1 \in Nat
    BY <1>1, <1>3
  <2>2. buf[(m - 1) % B] = pushed[m]
    BY <1>2, <2>1
  <2>3. (StartIdx + (i - 1)) % B = (m - 1) % B
    <3>1. CASE N < B
      <4>1. size = N /\ StartIdx = 0 /\ m - 1 = i - 1
        BY <1>1, <1>2, <3>1 DEF StartIdx, B
      <4>2. QED
        BY <2>1, <4>1
    <3>2. CASE N >= B
      <4>1. size = B /\ StartIdx = head /\ m - 1 = N - B + (i - 1)
        BY <1>1, <1>2, <3>2 DEF StartIdx, B
      <4>2. (head + (i - 1)) % B = (N + (i - 1)) % B
        BY <1>1, <1>2, <2>1, ModAdd
      <4>3. (N - B + (i - 1)) % B = (N + (i - 1)) % B
        <5>1. N - B + (i - 1) \in Nat
          BY <1>1, <2>1, <3>2
        <5>2. N + (i - 1) = (N - B + (i - 1)) + B
          BY <1>1, <2>1
        <5>3. ((N - B + (i - 1)) + B) % B = (N - B + (i - 1)) % B
          BY <1>1, <5>1, ModSkip
        <5>4. QED
          BY <5>2, <5>3
      <4>4. QED
        BY <4>1, <4>2, <4>3
    <3>3. QED
      BY <1>1, <3>1, <3>2
  <2>4. QED
    BY <2>2, <2>3 DEF Read, B
<1>5. /\ t \in Seq(Point) /\ Len(t) = size
      /\ \A i \in 1..size : t[i] = pushed[first + i - 1]
  <2>1. \A i \in first..N : pushed[i] \in Point
    BY <1>1, <1>3, ElementOfSeq DEF N
  <2>2. /\ SubSeq(pushed, first, N) \in Seq(Point)
        /\ Len(SubSeq(pushed, first, N)) = IF first <= N THEN N - first + 1 ELSE 0
        /\ \A i \in 1..N - first + 1 : SubSeq(pushed, first, N)[i] = pushed[first + i - 1]
    BY <1>1, <1>3, <2>1, SubSeqProperties
  <2>3. QED
    BY <1>1, <1>3, <2>2
<1>6. s \in Seq(Point) /\ Len(s) = size
  <2>1. \A i \in 1..size : Read(i - 1) \in Point
    BY <1>3, ReadPoint
  <2>2. QED
    BY <1>3, <2>1
<1>7. \A i \in 1..size : s[i] = t[i]
  BY <1>4, <1>5
<1>8. s = t
  BY <1>5, <1>6, <1>7, SeqEqual
<1>9. QED
  BY <1>8 DEF RingHoldsLast, N

\* The ring never forgets one of its last points and never keeps an older one
\* in its place: not when it wraps around, not when a history longer than the
\* ring is loaded, not when one response makes it wrap several times.
THEOREM RingKeepsTheLast == Spec => []RingHoldsLast
<1>1. Init => RingInv /\ HoldsLast
  <2> SUFFICES ASSUME Init PROVE HoldsLast
    BY InitRing
  <2>1. Len(pushed) = 0 /\ head = 0 /\ size = 0
    BY DEF Init
  <2>2. 0 % BufferSize = 0 /\ 0 < BufferSize
    BY DataWorkerAssumption
  <2>3. QED
    BY <2>1, <2>2 DEF HoldsLast
<1>2. RingInv /\ HoldsLast => RingHoldsLast
  BY HoldsLastReads
<1>3. QED
  BY <1>1, <1>2, StepRing, StepHolds, PTL DEF Spec

-----------------------------------------------------------------------------
(* A worker that runs has a socket or a pending retry. *)

SocketInv ==
    /\ SocketXorTimer
    /\ phase # "run" => sock = "none" /\ timer = FALSE
    /\ timer \in BOOLEAN

LEMMA StepSocket == SocketInv /\ [Next]_vars => SocketInv'
<1> SUFFICES ASSUME SocketInv, [Next]_vars PROVE SocketInv'
  OBVIOUS
<1> USE DEF SocketInv, SocketXorTimer, server, socket, ring, output, main
<1>1. CASE LoadHistory \/ HistoryFails \/ Connect
  <2>1. CASE LoadHistory \/ HistoryFails
    <3>1. phase = "loading" /\ phase' = "loaded" /\ UNCHANGED <<sock, timer>>
      BY <2>1 DEF LoadHistory, HistoryFails
    <3>2. QED
      BY <3>1
  <2>2. CASE Connect
    BY <2>2 DEF Connect
  <2>3. QED
    BY <1>1, <2>1, <2>2
<1>2. CASE Open \/ Closed \/ Stop
  <2>1. CASE Open
    BY <2>1 DEF Open
  <2>2. CASE Closed
    <3>1. phase = "run" /\ phase' = phase /\ sock' = "none" /\ timer' = TRUE
      BY <2>2 DEF Closed
    <3>2. QED
      BY <3>1
  <2>3. CASE Stop
    <3>1. phase' = "dead" /\ sock' = "none" /\ timer' = FALSE
      BY <2>3 DEF Stop
    <3>2. QED
      BY <3>1
  <2>4. QED
    BY <1>2, <2>1, <2>2, <2>3
<1>3. CASE Stream \/ OnMetricMessage \/ OnMessage
  BY <1>3 DEF Stream, OnMetricMessage, OnMessage
<1>4. CASE Flush
  BY <1>4 DEF Flush, FlushNothing, FlushFrameTransfer, FlushFrameSAB, WritePoint, PostTick
<1>5. CASE Mount \/ Unmount \/ SetRange \/ Tick
  BY <1>5 DEF Mount, Unmount, SetRange, Tick
<1>6. CASE UNCHANGED vars
  BY <1>6 DEF vars
<1>7. QED
  BY <1>1, <1>2, <1>3, <1>4, <1>5, <1>6 DEF Next, Worker, Page, Flush

\* Once the histories are loaded, the worker of a live page has a metrics
\* socket or has scheduled a reconnection, never both and never neither
\* (dataWorker.ts:278-306, 332-343).
THEOREM OneConnection == Spec => []SocketXorTimer
<1>1. Init => SocketInv
  BY DEF Init, SocketInv, SocketXorTimer
<1>2. SocketInv => SocketXorTimer
  BY DEF SocketInv
<1>3. QED
  BY <1>1, <1>2, StepSocket, PTL DEF Spec

-----------------------------------------------------------------------------
(* Frames, ticks and slots. *)

FrameRecord == [pts : Seq(Point), upTo : Nat, win : Windows \cup {NoWindow}]

OutputTypes ==
    /\ isolated \in BOOLEAN
    /\ slots \in [0..1 -> [1..MaxRenderPoints -> Point]]
    /\ sabGen \in Nat
    /\ job \in [pts : Seq(Point), done : Nat]
    /\ job.done <= Len(job.pts)
    /\ Len(job.pts) <= MaxRenderPoints
    /\ ticks \in Seq([frame : Nat, size : Nat])
    /\ frames \in Seq(FrameRecord)
    /\ view \in Nat

\* The ticks in flight announce the last frames, one each, and the chart
\* draws the last frame before them, or none yet.
TicksInOrder ==
    /\ Len(ticks) <= Len(frames)
    /\ \A k \in 1..Len(ticks) : ticks[k].frame = Len(frames) - Len(ticks) + k
    /\ view \in {0, Len(frames) - Len(ticks)}
    /\ ~mounted => view = 0

\* The slot of the last generation holds the last frame, and the other one
\* what a flush in progress has written.
SlotsHold ==
    /\ job # NoJob => isolated
    /\ isolated => sabGen = Len(frames)
    /\ isolated /\ sabGen > 0 =>
        /\ Len(frames[sabGen].pts) <= MaxRenderPoints
        /\ \A k \in 1..Len(frames[sabGen].pts) :
            slots[sabGen % 2][k] = frames[sabGen].pts[k]
    /\ \A k \in 1..job.done : slots[(sabGen + 1) % 2][k] = job.pts[k]

OutputInv == OutputTypes /\ TicksInOrder /\ SlotsHold

\* Steps that write no frame and hand none over.
LEMMA QuietOutput ==
    ASSUME OutputInv, UNCHANGED <<isolated, output>>,
           view' = 0 \/ UNCHANGED <<view, mounted>>
    PROVE  OutputInv'
<1>1. OutputTypes'
  BY DEF OutputInv, OutputTypes, output
<1>2. TicksInOrder'
  BY DEF OutputInv, TicksInOrder, output
<1>3. SlotsHold'
  BY DEF OutputInv, SlotsHold, output
<1>4. QED
  BY <1>1, <1>2, <1>3 DEF OutputInv

\* Handling a tick moves the chart on by one frame.
LEMMA TickOutput ==
    ASSUME OutputInv, Tick
    PROVE  OutputInv'
<1> DEFINE n == Len(ticks)
<1>1. /\ ticks' \in Seq([frame : Nat, size : Nat])
      /\ Len(ticks') = n - 1
      /\ \A k \in 1..n - 1 : ticks'[k] = ticks[k + 1]
      /\ n \in Nat \ {0}
  BY HeadTailProperties, EmptySeq DEF Tick, OutputInv, OutputTypes
<1>2. Len(frames) \in Nat /\ n <= Len(frames)
  BY DEF OutputInv, OutputTypes, TicksInOrder
<1>3. Head(ticks) = ticks[1] /\ ticks[1].frame = Len(frames) - n + 1
  BY <1>1 DEF OutputInv, OutputTypes, TicksInOrder
<1>4. UNCHANGED <<isolated, slots, sabGen, job, frames, mounted>>
  BY DEF Tick
<1>5. view' = IF mounted THEN Len(frames) - n + 1 ELSE view
  BY <1>3 DEF Tick
<1>6. view' \in Nat /\ view' \in {0, Len(frames) - (n - 1)} /\ (~mounted' => view' = 0)
  BY <1>1, <1>2, <1>4, <1>5 DEF OutputInv, TicksInOrder
<1> HIDE DEF n
<1>7. OutputTypes'
  BY <1>1, <1>4, <1>6 DEF OutputInv, OutputTypes
<1>8. SlotsHold'
  BY <1>4 DEF OutputInv, SlotsHold
<1>9. TicksInOrder'
  <2>1. ASSUME NEW k \in 1..Len(ticks') PROVE ticks'[k].frame = Len(frames') - Len(ticks') + k
    <3>1. Len(ticks') = n - 1 /\ n \in Nat \ {0} /\ Len(frames') = Len(frames)
      BY <1>1, <1>4
    <3>2. k \in 1..n - 1 /\ k + 1 \in 1..n
      BY <2>1, <3>1
    <3>3. ticks[k + 1].frame = Len(frames) - n + (k + 1)
      BY <3>2 DEF OutputInv, TicksInOrder, n
    <3>4. ticks'[k].frame = Len(frames) - n + (k + 1)
      BY <1>1, <3>2, <3>3
    <3>5. Len(frames) \in Nat
      BY <1>2
    <3>6. Len(frames) - n + (k + 1) = Len(frames) - (n - 1) + k
      BY <3>1, <3>2, <3>5
    <3>7. QED
      BY <3>1, <3>4, <3>6
  <2>2. Len(ticks') <= Len(frames') /\ view' \in {0, Len(frames') - Len(ticks')}
    BY <1>1, <1>2, <1>4, <1>6
  <2>3. QED
    BY <1>6, <2>1, <2>2 DEF TicksInOrder
<1>10. QED
  BY <1>7, <1>8, <1>9 DEF OutputInv

\* A flush begins: nothing is written yet.
LEMMA BeginOutput ==
    ASSUME OutputInv, RingInv, FlushFrameSAB
    PROVE  OutputInv'
<1>1. Frame \in Seq(Point) /\ Len(Frame) \in Nat
  <2>1. size > 0
    BY DEF FlushFrameSAB
  <2>2. QED
    BY <2>1, FrameIsSeq, LenProperties
<1>2. SlotFrame \in Seq(Point) /\ Len(SlotFrame) <= MaxRenderPoints
  <2>1. CASE Len(Frame) > MaxRenderPoints
    <3>1. \A i \in 1..MaxRenderPoints : Frame[i] \in Point
      BY <1>1, <2>1, ElementOfSeq, DataWorkerAssumption
    <3>2. SubSeq(Frame, 1, MaxRenderPoints) \in Seq(Point)
          /\ Len(SubSeq(Frame, 1, MaxRenderPoints)) <= MaxRenderPoints
      BY <3>1, SubSeqProperties, DataWorkerAssumption
    <3>3. QED
      BY <2>1, <3>2 DEF SlotFrame
  <2>2. CASE ~(Len(Frame) > MaxRenderPoints)
    BY <1>1, <2>2, DataWorkerAssumption DEF SlotFrame
  <2>3. QED
    BY <2>1, <2>2
<1>3. job' = [pts |-> SlotFrame, done |-> 0] /\ isolated
      /\ UNCHANGED <<isolated, slots, sabGen, ticks, frames, view, mounted>>
  BY DEF FlushFrameSAB, main
<1>4. Len(SlotFrame) \in Nat
  BY <1>2, LenProperties
<1>5. QED
  BY <1>2, <1>3, <1>4 DEF OutputInv, OutputTypes, TicksInOrder, SlotsHold

\* A flush writes one point, into the slot no posted tick of this parity is
\* the last one of.
LEMMA WriteOutput ==
    ASSUME OutputInv, WritePoint
    PROVE  OutputInv'
<1> DEFINE d == job.done + 1
           s == (sabGen + 1) % 2
<1>1. /\ d \in 1..Len(job.pts)
      /\ d \in 1..MaxRenderPoints
      /\ job.pts[d] \in Point
      /\ Len(job.pts) \in Nat
  <2>1. job.pts \in Seq(Point) /\ job.done \in Nat /\ Len(job.pts) <= MaxRenderPoints
    BY DEF OutputInv, OutputTypes
  <2>2. Len(job.pts) \in Nat
    BY <2>1, LenProperties
  <2>3. d \in 1..Len(job.pts)
    BY <2>1, <2>2 DEF WritePoint
  <2>4. job.pts[d] \in Point
    BY <2>1, <2>3, ElementOfSeq
  <2>5. d \in 1..MaxRenderPoints
    <3>1. Len(job.pts) <= MaxRenderPoints
      BY <2>1
    <3> DEFINE l == Len(job.pts)
    <3>2. d \in 1..l /\ l \in Nat /\ l <= MaxRenderPoints /\ MaxRenderPoints \in Nat
      BY <2>2, <2>3, <3>1, DataWorkerAssumption
    <3> HIDE DEF l, d
    <3>3. QED
      BY <3>2
  <2>6. QED
    BY <2>2, <2>3, <2>4, <2>5
<1>2. s \in 0..1 /\ sabGen % 2 \in 0..1 /\ s # sabGen % 2
  BY OtherSlot DEF OutputInv, OutputTypes
<1>3. slots' = [slots EXCEPT ![s][d] = job.pts[d]] /\ job' = [job EXCEPT !.done = d]
      /\ UNCHANGED <<isolated, sabGen, ticks, frames, view, mounted>>
  BY DEF WritePoint, main
<1>4. job'.pts = job.pts /\ job'.done = d
  BY <1>3 DEF OutputInv, OutputTypes
<1> HIDE DEF d, s
<1>5. OutputTypes'
  <2>1. slots' \in [0..1 -> [1..MaxRenderPoints -> Point]]
    BY <1>1, <1>2, <1>3 DEF OutputInv, OutputTypes
  <2>2. job' \in [pts : Seq(Point), done : Nat] /\ d <= Len(job.pts)
    <3>1. d \in Nat /\ d <= Len(job.pts)
      BY <1>1
    <3>2. QED
      BY <1>3, <3>1 DEF OutputInv, OutputTypes
  <2>3. QED
    BY <1>3, <1>4, <2>1, <2>2 DEF OutputInv, OutputTypes
<1>6. TicksInOrder'
  BY <1>3 DEF OutputInv, TicksInOrder
<1>7. SlotsHold'
  <2>1. slots'[sabGen % 2] = slots[sabGen % 2]
    BY <1>2, <1>3 DEF OutputInv, OutputTypes
  <2>2. \A k \in 1..d : slots'[s][k] = job.pts[k]
    <3>1. slots'[s] = [slots[s] EXCEPT ![d] = job.pts[d]]
      BY <1>2, <1>3 DEF OutputInv, OutputTypes
    <3>2. slots[s] \in [1..MaxRenderPoints -> Point]
      BY <1>2 DEF OutputInv, OutputTypes
    <3>3. slots'[s][d] = job.pts[d]
      BY <1>1, <3>1, <3>2
    <3>4. ASSUME NEW k \in 1..job.done PROVE slots'[s][k] = job.pts[k]
      <4>1. k # d /\ k \in 1..MaxRenderPoints
        <5>1. job.done \in Nat /\ d = job.done + 1 /\ d <= MaxRenderPoints
          BY <1>1 DEF d, OutputInv, OutputTypes
        <5>2. QED
          BY <5>1, DataWorkerAssumption
      <4>2. slots[s][k] = job.pts[k]
        BY DEF OutputInv, SlotsHold, s
      <4>3. QED
        BY <3>1, <3>2, <4>1, <4>2
    <3>5. \A k \in 1..d : k = d \/ k \in 1..job.done
      BY DEF d, OutputInv, OutputTypes
    <3>6. QED
      BY <3>3, <3>4, <3>5
  <2>3. job # NoJob
    BY <1>1 DEF NoJob, d
  <2>4. QED
    BY <1>3, <1>4, <2>1, <2>2, <2>3 DEF OutputInv, SlotsHold, s
<1>8. QED
  BY <1>5, <1>6, <1>7 DEF OutputInv

\* What posting a frame with its tick does, in both ways of handing it over.
LEMMA PostKeepsOrder ==
    ASSUME OutputInv, RingInv, NEW pts \in Seq(Point), NEW n \in Nat,
           frames' = Posted(pts),
           ticks' = Append(ticks, [frame |-> Len(frames) + 1, size |-> n]),
           UNCHANGED <<view, mounted>>
    PROVE  /\ ticks' \in Seq([frame : Nat, size : Nat])
           /\ frames' \in Seq(FrameRecord)
           /\ Len(frames') = Len(frames) + 1
           /\ frames'[Len(frames) + 1].pts = pts
           /\ TicksInOrder'
<1> DEFINE rec == [pts |-> pts, upTo |-> Len(pushed), win |-> windowMs]
           tick == [frame |-> Len(frames) + 1, size |-> n]
<1>1. /\ frames \in Seq(FrameRecord) /\ Len(frames) \in Nat
      /\ ticks \in Seq([frame : Nat, size : Nat]) /\ Len(ticks) \in Nat
  BY LenProperties DEF OutputInv, OutputTypes
<1>2. rec \in FrameRecord /\ rec.pts = pts
  BY LenProperties DEF FrameRecord, RingInv
<1>3. tick \in [frame : Nat, size : Nat] /\ tick.frame = Len(frames) + 1
  BY <1>1
<1>4. frames' = Append(frames, rec) /\ ticks' = Append(ticks, tick)
  BY DEF Posted
<1> HIDE DEF rec, tick
<1>5. /\ frames' \in Seq(FrameRecord) /\ Len(frames') = Len(frames) + 1
      /\ frames'[Len(frames) + 1] = rec
  BY <1>1, <1>2, <1>4
<1>6. /\ ticks' \in Seq([frame : Nat, size : Nat]) /\ Len(ticks') = Len(ticks) + 1
      /\ ticks'[Len(ticks) + 1] = tick
      /\ \A k \in 1..Len(ticks) : ticks'[k] = ticks[k]
  BY <1>1, <1>3, <1>4
<1>7. ASSUME NEW k \in 1..Len(ticks') PROVE ticks'[k].frame = Len(frames') - Len(ticks') + k
  <2>1. CASE k = Len(ticks) + 1
    BY <1>1, <1>3, <1>5, <1>6, <2>1
  <2>2. CASE k # Len(ticks) + 1
    <3>0. Len(ticks') = Len(ticks) + 1 /\ Len(ticks) \in Nat
      BY <1>1, <1>6
    <3>1. k \in 1..Len(ticks)
      BY <1>7, <2>2, <3>0
    <3>2. ticks[k].frame = Len(frames) - Len(ticks) + k
      BY <3>1 DEF OutputInv, TicksInOrder
    <3>3. QED
      BY <1>1, <1>5, <1>6, <3>1, <3>2
  <2>3. QED
    BY <2>1, <2>2
<1>8. /\ Len(ticks') <= Len(frames') /\ (~mounted' => view' = 0)
      /\ view' \in {0, Len(frames') - Len(ticks')}
  <2>1. /\ Len(ticks) <= Len(frames) /\ (~mounted => view = 0)
        /\ view \in {0, Len(frames) - Len(ticks)}
    BY DEF OutputInv, TicksInOrder
  <2>2. view' = view /\ mounted' = mounted
    OBVIOUS
  <2>3. Len(frames') - Len(ticks') = Len(frames) - Len(ticks)
    BY <1>1, <1>5, <1>6
  <2>4. Len(ticks') <= Len(frames')
    BY <1>1, <1>5, <1>6, <2>1
  <2>5. view' \in {0, Len(frames') - Len(ticks')}
    BY <2>1, <2>2, <2>3
  <2>6. ~mounted' => view' = 0
    BY <2>1, <2>2
  <2>7. QED
    BY <2>4, <2>5, <2>6
<1>9. QED
  BY <1>2, <1>5, <1>6, <1>7, <1>8 DEF TicksInOrder

LEMMA TransferOutput ==
    ASSUME OutputInv, RingInv, FlushFrameTransfer
    PROVE  OutputInv'
<1>1. Frame \in Seq(Point) /\ Len(Frame) \in Nat
  <2>1. size > 0
    BY DEF FlushFrameTransfer
  <2>2. QED
    BY <2>1, FrameIsSeq, LenProperties
<1>2. /\ ~isolated /\ frames' = Posted(Frame)
      /\ ticks' = Append(ticks, [frame |-> Len(frames) + 1, size |-> Len(Frame)])
      /\ UNCHANGED <<isolated, slots, sabGen, job, view, mounted>>
  BY DEF FlushFrameTransfer, main
<1>3. /\ ticks' \in Seq([frame : Nat, size : Nat])
      /\ frames' \in Seq(FrameRecord)
      /\ TicksInOrder'
  BY <1>1, <1>2, PostKeepsOrder
<1>4. OutputTypes'
  <2>1. OutputTypes /\ UNCHANGED <<isolated, slots, sabGen, job, view>>
    BY <1>2 DEF OutputInv
  <2>2. QED
    BY <1>3, <2>1 DEF OutputTypes
<1>5. SlotsHold'
  BY <1>2 DEF OutputInv, SlotsHold
<1>6. QED
  BY <1>3, <1>4, <1>5 DEF OutputInv

\* A posted tick makes the slot that was being written the last one.
LEMMA PostTickOutput ==
    ASSUME OutputInv, RingInv, PostTick
    PROVE  OutputInv'
<1>1. isolated /\ sabGen = Len(frames) /\ sabGen \in Nat
  BY DEF PostTick, OutputInv, OutputTypes, SlotsHold
<1>2. /\ job.pts \in Seq(Point) /\ Len(job.pts) \in Nat /\ Len(job.pts) <= MaxRenderPoints
      /\ job.done = Len(job.pts)
  BY LenProperties DEF PostTick, OutputInv, OutputTypes
<1>3. /\ sabGen' = sabGen + 1 /\ job' = NoJob /\ frames' = Posted(job.pts)
      /\ ticks' = Append(ticks, [frame |-> Len(frames) + 1, size |-> Len(job.pts)])
      /\ UNCHANGED <<isolated, slots, view, mounted>>
  BY <1>1 DEF PostTick, main
<1>4. /\ ticks' \in Seq([frame : Nat, size : Nat])
      /\ frames' \in Seq(FrameRecord)
      /\ Len(frames') = Len(frames) + 1
      /\ frames'[Len(frames) + 1].pts = job.pts
      /\ TicksInOrder'
  BY <1>2, <1>3, PostKeepsOrder
<1>5. NoJob \in [pts : Seq(Point), done : Nat] /\ Len(NoJob.pts) = 0 /\ NoJob.done = 0
  BY DEF NoJob
<1>6. OutputTypes'
  <2>1. OutputTypes /\ UNCHANGED <<isolated, slots, view>>
    BY <1>3 DEF OutputInv
  <2>2. sabGen' \in Nat
    BY <1>1, <1>3
  <2>3. /\ job' \in [pts : Seq(Point), done : Nat]
        /\ job'.done <= Len(job'.pts)
        /\ Len(job'.pts) <= MaxRenderPoints
    BY <1>3, <1>5, DataWorkerAssumption
  <2>4. QED
    BY <1>4, <2>1, <2>2, <2>3 DEF OutputTypes
<1>7. SlotsHold'
  <2>1. \A k \in 1..Len(job.pts) : slots[(sabGen + 1) % 2][k] = job.pts[k]
    BY <1>2 DEF OutputInv, SlotsHold
  <2>2. frames'[sabGen'].pts = job.pts /\ slots' = slots /\ sabGen' = sabGen + 1
    BY <1>1, <1>3, <1>4
  <2>3. \A k \in 1..Len(frames'[sabGen'].pts) :
            slots'[sabGen' % 2][k] = frames'[sabGen'].pts[k]
    BY <2>1, <2>2
  <2>4. sabGen' = Len(frames') /\ Len(frames'[sabGen'].pts) <= MaxRenderPoints
    BY <1>1, <1>2, <1>4, <2>2
  <2>5. isolated' /\ job' = NoJob /\ 1..job'.done = {}
    BY <1>1, <1>3, <1>5
  <2>6. QED
    BY <2>3, <2>4, <2>5 DEF SlotsHold
<1>8. QED
  BY <1>4, <1>6, <1>7 DEF OutputInv

LEMMA InitOutput == Init => RingInv /\ OutputInv
<1> SUFFICES ASSUME Init PROVE RingInv /\ OutputInv
  OBVIOUS
<1>0. 0 \in Point
  BY DataWorkerAssumption DEF Point
<1>1. <<>> \in Seq(Point) /\ <<>> \in Seq(Message) /\ <<>> \in Seq(FrameRecord)
      /\ <<>> \in Seq([frame : Nat, size : Nat]) /\ Len(<<>>) = 0
  BY EmptySeq
<1>2. RingInv
  BY InitRing
<1>3. OutputTypes
  BY <1>0, <1>1, DataWorkerAssumption DEF Init, OutputTypes, NoJob
<1>4. TicksInOrder /\ SlotsHold
  BY <1>1 DEF Init, TicksInOrder, SlotsHold, NoJob
<1>5. QED
  BY <1>2, <1>3, <1>4 DEF OutputInv

LEMMA StepOutput == OutputInv /\ RingInv /\ [Next]_vars => OutputInv'
<1> SUFFICES ASSUME OutputInv, RingInv, [Next]_vars PROVE OutputInv'
  OBVIOUS
<1>1. CASE Stream \/ LoadHistory \/ HistoryFails \/ Connect \/ Open
  <2>1. UNCHANGED <<isolated, output, view, mounted>>
    BY <1>1 DEF Stream, LoadHistory, HistoryFails, Connect, Open, main
  <2>2. QED
    BY <2>1, QuietOutput
<1>2. CASE Closed \/ OnMetricMessage \/ FlushNothing \/ OnMessage \/ UNCHANGED vars
  <2>1. UNCHANGED <<isolated, output, view, mounted>>
    BY <1>2 DEF Closed, OnMetricMessage, FlushNothing, OnMessage, vars, main
  <2>2. QED
    BY <2>1, QuietOutput
<1>3. CASE Mount \/ Unmount \/ SetRange \/ Stop
  <2>1. UNCHANGED <<isolated, output>> /\ (view' = 0 \/ UNCHANGED <<view, mounted>>)
    BY <1>3 DEF Mount, Unmount, SetRange, Stop, main
  <2>2. QED
    BY <2>1, QuietOutput
<1>4. CASE FlushFrameTransfer
  BY <1>4, TransferOutput
<1>5. CASE FlushFrameSAB
  BY <1>5, BeginOutput
<1>6. CASE WritePoint
  BY <1>6, WriteOutput
<1>7. CASE PostTick
  BY <1>7, PostTickOutput
<1>8. CASE Tick
  BY <1>8, TickOutput
<1>9. QED
  BY <1>1, <1>2, <1>3, <1>4, <1>5, <1>6, <1>7, <1>8 DEF Next, Worker, Page

\* A page that has handled every tick draws what the worker posted last, point
\* for point, while the worker may be writing its next frame: two slots are
\* enough for a page that keeps up (dataWorker.ts:433-473, bridgeCore.ts:124-158).
THEOREM TwoSlotsSuffice == Spec => []KeptUpIsIntact
<1>1. OutputInv => KeptUpIsIntact
  <2> SUFFICES ASSUME OutputInv, ticks = <<>>, view # 0
               PROVE  Drawn = frames[view].pts
    BY DEF KeptUpIsIntact
  <2>1. Len(frames) \in Nat /\ view = Len(frames) /\ view \in 1..Len(frames)
    BY EmptySeq, LenProperties DEF OutputInv, OutputTypes, TicksInOrder
  <2>2. frames[view].pts \in Seq(Point)
    <3>1. frames \in Seq(FrameRecord)
      BY DEF OutputInv, OutputTypes
    <3>2. frames[view] \in FrameRecord
      BY <2>1, <3>1, ElementOfSeq
    <3>3. QED
      BY <3>2 DEF FrameRecord
  <2>3. frames[view].pts = [k \in 1..Len(frames[view].pts) |-> frames[view].pts[k]]
    BY <2>2, LenProperties
  <2>4. isolated => \A k \in 1..Len(frames[view].pts) :
                        slots[view % 2][k] = frames[view].pts[k]
    BY <2>1 DEF OutputInv, SlotsHold
  <2>5. QED
    BY <2>3, <2>4 DEF Drawn
<1>2. QED
  BY <1>1, InitOutput, StepRing, StepOutput, PTL DEF Spec

-----------------------------------------------------------------------------
(* The rest of the state, and with it the type invariant. *)

ControlInv ==
    /\ phase \in {"loading", "loaded", "run", "dead"}
    /\ sock \in {"none", "connecting", "open"}
    /\ timer \in BOOLEAN
    /\ dirty \in BOOLEAN
    /\ mounted \in BOOLEAN
    /\ range \in Windows \cup {NoWindow}
    /\ used \in [ranges : 0..MaxRanges, mounts : 0..MaxMounts, drops : 0..MaxDrops]

LEMMA CountsControl ==
    ASSUME ControlInv
    PROVE  /\ Fails => used' \in [ranges : 0..MaxRanges, mounts : 0..MaxMounts, drops : 0..MaxDrops]
           /\ Mount => used' \in [ranges : 0..MaxRanges, mounts : 0..MaxMounts, drops : 0..MaxDrops]
           /\ SetRange => used' \in [ranges : 0..MaxRanges, mounts : 0..MaxMounts, drops : 0..MaxDrops]
<1>1. ASSUME Fails
      PROVE  used' \in [ranges : 0..MaxRanges, mounts : 0..MaxMounts, drops : 0..MaxDrops]
  <2>1. used.drops + 1 \in 0..MaxDrops
    BY <1>1, DataWorkerAssumption DEF Fails, ControlInv
  <2>2. QED
    BY <1>1, <2>1 DEF Fails, ControlInv
<1>2. ASSUME Mount
      PROVE  used' \in [ranges : 0..MaxRanges, mounts : 0..MaxMounts, drops : 0..MaxDrops]
  <2>1. used.mounts + 1 \in 0..MaxMounts
    BY <1>2, DataWorkerAssumption DEF Mount, ControlInv
  <2>2. QED
    BY <1>2, <2>1 DEF Mount, ControlInv
<1>3. ASSUME SetRange
      PROVE  used' \in [ranges : 0..MaxRanges, mounts : 0..MaxMounts, drops : 0..MaxDrops]
  <2>1. used.ranges + 1 \in 0..MaxRanges
    BY <1>3, DataWorkerAssumption DEF SetRange, ControlInv
  <2>2. QED
    BY <1>3, <2>1 DEF SetRange, ControlInv
<1>4. QED
  BY <1>1, <1>2, <1>3

LEMMA StepControl == ControlInv /\ [Next]_vars => ControlInv'
<1> SUFFICES ASSUME ControlInv, [Next]_vars PROVE ControlInv'
  OBVIOUS
<1> USE DEF server, socket, ring, output, main
<1>1. CASE LoadHistory \/ HistoryFails \/ Connect \/ Open \/ Closed \/ Stop
  <2>1. UNCHANGED used \/ Fails
    BY <1>1 DEF LoadHistory, HistoryFails, Connect, Open, Closed, Stop
  <2>2. UNCHANGED <<mounted, range>> /\ dirty' \in {TRUE, dirty}
    BY <1>1 DEF LoadHistory, HistoryFails, Connect, Open, Closed, Stop
  <2>3. phase' \in {"loaded", "run", "dead", phase} /\ sock' \in {"none", "connecting", "open", sock}
        /\ timer' \in {TRUE, FALSE, timer}
    BY <1>1 DEF LoadHistory, HistoryFails, Connect, Open, Closed, Stop
  <2>4. used' \in [ranges : 0..MaxRanges, mounts : 0..MaxMounts, drops : 0..MaxDrops]
    BY <2>1, CountsControl DEF ControlInv
  <2>5. QED
    BY <2>2, <2>3, <2>4 DEF ControlInv
<1>2. CASE Stream \/ OnMetricMessage \/ OnMessage \/ Flush
  <2>1. UNCHANGED <<phase, sock, timer, mounted, range, used>> /\ dirty' \in {TRUE, FALSE, dirty}
    BY <1>2 DEF Stream, OnMetricMessage, OnMessage, Flush, FlushNothing, FlushFrameTransfer,
                FlushFrameSAB, WritePoint, PostTick
  <2>2. QED
    BY <2>1 DEF ControlInv
<1>3. CASE Mount \/ Unmount \/ SetRange \/ Tick
  <2>1. UNCHANGED <<phase, sock, timer, dirty>> /\ (UNCHANGED used \/ Mount \/ SetRange)
    BY <1>3 DEF Mount, Unmount, SetRange, Tick
  <2>2. mounted' \in {TRUE, FALSE, mounted} /\ (UNCHANGED range \/ range' \in Windows \cup {NoWindow})
    BY <1>3 DEF Mount, Unmount, SetRange, Tick
  <2>3. QED
    BY <2>1, <2>2, CountsControl DEF ControlInv
<1>4. CASE UNCHANGED vars
  BY <1>4 DEF vars, ControlInv
<1>5. QED
  BY <1>1, <1>2, <1>3, <1>4 DEF Next, Worker, Page, Flush

\* The worker and the page keep a well-formed state whatever the sizes: in
\* particular a frame fits its slot, a flush never writes beyond the frame it
\* was given, and every point in the ring, in a slot or in a frame is one the
\* server streamed or kept.
THEOREM TypeCorrect == Spec => []TypeOK
<1>1. Init => RingInv /\ OutputInv
  BY InitOutput
<1>2. Init => ControlInv
  <2>1. MaxRanges \in Nat /\ MaxMounts \in Nat /\ MaxDrops \in Nat
    BY DataWorkerAssumption
  <2>2. [ranges |-> 0, mounts |-> 0, drops |-> 0]
            \in [ranges : 0..MaxRanges, mounts : 0..MaxMounts, drops : 0..MaxDrops]
    BY <2>1
  <2>3. QED
    BY <2>2 DEF Init, ControlInv
<1>3. RingInv /\ OutputInv /\ ControlInv => TypeOK
  BY DEF RingInv, OutputInv, OutputTypes, ControlInv, TypeOK, FrameRecord
<1>4. RingInv /\ OutputInv /\ ControlInv /\ [Next]_vars => RingInv' /\ OutputInv' /\ ControlInv'
  BY StepRing, StepOutput, StepControl
<1>5. QED
  BY <1>1, <1>2, <1>3, <1>4, PTL DEF Spec
=============================================================================
