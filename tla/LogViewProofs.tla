---------------------------- MODULE LogViewProofs ----------------------------
(***************************************************************************)
(* Theorems about LogView, for rings, channels, buffers and tables of any  *)
(* size and any number of faults: what the worker gets of the log is in    *)
(* order.                                                                  *)
(***************************************************************************)
EXTENDS LogView, SequenceTheorems, WellFoundedInduction, TLAPS

-----------------------------------------------------------------------------
(* Numbers and rings.                                                       *)

\* The order of the natural numbers as a relation, to use WFMin.
LEMMA NatOrder ==
    \E R : IsWellFoundedOn(R, Nat) /\ \A x, y \in Nat : x < y => <<x, y>> \in R
<1>1. \A x, y \in Nat : x < y => <<x, y>> \in OpToRel(<, Nat)
  BY DEF OpToRel
<1>2. QED
  BY <1>1, NatLessThanWellFounded, Zenon

LEMMA LeastElement ==
    ASSUME NEW T, T \subseteq Nat, T # {}
    PROVE  \E x \in T : \A y \in T : x <= y
<1>1. PICK R : IsWellFoundedOn(R, Nat) /\ \A x, y \in Nat : x < y => <<x, y>> \in R
  BY NatOrder
<1>2. IsWellFoundedOn(R, Nat)
  BY <1>1
<1>3. PICK x \in T : \A y \in T : ~ (<<y, x>> \in R)
  BY <1>2, WFMin, Zenon
<1>4. ASSUME NEW y \in T PROVE x <= y
  <2>1. x \in Nat /\ y \in Nat
    OBVIOUS
  <2>2. ~ (y < x)
    BY <1>1, <1>3, <2>1, Zenon
  <2>3. QED
    BY <2>1, <2>2
<1>5. QED
  BY <1>4

\* The remainder of a number that is at most one turn away.
LEMMA OneTurn ==
    ASSUME NEW n \in Nat \ {0}, NEW x \in 0 .. n - 1
    PROVE  x % n = x /\ (x + n) % n = x
<1>1. ASSUME NEW y \in Nat, NEW q \in Nat, y = n * q + x PROVE y % n = x
  <2> DEFINE p == y \div n
             r == y % n
  <2>1. p \in Nat /\ r \in 0 .. n - 1 /\ y = n * p + r
    OBVIOUS
  <2> HIDE DEF p, r
  <2>2. ~(p < q)
    <3>1. ASSUME p < q PROVE FALSE
      <4>1. q - p - 1 \in Nat
        BY <2>1, <3>1
      <4>2. n * q = n * p + n + n * (q - p - 1)
        BY <2>1, <4>1
      <4>3. n * (q - p - 1) \in Nat /\ n * p \in Nat
        BY <2>1, <4>1
      <4> QED
        BY <1>1, <2>1, <4>2, <4>3
    <3> QED
      BY <3>1
  <2>3. ~(q < p)
    <3>1. ASSUME q < p PROVE FALSE
      <4>1. p - q - 1 \in Nat
        BY <2>1, <3>1
      <4>2. n * p = n * q + n + n * (p - q - 1)
        BY <2>1, <4>1
      <4>3. n * (p - q - 1) \in Nat /\ n * q \in Nat
        BY <2>1, <4>1
      <4> QED
        BY <1>1, <2>1, <4>2, <4>3
    <3> QED
      BY <3>1
  <2>4. p = q
    BY <2>1, <2>2, <2>3
  <2>5. r = x
    BY <1>1, <2>1, <2>4
  <2> QED
    BY <2>5 DEF r
<1>2. x \in Nat /\ x = n * 0 + x /\ x + n = n * 1 + x
  OBVIOUS
<1> QED
  BY <1>1, <1>2

\* The place in a ring of n of what was put there d pushes ago, the head being
\* the place of the next.
Back(head, d, n) == IF d <= head THEN head - d ELSE head - d + n

LEMMA BackIs ==
    ASSUME NEW n \in Nat \ {0}, NEW head \in 0 .. n - 1, NEW d \in 0 .. n
    PROVE  (head - d + n) % n = Back(head, d, n) /\ Back(head, d, n) \in 0 .. n - 1
<1>1. CASE d <= head
  <2>1. head - d \in 0 .. n - 1 /\ head - d + n = (head - d) + n
    BY <1>1
  <2>2. ((head - d) + n) % n = head - d
    BY <2>1, OneTurn
  <2> QED
    BY <1>1, <2>1, <2>2 DEF Back
<1>2. CASE d > head
  <2>1. head - d + n \in 0 .. n - 1
    BY <1>2
  <2>2. (head - d + n) % n = head - d + n
    BY <2>1, OneTurn
  <2> QED
    BY <1>2, <2>1, <2>2 DEF Back
<1> QED
  BY <1>1, <1>2

LEMMA NextHead ==
    ASSUME NEW n \in Nat \ {0}, NEW head \in 0 .. n - 1
    PROVE  /\ (head + 1) % n \in 0 .. n - 1
           /\ (head + 1) % n = IF head + 1 < n THEN head + 1 ELSE 0
<1>1. CASE head + 1 < n
  <2>1. head + 1 \in 0 .. n - 1
    BY <1>1
  <2> QED
    BY <1>1, <2>1, OneTurn
<1>2. CASE head + 1 = n
  <2>1. (0 + n) % n = 0 /\ head + 1 = 0 + n
    BY <1>2, OneTurn
  <2> QED
    BY <1>2, <2>1
<1> QED
  BY <1>1, <1>2

\* The ring r of n places holds the end of the sequence p of events.
Holds(r, n, p) ==
    /\ r.head \in 0 .. n - 1 /\ r.size \in 0 .. n /\ r.size <= Len(p)
    /\ DOMAIN r.buf = 0 .. n - 1
    /\ \A d \in 1 .. r.size : r.buf[Back(r.head, d, n)] = p[Len(p) + 1 - d]

\* And it holds as much of p as it has room for.
Full(r, n, p) ==
    /\ r.size = IF Len(p) < n THEN Len(p) ELSE n
    /\ r.size < n => r.head = r.size

\* What both rings do with an event.
Put(r, n, x) ==
    [buf  |-> [r.buf EXCEPT ![r.head] = x],
     head |-> (r.head + 1) % n,
     size |-> IF r.size < n THEN r.size + 1 ELSE r.size]

LEMMA NewHolds ==
    ASSUME NEW n \in Nat \ {0}, NEW p \in Seq(Int)
    PROVE  Holds(NewRing(n), n, p) /\ (p = <<>> => Full(NewRing(n), n, p))
<1>1. Len(p) \in Nat
  OBVIOUS
<1>2. Holds(NewRing(n), n, p)
  BY <1>1 DEF Holds, NewRing
<1>3. p = <<>> => Full(NewRing(n), n, p)
  BY <1>1 DEF Full, NewRing
<1> QED
  BY <1>2, <1>3

LEMMA PutHolds ==
    ASSUME NEW n \in Nat \ {0}, NEW p \in Seq(Int), NEW x \in Int, NEW r, Holds(r, n, p)
    PROVE  /\ Holds(Put(r, n, x), n, Append(p, x))
           /\ Full(r, n, p) => Full(Put(r, n, x), n, Append(p, x))
<1> DEFINE h == (r.head + 1) % n
           s == IF r.size < n THEN r.size + 1 ELSE r.size
           b == [r.buf EXCEPT ![r.head] = x]
           m == Len(p)
<1>1. r.head \in 0 .. n - 1 /\ r.size \in 0 .. n /\ r.size <= m /\ m \in Nat
  BY DEF Holds
<1>0. h \in 0 .. n - 1 /\ h = IF r.head + 1 < n THEN r.head + 1 ELSE 0
  BY <1>1, NextHead
<1>2. h \in 0 .. n - 1 /\ s \in 1 .. n /\ s \in 0 .. n /\ s - 1 <= r.size /\ s <= m + 1
  <2> HIDE DEF h
  <2> QED
    BY <1>0, <1>1
<1>3. DOMAIN b = 0 .. n - 1
  BY DEF Holds
<1>4. /\ Append(p, x) \in Seq(Int) /\ Len(Append(p, x)) = m + 1
      /\ Append(p, x)[m + 1] = x
      /\ \A k \in 1 .. m : Append(p, x)[k] = p[k]
  OBVIOUS
<1>5. PICK t : t = Append(p, x)
  OBVIOUS
<1> HIDE DEF m
<1>6. ASSUME NEW d \in 1 .. s PROVE b[Back(h, d, n)] = t[(m + 1) + 1 - d]
  <2>1. CASE d = 1
    <3>1. Back(h, 1, n) = r.head
      <4> HIDE DEF h
      <4>1. PICK a \in Nat, c \in Nat : a = r.head /\ c = h
        BY <1>0, <1>1
      <4>2. a < n /\ c = IF a + 1 < n THEN a + 1 ELSE 0
        <5>1. a \in 0 .. n - 1
          BY <1>1, <4>1
        <5> QED
          BY <1>0, <4>1, <5>1
      <4>3. Back(c, 1, n) = a
        BY <4>2 DEF Back
      <4> QED
        BY <4>1, <4>3
    <3>2. b[r.head] = x
      BY <1>1 DEF Holds
    <3>3. (m + 1) + 1 - d = m + 1
      BY <1>1, <2>1
    <3>4. t[m + 1] = x
      BY <1>4, <1>5, Zenon
    <3> QED
      BY <2>1, <3>1, <3>2, <3>3, <3>4, Zenon
  <2>2. CASE d # 1
    <3>1. d - 1 \in 1 .. n - 1 /\ d - 1 \in 0 .. n /\ d - 1 \in 1 .. r.size
      BY <1>1, <1>2, <2>2
    <3>2. Back(h, d, n) = Back(r.head, d - 1, n) /\ Back(r.head, d - 1, n) # r.head
      <4> HIDE DEF h, s
      <4>1. d \in 2 .. n /\ d \in Int
        BY <1>2, <2>2
      <4> QED
        BY <1>0, <1>1, <4>1 DEF Back
    <3>3. r.buf[Back(r.head, d - 1, n)] = p[m + 1 - (d - 1)]
      BY <3>1 DEF Holds, m
    <3>4. Back(r.head, d - 1, n) \in 0 .. n - 1
      BY <1>1, <3>1 DEF Back
    <3>5. b[Back(r.head, d - 1, n)] = r.buf[Back(r.head, d - 1, n)]
      BY <3>2, <3>4 DEF Holds
    <3>6. m + 1 - (d - 1) = (m + 1) + 1 - d /\ m + 1 - (d - 1) \in 1 .. m
      BY <1>1, <3>1
    <3>7. t[m + 1 - (d - 1)] = p[m + 1 - (d - 1)]
      BY <1>4, <1>5, <3>6, Zenon
    <3> QED
      BY <3>2, <3>3, <3>5, <3>6, <3>7, Zenon
  <2> QED
    BY <2>1, <2>2
<1>7. Full(r, n, p) =>
         /\ s = IF m + 1 < n THEN m + 1 ELSE n
         /\ s < n => h = s
  <2> SUFFICES ASSUME Full(r, n, p)
               PROVE  (s = IF m + 1 < n THEN m + 1 ELSE n) /\ (s < n => h = s)
    OBVIOUS
  <2>1. (r.size = IF m < n THEN m ELSE n) /\ (r.size < n => r.head = r.size)
    BY DEF Full, m
  <2> QED
    BY <1>1, <2>1, NextHead
<1> DEFINE q == [buf |-> b, head |-> h, size |-> s]
<1>8. q.buf = b /\ q.head = h /\ q.size = s /\ Put(r, n, x) = q
  BY DEF Put
<1> HIDE DEF b, h, s, q
<1>9. \A d \in 1 .. s : b[Back(h, d, n)] = t[(m + 1) + 1 - d]
  BY <1>6
<1>10. Len(t) = m + 1
  BY <1>4, <1>5, Zenon
<1>11. Holds(q, n, t)
  BY <1>2, <1>3, <1>8, <1>9, <1>10 DEF Holds
<1>12. Full(r, n, p) => Full(q, n, t)
  BY <1>7, <1>8, <1>10 DEF Full
<1> QED
  BY <1>5, <1>8, <1>11, <1>12

\* A loop that puts the events evs into the ring r.
Loop(f, n, r, evs) ==
    f = [k \in 0 .. Len(evs) |-> IF k = 0 THEN r ELSE Put(f[k - 1], n, evs[k])]

LEMMA LoopEnds ==
    ASSUME NEW n, NEW r, NEW evs \in Seq(Int)
    PROVE  \E f : Loop(f, n, r, evs)
<1> DEFINE Body(f, k) == IF k = 0 THEN r ELSE Put(f[k - 1], n, evs[k])
           Fills(m) == \E f : f = [k \in 0 .. m |-> Body(f, k)]
           Bad == {m \in Nat : ~Fills(m)}
<1>1. Bad = {}
  <2>1. ASSUME Bad # {} PROVE FALSE
    <3>1. PICK m \in Bad : \A y \in Bad : m <= y
      BY <2>1, LeastElement
    <3>2. CASE m = 0
      <4> DEFINE f == [k \in 0 .. 0 |-> r]
      <4>1. f = [k \in 0 .. 0 |-> Body(f, k)]
        OBVIOUS
      <4>2. Fills(0)
        BY <4>1
      <4> QED
        BY <3>1, <3>2, <4>2
    <3>3. CASE m # 0
      <4> HIDE DEF Fills
      <4>1. m \in Nat /\ m - 1 \in Nat /\ m - 1 \notin Bad
        BY <3>1, <3>3
      <4>2. Fills(m - 1)
        BY <4>1
      <4> USE DEF Fills
      <4>3. PICK f : f = [k \in 0 .. m - 1 |-> Body(f, k)]
        BY <4>2
      <4> DEFINE g == [k \in 0 .. m |-> IF k < m THEN f[k] ELSE Put(f[m - 1], n, evs[m])]
      <4>4. ASSUME NEW k \in 0 .. m PROVE g[k] = Body(g, k)
        <5>1. CASE k = m
          <6>1. g[m - 1] = f[m - 1] /\ m - 1 \in 0 .. m
            BY <3>1, <3>3
          <6> QED
            BY <3>1, <3>3, <5>1, <6>1
        <5>2. CASE k # m
          <6>1. k \in 0 .. m - 1 /\ g[k] = f[k]
            BY <3>1, <5>2
          <6>2. k # 0 => g[k - 1] = f[k - 1]
            BY <3>1, <6>1
          <6>3. f[k] = Body(f, k)
            BY <4>3, <6>1
          <6> QED
            BY <6>1, <6>2, <6>3
        <5> QED
          BY <5>1, <5>2
      <4>5. Fills(m)
        <5> HIDE DEF Body
        <5>1. g = [k \in 0 .. m |-> Body(g, k)]
          BY <4>4
        <5> QED
          BY <5>1
      <4> QED
        BY <3>1, <4>5
    <3> QED
      BY <3>2, <3>3
  <2> QED
    BY <2>1
<1>2. Fills(Len(evs))
  <2>1. Len(evs) \in Nat
    OBVIOUS
  <2>2. \A m \in Nat : Fills(m)
    <3> HIDE DEF Fills
    <3> QED
      BY <1>1
  <2> HIDE DEF Fills
  <2> QED
    BY <2>1, <2>2
<1> QED
  BY <1>2 DEF Loop

\* The sequences p and evs one after the other, up to the k-th of evs.
Upto(p, evs, k) == [j \in 1 .. Len(p) + k |-> IF j <= Len(p) THEN p[j] ELSE evs[j - Len(p)]]

LEMMA ConcatIs ==
    ASSUME NEW p \in Seq(Int), NEW q \in Seq(Int)
    PROVE  p \o q = [j \in 1 .. Len(p) + Len(q) |-> IF j <= Len(p) THEN p[j] ELSE q[j - Len(p)]]
<1> DEFINE t == [j \in 1 .. Len(p) + Len(q) |-> IF j <= Len(p) THEN p[j] ELSE q[j - Len(p)]]
<1>1. /\ p \o q \in Seq(Int) /\ Len(p \o q) = Len(p) + Len(q)
      /\ \A j \in 1 .. Len(p) + Len(q) : (p \o q)[j] = IF j <= Len(p) THEN p[j] ELSE q[j - Len(p)]
  BY ConcatProperties
<1>2. t \in Seq(Int) /\ Len(t) = Len(p) + Len(q)
  <2>1. Len(p) + Len(q) \in Nat
    OBVIOUS
  <2>2. \A j \in 1 .. Len(p) + Len(q) : (IF j <= Len(p) THEN p[j] ELSE q[j - Len(p)]) \in Int
    OBVIOUS
  <2> QED
    BY <2>1, <2>2
<1>3. \A j \in 1 .. Len(t) : (p \o q)[j] = t[j]
  BY <1>1, <1>2
<1> HIDE DEF t
<1>4. PICK c \in Seq(Int) : c = p \o q /\ Len(c) = Len(t)
  BY <1>1, <1>2
<1>5. c = t
  BY <1>2, <1>3, <1>4, SeqEqual
<1> QED
  BY <1>4, <1>5 DEF t

LEMMA UptoIs ==
    ASSUME NEW p \in Seq(Int), NEW evs \in Seq(Int)
    PROVE  /\ Upto(p, evs, 0) = p
           /\ Upto(p, evs, Len(evs)) = p \o evs
           /\ \A k \in 0 .. Len(evs) : Upto(p, evs, k) \in Seq(Int)
           /\ \A k \in 1 .. Len(evs) : Upto(p, evs, k) = Append(Upto(p, evs, k - 1), evs[k])
<1>1. Upto(p, evs, 0) = p
  BY DEF Upto
<1>2. Upto(p, evs, Len(evs)) = p \o evs
  BY ConcatIs, Zenon DEF Upto
<1>3. ASSUME NEW k \in 0 .. Len(evs)
      PROVE  Upto(p, evs, k) \in Seq(Int) /\ Len(Upto(p, evs, k)) = Len(p) + k
  <2>1. Len(p) + k \in Nat
    OBVIOUS
  <2>2. \A j \in 1 .. Len(p) + k : (IF j <= Len(p) THEN p[j] ELSE evs[j - Len(p)]) \in Int
    OBVIOUS
  <2> QED
    BY <2>1, <2>2 DEF Upto
<1>4. ASSUME NEW k \in 1 .. Len(evs)
      PROVE  Upto(p, evs, k) = Append(Upto(p, evs, k - 1), evs[k])
  <2>1. k - 1 \in 0 .. Len(evs) /\ k \in Nat /\ Len(p) \in Nat
    OBVIOUS
  <2>2. PICK u \in Seq(Int) : u = Upto(p, evs, k - 1) /\ Len(u) = Len(p) + (k - 1)
    BY <1>3, <2>1
  <2>3. Append(u, evs[k]) = [j \in 1 .. Len(p) + k |-> IF j <= Len(p) + (k - 1) THEN u[j] ELSE evs[k]]
    BY <2>1, <2>2
  <2>4. ASSUME NEW j \in 1 .. Len(p) + k
        PROVE  (IF j <= Len(p) + (k - 1) THEN u[j] ELSE evs[k])
                  = IF j <= Len(p) THEN p[j] ELSE evs[j - Len(p)]
    <3>1. CASE j <= Len(p) + (k - 1)
      <4>1. j \in 1 .. Len(p) + (k - 1)
        BY <2>1, <3>1
      <4>2. u[j] = IF j <= Len(p) THEN p[j] ELSE evs[j - Len(p)]
        BY <2>2, <4>1 DEF Upto
      <4> QED
        BY <3>1, <4>2
    <3>2. CASE ~(j <= Len(p) + (k - 1))
      <4>1. ~(j <= Len(p)) /\ j - Len(p) = k
        <5>1. PICK m \in Nat : m = Len(p)
          BY <2>1
        <5>2. j \in Int /\ j <= m + k /\ ~(j <= m + (k - 1)) /\ k \in Nat /\ k >= 1
          BY <2>1, <3>2, <5>1
        <5>3. ~(j <= m) /\ j - m = k
          BY <5>2
        <5> QED
          BY <5>1, <5>3, Zenon
      <4> QED
        BY <3>2, <4>1
    <3> QED
      BY <3>1, <3>2
  <2>5. Append(u, evs[k]) = Upto(p, evs, k)
    BY <2>3, <2>4 DEF Upto
  <2> QED
    BY <2>2, <2>5
<1> QED
  BY <1>1, <1>2, <1>3, <1>4

LEMMA LoopHolds ==
    ASSUME NEW n \in Nat \ {0}, NEW r, NEW p \in Seq(Int), NEW evs \in Seq(Int), NEW f,
           Loop(f, n, r, evs), Holds(r, n, p)
    PROVE  /\ Holds(f[Len(evs)], n, p \o evs)
           /\ Full(r, n, p) => Full(f[Len(evs)], n, p \o evs)
<1> DEFINE Good(k) == /\ Holds(f[k], n, Upto(p, evs, k))
                      /\ Full(r, n, p) => Full(f[k], n, Upto(p, evs, k))
           Short == {k \in Nat : k <= Len(evs) /\ ~Good(k)}
<1>1. Len(evs) \in Nat
  OBVIOUS
<1>2. f[0] = r
  BY <1>1 DEF Loop
<1>3. \A k \in 1 .. Len(evs) : f[k] = Put(f[k - 1], n, evs[k])
  <2> SUFFICES ASSUME NEW k \in 1 .. Len(evs) PROVE f[k] = Put(f[k - 1], n, evs[k])
    OBVIOUS
  <2>1. k \in 0 .. Len(evs) /\ k # 0
    BY <1>1
  <2>2. f[k] = IF k = 0 THEN r ELSE Put(f[k - 1], n, evs[k])
    BY <2>1 DEF Loop
  <2> QED
    BY <2>1, <2>2
<1>4. Good(0)
  BY <1>2, UptoIs
<1>5. ASSUME NEW k \in 1 .. Len(evs), Good(k - 1) PROVE Good(k)
  <2>1. k - 1 \in 0 .. Len(evs) /\ evs[k] \in Int
    BY <1>1
  <2>2. PICK u \in Seq(Int) : u = Upto(p, evs, k - 1)
    BY <2>1, UptoIs
  <2>3. PICK x \in Int : x = evs[k]
    BY <2>1
  <2>4. PICK g : g = f[k - 1]
    OBVIOUS
  <2>5. Holds(g, n, u) /\ (Full(r, n, p) => Full(g, n, u))
    BY <1>5, <2>2, <2>4
  <2>6. /\ Holds(Put(g, n, x), n, Append(u, x))
        /\ Full(g, n, u) => Full(Put(g, n, x), n, Append(u, x))
    BY <2>5, PutHolds
  <2>7. f[k] = Put(g, n, x)
    BY <1>3, <2>3, <2>4
  <2>8. Upto(p, evs, k) = Append(u, x)
    BY <2>2, <2>3, UptoIs
  <2> QED
    BY <2>5, <2>6, <2>7, <2>8
<1> HIDE DEF Good
<1>6. Short = {}
  <2>1. ASSUME Short # {} PROVE FALSE
    <3>1. PICK k \in Short : \A y \in Short : k <= y
      BY <2>1, LeastElement
    <3>2. k \in Nat /\ k <= Len(evs) /\ ~Good(k)
      BY <3>1
    <3>3. k # 0
      BY <1>4, <3>2
    <3>4. k - 1 \in Nat /\ k - 1 <= Len(evs) /\ k \in 1 .. Len(evs) /\ k - 1 < k
      BY <1>1, <3>2, <3>3
    <3>5. Good(k - 1)
      BY <3>1, <3>2, <3>4
    <3> QED
      BY <1>5, <3>2, <3>4, <3>5
  <2> QED
    BY <2>1
<1>7. Good(Len(evs))
  BY <1>1, <1>6
<1> QED
  BY <1>7, UptoIs DEF Good

-----------------------------------------------------------------------------
(* The ring of the service holds the last events made, which are numbers    *)
(* in a row.                                                                *)

Numbers(n) == [k \in 1 .. n |-> k]

LEMMA NumbersAre ==
    ASSUME NEW n \in Nat
    PROVE  Numbers(n) \in Seq(Int) /\ Len(Numbers(n)) = n /\ Append(Numbers(n), n + 1) = Numbers(n + 1)
<1>1. Numbers(n) \in Seq(Int) /\ Len(Numbers(n)) = n
  BY DEF Numbers
<1>2. Append(Numbers(n), n + 1) = [k \in 1 .. n + 1 |-> IF k <= n THEN Numbers(n)[k] ELSE n + 1]
  BY <1>1
<1>3. \A k \in 1 .. n + 1 : (IF k <= n THEN Numbers(n)[k] ELSE n + 1) = k
  BY DEF Numbers
<1>4. Append(Numbers(n), n + 1) = Numbers(n + 1)
  BY <1>2, <1>3 DEF Numbers
<1> QED
  BY <1>1, <1>4

LEMMA AppendHolds ==
    ASSUME NEW r, NEW last \in Nat, Holds(r, RingSize, Numbers(last))
    PROVE  Holds(RingAppend(r, last + 1), RingSize, Numbers(last + 1))
<1>1. RingSize \in Nat \ {0}
  BY LogFeedAssumption DEF LogFeedAssumption
<1>2. RingAppend(r, last + 1) = Put(r, RingSize, last + 1)
  BY DEF RingAppend, Put
<1>3. PICK p \in Seq(Int) : p = Numbers(last) /\ Append(p, last + 1) = Numbers(last + 1)
  BY NumbersAre
<1>4. PICK x \in Int : x = last + 1
  OBVIOUS
<1>5. Holds(r, RingSize, p)
  BY <1>3
<1>6. Holds(Put(r, RingSize, x), RingSize, Append(p, x))
  BY <1>1, <1>5, PutHolds
<1> QED
  BY <1>2, <1>3, <1>4, <1>6

\* seedRing fills a ring of which the last event is the last one made.
LEMMA SeededHolds ==
    ASSUME NEW from \in Nat, NEW to \in Nat, from <= to
    PROVE  Holds(Seeded(from, to), RingSize, Numbers(to))
<1> DEFINE evs == [k \in 1 .. to - from |-> from + k]
           Body(f, k) == IF k = 0 THEN NewRing(RingSize) ELSE RingAppend(f[k - 1], from + k)
           Fills(f) == f = [k \in 0 .. to - from |-> Body(f, k)]
<1>1. RingSize \in Nat \ {0}
  BY LogFeedAssumption DEF LogFeedAssumption
<1>2. to - from \in Nat
  OBVIOUS
<1>3. evs \in Seq(Int) /\ Len(evs) = to - from /\ \A k \in 1 .. to - from : evs[k] = from + k
  BY <1>2
<1> HIDE DEF evs
<1>4. \A f : Fills(f) <=> Loop(f, RingSize, NewRing(RingSize), evs)
  <2> SUFFICES ASSUME NEW f
               PROVE  Fills(f) <=> Loop(f, RingSize, NewRing(RingSize), evs)
    OBVIOUS
  <2>1. ASSUME NEW k \in 0 .. to - from
        PROVE  Body(f, k) = IF k = 0 THEN NewRing(RingSize) ELSE Put(f[k - 1], RingSize, evs[k])
    <3>1. CASE k = 0
      BY <3>1
    <3>2. CASE k # 0
      <4>1. evs[k] = from + k
        BY <1>2, <1>3, <3>2
      <4> QED
        BY <3>2, <4>1 DEF RingAppend, Put
    <3> QED
      BY <3>1, <3>2
  <2> HIDE DEF Body
  <2>2. [k \in 0 .. to - from |-> Body(f, k)]
           = [k \in 0 .. Len(evs) |-> IF k = 0 THEN NewRing(RingSize)
                                      ELSE Put(f[k - 1], RingSize, evs[k])]
    <3>1. Len(evs) = to - from
      BY <1>3
    <3> QED
      BY <2>1, <3>1, Zenon
  <2> QED
    BY <2>2 DEF Loop
<1> DEFINE filled == CHOOSE f : Fills(f)
<1>5. Fills(filled)
  <2>1. PICK f : Loop(f, RingSize, NewRing(RingSize), evs)
    BY <1>3, LoopEnds
  <2>2. Fills(f)
    BY <1>4, <2>1
  <2> HIDE DEF Fills
  <2> QED
    BY <2>2
<1>6. Seeded(from, to) = filled[to - from]
  BY DEF Seeded
<1> HIDE DEF Fills, filled
<1>7. PICK p \in Seq(Int) : p = Numbers(from) /\ p \o evs = Numbers(to)
  <2>1. Numbers(from) \in Seq(Int) /\ Len(Numbers(from)) = from
    BY NumbersAre
  <2>2. Numbers(from) \o evs = [k \in 1 .. from + (to - from) |->
                                   IF k <= from THEN Numbers(from)[k] ELSE evs[k - from]]
    <3>1. PICK p \in Seq(Int) : p = Numbers(from)
      BY <2>1
    <3>2. Len(p) = from /\ Len(evs) = to - from /\ evs \in Seq(Int)
      BY <1>3, <2>1, <3>1
    <3>3. p \o evs = [k \in 1 .. Len(p) + Len(evs) |->
                        IF k <= Len(p) THEN p[k] ELSE evs[k - Len(p)]]
      BY <3>2, ConcatIs
    <3>4. p \o evs = [k \in 1 .. from + (to - from) |-> IF k <= from THEN p[k] ELSE evs[k - from]]
      BY <3>2, <3>3
    <3> QED
      BY <3>1, <3>4
  <2>3. ASSUME NEW k \in 1 .. from + (to - from)
        PROVE  (IF k <= from THEN Numbers(from)[k] ELSE evs[k - from]) = k
    <3>1. CASE k <= from
      BY <3>1 DEF Numbers
    <3>2. CASE ~(k <= from)
      <4>1. k - from \in 1 .. to - from
        BY <1>2, <3>2
      <4>2. evs[k - from] = from + (k - from)
        BY <1>3, <4>1
      <4> QED
        BY <3>2, <4>2
    <3> QED
      BY <3>1, <3>2
  <2>4. from + (to - from) = to
    OBVIOUS
  <2>5. Numbers(from) \o evs = Numbers(to)
    BY <2>2, <2>3, <2>4 DEF Numbers
  <2> QED
    BY <2>1, <2>5
<1>8. Holds(NewRing(RingSize), RingSize, p)
  BY <1>1, NewHolds
<1>9. Holds(filled[Len(evs)], RingSize, p \o evs)
  BY <1>1, <1>3, <1>4, <1>5, <1>8, LoopHolds
<1> QED
  BY <1>3, <1>6, <1>7, <1>9

\* GetHistory gets the newest events, one after the other.
LEMMA SnapshotIs ==
    ASSUME NEW r, NEW last \in Nat, Holds(r, RingSize, Numbers(last)), NEW limit \in Nat
    PROVE  /\ Snapshot(r, limit) \in Seq(Int)
           /\ \A k \in 1 .. Len(Snapshot(r, limit)) - 1 :
                 Snapshot(r, limit)[k + 1] = Snapshot(r, limit)[k] + 1
<1> DEFINE n == IF limit <= 0 \/ limit > r.size THEN r.size ELSE limit
           start == (r.head - n + RingSize) % RingSize
<1>0. \A d \in 1 .. r.size : r.buf[Back(r.head, d, RingSize)] = last + 1 - d
  <2> SUFFICES ASSUME NEW d \in 1 .. r.size
               PROVE  r.buf[Back(r.head, d, RingSize)] = last + 1 - d
    OBVIOUS
  <2>1. r.size <= last /\ r.size \in Int /\ Len(Numbers(last)) = last
    <3>1. Len(Numbers(last)) = last
      BY NumbersAre
    <3> QED
      BY <3>1 DEF Holds
  <2>2. r.buf[Back(r.head, d, RingSize)] = Numbers(last)[last + 1 - d]
    BY <2>1 DEF Holds
  <2>3. last + 1 - d \in 1 .. last
    BY <2>1
  <2> QED
    BY <2>2, <2>3 DEF Numbers
<1>1. RingSize \in Nat \ {0} /\ r.head \in 0 .. RingSize - 1 /\ r.size \in 0 .. RingSize
  BY LogFeedAssumption DEF Holds, LogFeedAssumption
<1>2. n \in 0 .. r.size
  BY <1>1
<1>3. Snapshot(r, limit) = [k \in 1 .. n |-> r.buf[(start + k - 1) % RingSize]]
  BY DEF Snapshot
<1> HIDE DEF n
<1>4. start = Back(r.head, n, RingSize)
  <2>1. n \in 0 .. RingSize
    BY <1>1, <1>2
  <2> QED
    BY <1>1, <2>1, BackIs, Zenon
<1> HIDE DEF start
<1>5. ASSUME NEW k \in 1 .. n
      PROVE  r.buf[(start + k - 1) % RingSize] = last - n + k
  <2> DEFINE d == n - k + 1
  <2>1. d \in 1 .. r.size /\ d \in 0 .. RingSize /\ d <= n
    BY <1>1, <1>2
  <2>2. Back(r.head, d, RingSize) \in 0 .. RingSize - 1
    BY <1>1, <2>1, BackIs
  <2>3. \/ start + k - 1 = Back(r.head, d, RingSize)
        \/ start + k - 1 = Back(r.head, d, RingSize) + RingSize
    BY <1>1, <1>2, <1>4, <2>1 DEF Back
  <2>4. (start + k - 1) % RingSize = Back(r.head, d, RingSize)
    BY <1>1, <2>2, <2>3, OneTurn
  <2>5. r.buf[Back(r.head, d, RingSize)] = last + 1 - d
    BY <1>0, <2>1
  <2> QED
    BY <1>1, <1>2, <2>4, <2>5
<1>6. Snapshot(r, limit) = [k \in 1 .. n |-> last - n + k]
  BY <1>3, <1>5
<1>7. n \in Nat
  BY <1>1, <1>2
<1> QED
  BY <1>6, <1>7

-----------------------------------------------------------------------------
(* Events on their way.                                                     *)

\* The legs of the way to the worker, the last stretch first.
Legs == 1 .. 5
Ways == [Legs -> Seq(Int)]

\* Events go up along each leg and from one leg to the next.
Ascends(w) ==
    \A i, j \in Legs : \A k \in DOMAIN w[i], l \in DOMAIN w[j] :
        i < j \/ (i = j /\ k < l) => w[i][k] < w[j][l]

UpTo(w, last) == \A i \in Legs : \A k \in DOMAIN w[i] : w[i][k] <= last

\* What arrives on a connection that breaks.
LEMMA ArrivedIs ==
    ASSUME NEW sent \in Seq(Int), NEW kept \in Arrived(sent)
    PROVE  /\ kept \in Seq(Int)
           /\ \A l \in DOMAIN kept : l \in Nat /\ l \in DOMAIN sent /\ kept[l] = sent[l]
<1>1. PICK n \in 0 .. Len(sent) : kept = SubSeq(sent, 1, n)
  BY DEF Arrived
<1>2. Len(sent) \in Nat /\ DOMAIN sent = 1 .. Len(sent)
  BY LenProperties
<1>3. n \in Int /\ \A l \in 1 .. n : sent[l] \in Int
  BY <1>2
<1>4. /\ kept \in Seq(Int) /\ Len(kept) = IF 1 <= n THEN n - 1 + 1 ELSE 0
      /\ \A l \in 1 .. n - 1 + 1 : kept[l] = sent[1 + l - 1]
  BY <1>1, <1>3, SubSeqProperties
<1>5. Len(kept) = n /\ DOMAIN kept = 1 .. Len(kept)
  BY <1>3, <1>4, LenProperties
<1>6. ASSUME NEW l \in DOMAIN kept
      PROVE  l \in Nat /\ l \in DOMAIN sent /\ kept[l] = sent[l]
  <2>1. l \in 1 .. n /\ l \in 1 .. n - 1 + 1 /\ 1 + l - 1 = l /\ l \in 1 .. Len(sent)
    BY <1>2, <1>3, <1>5
  <2> QED
    BY <1>2, <1>4, <2>1
<1> QED
  BY <1>4, <1>6

\* Legs may be cut or lose their first event.
LEMMA Cut ==
    ASSUME NEW w \in Ways, NEW v \in Ways, NEW last \in Int, Ascends(w), UpTo(w, last),
           \A j \in Legs : \/ v[j] = w[j] \/ v[j] = <<>> \/ v[j] \in Arrived(w[j])
                           \/ w[j] # <<>> /\ v[j] = Tail(w[j])
    PROVE  Ascends(v) /\ UpTo(v, last)
<1> DEFINE D(j) == IF v[j] = w[j] \/ v[j] \in Arrived(w[j]) THEN 0 ELSE 1
<1>1. ASSUME NEW j \in Legs, NEW l \in DOMAIN v[j]
      PROVE  l \in Nat /\ l + D(j) \in DOMAIN w[j] /\ v[j][l] = w[j][l + D(j)]
  <2>1. w[j] \in Seq(Int) /\ v[j] \in Seq(Int) /\ l \in 1 .. Len(v[j])
    BY DEF Ways
  <2>2. CASE v[j] = w[j]
    BY <2>1, <2>2
  <2>4. CASE v[j] \in Arrived(w[j])
    <3>1. l \in Nat /\ l \in DOMAIN w[j] /\ v[j][l] = w[j][l]
      BY <2>1, <2>4, ArrivedIs
    <3>2. D(j) = 0 /\ l + 0 = l
      BY <2>4, <3>1
    <3> QED
      BY <3>1, <3>2
  <2>3. CASE ~(v[j] = w[j] \/ v[j] \in Arrived(w[j]))
    <3>1. w[j] # <<>> /\ v[j] = Tail(w[j])
      BY <2>1, <2>3
    <3>2. D(j) = 1
      BY <2>3
    <3> HIDE DEF D
    <3> QED
      BY <2>1, <3>1, <3>2
  <2> QED
    BY <2>2, <2>3, <2>4
<1>2. \A j \in Legs : D(j) \in Nat
  OBVIOUS
<1> HIDE DEF D
<1>3. Ascends(v)
  <2> SUFFICES ASSUME NEW i \in Legs, NEW j \in Legs,
                      NEW k \in DOMAIN v[i], NEW l \in DOMAIN v[j], i < j \/ (i = j /\ k < l)
               PROVE  v[i][k] < v[j][l]
    BY DEF Ascends
  <2>1. k + D(i) \in DOMAIN w[i] /\ v[i][k] = w[i][k + D(i)] /\ k \in Nat
    BY <1>1
  <2>2. l + D(j) \in DOMAIN w[j] /\ v[j][l] = w[j][l + D(j)] /\ l \in Nat
    BY <1>1
  <2>3. i < j \/ (i = j /\ k + D(i) < l + D(j))
    BY <1>2, <2>1, <2>2
  <2> QED
    BY <2>1, <2>2, <2>3 DEF Ascends
<1>4. UpTo(v, last)
  BY <1>1 DEF UpTo
<1> QED
  BY <1>3, <1>4

\* The first event of a leg goes to the end of the one before.
LEMMA Moved ==
    ASSUME NEW w \in Ways, NEW v \in Ways, NEW last \in Int, Ascends(w), UpTo(w, last),
           NEW i \in 1 .. 4, w[i + 1] # <<>>,
           v[i] = Append(w[i], Head(w[i + 1])), v[i + 1] = Tail(w[i + 1]),
           \A j \in Legs : j = i \/ j = i + 1 \/ v[j] = w[j]
    PROVE  Ascends(v) /\ UpTo(v, last)
<1> DEFINE J(j, l) == IF j = i /\ l = Len(w[i]) + 1 THEN i + 1 ELSE j
           L(j, l) == IF j = i /\ l = Len(w[i]) + 1 THEN 1
                      ELSE IF j = i + 1 THEN l + 1 ELSE l
<1>1. ASSUME NEW j \in Legs, NEW l \in DOMAIN v[j]
      PROVE  /\ l \in Nat /\ (j = i => l <= Len(w[i]) + 1)
             /\ J(j, l) \in Legs /\ L(j, l) \in DOMAIN w[J(j, l)]
             /\ v[j][l] = w[J(j, l)][L(j, l)]
  <2>0. i \in Legs /\ i + 1 \in Legs /\ i # i + 1
    BY DEF Legs
  <2>1. /\ w[i] \in Seq(Int) /\ w[i + 1] \in Seq(Int)
        /\ w[j] \in Seq(Int) /\ v[j] \in Seq(Int) /\ l \in 1 .. Len(v[j])
    <3>1. /\ w[i] \in Seq(Int) /\ w[i + 1] \in Seq(Int)
          /\ w[j] \in Seq(Int) /\ v[j] \in Seq(Int)
      BY <2>0, Zenon DEF Ways
    <3> QED
      BY <3>1
  <2>2. CASE j = i
    <3>1. v[j] = Append(w[i], Head(w[i + 1])) /\ l \in 1 .. Len(w[i]) + 1
      BY <2>1, <2>2
    <3>2. CASE l = Len(w[i]) + 1
      BY <2>0, <2>1, <2>2, <3>1, <3>2
    <3>3. CASE l # Len(w[i]) + 1
      BY <2>0, <2>1, <2>2, <3>1, <3>3
    <3> QED
      BY <3>2, <3>3
  <2>3. CASE j = i + 1
    <3>0. v[j] = Tail(w[i + 1]) /\ w[i + 1] # <<>>
      BY <2>3
    <3>1. PICK s \in Seq(Int) : s = w[i + 1]
      BY <2>1
    <3>2. l \in Nat /\ l + 1 \in 1 .. Len(w[i + 1]) /\ v[j][l] = w[i + 1][l + 1]
      <4>1. \A n \in 1 .. Len(Tail(s)) :
               s # <<>> => n \in Nat /\ n + 1 \in 1 .. Len(s) /\ Tail(s)[n] = s[n + 1]
        OBVIOUS
      <4>2. v[j] = Tail(s) /\ s # <<>>
        BY <3>0, <3>1, Zenon
      <4>3. l \in 1 .. Len(Tail(s))
        BY <2>1, <4>2, Zenon
      <4> QED
        BY <3>1, <4>1, <4>2, <4>3, Zenon
    <3>3. J(j, l) = i + 1 /\ L(j, l) = l + 1
      BY <2>0, <2>3
    <3> QED
      BY <2>0, <2>1, <2>3, <3>2, <3>3
  <2>4. CASE j # i /\ j # i + 1
    BY <2>0, <2>1, <2>4
  <2> QED
    BY <2>2, <2>3, <2>4
<1>2. ASSUME NEW j1 \in Legs, NEW j2 \in Legs, NEW k \in DOMAIN v[j1], NEW l \in DOMAIN v[j2],
             j1 < j2 \/ (j1 = j2 /\ k < l)
      PROVE  J(j1, k) < J(j2, l) \/ (J(j1, k) = J(j2, l) /\ L(j1, k) < L(j2, l))
  <2>1. k \in Nat /\ l \in Nat /\ j1 \in Int /\ j2 \in Int /\ i \in Int
    BY <1>1 DEF Legs
  <2>2. /\ j1 = i => k <= Len(w[i]) + 1
        /\ j2 = i => l <= Len(w[i]) + 1
        /\ Len(w[i]) \in Nat
    <3>1. i \in Legs
      BY DEF Legs
    <3>2. w[i] \in Seq(Int)
      BY <3>1 DEF Ways
    <3> QED
      BY <1>1, <3>2
  <2>3. j2 = i + 1 => l >= 1
    BY DEF Ways
  <2> QED
    BY <1>2, <2>1, <2>2, <2>3
<1> HIDE DEF J, L
<1>3. Ascends(v)
  <2> SUFFICES ASSUME NEW j1 \in Legs, NEW j2 \in Legs, NEW k \in DOMAIN v[j1],
                      NEW l \in DOMAIN v[j2], j1 < j2 \/ (j1 = j2 /\ k < l)
               PROVE  v[j1][k] < v[j2][l]
    BY DEF Ascends
  <2>1. J(j1, k) < J(j2, l) \/ (J(j1, k) = J(j2, l) /\ L(j1, k) < L(j2, l))
    BY <1>2
  <2>2. /\ J(j1, k) \in Legs /\ L(j1, k) \in DOMAIN w[J(j1, k)]
        /\ v[j1][k] = w[J(j1, k)][L(j1, k)]
    BY <1>1
  <2>3. /\ J(j2, l) \in Legs /\ L(j2, l) \in DOMAIN w[J(j2, l)]
        /\ v[j2][l] = w[J(j2, l)][L(j2, l)]
    BY <1>1
  <2> QED
    BY <2>1, <2>2, <2>3 DEF Ascends
<1>4. UpTo(v, last)
  BY <1>1 DEF UpTo
<1> QED
  BY <1>3, <1>4

\* A newer event comes to the end of the last leg.
LEMMA Sent ==
    ASSUME NEW w \in Ways, NEW v \in Ways, NEW last \in Int, Ascends(w), UpTo(w, last - 1),
           v[5] = Append(w[5], last), \A j \in 1 .. 4 : v[j] = w[j]
    PROVE  Ascends(v) /\ UpTo(v, last)
<1>1. ASSUME NEW j \in Legs, NEW l \in DOMAIN v[j]
      PROVE  /\ l \in Nat
             /\ \/ l \in DOMAIN w[j] /\ v[j][l] = w[j][l]
                \/ j = 5 /\ l = Len(w[5]) + 1 /\ v[j][l] = last
  <2>0. w[j] \in Seq(Int) /\ v[j] \in Seq(Int)
    BY Zenon DEF Ways
  <2>1. w[j] \in Seq(Int) /\ v[j] \in Seq(Int) /\ l \in 1 .. Len(v[j])
    BY <2>0
  <2>2. CASE j = 5
    <3>1. v[j] = Append(w[j], last) /\ l \in 1 .. Len(w[j]) + 1
      BY <2>1, <2>2
    <3>2. CASE l = Len(w[j]) + 1
      BY <2>1, <2>2, <3>1, <3>2
    <3>3. CASE l # Len(w[j]) + 1
      BY <2>1, <2>2, <3>1, <3>3
    <3> QED
      BY <3>2, <3>3
  <2>3. CASE j # 5
    <3>1. j \in 1 .. 4
      BY <2>3 DEF Legs
    <3>2. v[j] = w[j]
      BY <3>1
    <3>3. l \in DOMAIN w[j] /\ v[j][l] = w[j][l]
      BY <3>2, Zenon
    <3> QED
      BY <2>1, <3>3
  <2> QED
    BY <2>2, <2>3
<1>2. ASSUME NEW j \in Legs, NEW l \in DOMAIN w[j]
      PROVE  w[j][l] \in Int /\ w[j][l] < last /\ (j = 5 => l <= Len(w[5]))
  <2>1. w[j] \in Seq(Int) /\ w[j][l] <= last - 1
    BY DEF Ways, UpTo
  <2> QED
    BY <2>1
<1>3. Ascends(v)
  <2> SUFFICES ASSUME NEW i \in Legs, NEW j \in Legs, NEW k \in DOMAIN v[i],
                      NEW l \in DOMAIN v[j], i < j \/ (i = j /\ k < l)
               PROVE  v[i][k] < v[j][l]
    BY DEF Ascends
  <2>1. \/ k \in DOMAIN w[i] /\ v[i][k] = w[i][k]
        \/ i = 5 /\ k = Len(w[5]) + 1
    BY <1>1
  <2>2. \/ l \in DOMAIN w[j] /\ v[j][l] = w[j][l]
        \/ j = 5 /\ l = Len(w[5]) + 1 /\ v[j][l] = last
    BY <1>1
  <2>3. k \in Nat /\ l \in Nat /\ Len(w[5]) \in Nat /\ i \in 1 .. 5 /\ j \in 1 .. 5
    <3>1. 5 \in Legs
      BY DEF Legs
    <3>2. w[5] \in Seq(Int)
      BY <3>1 DEF Ways
    <3>3. i \in 1 .. 5 /\ j \in 1 .. 5
      BY DEF Legs
    <3> QED
      BY <1>1, <3>2, <3>3
  <2>4. ~(i = 5 /\ k = Len(w[5]) + 1)
    <3>1. ASSUME i = 5, k = Len(w[5]) + 1 PROVE FALSE
      <4>1. j = 5 /\ l > Len(w[5]) + 1
        BY <2>3, <3>1
      <4> QED
        BY <1>2, <2>2, <2>3, <4>1
    <3> QED
      BY <3>1
  <2>5. CASE l \in DOMAIN w[j] /\ v[j][l] = w[j][l]
    BY <2>1, <2>4, <2>5 DEF Ascends
  <2>6. CASE v[j][l] = last
    BY <1>2, <2>1, <2>4, <2>6
  <2> QED
    BY <2>2, <2>5, <2>6
<1>4. UpTo(v, last)
  BY <1>1, <1>2 DEF UpTo
<1> QED
  BY <1>3, <1>4

LEMMA UpToMore ==
    ASSUME NEW w \in Ways, NEW last \in Int, NEW more \in Int, UpTo(w, last), last <= more
    PROVE  UpTo(w, more)
<1> SUFFICES ASSUME NEW j \in Legs, NEW l \in DOMAIN w[j] PROVE w[j][l] <= more
  BY DEF UpTo
<1>1. w[j] \in Seq(Int) /\ w[j][l] <= last
  BY DEF Ways, UpTo
<1> QED
  BY <1>1

-----------------------------------------------------------------------------
(* The invariant.                                                           *)

Streams == [up : BOOLEAN, chan : Seq(Int), wire : Seq(Int)]
Socks == [state : {"none", "connecting", "open", "dropped", "lost"},
          send : Seq(Int), inbox : Seq(Int)]

Types ==
    /\ made \in Nat /\ ppc \in {"tick", "publish"}
    /\ stream \in Streams /\ sock \in Socks
    /\ pushed \in Seq(Int) /\ answer \in Seq(Int) /\ loaded \in 0 .. Len(pushed)

\* The way of the events to the worker's ring, and there what came after the
\* history.
WayOf(p, l, s, t) ==
    <<[k \in 1 .. Len(p) - l |-> p[l + k]], s.inbox, s.send, t.wire, t.chan>>

Way == WayOf(pushed, loaded, sock, stream)

\* The last event that was published.
Published == IF ppc = "publish" THEN made - 1 ELSE made

WayInv == Ascends(Way) /\ UpTo(Way, Published)

\* There is no socket before the history was loaded or failed, and the history
\* has no gap.
StartInv ==
    /\ phase \in {"ask", "answer"} => pushed = <<>> /\ loaded = 0
    /\ phase # "run" => sock = NoSocket /\ ~timer
    /\ \A k \in 1 .. Len(answer) - 1 : answer[k + 1] = answer[k] + 1
    /\ \A k \in 1 .. loaded - 1 : pushed[k + 1] = pushed[k] + 1

LogInv == Types /\ Holds(ring, RingSize, Numbers(made)) /\ WayInv /\ StartInv

LEMMA WayIs ==
    ASSUME NEW p \in Seq(Int), NEW l \in 0 .. Len(p), NEW s \in Socks, NEW t \in Streams
    PROVE  /\ WayOf(p, l, s, t) \in Ways
           /\ WayOf(p, l, s, t)[1] = [k \in 1 .. Len(p) - l |-> p[l + k]]
           /\ WayOf(p, l, s, t)[2] = s.inbox
           /\ WayOf(p, l, s, t)[3] = s.send
           /\ WayOf(p, l, s, t)[4] = t.wire
           /\ WayOf(p, l, s, t)[5] = t.chan
<1> DEFINE a == [k \in 1 .. Len(p) - l |-> p[l + k]]
<1>1. a \in Seq(Int)
  <2>1. Len(p) - l \in Nat /\ \A k \in 1 .. Len(p) - l : p[l + k] \in Int
    OBVIOUS
  <2> QED
    BY <2>1
<1>2. s.inbox \in Seq(Int) /\ s.send \in Seq(Int) /\ t.wire \in Seq(Int) /\ t.chan \in Seq(Int)
  BY DEF Socks, Streams
<1> HIDE DEF a
<1>3. WayOf(p, l, s, t) = <<a, s.inbox, s.send, t.wire, t.chan>>
  BY DEF WayOf, a
<1>4. <<a, s.inbox, s.send, t.wire, t.chan>> \in [1 .. 5 -> Seq(Int)]
  BY <1>1, <1>2
<1> QED
  BY <1>3, <1>4 DEF Ways, Legs, a

LEMMA WayNow ==
    ASSUME Types
    PROVE  /\ Way \in Ways
           /\ Way[1] = [k \in 1 .. Len(pushed) - loaded |-> pushed[loaded + k]]
           /\ Way[2] = sock.inbox /\ Way[3] = sock.send
           /\ Way[4] = stream.wire /\ Way[5] = stream.chan
<1>1. pushed \in Seq(Int) /\ loaded \in 0 .. Len(pushed) /\ sock \in Socks /\ stream \in Streams
  BY DEF Types
<1> QED
  BY <1>1, WayIs, Zenon DEF Way

\* The way before and after a step.
LEMMA BothWays ==
    ASSUME Types, Types'
    PROVE  /\ Way \in Ways /\ Way' \in Ways
           /\ Published \in Int /\ Published' \in Int
           /\ Way[2] = sock.inbox /\ Way'[2] = sock'.inbox
           /\ Way[3] = sock.send /\ Way'[3] = sock'.send
           /\ Way[4] = stream.wire /\ Way'[4] = stream'.wire
           /\ Way[5] = stream.chan /\ Way'[5] = stream'.chan
           /\ UNCHANGED <<pushed, loaded>> => Way'[1] = Way[1]
<1>1. /\ Way \in Ways
      /\ Way[1] = [k \in 1 .. Len(pushed) - loaded |-> pushed[loaded + k]]
      /\ Way[2] = sock.inbox /\ Way[3] = sock.send
      /\ Way[4] = stream.wire /\ Way[5] = stream.chan
  BY WayNow
<1>2. /\ Way' \in Ways
      /\ Way'[1] = [k \in 1 .. Len(pushed') - loaded' |-> pushed'[loaded' + k]]
      /\ Way'[2] = sock'.inbox /\ Way'[3] = sock'.send
      /\ Way'[4] = stream'.wire /\ Way'[5] = stream'.chan
  <2>1. /\ pushed' \in Seq(Int) /\ loaded' \in 0 .. Len(pushed')
        /\ sock' \in Socks /\ stream' \in Streams
    BY DEF Types
  <2> QED
    BY <2>1, WayIs, Zenon DEF Way
<1>3. Published \in Int /\ Published' \in Int
  BY DEF Types, Published
<1> QED
  BY <1>1, <1>2, <1>3

LEMMA LegsAre == \A j \in Legs : j = 1 \/ j = 2 \/ j = 3 \/ j = 4 \/ j = 5
  BY DEF Legs

LEMMA InitLog == Init => LogInv
<1> SUFFICES ASSUME Init PROVE LogInv
  OBVIOUS
<1>1. Types
  BY LogFeedAssumption DEF Init, FeedInit, NoStream, NoSocket, Types, Streams, Socks,
     LogFeedAssumption
<1>2. Holds(ring, RingSize, Numbers(made))
  <2>1. Seeds \in Nat
    BY LogFeedAssumption DEF LogFeedAssumption
  <2> QED
    BY <2>1, SeededHolds DEF Init, FeedInit
<1>3. WayInv
  <2>1. /\ pushed \in Seq(Int) /\ loaded \in 0 .. Len(pushed) /\ sock \in Socks /\ stream \in Streams
        /\ Len(pushed) = 0 /\ loaded = 0
        /\ sock.inbox = <<>> /\ sock.send = <<>> /\ stream.wire = <<>> /\ stream.chan = <<>>
    BY <1>1 DEF Types, Init, FeedInit, NoStream, NoSocket
  <2>2. /\ Way[1] = [k \in 1 .. 0 |-> pushed[0 + k]]
        /\ Way[2] = <<>> /\ Way[3] = <<>> /\ Way[4] = <<>> /\ Way[5] = <<>>
    <3>1. /\ Way[1] = [k \in 1 .. Len(pushed) - loaded |-> pushed[loaded + k]]
          /\ Way[2] = sock.inbox /\ Way[3] = sock.send
          /\ Way[4] = stream.wire /\ Way[5] = stream.chan
      BY <1>1, WayNow
    <3>2. Len(pushed) - loaded = 0 /\ loaded = 0
      BY <2>1
    <3> QED
      BY <2>1, <3>1, <3>2
  <2>3. \A j \in Legs : DOMAIN Way[j] = {}
    BY <2>2, LegsAre
  <2> QED
    BY <2>3 DEF WayInv, Ascends, UpTo
<1>4. StartInv
  BY DEF Init, StartInv
<1> QED
  BY <1>1, <1>2, <1>3, <1>4 DEF LogInv

-----------------------------------------------------------------------------
(* Steps.                                                                   *)

core == <<made, ring, ppc, stream, sock, phase, answer, timer, pushed, loaded>>
workerCore == <<phase, answer, timer, pushed, loaded>>

\* The steps of the services and the BFF that move events or the socket.
FeedSteps ==
    \/ Produce \/ Publish \/ Send \/ RestartService \/ OpenStream \/ BreakStream
    \/ Recv \/ Accept \/ WritePump \/ WriteDone \/ Lose \/ RestartBff

\* And those of the worker.
WorkerSteps ==
    GetHistory \/ LoadHistory \/ HistoryFails \/ OpenLogs \/ OnLogMessage \/ OnClose \/ Reconnect

LEMMA Steps ==
    ASSUME [Next]_vars
    PROVE  (FeedSteps /\ UNCHANGED workerCore) \/ WorkerSteps \/ UNCHANGED core
<1>1. CASE FeedNext /\ UNCHANGED <<worker, table, toMain, toWorker, acts, fresh>>
  <2>1. UNCHANGED workerCore
    BY <1>1 DEF worker, workerCore
  <2>2. StreamEnds => UNCHANGED <<made, ring, ppc, stream, sock>>
    BY DEF StreamEnds
  <2> QED
    BY <1>1, <2>1, <2>2 DEF FeedNext, FeedSteps, core, workerCore
<1>2. CASE WorkerNext
  <2>1. FlushLogTotal => UNCHANGED core
    BY DEF FlushLogTotal, core, feed
  <2>2. HandleGetLogs => UNCHANGED core
    BY DEF HandleGetLogs, core, feed, worker
  <2> QED
    BY <1>2, <2>1, <2>2 DEF WorkerNext, WorkerSteps
<1>3. CASE TableNext
  <2>1. OnLogTotal \/ OnLogSlice \/ OnScroll => UNCHANGED core
    BY DEF OnLogTotal, OnLogSlice, OnScroll, core, feed, worker
  <2>2. Scroll \/ Poll \/ Switch => UNCHANGED core
    BY DEF Scroll, Poll, Switch, core, feed, worker
  <2> QED
    BY <1>3, <2>1, <2>2 DEF TableNext
<1>4. CASE UNCHANGED vars
  BY <1>4 DEF vars, feed, worker, core
<1> QED
  BY <1>1, <1>2, <1>3, <1>4 DEF Next

\* A sequence loses its first or gains a last event.
LEMMA SeqSteps ==
    ASSUME NEW s \in Seq(Int)
    PROVE  /\ s # <<>> => Head(s) \in Int /\ Tail(s) \in Seq(Int)
           /\ \A x \in Int : Append(s, x) \in Seq(Int)
  OBVIOUS

LEMMA Records ==
    /\ \A c, s \in Seq(Int) : [up |-> FALSE, chan |-> c, wire |-> s] \in Streams
    /\ \A a \in {"none", "connecting", "open", "dropped", "lost"}, s, b \in Seq(Int) :
          [state |-> a, send |-> s, inbox |-> b] \in Socks
    /\ <<>> \in Seq(Int)
<1>1. FALSE \in BOOLEAN /\ <<>> \in Seq(Int)
  OBVIOUS
<1>2. \A c, s \in Seq(Int) : [up |-> FALSE, chan |-> c, wire |-> s] \in Streams
  BY <1>1, Zenon DEF Streams
<1>3. \A a \in {"none", "connecting", "open", "dropped", "lost"}, s, b \in Seq(Int) :
         [state |-> a, send |-> s, inbox |-> b] \in Socks
  BY DEF Socks
<1> QED
  BY <1>1, <1>2, <1>3

LEMMA FeedTypes ==
    ASSUME Types, FeedSteps, UNCHANGED workerCore
    PROVE  Types'
<1> USE DEF workerCore
<1>1. Seeds \in Nat
  BY LogFeedAssumption DEF LogFeedAssumption
<1>2. /\ stream.up \in BOOLEAN /\ stream.chan \in Seq(Int) /\ stream.wire \in Seq(Int)
      /\ stream = [up |-> stream.up, chan |-> stream.chan, wire |-> stream.wire]
      /\ sock.state \in {"none", "connecting", "open", "dropped", "lost"}
      /\ sock.send \in Seq(Int) /\ sock.inbox \in Seq(Int)
      /\ sock = [state |-> sock.state, send |-> sock.send, inbox |-> sock.inbox]
      /\ made \in Int
  BY DEF Types, Streams, Socks
<1>3. CASE Produce
  BY <1>3 DEF Types, Produce
<1>4. CASE Publish
  <2>1. Append(stream.chan, made) \in Seq(Int)
    BY <1>2, SeqSteps
  <2>2. stream' \in Streams
    BY <1>2, <1>4, <2>1 DEF Types, Publish, Streams
  <2> QED
    BY <1>4, <2>2 DEF Types, Publish
<1>5. CASE Send
  <2>1. Tail(stream.chan) \in Seq(Int) /\ Append(stream.wire, Head(stream.chan)) \in Seq(Int)
    BY <1>2, <1>5, SeqSteps DEF Send
  <2>2. stream' \in Streams
    BY <1>2, <1>5, <2>1 DEF Types, Send, Streams
  <2> QED
    BY <1>5, <2>2 DEF Types, Send
<1>6. CASE RestartService
  <2>1. PICK kept \in Arrived(stream.wire) : stream' = [up |-> FALSE, chan |-> <<>>, wire |-> kept]
    BY <1>6 DEF RestartService, NoStream
  <2>3. kept \in Seq(Int)
    BY <1>2, ArrivedIs
  <2>2. stream' \in Streams
    BY <2>1, <2>3, Records
  <2> QED
    BY <1>1, <1>6, <2>2 DEF Types, RestartService
<1>7. CASE OpenStream
  BY <1>7 DEF Types, OpenStream, Streams
<1>8. CASE BreakStream
  <2>1. PICK kept \in Arrived(stream.wire) : stream' = [up |-> FALSE, chan |-> <<>>, wire |-> kept]
    BY <1>8 DEF BreakStream, NoStream
  <2>3. kept \in Seq(Int)
    BY <1>2, ArrivedIs
  <2>2. stream' \in Streams
    BY <2>1, <2>3, Records
  <2> QED
    BY <1>8, <2>2 DEF Types, BreakStream
<1>9. CASE Recv
  <2>1. Tail(stream.wire) \in Seq(Int) /\ Append(sock.send, Head(stream.wire)) \in Seq(Int)
    BY <1>2, <1>9, SeqSteps DEF Recv
  <2>2. stream' \in Streams
    BY <1>2, <1>9, <2>1 DEF Recv, Streams
  <2>3. sock' \in Socks
    BY <1>2, <1>9, <2>1 DEF Recv, Broadcast, Socks
  <2> QED
    BY <1>9, <2>2, <2>3 DEF Types, Recv
<1>10. CASE Accept
  <2>1. sock' \in Socks
    BY <1>2, <1>10 DEF Accept, Socks
  <2> QED
    BY <1>10, <2>1 DEF Types, Accept, feed
<1>11. CASE WritePump
  <2>1. Tail(sock.send) \in Seq(Int) /\ Append(sock.inbox, Head(sock.send)) \in Seq(Int)
    BY <1>2, <1>11, SeqSteps DEF WritePump
  <2>2. sock' \in Socks
    BY <1>2, <1>11, <2>1 DEF WritePump, Socks
  <2> QED
    BY <1>11, <2>2 DEF Types, WritePump, feed
<1>12. CASE WriteDone
  <2>1. sock' = [state |-> "lost", send |-> <<>>, inbox |-> sock.inbox]
    BY <1>2, <1>12 DEF WriteDone
  <2>2. sock' \in Socks
    BY <1>2, <2>1 DEF Socks
  <2> QED
    BY <1>12, <2>2 DEF Types, WriteDone, feed
<1>15. ASSUME NEW kept \in Arrived(sock.inbox),
              sock' = [sock EXCEPT !.state = "lost", !.send = <<>>, !.inbox = kept]
       PROVE  sock' \in Socks
  <2>1. sock' = [state |-> "lost", send |-> <<>>, inbox |-> kept]
    BY <1>2, <1>15
  <2>2. kept \in Seq(Int)
    BY <1>2, ArrivedIs
  <2> QED
    BY <2>1, <2>2, Records
<1>16. CASE Lose
  <2>1. sock' \in Socks
    BY <1>15, <1>16 DEF Lose
  <2> QED
    BY <1>16, <2>1 DEF Types, Lose, feed
<1>13. CASE RestartBff
  <2>2. sock' \in Socks
    BY <1>13, <1>15 DEF RestartBff, Types
  <2>3. stream' \in Streams
    BY <1>13, Records DEF RestartBff, NoStream
  <2>4. UNCHANGED <<made, ring, ppc>>
    BY <1>13 DEF RestartBff
  <2> QED
    BY <2>2, <2>3, <2>4 DEF Types
<1> QED
  BY <1>3, <1>4, <1>5, <1>6, <1>7, <1>8, <1>9, <1>10, <1>11, <1>12, <1>13, <1>16 DEF FeedSteps

LEMMA WorkerTypes ==
    ASSUME LogInv, WorkerSteps
    PROVE  Types'
<1>1. Types /\ StartInv /\ Holds(ring, RingSize, Numbers(made))
  BY DEF LogInv
<1>2. NoSocket \in Socks /\ [NoSocket EXCEPT !.state = "connecting"] \in Socks
  <2>1. [NoSocket EXCEPT !.state = "connecting"]
           = [state |-> "connecting", send |-> <<>>, inbox |-> <<>>]
    BY DEF NoSocket
  <2> QED
    BY <2>1, Records DEF NoSocket
<1>3. CASE GetHistory
  <2>1. answer' \in Seq(Int)
    <3>1. Capacity \in Nat /\ made \in Nat
      BY <1>1, LogViewAssumption DEF LogViewAssumption, Types
    <3> QED
      BY <1>1, <1>3, <3>1, SnapshotIs DEF GetHistory
  <2> QED
    BY <1>1, <1>3, <2>1 DEF Types, GetHistory, feed
<1>4. CASE LoadHistory
  <2>1. pushed' = pushed \o answer /\ loaded' = Len(answer) /\ answer' = <<>>
    BY <1>4 DEF LoadHistory, PushAll
  <2>2. pushed' \in Seq(Int) /\ loaded' \in 0 .. Len(pushed')
    BY <1>1, <2>1 DEF Types
  <2> QED
    BY <1>1, <1>4, <2>1, <2>2 DEF Types, LoadHistory, feed
<1>5. CASE HistoryFails
  BY <1>1, <1>5 DEF Types, HistoryFails, feed
<1>6. CASE OpenLogs
  BY <1>1, <1>2, <1>6 DEF Types, OpenLogs, Connect, feed
<1>7. CASE OnLogMessage
  <2>1. sock.inbox # <<>> /\ sock.inbox \in Seq(Int)
    BY <1>1, <1>7 DEF OnLogMessage, Types, Socks
  <2>2. Head(sock.inbox) \in Int /\ Tail(sock.inbox) \in Seq(Int)
    BY <2>1
  <2>3. pushed' = pushed \o <<Head(sock.inbox)>> /\ loaded' = loaded
    BY <1>7 DEF OnLogMessage, PushAll
  <2>4. pushed' \in Seq(Int) /\ loaded' \in 0 .. Len(pushed')
    BY <1>1, <2>2, <2>3 DEF Types
  <2>5. sock' \in Socks
    BY <1>1, <1>7, <2>2 DEF OnLogMessage, Types, Socks
  <2> QED
    BY <1>1, <1>7, <2>4, <2>5 DEF Types, OnLogMessage, feed
<1>8. CASE OnClose
  BY <1>1, <1>2, <1>8 DEF Types, OnClose, feed
<1>9. CASE Reconnect
  BY <1>1, <1>2, <1>9 DEF Types, Reconnect, Connect, feed
<1> QED
  BY <1>3, <1>4, <1>5, <1>6, <1>7, <1>8, <1>9 DEF WorkerSteps

\* The ring's last event is the last one made.
LEMMA StepHolds ==
    ASSUME Types, Holds(ring, RingSize, Numbers(made)), FeedSteps
    PROVE  Holds(ring', RingSize, Numbers(made'))
<1>1. Seeds \in Nat /\ made \in Nat
  BY LogFeedAssumption DEF LogFeedAssumption, Types
<1>2. CASE Produce
  BY <1>1, <1>2, AppendHolds DEF Produce
<1>3. CASE RestartService
  <2>1. made' \in Nat /\ made <= made' /\ ring' = Seeded(made, made')
    BY <1>1, <1>3 DEF RestartService
  <2> QED
    BY <1>1, <2>1, SeededHolds
<1>4. ASSUME ~Produce, ~RestartService PROVE UNCHANGED <<made, ring>>
  BY <1>4 DEF FeedSteps, Publish, Send, OpenStream, BreakStream, Recv, Accept, WritePump,
     WriteDone, Lose, RestartBff, feed
<1> QED
  BY <1>2, <1>3, <1>4

\* Services and BFF keep the order of the events on their way.
LEMMA FeedWay ==
    ASSUME Types, Types', WayInv, FeedSteps, UNCHANGED workerCore
    PROVE  WayInv'
<1>1. Ascends(Way) /\ UpTo(Way, Published)
  BY DEF WayInv
<1>2. Way'[1] = Way[1]
  BY BothWays DEF workerCore
<1> DEFINE w == Way
           v == Way'
           Shorter(t, s) == t = s \/ t = <<>> \/ t \in Arrived(s) \/ (s # <<>> /\ t = Tail(s))
<1>3. ASSUME Shorter(sock'.inbox, sock.inbox), Shorter(sock'.send, sock.send),
             Shorter(stream'.wire, stream.wire), Shorter(stream'.chan, stream.chan),
             Published <= Published'
      PROVE  WayInv'
  <2>1. \A j \in Legs : Shorter(v[j], w[j])
    BY <1>2, <1>3, BothWays, LegsAre
  <2>2. Ascends(v) /\ UpTo(v, Published)
    BY <1>1, <2>1, BothWays, Cut
  <2>3. UpTo(v, Published')
    BY <1>3, <2>2, BothWays, UpToMore
  <2> QED
    BY <2>2, <2>3 DEF WayInv
<1>4. ASSUME NEW i \in 1 .. 4, w[i + 1] # <<>>,
             v[i] = Append(w[i], Head(w[i + 1])), v[i + 1] = Tail(w[i + 1]),
             \A j \in Legs : j = i \/ j = i + 1 \/ v[j] = w[j],
             Published' = Published
      PROVE  WayInv'
  BY <1>1, <1>4, BothWays, Moved DEF WayInv
<1>5. CASE Produce
  <2>1. UNCHANGED <<sock, stream>> /\ Published' = Published
    BY <1>5 DEF Produce, Published, Types
  <2> QED
    BY <1>3, <2>1, BothWays
<1>6. CASE Publish
  <2>1. Published = made - 1 /\ Published' = made /\ made \in Int /\ sock' = sock
        /\ stream'.wire = stream.wire
    BY <1>6 DEF Publish, Published, Types, Streams
  <2>2. CASE stream.up /\ Len(stream.chan) < ChanSize
    <3>1. stream'.chan = Append(stream.chan, made)
      BY <1>6, <2>2 DEF Publish, Types, Streams
    <3>2. v[5] = Append(w[5], made) /\ \A j \in 1 .. 4 : v[j] = w[j]
      BY <1>2, <2>1, <3>1, BothWays
    <3>3. Ascends(v) /\ UpTo(v, made)
      BY <1>1, <2>1, <3>2, BothWays, Sent
    <3> QED
      BY <2>1, <3>3 DEF WayInv
  <2>3. CASE ~(stream.up /\ Len(stream.chan) < ChanSize)
    <3>1. stream' = stream
      BY <1>6, <2>3 DEF Publish
    <3> QED
      BY <1>3, <2>1, <3>1
  <2> QED
    BY <2>2, <2>3
<1>7. CASE Send
  <2>1. /\ stream.chan # <<>> /\ sock' = sock /\ Published' = Published
        /\ stream'.chan = Tail(stream.chan)
        /\ stream'.wire = Append(stream.wire, Head(stream.chan))
    BY <1>7 DEF Send, Published, Types, Streams
  <2>2. /\ w[5] # <<>> /\ v[4] = Append(w[4], Head(w[5])) /\ v[5] = Tail(w[5])
        /\ v[1] = w[1] /\ v[2] = w[2] /\ v[3] = w[3]
    BY <1>2, <2>1, BothWays
  <2> QED
    BY <1>4, <2>1, <2>2, LegsAre
<1>8. CASE RestartService
  <2>1. /\ sock' = sock /\ stream'.chan = <<>>
        /\ stream'.wire \in Arrived(stream.wire)
        /\ Published <= Published'
    BY <1>8, LogFeedAssumption
       DEF RestartService, NoStream, Published, Types, LogFeedAssumption
  <2> QED
    BY <1>3, <2>1
<1>9. CASE OpenStream
  <2>1. sock' = sock /\ stream'.chan = <<>> /\ stream'.wire = <<>> /\ Published' = Published
    BY <1>9 DEF OpenStream, Published
  <2> QED
    BY <1>3, <2>1, BothWays
<1>10. CASE BreakStream
  <2>1. /\ sock' = sock /\ stream'.chan = <<>> /\ Published' = Published
        /\ stream'.wire \in Arrived(stream.wire)
    BY <1>10 DEF BreakStream, NoStream, Published
  <2> QED
    BY <1>3, <2>1, BothWays
<1>11. CASE Recv
  <2>1. /\ stream.wire # <<>> /\ Published' = Published
        /\ stream'.wire = Tail(stream.wire) /\ stream'.chan = stream.chan
        /\ sock'.inbox = sock.inbox
        /\ sock'.send = sock.send \/ sock'.send = Append(sock.send, Head(stream.wire))
    BY <1>11 DEF Recv, Broadcast, Published, Types, Streams, Socks
  <2>2. CASE sock'.send = sock.send
    BY <1>3, <2>1, <2>2, BothWays
  <2>3. CASE sock'.send = Append(sock.send, Head(stream.wire))
    <3>1. /\ w[4] # <<>> /\ v[3] = Append(w[3], Head(w[4])) /\ v[4] = Tail(w[4])
          /\ v[1] = w[1] /\ v[2] = w[2] /\ v[5] = w[5]
      BY <1>2, <2>1, <2>3, BothWays
    <3> QED
      BY <1>4, <2>1, <3>1, LegsAre
  <2> QED
    BY <2>1, <2>2, <2>3
<1>12. CASE WritePump
  <2>1. /\ sock.send # <<>> /\ stream' = stream /\ Published' = Published
        /\ sock'.send = Tail(sock.send)
        /\ sock'.inbox = Append(sock.inbox, Head(sock.send))
    BY <1>12 DEF WritePump, Published, Types, Socks, feed
  <2>2. /\ w[3] # <<>> /\ v[2] = Append(w[2], Head(w[3])) /\ v[3] = Tail(w[3])
        /\ v[1] = w[1] /\ v[4] = w[4] /\ v[5] = w[5]
    BY <1>2, <2>1, BothWays
  <2> QED
    BY <1>4, <2>1, <2>2, LegsAre
<1>15. CASE Lose
  <2>1. /\ stream' = stream /\ Published' = Published
        /\ sock'.inbox \in Arrived(sock.inbox) /\ sock'.send = <<>>
    BY <1>15 DEF Lose, Published, Types, Socks, feed
  <2> QED
    BY <1>3, <2>1, BothWays
<1>13. CASE Accept \/ WriteDone
  <2>1. /\ stream' = stream /\ Published' = Published
        /\ sock'.inbox = sock.inbox /\ (sock'.send = sock.send \/ sock'.send = <<>>)
    BY <1>13 DEF Accept, WriteDone, Published, Types, Socks, feed
  <2> QED
    BY <1>3, <2>1, BothWays
<1>14. CASE RestartBff
  <2>1. /\ stream'.wire = <<>> /\ stream'.chan = <<>> /\ Published' = Published
        /\ sock'.inbox = sock.inbox \/ sock'.inbox \in Arrived(sock.inbox)
        /\ sock'.send = sock.send \/ sock'.send = <<>>
    BY <1>14 DEF RestartBff, NoStream, Published, Types, Socks
  <2> QED
    BY <1>3, <2>1, BothWays
<1> QED
  BY <1>5, <1>6, <1>7, <1>8, <1>9, <1>10, <1>11, <1>12, <1>13, <1>14, <1>15 DEF FeedSteps

\* What the worker takes out of the socket is later than all it has.
LEMMA WorkerWay ==
    ASSUME LogInv, Types', WorkerSteps
    PROVE  WayInv'
<1>1. Types /\ StartInv /\ Ascends(Way) /\ UpTo(Way, Published)
  BY DEF LogInv, WayInv
<1> DEFINE w == Way
           v == Way'
<1>2. Published' = Published
  BY DEF WorkerSteps, GetHistory, LoadHistory, HistoryFails, OpenLogs, OnLogMessage, OnClose,
     Reconnect, Published, feed
<1>3. stream' = stream
  BY DEF WorkerSteps, GetHistory, LoadHistory, HistoryFails, OpenLogs, OnLogMessage, OnClose,
     Reconnect, feed
<1>4. ASSUME \A j \in Legs : v[j] = w[j] \/ v[j] = <<>> PROVE WayInv'
  <2>1. Ascends(v) /\ UpTo(v, Published)
    BY <1>1, <1>4, BothWays, Cut
  <2> QED
    BY <1>2, <2>1 DEF WayInv
<1>5. CASE GetHistory \/ HistoryFails
  <2>1. UNCHANGED <<pushed, loaded, sock>>
    BY <1>5 DEF GetHistory, HistoryFails
  <2>2. \A j \in Legs : v[j] = w[j]
    BY <1>1, <1>3, <2>1, BothWays, LegsAre
  <2> QED
    BY <1>4, <2>2
<1>6. CASE LoadHistory
  <2>1. /\ pushed = <<>> /\ pushed' = pushed \o answer /\ loaded' = Len(answer) /\ sock' = sock
        /\ answer \in Seq(Int)
    BY <1>1, <1>6 DEF LoadHistory, PushAll, StartInv, Types
  <2>2. Len(pushed') - loaded' = 0
    BY <2>1
  <2>3. v[1] = <<>>
    <3>1. v[1] = [k \in 1 .. Len(pushed') - loaded' |-> pushed'[loaded' + k]]
      BY WayIs DEF Way, Types
    <3> QED
      BY <2>2, <3>1
  <2>4. \A j \in Legs : v[j] = w[j] \/ v[j] = <<>>
    BY <1>1, <1>3, <2>1, <2>3, BothWays, LegsAre
  <2> QED
    BY <1>4, <2>4
<1>7. CASE OpenLogs \/ OnClose \/ Reconnect
  <2>1. UNCHANGED <<pushed, loaded>> /\ sock'.inbox = <<>> /\ sock'.send = <<>>
    BY <1>7 DEF OpenLogs, OnClose, Reconnect, Connect, NoSocket
  <2>2. \A j \in Legs : v[j] = w[j] \/ v[j] = <<>>
    BY <1>1, <1>3, <2>1, BothWays, LegsAre
  <2> QED
    BY <1>4, <2>2
<1>8. CASE OnLogMessage
  <2>1. /\ sock.inbox # <<>> /\ sock.inbox \in Seq(Int)
        /\ sock'.inbox = Tail(sock.inbox) /\ sock'.send = sock.send
        /\ pushed' = pushed \o <<Head(sock.inbox)>> /\ loaded' = loaded
        /\ pushed \in Seq(Int) /\ loaded \in 0 .. Len(pushed)
    BY <1>1, <1>8 DEF OnLogMessage, PushAll, Types, Socks
  <2>2. v[1] = Append(w[1], Head(sock.inbox))
    <3>1. v[1] = [k \in 1 .. Len(pushed') - loaded' |-> pushed'[loaded' + k]]
      BY WayIs DEF Way, Types
    <3>2. w[1] = [k \in 1 .. Len(pushed) - loaded |-> pushed[loaded + k]]
      BY <1>1, WayNow
    <3>3. PICK x \in Int : x = Head(sock.inbox)
      BY <2>1
    <3>4. Len(pushed') = Len(pushed) + 1 /\ pushed'[Len(pushed) + 1] = x
          /\ \A k \in 1 .. Len(pushed) : pushed'[k] = pushed[k]
      <4>1. pushed' = pushed \o <<x>>
        BY <2>1, <3>3, Zenon
      <4>2. PICK p \in Seq(Int) : p = pushed
        BY <2>1
      <4>3. /\ Len(p \o <<x>>) = Len(p) + 1 /\ (p \o <<x>>)[Len(p) + 1] = x
            /\ \A k \in 1 .. Len(p) : (p \o <<x>>)[k] = p[k]
        OBVIOUS
      <4> QED
        BY <4>1, <4>2, <4>3, Zenon
    <3>5. PICK n \in Nat : n = Len(pushed) - loaded
      <4>1. Len(pushed) - loaded \in Nat
        BY <1>1 DEF Types
      <4> QED
        BY <4>1
    <3>6. w[1] \in Seq(Int) /\ Len(w[1]) = n
      <4>1. \A k \in 1 .. n : pushed[loaded + k] \in Int
        BY <2>1, <3>5
      <4>2. w[1] = [k \in 1 .. n |-> pushed[loaded + k]]
        BY <3>2, <3>5, Zenon
      <4> HIDE DEF w
      <4> QED
        BY <4>1, <4>2
    <3>7. Append(w[1], x) = [k \in 1 .. n + 1 |-> IF k = n + 1 THEN x ELSE pushed[loaded + k]]
      <4>1. w[1] = [k \in 1 .. n |-> pushed[loaded + k]]
        BY <3>2, <3>5, Zenon
      <4> HIDE DEF w
      <4> QED
        BY <3>6, <4>1
    <3>8. ASSUME NEW k \in 1 .. n + 1
          PROVE  pushed'[loaded' + k] = IF k = n + 1 THEN x ELSE pushed[loaded + k]
      BY <2>1, <3>4, <3>5
    <3>9. Len(pushed') - loaded' = n + 1
      BY <2>1, <3>4, <3>5
    <3> QED
      BY <3>1, <3>3, <3>7, <3>8, <3>9
  <2>3. /\ w[2] # <<>> /\ v[1] = Append(w[1], Head(w[2])) /\ v[2] = Tail(w[2])
        /\ v[3] = w[3] /\ v[4] = w[4] /\ v[5] = w[5]
    BY <1>1, <1>3, <2>1, <2>2, BothWays
  <2>4. Ascends(v) /\ UpTo(v, Published)
    <3>1. 1 \in 1 .. 4 /\ 1 + 1 = 2
      OBVIOUS
    <3>2. \A j \in Legs : j = 1 \/ j = 2 \/ v[j] = w[j]
      BY <2>3, LegsAre
    <3> QED
      BY <1>1, <2>3, <3>1, <3>2, BothWays, Moved
  <2> QED
    BY <1>2, <2>4 DEF WayInv
<1> QED
  BY <1>5, <1>6, <1>7, <1>8 DEF WorkerSteps

LEMMA FeedStart ==
    ASSUME StartInv, FeedSteps, UNCHANGED workerCore
    PROVE  StartInv'
<1>1. sock = NoSocket => sock' = NoSocket
  BY DEF FeedSteps, Produce, Publish, Send, RestartService, OpenStream, BreakStream, Recv,
     Broadcast, Accept, WritePump, WriteDone, Lose, RestartBff, feed, NoSocket
<1> QED
  BY <1>1 DEF StartInv, workerCore

LEMMA WorkerStart ==
    ASSUME LogInv, WorkerSteps
    PROVE  StartInv'
<1>1. Types /\ StartInv /\ Holds(ring, RingSize, Numbers(made))
  BY DEF LogInv
<1>2. CASE GetHistory
  <2>1. \A k \in 1 .. Len(answer') - 1 : answer'[k + 1] = answer'[k] + 1
    <3>1. Capacity \in Nat /\ made \in Nat
      BY <1>1, LogViewAssumption DEF LogViewAssumption, Types
    <3> QED
      BY <1>1, <1>2, <3>1, SnapshotIs DEF GetHistory
  <2> QED
    BY <1>1, <1>2, <2>1 DEF StartInv, GetHistory
<1>3. CASE LoadHistory
  <2>1. /\ pushed = <<>> /\ answer \in Seq(Int) /\ loaded' = Len(answer)
        /\ pushed' = pushed \o answer /\ answer' = <<>> /\ phase' = "loaded"
        /\ UNCHANGED <<sock, timer>> /\ sock = NoSocket /\ ~timer
    BY <1>1, <1>3 DEF LoadHistory, PushAll, StartInv, Types
  <2>2. pushed' = answer
    BY <2>1
  <2> QED
    BY <1>1, <2>1, <2>2 DEF StartInv
<1>4. CASE HistoryFails
  BY <1>1, <1>4 DEF StartInv, HistoryFails
<1>5. CASE OpenLogs
  BY <1>1, <1>5 DEF StartInv, OpenLogs
<1>6. CASE OnLogMessage
  <2>1. phase = "run" /\ phase' = phase
    BY <1>1, <1>6 DEF StartInv, OnLogMessage, NoSocket
  <2>2. pushed' = pushed \o <<Head(sock.inbox)>> /\ loaded' = loaded /\ answer' = answer
    BY <1>6 DEF OnLogMessage, PushAll
  <2>3. \A k \in 1 .. Len(pushed) : pushed'[k] = pushed[k]
    <3>1. PICK x : x = Head(sock.inbox)
      OBVIOUS
    <3> QED
      BY <1>1, <2>2, <3>1 DEF Types
  <2>4. \A k \in 1 .. loaded' - 1 : pushed'[k + 1] = pushed'[k] + 1
    BY <1>1, <2>2, <2>3 DEF Types, StartInv
  <2> QED
    BY <1>1, <2>1, <2>2, <2>4 DEF StartInv
<1>7. CASE OnClose
  <2>1. phase = "run"
    BY <1>1, <1>7 DEF StartInv, OnClose, NoSocket
  <2> QED
    BY <1>1, <1>7, <2>1 DEF StartInv, OnClose
<1>8. CASE Reconnect
  <2>1. phase = "run"
    BY <1>1, <1>8 DEF StartInv, Reconnect
  <2> QED
    BY <1>1, <1>8, <2>1 DEF StartInv, Reconnect
<1> QED
  BY <1>2, <1>3, <1>4, <1>5, <1>6, <1>7, <1>8 DEF WorkerSteps

LEMMA StepLog == LogInv /\ [Next]_vars => LogInv'
<1> SUFFICES ASSUME LogInv, [Next]_vars PROVE LogInv'
  OBVIOUS
<1>1. CASE FeedSteps /\ UNCHANGED workerCore
  BY <1>1, FeedTypes, StepHolds, FeedWay, FeedStart DEF LogInv
<1>2. CASE WorkerSteps
  <2>1. UNCHANGED <<ring, made>>
    BY <1>2 DEF WorkerSteps, GetHistory, LoadHistory, HistoryFails, OpenLogs, OnLogMessage,
       OnClose, Reconnect, feed
  <2> QED
    BY <1>2, <2>1, WorkerTypes, WorkerWay, WorkerStart DEF LogInv
<1>3. CASE UNCHANGED core
  BY <1>3 DEF core, LogInv, Types, WayInv, Way, Published, StartInv
<1> QED
  BY <1>1, <1>2, <1>3, Steps

LEMMA InOrder == LogInv => LogsInOrder
<1> SUFFICES ASSUME LogInv PROVE LogsInOrder
  OBVIOUS
<1>1. Types /\ StartInv /\ Ascends(Way)
  BY DEF LogInv, WayInv
<1>2. ASSUME NEW k \in loaded + 1 .. Len(pushed) - 1
      PROVE  pushed[k + 1] > pushed[k]
  <2>1. Way[1] = [n \in 1 .. Len(pushed) - loaded |-> pushed[loaded + n]]
    BY <1>1, WayNow
  <2>2. /\ k - loaded \in 1 .. Len(pushed) - loaded
        /\ k + 1 - loaded \in 1 .. Len(pushed) - loaded
        /\ k - loaded < k + 1 - loaded
        /\ loaded + (k - loaded) = k /\ loaded + (k + 1 - loaded) = k + 1
        /\ 1 \in Legs
        /\ pushed[k] \in Int /\ pushed[k + 1] \in Int
    BY <1>1 DEF Types, Legs
  <2>3. /\ k - loaded \in DOMAIN Way[1] /\ k + 1 - loaded \in DOMAIN Way[1]
        /\ Way[1][k - loaded] = pushed[k] /\ Way[1][k + 1 - loaded] = pushed[k + 1]
    BY <2>1, <2>2
  <2>4. Way[1][k - loaded] < Way[1][k + 1 - loaded]
    BY <1>1, <2>2, <2>3 DEF Ascends
  <2> QED
    BY <2>2, <2>3, <2>4
<1> QED
  BY <1>1, <1>2 DEF LogsInOrder, StartInv

\* What the worker takes from the history has no gap, and what its sockets bring
\* after it comes in the order in which it was made, none of that twice: through
\* full channels and buffers, broken streams and sockets, and restarts of the
\* service and the BFF.
THEOREM LogsKeepOrder == Spec => []LogsInOrder
  BY InitLog, StepLog, InOrder, PTL DEF Spec

-----------------------------------------------------------------------------
(* The worker's ring, and what is read from it.                             *)

LEMMA PushedIs ==
    ASSUME NEW r, NEW evs \in Seq(Int)
    PROVE  \E f : Loop(f, Capacity, r, evs) /\ Pushed(r, evs) = f[Len(evs)]
<1> DEFINE Body(f, k) == IF k = 0 THEN r ELSE Push(f[k - 1], evs[k])
           Fills(f) == f = [k \in 0 .. Len(evs) |-> Body(f, k)]
<1>1. \A f : Fills(f) <=> Loop(f, Capacity, r, evs)
  BY DEF Loop, Push, Put
<1> DEFINE filled == CHOOSE f : Fills(f)
<1>2. Fills(filled)
  <2>1. PICK f : Loop(f, Capacity, r, evs)
    BY LoopEnds
  <2>2. Fills(f)
    BY <1>1, <2>1
  <2> HIDE DEF Fills
  <2> QED
    BY <2>2
<1>3. Pushed(r, evs) = filled[Len(evs)]
  BY DEF Pushed
<1> HIDE DEF Fills, filled
<1> QED
  BY <1>1, <1>2, <1>3

\* The worker's ring after it pushed events.
LEMMA PushedHolds ==
    ASSUME NEW r, NEW p \in Seq(Int), NEW evs \in Seq(Int),
           Holds(r, Capacity, p), Full(r, Capacity, p)
    PROVE  /\ Holds(Pushed(r, evs), Capacity, p \o evs)
           /\ Full(Pushed(r, evs), Capacity, p \o evs)
           /\ evs = <<>> => Pushed(r, evs) = r
<1>1. Capacity \in Nat \ {0}
  BY LogViewAssumption DEF LogViewAssumption
<1>2. PICK f : Loop(f, Capacity, r, evs) /\ Pushed(r, evs) = f[Len(evs)]
  BY PushedIs
<1>3. Holds(f[Len(evs)], Capacity, p \o evs) /\ Full(f[Len(evs)], Capacity, p \o evs)
  BY <1>1, <1>2, LoopHolds
<1>4. evs = <<>> => f[Len(evs)] = r
  <2>1. ASSUME evs = <<>> PROVE Len(evs) = 0
    BY <2>1
  <2>2. ASSUME Len(evs) = 0 PROVE f[0] = r
    BY <1>2, <2>2 DEF Loop
  <2> QED
    BY <2>1, <2>2
<1> QED
  BY <1>2, <1>3, <1>4

\* Up to l of the last size elements of p, from the one after o of them.
Part(p, size, o, l) ==
    [j \in 1 .. Larger(0, Smaller(l, size - o)) |-> p[Len(p) - size + o + j]]

\* A slice of the ring is a part of what it holds.
LEMMA SliceIs ==
    ASSUME NEW r, NEW p \in Seq(Int), Holds(r, Capacity, p), Full(r, Capacity, p),
           NEW o \in Nat, NEW l \in Int
    PROVE  Slice(r, o, l) = Part(p, r.size, o, l) /\ Slice(r, o, l) \in Seq(Int)
<1> DEFINE n == Capacity
           start == IF r.size < n THEN 0 ELSE r.head
           m == Larger(0, Smaller(l, r.size - o))
<1>1. n \in Nat \ {0} /\ r.head \in 0 .. n - 1 /\ r.size \in 0 .. n /\ Len(p) \in Nat
      /\ r.size <= Len(p)
  BY LogViewAssumption DEF LogViewAssumption, Holds
<1>2. m \in Nat /\ (m > 0 => o + m <= r.size)
  BY <1>1 DEF Larger, Smaller
<1>3. Slice(r, o, l) = [j \in 1 .. m |-> r.buf[(start + o + j - 1) % n]]
  BY DEF Slice
<1> HIDE DEF m
<1>4. r.size < n => r.head = r.size
  BY DEF Full
<1>5. ASSUME NEW j \in 1 .. m
      PROVE  /\ r.buf[(start + o + j - 1) % n] = p[Len(p) - r.size + o + j]
             /\ p[Len(p) - r.size + o + j] \in Int
  <2> DEFINE d == r.size - (o + j - 1)
  <2>1. d \in 1 .. r.size /\ o + j - 1 \in 0 .. r.size - 1 /\ d \in 0 .. n
        /\ o + j - 1 = r.size - d
    BY <1>1, <1>2
  <2> HIDE DEF d
  <2>2. Back(r.head, d, n) \in 0 .. n - 1
    BY <1>1, <2>1, BackIs
  <2>3. \/ start + o + j - 1 = Back(r.head, d, n)
        \/ start + o + j - 1 = Back(r.head, d, n) + n
    <3>1. start + o + j - 1 = start + (r.size - d)
      BY <1>1, <2>1
    <3>2. CASE r.size < n
      BY <1>1, <1>4, <2>1, <3>1, <3>2 DEF Back
    <3>3. CASE r.size = n
      BY <1>1, <2>1, <3>1, <3>3 DEF Back
    <3> QED
      BY <1>1, <3>2, <3>3
  <2>4. (start + o + j - 1) % n = Back(r.head, d, n)
    BY <1>1, <2>2, <2>3, OneTurn
  <2>5. r.buf[Back(r.head, d, n)] = p[Len(p) + 1 - d]
    BY <2>1 DEF Holds
  <2>6. Len(p) + 1 - d = Len(p) - r.size + o + j /\ Len(p) - r.size + o + j \in 1 .. Len(p)
    <3>1. PICK a \in Nat, z \in Nat, i \in Nat : a = Len(p) /\ z = r.size /\ i = j
      BY <1>1, <1>2
    <3>2. PICK e \in Nat : e = d
      BY <1>1, <2>1
    <3>3. o + i - 1 = z - e /\ 1 <= e /\ e <= z
      <4>1. d \in 1 .. z
        BY <2>1, <3>1
      <4> QED
        BY <2>1, <3>1, <3>2, <4>1
    <3>4. z <= a
      BY <1>1, <3>1
    <3>5. a + 1 - e = a - z + o + i /\ a - z + o + i \in 1 .. a
      BY <3>3, <3>4
    <3> QED
      BY <3>1, <3>2, <3>5
  <2> QED
    BY <2>4, <2>5, <2>6
<1>6. Slice(r, o, l) = [j \in 1 .. m |-> p[Len(p) - r.size + o + j]]
  BY <1>3, <1>5
<1>7. Slice(r, o, l) \in Seq(Int)
  BY <1>2, <1>5, <1>6
<1> QED
  BY <1>6, <1>7 DEF m, Part

-----------------------------------------------------------------------------
(* Messages to the main thread.                                             *)

Requests == [id : Nat, offset : Nat, limit : Int]
TotalMsgs == [type : {"logTotal"}, total : Nat]
SliceMsgs == [type : {"logSlice"}, id : Nat, offset : Nat, items : Seq(Int)]
Msgs == TotalMsgs \cup SliceMsgs

\* The totals in q go up from low to high.
Totals(q, low, high) ==
    \A k \in DOMAIN q : q[k].type = "logTotal" =>
        /\ low <= q[k].total /\ q[k].total <= high
        /\ \A l \in DOMAIN q : k < l /\ q[l].type = "logTotal" => q[k].total <= q[l].total

\* The controller will have the total high.
Told(q, low, high) ==
    low = high \/ \E k \in DOMAIN q : q[k].type = "logTotal" /\ q[k].total = high

NoSlices(q) == \A k \in DOMAIN q : q[k].type # "logSlice"

\* The last slice to come, or the table's own if none comes, is the answer to
\* the request id.
Answered(q, s, id, offset, items) ==
    \/ \E k \in DOMAIN q :
          /\ q[k].type = "logSlice" /\ q[k].id = id
          /\ q[k].offset = offset /\ q[k].items = items
          /\ \A l \in DOMAIN q : k < l => q[l].type # "logSlice"
    \/ NoSlices(q) /\ s.offset = offset /\ s.items = items

LEMMA MsgTypes ==
    ASSUME NEW m \in Msgs
    PROVE  /\ m.type = "logTotal" \/ m.type = "logSlice"
           /\ m.type = "logTotal" => m.total \in Nat
  BY DEF Msgs, TotalMsgs, SliceMsgs

\* One message is taken from the queue, or one comes to its end.
LEMMA TailIs ==
    ASSUME NEW S, NEW q \in Seq(S), q # <<>>
    PROVE  /\ Head(q) \in S /\ Head(q) = q[1] /\ 1 \in DOMAIN q
           /\ Tail(q) \in Seq(S)
           /\ \A k \in DOMAIN Tail(q) : k \in Nat /\ k >= 1 /\ k + 1 \in DOMAIN q /\ Tail(q)[k] = q[k + 1]
           /\ \A k \in DOMAIN q : k \in Nat /\ (k = 1 \/ (k - 1 \in DOMAIN Tail(q) /\ q[k] = Tail(q)[k - 1]))
  OBVIOUS

LEMMA AppendIs ==
    ASSUME NEW S, NEW q \in Seq(S), NEW m \in S
    PROVE  /\ Append(q, m) \in Seq(S) /\ Append(q, m) # <<>>
           /\ Len(q) + 1 \in DOMAIN Append(q, m) /\ Append(q, m)[Len(q) + 1] = m
           /\ Len(Append(q, m)) = Len(q) + 1
           /\ \A k \in DOMAIN q : k \in Nat /\ k < Len(q) + 1
                                  /\ k \in DOMAIN Append(q, m) /\ Append(q, m)[k] = q[k]
           /\ \A k \in DOMAIN Append(q, m) : k \in Nat /\ (k = Len(q) + 1 \/ k \in DOMAIN q)
  OBVIOUS

LEMMA TakeTotal ==
    ASSUME NEW q \in Seq(Msgs), q # <<>>, Head(q).type = "logTotal", NEW low \in Nat, NEW high \in Nat,
           Totals(q, low, high)
    PROVE  /\ low <= Head(q).total /\ Head(q).total <= high
           /\ Totals(Tail(q), Head(q).total, high)
           /\ Told(q, low, high) => Told(Tail(q), Head(q).total, high)
           /\ NoSlices(q) => NoSlices(Tail(q))
           /\ \A s, id, offset, items :
                 Answered(q, s, id, offset, items) => Answered(Tail(q), s, id, offset, items)
<1>1. PICK t : t = Tail(q)
  OBVIOUS
<1>2. /\ q[1] = Head(q) /\ 1 \in DOMAIN q
      /\ \A k \in DOMAIN t : k \in Nat /\ k >= 1 /\ k + 1 \in DOMAIN q /\ t[k] = q[k + 1]
      /\ \A k \in DOMAIN q : k \in Nat /\ (k = 1 \/ (k - 1 \in DOMAIN t /\ q[k] = t[k - 1]))
  BY <1>1, TailIs
<1>3. PICK h : h = Head(q)
  OBVIOUS
<1>4. q[1] = h /\ h.type = "logTotal"
  BY <1>2, <1>3
<1>5. low <= h.total /\ h.total <= high
  BY <1>2, <1>4 DEF Totals
<1>6. Totals(t, h.total, high)
  <2> SUFFICES ASSUME NEW k \in DOMAIN t, t[k].type = "logTotal"
               PROVE  /\ h.total <= t[k].total /\ t[k].total <= high
                      /\ \A l \in DOMAIN t : k < l /\ t[l].type = "logTotal" => t[k].total <= t[l].total
    BY DEF Totals
  <2>1. k \in Nat /\ k >= 1 /\ k + 1 \in DOMAIN q /\ t[k] = q[k + 1] /\ 1 < k + 1
    BY <1>2
  <2>2. h.total <= t[k].total /\ t[k].total <= high
    BY <1>2, <1>4, <2>1 DEF Totals
  <2>3. ASSUME NEW l \in DOMAIN t, k < l, t[l].type = "logTotal" PROVE t[k].total <= t[l].total
    <3>1. l \in Nat /\ l + 1 \in DOMAIN q /\ t[l] = q[l + 1] /\ k + 1 < l + 1
      BY <1>2, <2>1, <2>3
    <3> QED
      BY <2>1, <2>3, <3>1 DEF Totals
  <2> QED
    BY <2>2, <2>3
<1>7. ASSUME Told(q, low, high) PROVE Told(t, h.total, high)
  <2>1. CASE low = high
    <3>1. h.total = high
      <4>1. h.total \in Nat
        BY <1>3, <1>4, TailIs, MsgTypes
      <4> QED
        BY <1>5, <2>1, <4>1
    <3> QED
      BY <3>1 DEF Told
  <2>2. ASSUME NEW k \in DOMAIN q, q[k].type = "logTotal", q[k].total = high
        PROVE  Told(t, h.total, high)
    <3>1. CASE k = 1
      BY <1>4, <2>2, <3>1 DEF Told
    <3>2. CASE k # 1
      BY <1>2, <2>2, <3>2 DEF Told
    <3> QED
      BY <3>1, <3>2
  <2> QED
    BY <1>7, <2>1, <2>2 DEF Told
<1>8. NoSlices(q) => NoSlices(t)
  BY <1>2 DEF NoSlices
<1>9. ASSUME NEW s, NEW id, NEW offset, NEW items, Answered(q, s, id, offset, items)
      PROVE  Answered(t, s, id, offset, items)
  <2>1. ASSUME NEW k \in DOMAIN q, q[k].type = "logSlice", q[k].id = id,
               q[k].offset = offset, q[k].items = items,
               \A l \in DOMAIN q : k < l => q[l].type # "logSlice"
        PROVE  Answered(t, s, id, offset, items)
    <3>1. k - 1 \in DOMAIN t /\ q[k] = t[k - 1] /\ k \in Nat
      BY <1>2, <1>4, <2>1
    <3>2. ASSUME NEW l \in DOMAIN t, k - 1 < l PROVE t[l].type # "logSlice"
      <4>1. l \in Nat /\ l + 1 \in DOMAIN q /\ t[l] = q[l + 1] /\ k < l + 1
        BY <1>2, <3>1, <3>2
      <4> QED
        BY <2>1, <4>1
    <3> QED
      BY <2>1, <3>1, <3>2 DEF Answered
  <2>2. CASE NoSlices(q) /\ s.offset = offset /\ s.items = items
    BY <1>8, <2>2 DEF Answered
  <2> QED
    BY <1>9, <2>1, <2>2 DEF Answered
<1> QED
  BY <1>1, <1>3, <1>5, <1>6, <1>7, <1>8, <1>9

LEMMA TakeSlice ==
    ASSUME NEW q \in Seq(Msgs), q # <<>>, Head(q).type = "logSlice", NEW low, NEW high,
           Totals(q, low, high)
    PROVE  /\ Totals(Tail(q), low, high)
           /\ Told(q, low, high) => Told(Tail(q), low, high)
           /\ ~NoSlices(q)
           /\ \A s, id, offset, items : Answered(q, s, id, offset, items) =>
                 Answered(Tail(q),
                          IF Head(q).id = id THEN [offset |-> Head(q).offset, items |-> Head(q).items]
                          ELSE s,
                          id, offset, items)
<1>1. PICK t : t = Tail(q)
  OBVIOUS
<1>2. /\ q[1] = Head(q) /\ 1 \in DOMAIN q
      /\ \A k \in DOMAIN t : k \in Nat /\ k >= 1 /\ k + 1 \in DOMAIN q /\ t[k] = q[k + 1]
      /\ \A k \in DOMAIN q : k \in Nat /\ (k = 1 \/ (k - 1 \in DOMAIN t /\ q[k] = t[k - 1]))
  BY <1>1, TailIs
<1>3. PICK h : h = Head(q)
  OBVIOUS
<1>4. q[1] = h /\ h.type = "logSlice"
  BY <1>2, <1>3
<1>5. Totals(t, low, high)
  <2> SUFFICES ASSUME NEW k \in DOMAIN t, t[k].type = "logTotal"
               PROVE  /\ low <= t[k].total /\ t[k].total <= high
                      /\ \A l \in DOMAIN t : k < l /\ t[l].type = "logTotal" => t[k].total <= t[l].total
    BY DEF Totals
  <2>1. k \in Nat /\ k + 1 \in DOMAIN q /\ t[k] = q[k + 1]
    BY <1>2
  <2>2. ASSUME NEW l \in DOMAIN t, k < l, t[l].type = "logTotal" PROVE t[k].total <= t[l].total
    <3>1. l \in Nat /\ l + 1 \in DOMAIN q /\ t[l] = q[l + 1] /\ k + 1 < l + 1
      BY <1>2, <2>1, <2>2
    <3> QED
      BY <2>1, <2>2, <3>1 DEF Totals
  <2>3. low <= t[k].total /\ t[k].total <= high
    BY <2>1 DEF Totals
  <2> QED
    BY <2>2, <2>3
<1>6. Told(q, low, high) => Told(t, low, high)
  <2>1. ASSUME NEW k \in DOMAIN q, q[k].type = "logTotal", q[k].total = high
        PROVE  Told(t, low, high)
    BY <1>2, <1>4, <2>1 DEF Told
  <2> QED
    BY <2>1 DEF Told
<1>7. ~NoSlices(q)
  BY <1>2, <1>4 DEF NoSlices
<1>8. ASSUME NEW s, NEW id, NEW offset, NEW items, Answered(q, s, id, offset, items), NEW n,
             n = IF h.id = id THEN [offset |-> h.offset, items |-> h.items] ELSE s
      PROVE  Answered(t, n, id, offset, items)
  <2>1. PICK k \in DOMAIN q : /\ q[k].type = "logSlice" /\ q[k].id = id
                              /\ q[k].offset = offset /\ q[k].items = items
                              /\ \A l \in DOMAIN q : k < l => q[l].type # "logSlice"
    BY <1>7, <1>8 DEF Answered
  <2>2. CASE k = 1
    <3>1. n.offset = offset /\ n.items = items
      BY <1>4, <1>8, <2>1, <2>2
    <3>2. NoSlices(t)
      <4> SUFFICES ASSUME NEW l \in DOMAIN t PROVE t[l].type # "logSlice"
        BY DEF NoSlices
      <4>1. l \in Nat /\ l >= 1 /\ l + 1 \in DOMAIN q /\ t[l] = q[l + 1] /\ 1 < l + 1
        BY <1>2
      <4> QED
        BY <2>1, <2>2, <4>1
    <3> QED
      BY <3>1, <3>2 DEF Answered
  <2>3. CASE k # 1
    <3>1. k - 1 \in DOMAIN t /\ q[k] = t[k - 1] /\ k \in Nat
      BY <1>2, <2>3
    <3>2. ASSUME NEW l \in DOMAIN t, k - 1 < l PROVE t[l].type # "logSlice"
      <4>1. l \in Nat /\ l + 1 \in DOMAIN q /\ t[l] = q[l + 1] /\ k < l + 1
        BY <1>2, <3>1, <3>2
      <4> QED
        BY <2>1, <4>1
    <3> QED
      BY <2>1, <3>1, <3>2 DEF Answered
  <2> QED
    BY <2>2, <2>3
<1> QED
  BY <1>1, <1>3, <1>5, <1>6, <1>7, <1>8

LEMMA SendTotal ==
    ASSUME NEW q \in Seq(Msgs), NEW low \in Nat, NEW high \in Nat, Totals(q, low, high), low <= high,
           NEW m \in Msgs, m.type = "logTotal", m.total = high
    PROVE  /\ Totals(Append(q, m), low, high)
           /\ Told(Append(q, m), low, high)
           /\ NoSlices(q) => NoSlices(Append(q, m))
           /\ \A s, id, offset, items :
                 Answered(q, s, id, offset, items) => Answered(Append(q, m), s, id, offset, items)
<1>1. PICK t : t = Append(q, m)
  OBVIOUS
<1>2. PICK n : n = Len(q) + 1
  OBVIOUS
<1>3. /\ n \in DOMAIN t /\ t[n] = m
      /\ \A k \in DOMAIN q : k \in Nat /\ k < n /\ k \in DOMAIN t /\ t[k] = q[k]
      /\ \A k \in DOMAIN t : k \in Nat /\ (k = n \/ k \in DOMAIN q)
  BY <1>1, <1>2, AppendIs
<1>4. Totals(t, low, high)
  <2> SUFFICES ASSUME NEW k \in DOMAIN t, t[k].type = "logTotal"
               PROVE  /\ low <= t[k].total /\ t[k].total <= high
                      /\ \A l \in DOMAIN t : k < l /\ t[l].type = "logTotal" => t[k].total <= t[l].total
    BY DEF Totals
  <2>1. low <= t[k].total /\ t[k].total <= high
    BY <1>3 DEF Totals
  <2>2. ASSUME NEW l \in DOMAIN t, k < l, t[l].type = "logTotal" PROVE t[k].total <= t[l].total
    <3>1. CASE l = n
      BY <1>3, <2>1, <3>1
    <3>2. CASE l # n
      <4>1. l \in DOMAIN q /\ t[l] = q[l] /\ l < n
        BY <1>3, <3>2
      <4>2. k # n
        BY <1>3, <2>2, <4>1
      <4>3. k \in DOMAIN q /\ t[k] = q[k]
        BY <1>3, <4>2
      <4> QED
        BY <2>2, <4>1, <4>3 DEF Totals
    <3> QED
      BY <3>1, <3>2
  <2> QED
    BY <2>1, <2>2
<1>5. Told(t, low, high)
  BY <1>3 DEF Told
<1>6. NoSlices(q) => NoSlices(t)
  BY <1>3 DEF NoSlices
<1>7. ASSUME NEW s, NEW id, NEW offset, NEW items, Answered(q, s, id, offset, items)
      PROVE  Answered(t, s, id, offset, items)
  <2>1. ASSUME NEW k \in DOMAIN q, q[k].type = "logSlice", q[k].id = id,
               q[k].offset = offset, q[k].items = items,
               \A l \in DOMAIN q : k < l => q[l].type # "logSlice"
        PROVE  Answered(t, s, id, offset, items)
    <3>1. k \in DOMAIN t /\ t[k] = q[k]
      BY <1>3
    <3>2. ASSUME NEW l \in DOMAIN t, k < l PROVE t[l].type # "logSlice"
      BY <1>3, <2>1, <3>2
    <3> QED
      BY <2>1, <3>1, <3>2 DEF Answered
  <2>2. CASE NoSlices(q) /\ s.offset = offset /\ s.items = items
    BY <1>6, <2>2 DEF Answered
  <2> QED
    BY <1>7, <2>1, <2>2 DEF Answered
<1> QED
  BY <1>1, <1>4, <1>5, <1>6, <1>7

LEMMA SendSlice ==
    ASSUME NEW q \in Seq(Msgs), NEW low, NEW high, Totals(q, low, high),
           NEW m \in Msgs, m.type = "logSlice"
    PROVE  /\ Totals(Append(q, m), low, high)
           /\ Told(q, low, high) => Told(Append(q, m), low, high)
           /\ \A s : Answered(Append(q, m), s, m.id, m.offset, m.items)
<1>1. PICK t : t = Append(q, m)
  OBVIOUS
<1>2. PICK n : n = Len(q) + 1
  OBVIOUS
<1>3. /\ n \in DOMAIN t /\ t[n] = m /\ n \in Nat
      /\ \A k \in DOMAIN q : k \in Nat /\ k < n /\ k \in DOMAIN t /\ t[k] = q[k]
      /\ \A k \in DOMAIN t : k \in Nat /\ (k = n \/ k \in DOMAIN q)
  BY <1>1, <1>2, AppendIs
<1>4. Totals(t, low, high)
  <2>1. \A k \in DOMAIN t : t[k].type = "logTotal" => k \in DOMAIN q /\ t[k] = q[k]
    BY <1>3
  <2> QED
    BY <2>1 DEF Totals
<1>5. Told(q, low, high) => Told(t, low, high)
  BY <1>3 DEF Told
<1>6. ASSUME NEW s PROVE Answered(t, s, m.id, m.offset, m.items)
  <2>1. \A l \in DOMAIN t : ~(n < l)
    BY <1>3
  <2> QED
    BY <1>3, <2>1 DEF Answered
<1> QED
  BY <1>1, <1>4, <1>5, <1>6

LEMMA MoreTotals ==
    ASSUME NEW q \in Seq(Msgs), NEW low, NEW high \in Nat, NEW more \in Nat, high <= more,
           Totals(q, low, high)
    PROVE  Totals(q, low, more)
<1> SUFFICES ASSUME NEW k \in DOMAIN q, q[k].type = "logTotal" PROVE q[k].total <= more
  BY DEF Totals
<1>1. q[k] \in Msgs /\ q[k].total <= high
  BY DEF Totals
<1>2. q[k].total \in Nat
  BY <1>1, MsgTypes
<1> QED
  BY <1>1, <1>2

-----------------------------------------------------------------------------
(* The invariant of the tables.                                             *)

\* The request whose answer the table on screen needs.
Wanted == IF view = "all" THEN RangeRequest(req, logTotal, top) ELSE WindowRequest(req, logTotal)

TableTypes ==
    /\ logTotal \in Nat /\ top \in Nat /\ dom \in Nat /\ req \in Nat
    /\ view \in {"all", "filtered"}
    /\ toMain \in Seq(Msgs) /\ toWorker \in Seq(Requests)

\* The worker's ring has all it got or is full, and unless it is about to tell,
\* its size is on the way to the controller or there.  A table that did not ask
\* since events came has not been told of them, until the ring is full.
TotalInv ==
    /\ Holds(logRing, Capacity, pushed) /\ Full(logRing, Capacity, pushed)
    /\ logTotal <= logRing.size
    /\ Totals(toMain, logTotal, logRing.size)
    /\ logDirty \/ Told(toMain, logTotal, logRing.size)
    /\ fresh \/ Len(pushed) > Capacity \/ logTotal < logRing.size

\* The last request under way is the one the table needs, or its answer is under
\* way behind all others or in the table, and right if nothing was pushed since.
AnswerInv ==
    /\ logTotal = 0 => toWorker = <<>> /\ slice = NoSlice /\ NoSlices(toMain)
    /\ fresh /\ logTotal # 0 =>
          IF toWorker # <<>> THEN toWorker[Len(toWorker)] = Wanted
          ELSE Answered(toMain, slice, req, Wanted.offset,
                        Slice(logRing, Wanted.offset, Wanted.limit))

\* Without a scroll event to come, LogTable is where its element is, and a pinned
\* one at the end.  An empty one is at its start.
ScrollInv ==
    /\ ~moved => top = dom
    /\ pinned /\ ~moved /\ view = "all" => dom = Bottom(logTotal)
    /\ logTotal = 0 => ~moved /\ top = 0 /\ dom = 0

TableInv == TableTypes /\ TotalInv /\ AnswerInv /\ ScrollInv

LEMMA RangeIs ==
    ASSUME NEW id \in Nat, NEW total \in Nat, NEW pos \in Nat
    PROVE  /\ RangeRequest(id, total, pos) \in Requests
           /\ RangeRequest(id, total, pos).id = id
           /\ RangeRequest(id, total, pos).offset = StartIndex(total, pos)
           /\ RangeRequest(id, total, pos).limit = EndIndex(total, pos) - StartIndex(total, pos) + 1
           /\ StartIndex(total, pos) \in Nat /\ EndIndex(total, pos) \in Int
           /\ EndIndex(total, pos) <= total - 1
<1>1. Viewport \in Nat /\ Overscan \in Nat
  BY LogViewAssumption DEF LogViewAssumption
<1>2. StartIndex(total, pos) \in Nat /\ EndIndex(total, pos) \in Int /\ EndIndex(total, pos) <= total - 1
  BY <1>1 DEF StartIndex, EndIndex, Larger, Smaller
<1> QED
  BY <1>2 DEF RangeRequest, GetLogs, Requests

LEMMA WindowIs ==
    ASSUME NEW id \in Nat, NEW total \in Nat
    PROVE  /\ WindowRequest(id, total) \in Requests
           /\ WindowRequest(id, total).id = id
           /\ WindowRequest(id, total).limit = Smaller(total, WindowCount)
           /\ WindowRequest(id, total).offset = total - Smaller(total, WindowCount)
           /\ Smaller(total, WindowCount) \in 0 .. total
<1>1. WindowCount \in Nat
  BY LogViewAssumption DEF LogViewAssumption
<1>2. /\ Smaller(total, WindowCount) \in 0 .. total
      /\ Larger(0, total - Smaller(total, WindowCount)) = total - Smaller(total, WindowCount)
      /\ total - Smaller(total, WindowCount) \in Nat
  BY <1>1 DEF Larger, Smaller
<1> QED
  BY <1>2 DEF WindowRequest, GetLogs, Requests

LEMMA WantedIs ==
    ASSUME TableTypes
    PROVE  Wanted \in Requests /\ Wanted.id = req /\ Wanted.offset \in Nat /\ Wanted.limit \in Int
<1>1. logTotal \in Nat /\ top \in Nat /\ req \in Nat
  BY DEF TableTypes
<1>2. Wanted \in Requests /\ Wanted.id = req
  BY <1>1, RangeIs, WindowIs DEF Wanted
<1> QED
  BY <1>2 DEF Requests

LEMMA BottomIs == ASSUME NEW total \in Nat PROVE Bottom(total) \in Nat
<1>1. Viewport \in Nat
  BY LogViewAssumption DEF LogViewAssumption
<1> QED
  BY <1>1 DEF Bottom, Larger

\* Requests that were sent are the last ones under way.
LEMMA AskedIs ==
    ASSUME NEW q \in Seq(Requests), NEW r \in Requests
    PROVE  /\ q \o <<r>> \in Seq(Requests) /\ q \o <<r>> # <<>>
           /\ (q \o <<r>>)[Len(q \o <<r>>)] = r
<1>1. <<r>> \in Seq(Requests) /\ Len(<<r>>) = 1 /\ <<r>>[1] = r
  OBVIOUS
<1>2. PICK s \in Seq(Requests) : s = <<r>> /\ Len(s) = 1 /\ s[1] = r
  BY <1>1
<1>3. PICK t : t = q \o s
  OBVIOUS
<1>4. /\ t \in Seq(Requests) /\ Len(t) = Len(q) + 1
      /\ t[Len(q) + 1] = IF Len(q) + 1 <= Len(q) THEN q[Len(q) + 1] ELSE s[Len(q) + 1 - Len(q)]
  <2>1. Len(q) + 1 \in 1 .. Len(q) + Len(s)
    BY <1>2
  <2> QED
    BY <1>2, <1>3, <2>1, ConcatProperties
<1>5. t[Len(t)] = r /\ t # <<>>
  BY <1>2, <1>4
<1> QED
  BY <1>2, <1>3, <1>4, <1>5

LEMMA InitTable == Init => TableInv
<1> SUFFICES ASSUME Init PROVE TableInv
  OBVIOUS
<1>1. Capacity \in Nat \ {0}
  BY LogViewAssumption DEF LogViewAssumption
<1>2. TableTypes
  BY DEF Init, TableTypes
<1>3. TotalInv
  <2>1. Holds(logRing, Capacity, pushed) /\ Full(logRing, Capacity, pushed)
    <3>1. pushed = <<>> /\ <<>> \in Seq(Int) /\ logRing = NewRing(Capacity)
      BY DEF Init
    <3> QED
      BY <1>1, <3>1, NewHolds
  <2>2. logTotal = 0 /\ logRing.size = 0 /\ DOMAIN toMain = {} /\ fresh
    BY DEF Init, NewRing
  <2> QED
    BY <2>1, <2>2 DEF TotalInv, Totals, Told
<1>4. AnswerInv
  BY DEF Init, AnswerInv, NoSlices
<1>5. ScrollInv
  <2>1. Bottom(0) = 0
    BY LogViewAssumption DEF LogViewAssumption, Bottom, Larger
  <2> QED
    BY <2>1 DEF Init, ScrollInv
<1> QED
  BY <1>2, <1>3, <1>4, <1>5 DEF TableInv

-----------------------------------------------------------------------------
(* Steps.                                                                   *)

screen == <<logTotal, view, req, slice, top, dom, moved, pinned, toWorker>>
tableCore == <<screen, toMain, logRing, logDirty, pushed, fresh>>

LEMMA TableSteps ==
    ASSUME [Next]_vars
    PROVE  \/ LoadHistory \/ OnLogMessage \/ FlushLogTotal \/ HandleGetLogs \/ TableNext
           \/ UNCHANGED tableCore
<1>1. CASE FeedNext /\ UNCHANGED <<worker, table, toMain, toWorker, acts, fresh>>
  BY <1>1 DEF worker, table, tableCore, screen
<1>2. CASE WorkerNext
  <2>1. GetHistory \/ HistoryFails \/ OpenLogs \/ OnClose \/ Reconnect => UNCHANGED tableCore
    BY DEF GetHistory, HistoryFails, OpenLogs, OnClose, Reconnect, table, tableCore, screen
  <2> QED
    BY <1>2, <2>1 DEF WorkerNext
<1>3. CASE UNCHANGED vars
  BY <1>3 DEF vars, worker, table, tableCore, screen
<1> QED
  BY <1>1, <1>2, <1>3 DEF Next

\* Events are pushed.
LEMMA PushTable ==
    ASSUME TableInv, NEW evs \in Seq(Int), pushed \in Seq(Int), PushAll(evs),
           UNCHANGED screen, UNCHANGED toMain
    PROVE  TableInv'
<1>1. TableTypes /\ TotalInv /\ AnswerInv /\ ScrollInv
  BY DEF TableInv
<1>2. /\ logRing' = Pushed(logRing, evs) /\ logDirty' = TRUE
      /\ pushed' = pushed \o evs /\ fresh' = (fresh /\ evs = <<>>)
  BY DEF PushAll
<1>3. /\ Holds(logRing, Capacity, pushed) /\ Full(logRing, Capacity, pushed)
      /\ logTotal <= logRing.size /\ Totals(toMain, logTotal, logRing.size)
  BY <1>1 DEF TotalInv
<1>4. /\ Holds(logRing', Capacity, pushed') /\ Full(logRing', Capacity, pushed')
      /\ evs = <<>> => logRing' = logRing
  BY <1>2, <1>3, PushedHolds
<1>5. /\ Capacity \in Nat \ {0} /\ Len(pushed) \in Nat
      /\ Len(pushed') = Len(pushed) + Len(evs) /\ Len(evs) \in Nat
      /\ evs # <<>> => Len(evs) > 0
  <2>1. Capacity \in Nat \ {0}
    BY LogViewAssumption DEF LogViewAssumption
  <2>2. Len(pushed \o evs) = Len(pushed) + Len(evs)
    BY ConcatProperties
  <2>3. evs # <<>> => Len(evs) > 0
    OBVIOUS
  <2> QED
    BY <1>2, <2>1, <2>2, <2>3
<1>6. /\ logRing.size = IF Len(pushed) < Capacity THEN Len(pushed) ELSE Capacity
      /\ logRing'.size = IF Len(pushed') < Capacity THEN Len(pushed') ELSE Capacity
  BY <1>3, <1>4 DEF Full
<1>7. /\ logRing.size \in Nat /\ logRing'.size \in Nat /\ logRing.size <= logRing'.size
      /\ evs # <<>> => Len(pushed') > Capacity \/ logRing.size < logRing'.size
  <2>1. PICK a \in Nat, b \in Nat : a = Len(pushed) /\ b = Len(pushed')
    BY <1>5
  <2>2. a <= b /\ (evs # <<>> => a < b)
    BY <1>5, <2>1
  <2> QED
    BY <1>5, <1>6, <2>1, <2>2
<1>8. TableTypes'
  BY <1>1 DEF TableTypes, screen
<1>9. TotalInv'
  <2>1. logTotal' = logTotal /\ toMain' = toMain /\ logTotal \in Nat /\ toMain \in Seq(Msgs)
    BY <1>1 DEF screen, TableTypes
  <2>2. logTotal' <= logRing'.size
    BY <1>3, <1>7, <2>1
  <2>3. Totals(toMain', logTotal', logRing'.size)
    BY <1>3, <1>7, <2>1, MoreTotals
  <2>4. fresh' \/ Len(pushed') > Capacity \/ logTotal' < logRing'.size
    <3>1. CASE evs = <<>>
      <4>1. fresh => fresh'
        BY <1>2, <3>1
      <4>2. logRing' = logRing /\ Len(pushed') = Len(pushed)
        <5>1. Len(evs) = 0
          BY <3>1
        <5> QED
          BY <1>4, <1>5, <3>1, <5>1
      <4> QED
        BY <1>1, <2>1, <4>1, <4>2 DEF TotalInv
    <3>2. CASE evs # <<>>
      BY <1>3, <1>7, <2>1, <3>2
    <3> QED
      BY <3>1, <3>2
  <2> QED
    BY <1>2, <1>4, <2>2, <2>3, <2>4 DEF TotalInv
<1>10. AnswerInv'
  <2>1. fresh' => fresh /\ logRing' = logRing
    BY <1>2, <1>4
  <2>2. Wanted' = Wanted
    BY DEF Wanted, screen
  <2> QED
    BY <1>1, <2>1, <2>2 DEF AnswerInv, screen
<1>11. ScrollInv'
  BY <1>1 DEF ScrollInv, screen
<1> QED
  BY <1>8, <1>9, <1>10, <1>11 DEF TableInv

\* flushLogTotal
LEMMA FlushTable ==
    ASSUME TableInv, FlushLogTotal
    PROVE  TableInv'
<1>1. TableTypes /\ TotalInv /\ AnswerInv /\ ScrollInv
  BY DEF TableInv
<1>2. UNCHANGED screen /\ UNCHANGED <<logRing, pushed, fresh>>
  BY DEF FlushLogTotal, table, screen
<1>3. PICK m : m = [type |-> "logTotal", total |-> logRing.size]
  OBVIOUS
<1>4. toMain' = Append(toMain, m)
  BY <1>3 DEF FlushLogTotal
<1>5. /\ toMain \in Seq(Msgs) /\ logTotal \in Nat /\ logRing.size \in Nat
      /\ logTotal <= logRing.size /\ Totals(toMain, logTotal, logRing.size)
  <2>1. logRing.size \in 0 .. Capacity /\ Capacity \in Nat
    BY <1>1, LogViewAssumption DEF TotalInv, Holds, LogViewAssumption
  <2> QED
    BY <1>1, <2>1 DEF TableTypes, TotalInv
<1>6. m \in Msgs /\ m.type = "logTotal" /\ m.total = logRing.size
  BY <1>3, <1>5 DEF Msgs, TotalMsgs
<1>7. /\ toMain' \in Seq(Msgs)
      /\ Totals(toMain', logTotal, logRing.size) /\ Told(toMain', logTotal, logRing.size)
      /\ NoSlices(toMain) => NoSlices(toMain')
      /\ \A s, id, offset, items :
            Answered(toMain, s, id, offset, items) => Answered(toMain', s, id, offset, items)
  BY <1>4, <1>5, <1>6, SendTotal, AppendIs
<1>8. TableTypes'
  BY <1>1, <1>2, <1>7 DEF TableTypes, screen
<1>9. TotalInv'
  BY <1>1, <1>2, <1>7 DEF TotalInv, screen
<1>10. AnswerInv'
  <2>1. Wanted' = Wanted
    BY <1>2 DEF Wanted, screen
  <2>2. \A s, id, offset, items :
           Answered(toMain, s, id, offset, items) => Answered(toMain', s, id, offset, items)
    BY <1>7
  <2>3. logTotal' = 0 => toWorker' = <<>> /\ slice' = NoSlice /\ NoSlices(toMain')
    BY <1>1, <1>2, <1>7 DEF AnswerInv, screen
  <2>4. ASSUME fresh', logTotal' # 0
        PROVE  IF toWorker' # <<>> THEN toWorker'[Len(toWorker')] = Wanted'
               ELSE Answered(toMain', slice', req', Wanted'.offset,
                             Slice(logRing', Wanted'.offset, Wanted'.limit))
    BY <1>1, <1>2, <2>1, <2>2, <2>4 DEF AnswerInv, screen
  <2> QED
    BY <2>3, <2>4 DEF AnswerInv
<1>11. ScrollInv'
  BY <1>1, <1>2 DEF ScrollInv, screen
<1> QED
  BY <1>8, <1>9, <1>10, <1>11 DEF TableInv

\* The worker answers a request.
LEMMA HandleTable ==
    ASSUME TableInv, pushed \in Seq(Int), HandleGetLogs
    PROVE  TableInv'
<1>1. TableTypes /\ TotalInv /\ AnswerInv /\ ScrollInv
  BY DEF TableInv
<1>2. /\ UNCHANGED <<logTotal, view, req, slice, top, dom, moved, pinned>>
      /\ UNCHANGED <<logRing, logDirty, pushed, fresh>>
  BY DEF HandleGetLogs, table, worker
<1>3. toWorker # <<>> /\ toWorker \in Seq(Requests) /\ toWorker' = Tail(toWorker)
  BY <1>1 DEF HandleGetLogs, TableTypes
<1>4. PICK g : g = Head(toWorker)
  OBVIOUS
<1>5. /\ g \in Requests /\ g = toWorker[1] /\ toWorker' \in Seq(Requests)
      /\ toWorker' = <<>> => Len(toWorker) = 1
      /\ toWorker' # <<>> => toWorker'[Len(toWorker')] = toWorker[Len(toWorker)]
  <2>1. PICK q \in Seq(Requests) : q = toWorker
    BY <1>3
  <2>2. q # <<>> => /\ Head(q) \in Requests /\ Head(q) = q[1] /\ Tail(q) \in Seq(Requests)
                    /\ Tail(q) = <<>> => Len(q) = 1
                    /\ Tail(q) # <<>> => Tail(q)[Len(Tail(q))] = q[Len(q)]
    <3> SUFFICES ASSUME q # <<>>
                 PROVE  /\ Head(q) \in Requests /\ Head(q) = q[1] /\ Tail(q) \in Seq(Requests)
                        /\ Tail(q) = <<>> => Len(q) = 1
                        /\ Tail(q) # <<>> => Tail(q)[Len(Tail(q))] = q[Len(q)]
      OBVIOUS
    <3>1. /\ Head(q) \in Requests /\ Head(q) = q[1] /\ Tail(q) \in Seq(Requests)
          /\ Len(Tail(q)) = Len(q) - 1 /\ Len(q) \in Nat
          /\ \A k \in 1 .. Len(q) - 1 : Tail(q)[k] = q[k + 1]
      BY HeadTailProperties
    <3>2. PICK t \in Seq(Requests) : t = Tail(q)
      BY <3>1
    <3>3. t = <<>> => Len(t) = 0
      OBVIOUS
    <3>4. t # <<>> => Len(t) \in 1 .. Len(t)
      OBVIOUS
    <3>5. Len(t) = Len(q) - 1 /\ \A k \in 1 .. Len(q) - 1 : t[k] = q[k + 1]
      BY <3>1, <3>2
    <3>6. t # <<>> => t[Len(t)] = q[Len(q)]
      BY <3>1, <3>4, <3>5
    <3>7. ASSUME t = <<>> PROVE Len(q) = 1
      <4>1. Len(t) = 0 /\ Len(q) \in Nat /\ Len(t) = Len(q) - 1
        BY <3>1, <3>3, <3>5, <3>7
      <4> QED
        BY <4>1
    <3> QED
      BY <3>1, <3>2, <3>6, <3>7
  <2> QED
    BY <1>3, <1>4, <2>1, <2>2
<1>6. g.id \in Nat /\ g.offset \in Nat /\ g.limit \in Int
  BY <1>5 DEF Requests
<1>7. PICK m : m = [type |-> "logSlice", id |-> g.id, offset |-> g.offset,
                    items |-> Slice(logRing, g.offset, g.limit)]
  OBVIOUS
<1>8. toMain' = Append(toMain, m)
  BY <1>4, <1>7 DEF HandleGetLogs
<1>9. Slice(logRing, g.offset, g.limit) \in Seq(Int)
  BY <1>1, <1>6, SliceIs DEF TotalInv
<1>10. /\ m \in Msgs /\ m.type = "logSlice" /\ m.id = g.id /\ m.offset = g.offset
       /\ m.items = Slice(logRing, g.offset, g.limit)
  BY <1>6, <1>7, <1>9 DEF Msgs, SliceMsgs
<1>11. /\ toMain \in Seq(Msgs) /\ Totals(toMain, logTotal, logRing.size)
       /\ logDirty \/ Told(toMain, logTotal, logRing.size)
  BY <1>1 DEF TableTypes, TotalInv
<1>12. /\ toMain' \in Seq(Msgs)
       /\ Totals(toMain', logTotal, logRing.size)
       /\ logDirty \/ Told(toMain', logTotal, logRing.size)
       /\ \A s : Answered(toMain', s, g.id, g.offset, Slice(logRing, g.offset, g.limit))
  <2>1. toMain' \in Seq(Msgs)
    BY <1>8, <1>10, <1>11, AppendIs
  <2>2. /\ Totals(toMain', logTotal, logRing.size)
        /\ Told(toMain, logTotal, logRing.size) => Told(toMain', logTotal, logRing.size)
        /\ \A s : Answered(toMain', s, m.id, m.offset, m.items)
    BY <1>8, <1>10, <1>11, SendSlice
  <2> QED
    BY <1>10, <1>11, <2>1, <2>2
<1>13. TableTypes'
  BY <1>1, <1>2, <1>5, <1>12 DEF TableTypes
<1>14. TotalInv'
  BY <1>1, <1>2, <1>12 DEF TotalInv
<1>15. AnswerInv'
  <2>1. Wanted' = Wanted
    BY <1>2 DEF Wanted
  <2>2. logTotal # 0
    BY <1>1, <1>3 DEF AnswerInv
  <2>3. ASSUME fresh
        PROVE  IF toWorker' # <<>> THEN toWorker'[Len(toWorker')] = Wanted'
               ELSE Answered(toMain', slice', req', Wanted'.offset,
                             Slice(logRing', Wanted'.offset, Wanted'.limit))
    <3>1. toWorker[Len(toWorker)] = Wanted
      BY <1>1, <1>3, <2>2, <2>3 DEF AnswerInv
    <3>2. CASE toWorker' # <<>>
      BY <1>5, <2>1, <3>1, <3>2
    <3>3. CASE toWorker' = <<>>
      <4>1. g = Wanted /\ g.id = req
        BY <1>1, <1>5, <3>1, <3>3, WantedIs
      <4> QED
        BY <1>2, <1>12, <2>1, <3>3, <4>1
    <3> QED
      BY <3>2, <3>3
  <2> QED
    BY <1>2, <2>2, <2>3 DEF AnswerInv
<1>16. ScrollInv'
  BY <1>1, <1>2 DEF ScrollInv
<1> QED
  BY <1>13, <1>14, <1>15, <1>16 DEF TableInv

\* A message with the total comes, and the table asks when it is another one.
LEMMA TotalTable ==
    ASSUME TableInv, OnLogTotal
    PROVE  TableInv'
<1>1. TableTypes /\ TotalInv /\ AnswerInv /\ ScrollInv
  BY DEF TableInv
<1>2. UNCHANGED <<logRing, logDirty, pushed, view, slice, top, pinned>>
  BY DEF OnLogTotal, worker
<1>3. PICK t : t = Head(toMain).total
  OBVIOUS
<1>4. /\ toMain # <<>> /\ Head(toMain).type = "logTotal" /\ toMain' = Tail(toMain) /\ logTotal' = t
      /\ t = logTotal => UNCHANGED <<toWorker, req, fresh, dom, moved>>
      /\ t # logTotal /\ view = "filtered" =>
            Ask(<<WindowRequest(req + 1, t)>>) /\ UNCHANGED <<dom, moved>>
      /\ t # logTotal /\ view # "filtered" =>
            /\ Ask(<<RangeRequest(req + 1, t, top)>>)
            /\ pinned => ScrollTo(Bottom(t))
            /\ ~pinned => UNCHANGED <<dom, moved>>
  BY <1>3 DEF OnLogTotal, StayThere
<1>5. /\ toMain \in Seq(Msgs) /\ logTotal \in Nat /\ logRing.size \in Nat
      /\ Totals(toMain, logTotal, logRing.size) /\ req \in Nat /\ top \in Nat /\ dom \in Nat
      /\ toWorker \in Seq(Requests)
  <2>1. logRing.size \in 0 .. Capacity /\ Capacity \in Nat
    BY <1>1, LogViewAssumption DEF TotalInv, Holds, LogViewAssumption
  <2> QED
    BY <1>1, <2>1 DEF TableTypes, TotalInv
<1>6. /\ logTotal <= t /\ t <= logRing.size
      /\ Totals(toMain', t, logRing.size)
      /\ Told(toMain, logTotal, logRing.size) => Told(toMain', t, logRing.size)
      /\ NoSlices(toMain) => NoSlices(toMain')
      /\ \A s, id, offset, items :
            Answered(toMain, s, id, offset, items) => Answered(toMain', s, id, offset, items)
  BY <1>3, <1>4, <1>5, TakeTotal
<1>7. t \in Nat /\ toMain' \in Seq(Msgs)
  <2>1. Head(toMain) \in Msgs /\ Tail(toMain) \in Seq(Msgs)
    BY <1>4, <1>5, TailIs
  <2> QED
    BY <1>3, <1>4, <2>1, MsgTypes
<1>8. CASE t = logTotal
  <2>1. UNCHANGED <<logTotal, view, req, slice, top, dom, moved, pinned, toWorker, fresh>>
    BY <1>2, <1>4, <1>8
  <2>2. TableTypes'
    BY <1>1, <1>7, <2>1 DEF TableTypes
  <2>3. TotalInv'
    BY <1>1, <1>2, <1>6, <1>8, <2>1 DEF TotalInv
  <2>4. AnswerInv'
    <3>1. Wanted' = Wanted
      BY <2>1 DEF Wanted
    <3>2. logTotal' = 0 => toWorker' = <<>> /\ slice' = NoSlice /\ NoSlices(toMain')
      BY <1>1, <1>6, <2>1 DEF AnswerInv
    <3>3. ASSUME fresh', logTotal' # 0
          PROVE  IF toWorker' # <<>> THEN toWorker'[Len(toWorker')] = Wanted'
                 ELSE Answered(toMain', slice', req', Wanted'.offset,
                               Slice(logRing', Wanted'.offset, Wanted'.limit))
      BY <1>1, <1>2, <1>6, <2>1, <3>1, <3>3 DEF AnswerInv
    <3> QED
      BY <3>2, <3>3 DEF AnswerInv
  <2>5. ScrollInv'
    BY <1>1, <2>1 DEF ScrollInv
  <2> QED
    BY <2>2, <2>3, <2>4, <2>5 DEF TableInv
<1>9. CASE t # logTotal
  <2>1. PICK r : r = IF view = "filtered" THEN WindowRequest(req + 1, t)
                     ELSE RangeRequest(req + 1, t, top)
    OBVIOUS
  <2>2. r \in Requests
    <3>1. req + 1 \in Nat
      BY <1>5
    <3> QED
      BY <1>5, <1>7, <2>1, <3>1, RangeIs, WindowIs
  <2>3. Ask(<<r>>)
    BY <1>4, <1>9, <2>1
  <2>4. req' = req + 1 /\ toWorker' = toWorker \o <<r>> /\ fresh'
    BY <2>3 DEF Ask
  <2>5. /\ toWorker' \in Seq(Requests) /\ toWorker' # <<>>
        /\ toWorker'[Len(toWorker')] = r
    BY <1>5, <2>2, <2>4, AskedIs
  <2>6. Wanted' = r
    BY <1>1, <1>2, <1>4, <2>1, <2>4 DEF Wanted, TableTypes
  <2>7. logTotal' # 0
    BY <1>4, <1>5, <1>6, <1>7, <1>9
  <2>8. dom' \in Nat
    BY <1>4, <1>5, <1>7, <1>9, BottomIs DEF ScrollTo
  <2>9. TableTypes'
    BY <1>1, <1>2, <1>4, <1>5, <1>7, <2>4, <2>5, <2>8 DEF TableTypes
  <2>10. TotalInv'
    BY <1>1, <1>2, <1>4, <1>6, <2>4 DEF TotalInv
  <2>11. AnswerInv'
    BY <2>5, <2>6, <2>7 DEF AnswerInv
  <2>12. ScrollInv'
    <3>1. CASE view # "filtered" /\ pinned
      <4>1. dom' = Bottom(t) /\ (~moved' => ~moved /\ Bottom(t) = dom)
        BY <1>4, <1>9, <3>1 DEF ScrollTo
      <4> QED
        BY <1>1, <1>2, <1>4, <2>7, <4>1 DEF ScrollInv
    <3>2. CASE ~(view # "filtered" /\ pinned)
      <4>1. UNCHANGED <<dom, moved>>
        BY <1>4, <1>9, <3>2
      <4> QED
        BY <1>1, <1>2, <2>7, <3>2, <4>1 DEF ScrollInv
    <3> QED
      BY <3>1, <3>2
  <2> QED
    BY <2>9, <2>10, <2>11, <2>12 DEF TableInv
<1> QED
  BY <1>8, <1>9

\* A slice comes.
LEMMA SliceTable ==
    ASSUME TableInv, OnLogSlice
    PROVE  TableInv'
<1>1. TableTypes /\ TotalInv /\ AnswerInv /\ ScrollInv
  BY DEF TableInv
<1>2. UNCHANGED <<logRing, logDirty, pushed, fresh, toWorker, logTotal, view, req, top, dom, moved,
                  pinned>>
  BY DEF OnLogSlice, worker
<1>3. PICK m : m = Head(toMain)
  OBVIOUS
<1>4. /\ toMain # <<>> /\ m.type = "logSlice" /\ toMain' = Tail(toMain)
      /\ slice' = IF m.id = req THEN [offset |-> m.offset, items |-> m.items] ELSE slice
  BY <1>3 DEF OnLogSlice
<1>5. toMain \in Seq(Msgs) /\ Totals(toMain, logTotal, logRing.size)
  BY <1>1 DEF TableTypes, TotalInv
<1>6. /\ Totals(toMain', logTotal, logRing.size)
      /\ Told(toMain, logTotal, logRing.size) => Told(toMain', logTotal, logRing.size)
      /\ ~NoSlices(toMain)
      /\ \A offset, items : Answered(toMain, slice, req, offset, items)
                            => Answered(toMain', slice', req, offset, items)
  BY <1>3, <1>4, <1>5, TakeSlice
<1>7. TableTypes'
  BY <1>1, <1>2, <1>4, <1>5, TailIs DEF TableTypes
<1>8. TotalInv'
  BY <1>1, <1>2, <1>6 DEF TotalInv
<1>9. AnswerInv'
  <2>1. Wanted' = Wanted
    BY <1>2 DEF Wanted
  <2>2. logTotal # 0
    BY <1>1, <1>6 DEF AnswerInv
  <2>3. ASSUME fresh
        PROVE  IF toWorker' # <<>> THEN toWorker'[Len(toWorker')] = Wanted'
               ELSE Answered(toMain', slice', req', Wanted'.offset,
                             Slice(logRing', Wanted'.offset, Wanted'.limit))
    BY <1>1, <1>2, <1>6, <2>1, <2>2, <2>3 DEF AnswerInv
  <2> QED
    BY <1>2, <2>2, <2>3 DEF AnswerInv
<1>10. ScrollInv'
  BY <1>1, <1>2 DEF ScrollInv
<1> QED
  BY <1>7, <1>8, <1>9, <1>10 DEF TableInv

\* What the user's steps and the scroll event leave alone, and a request for
\* what the table then needs.
LEMMA AskTable ==
    ASSUME TableInv, UNCHANGED <<logRing, logDirty, pushed, toMain, logTotal>>,
           NEW q \in Seq(Requests), NEW r \in Requests, toWorker' = q \o <<r>>,
           r = Wanted', fresh', logTotal # 0
    PROVE  TotalInv' /\ AnswerInv' /\ toWorker' \in Seq(Requests)
<1>1. toWorker' \in Seq(Requests) /\ toWorker' # <<>> /\ toWorker'[Len(toWorker')] = r
  BY AskedIs
<1>2. TotalInv'
  BY DEF TableInv, TotalInv
<1>3. AnswerInv'
  BY <1>1 DEF AnswerInv
<1> QED
  BY <1>1, <1>2, <1>3

LEMMA ScrolledTable ==
    ASSUME TableInv, OnScroll
    PROVE  TableInv'
<1>1. TableTypes /\ TotalInv /\ AnswerInv /\ ScrollInv
  BY DEF TableInv
<1>2. /\ UNCHANGED <<logRing, logDirty, pushed, toMain, logTotal, view, slice, dom>>
      /\ view = "all" /\ moved /\ ~moved' /\ top' = dom
      /\ pinned' => dom = Bottom(logTotal)
  BY DEF OnScroll, worker
<1>3. /\ req \in Nat /\ logTotal \in Nat /\ top \in Nat /\ dom \in Nat
      /\ toWorker \in Seq(Requests) /\ logTotal # 0
  BY <1>1, <1>2 DEF TableTypes, ScrollInv
<1>4. ScrollInv'
  BY <1>2, <1>3 DEF ScrollInv
<1>5. CASE RangeRequest(0, logTotal, dom) = RangeRequest(0, logTotal, top)
  <2>1. UNCHANGED <<toWorker, req, fresh>>
    BY <1>5 DEF OnScroll
  <2>2. RangeRequest(req, logTotal, dom) = RangeRequest(req, logTotal, top)
    BY <1>5 DEF RangeRequest, GetLogs
  <2>3. Wanted' = Wanted
    BY <1>2, <2>1, <2>2 DEF Wanted
  <2>4. TableTypes' /\ TotalInv'
    BY <1>1, <1>2, <1>3, <2>1 DEF TableTypes, TotalInv
  <2>5. AnswerInv'
    BY <1>1, <1>2, <2>1, <2>3 DEF AnswerInv
  <2> QED
    BY <1>4, <2>4, <2>5 DEF TableInv
<1>6. CASE RangeRequest(0, logTotal, dom) # RangeRequest(0, logTotal, top)
  <2>1. PICK r : r = RangeRequest(req + 1, logTotal, dom)
    OBVIOUS
  <2>2. Ask(<<r>>)
    BY <1>6, <2>1 DEF OnScroll
  <2>3. req' = req + 1 /\ toWorker' = toWorker \o <<r>> /\ fresh'
    BY <2>2 DEF Ask
  <2>4. r \in Requests
    <3>1. req + 1 \in Nat
      BY <1>3
    <3> QED
      BY <1>3, <2>1, <3>1, RangeIs
  <2>5. Wanted' = r
    BY <1>2, <2>1, <2>3 DEF Wanted
  <2>6. TotalInv' /\ AnswerInv' /\ toWorker' \in Seq(Requests)
    BY <1>2, <1>3, <2>3, <2>4, <2>5, AskTable
  <2>7. TableTypes'
    BY <1>1, <1>2, <1>3, <2>3, <2>6 DEF TableTypes
  <2> QED
    BY <1>4, <2>6, <2>7 DEF TableInv
<1> QED
  BY <1>5, <1>6

LEMMA ScrollTable ==
    ASSUME TableInv, Scroll
    PROVE  TableInv'
<1>1. TableTypes /\ TotalInv /\ AnswerInv /\ ScrollInv
  BY DEF TableInv
<1>2. /\ UNCHANGED <<logRing, logDirty, pushed, toMain, toWorker, logTotal, view, req, slice, top,
                     fresh>>
      /\ view = "all"
  BY DEF Scroll, worker
<1>3. PICK b : b = Bottom(logTotal)
  OBVIOUS
<1>4. b \in Nat /\ (logTotal = 0 => b = 0)
  <2>1. Bottom(0) = 0
    BY LogViewAssumption DEF LogViewAssumption, Bottom, Larger
  <2> QED
    BY <1>1, <1>3, <2>1, BottomIs DEF TableTypes
<1>5. /\ dom' \in 0 .. b
      /\ moved' = (moved \/ dom' # dom)
      /\ pinned' /\ dom' # b => pinned
  BY <1>3, <1>4 DEF Scroll, ScrollTo
<1>6. TableTypes' /\ TotalInv' /\ AnswerInv'
  <2>1. Wanted' = Wanted
    BY <1>2 DEF Wanted
  <2>2. dom' \in Nat
    BY <1>4, <1>5
  <2> QED
    BY <1>1, <1>2, <2>1, <2>2 DEF TableTypes, TotalInv, AnswerInv
<1>7. ScrollInv'
  <2>1. ~moved' => ~moved /\ dom' = dom
    BY <1>5
  <2>2. logTotal = 0 => dom' = 0
    BY <1>4, <1>5
  <2>3. logTotal = 0 => ~moved'
    BY <1>1, <1>5, <2>2 DEF ScrollInv
  <2>4. ASSUME pinned', ~moved' PROVE dom' = b
    BY <1>1, <1>2, <1>3, <1>5, <2>1, <2>4 DEF ScrollInv
  <2> QED
    BY <1>1, <1>2, <1>3, <2>1, <2>2, <2>3, <2>4 DEF ScrollInv
<1> QED
  BY <1>6, <1>7 DEF TableInv

LEMMA PollTable ==
    ASSUME TableInv, Poll
    PROVE  TableInv'
<1>1. TableTypes /\ TotalInv /\ AnswerInv /\ ScrollInv
  BY DEF TableInv
<1>2. /\ UNCHANGED <<logRing, logDirty, pushed, toMain, logTotal, view, slice, top, dom, moved, pinned>>
      /\ view = "filtered" /\ logTotal # 0
  BY DEF Poll, worker
<1>3. PICK r : r = WindowRequest(req + 1, logTotal)
  OBVIOUS
<1>4. req' = req + 1 /\ toWorker' = toWorker \o <<r>> /\ fresh'
  BY <1>3 DEF Poll, Ask
<1>5. req + 1 \in Nat /\ r \in Requests /\ toWorker \in Seq(Requests)
  <2>1. req + 1 \in Nat
    BY <1>1 DEF TableTypes
  <2> QED
    BY <1>1, <1>3, <2>1, WindowIs DEF TableTypes
<1>6. Wanted' = r
  BY <1>2, <1>3, <1>4 DEF Wanted
<1>7. TotalInv' /\ AnswerInv' /\ toWorker' \in Seq(Requests)
  BY <1>2, <1>4, <1>5, <1>6, AskTable
<1>8. TableTypes' /\ ScrollInv'
  BY <1>1, <1>2, <1>4, <1>5, <1>7 DEF TableTypes, ScrollInv
<1> QED
  BY <1>7, <1>8 DEF TableInv

LEMMA SwitchTable ==
    ASSUME TableInv, Switch
    PROVE  TableInv'
<1>1. TableTypes /\ TotalInv /\ AnswerInv /\ ScrollInv
  BY DEF TableInv
<1>2. /\ UNCHANGED <<logRing, logDirty, pushed, toMain, logTotal>>
      /\ view' = IF view = "all" THEN "filtered" ELSE "all"
      /\ slice' = NoSlice /\ top' = 0 /\ fresh'
      /\ dom' = IF view = "filtered" THEN Bottom(logTotal) ELSE 0
      /\ moved' = (dom' # 0)
  BY DEF Switch, worker
<1>3. logTotal \in Nat /\ Bottom(logTotal) \in Nat /\ toWorker \in Seq(Requests) /\ 0 \in Nat
      /\ 1 \in Nat /\ 2 \in Nat /\ view \in {"all", "filtered"}
  BY <1>1, BottomIs DEF TableTypes
<1>4. dom' \in Nat /\ view' \in {"all", "filtered"}
  BY <1>2, <1>3
<1>5. ScrollInv'
  <2>1. logTotal = 0 => dom' = 0
    <3>1. Bottom(0) = 0
      BY LogViewAssumption DEF LogViewAssumption, Bottom, Larger
    <3> QED
      BY <1>2, <3>1
  <2>2. ~moved' => dom' = 0
    BY <1>2
  <2>3. view' = "all" => dom' = Bottom(logTotal)
    BY <1>2, <1>3
  <2> QED
    BY <1>2, <2>1, <2>2, <2>3 DEF ScrollInv
<1>6. CASE logTotal = 0
  <2>1. toWorker = <<>> /\ NoSlices(toMain)
    BY <1>1, <1>6 DEF AnswerInv
  <2>2. toWorker' = <<>> /\ req' = 0
    BY <1>6, <2>1 DEF Switch
  <2>3. <<>> \in Seq(Requests)
    OBVIOUS
  <2>4. TableTypes'
    BY <1>1, <1>2, <1>3, <1>4, <2>2, <2>3 DEF TableTypes
  <2>5. TotalInv'
    BY <1>1, <1>2 DEF TotalInv
  <2>6. AnswerInv'
    BY <1>2, <1>6, <2>1, <2>2 DEF AnswerInv
  <2> QED
    BY <1>5, <2>4, <2>5, <2>6 DEF TableInv
<1>7. CASE logTotal # 0 /\ view = "all"
  <2>1. PICK p : p = WindowRequest(1, logTotal)
    OBVIOUS
  <2>2. PICK r : r = WindowRequest(2, logTotal)
    OBVIOUS
  <2>3. p \in Requests /\ r \in Requests
    BY <1>3, <2>1, <2>2, WindowIs
  <2>4. toWorker' = toWorker \o <<p, r>> /\ req' = 2
    BY <1>7, <2>1, <2>2 DEF Switch
  <2>5. PICK q : q = toWorker \o <<p>>
    OBVIOUS
  <2>6. q \in Seq(Requests)
    BY <1>3, <2>3, <2>5, AskedIs
  <2>7. toWorker' = q \o <<r>>
    <3>1. PICK w \in Seq(Requests) : w = toWorker
      BY <1>3
    <3>2. w \o <<p, r>> = (w \o <<p>>) \o <<r>>
      BY <2>3
    <3> QED
      BY <2>4, <2>5, <3>1, <3>2
  <2>8. Wanted' = r
    BY <1>2, <1>7, <2>2, <2>4 DEF Wanted
  <2>9. TotalInv' /\ AnswerInv' /\ toWorker' \in Seq(Requests)
    BY <1>2, <1>7, <2>3, <2>6, <2>7, <2>8, AskTable
  <2>10. TableTypes'
    BY <1>1, <1>2, <1>3, <1>4, <2>4, <2>9 DEF TableTypes
  <2> QED
    BY <1>5, <2>9, <2>10 DEF TableInv
<1>8. CASE logTotal # 0 /\ view = "filtered"
  <2>1. PICK r : r = RangeRequest(1, logTotal, 0)
    OBVIOUS
  <2>2. r \in Requests
    BY <1>3, <2>1, RangeIs
  <2>3. toWorker' = toWorker \o <<r>> /\ req' = 1
    BY <1>8, <2>1 DEF Switch
  <2>4. Wanted' = r
    BY <1>2, <1>8, <2>1, <2>3 DEF Wanted
  <2>5. TotalInv' /\ AnswerInv' /\ toWorker' \in Seq(Requests)
    BY <1>2, <1>3, <1>8, <2>2, <2>3, <2>4, AskTable
  <2>6. TableTypes'
    BY <1>1, <1>2, <1>3, <1>4, <2>3, <2>5 DEF TableTypes
  <2> QED
    BY <1>5, <2>5, <2>6 DEF TableInv
<1> QED
  BY <1>3, <1>6, <1>7, <1>8

LEMMA StepTable == TableInv /\ Types /\ [Next]_vars => TableInv'
<1> SUFFICES ASSUME TableInv, Types, [Next]_vars PROVE TableInv'
  OBVIOUS
<1>1. pushed \in Seq(Int) /\ answer \in Seq(Int) /\ sock.inbox \in Seq(Int)
  BY DEF Types, Socks
<1>2. CASE LoadHistory
  BY <1>1, <1>2, PushTable DEF LoadHistory, table, screen
<1>3. CASE OnLogMessage
  <2>1. PICK x : x = Head(sock.inbox)
    OBVIOUS
  <2>2. <<x>> \in Seq(Int)
    BY <1>1, <1>3, <2>1 DEF OnLogMessage
  <2> QED
    BY <1>1, <1>3, <2>1, <2>2, PushTable DEF OnLogMessage, table, screen
<1>4. CASE UNCHANGED tableCore
  BY <1>4 DEF tableCore, screen, TableInv, TableTypes, TotalInv, AnswerInv, ScrollInv, Wanted
<1> QED
  BY <1>1, <1>2, <1>3, <1>4, FlushTable, HandleTable, TotalTable, SliceTable, ScrolledTable,
     ScrollTable, PollTable, SwitchTable, TableSteps DEF TableNext

LEMMA Shows == TableInv /\ Types => ShowsTheRing
<1> SUFFICES ASSUME TableInv, Types, Settled PROVE ShowsTheRing
  BY DEF ShowsTheRing
<1>1. TableTypes /\ TotalInv /\ AnswerInv /\ ScrollInv
  BY DEF TableInv
<1>2. ~logDirty /\ toMain = <<>> /\ toWorker = <<>> /\ ~moved
  BY DEF Settled
<1>3. PICK n \in Nat : n = Len(pushed)
  <2>1. pushed \in Seq(Int)
    BY DEF Types
  <2> QED
    BY <2>1
<1>4. PICK z \in Nat : z = logRing.size /\ z <= n
  <2>1. logRing.size \in 0 .. Capacity /\ Capacity \in Nat /\ logRing.size <= Len(pushed)
    BY <1>1, LogViewAssumption DEF TotalInv, Holds, LogViewAssumption
  <2> QED
    BY <1>3, <2>1
<1>5. logTotal = z
  BY <1>1, <1>2, <1>4 DEF TotalInv, Told
<1>6. fresh \/ Len(pushed) > Capacity
  BY <1>1, <1>4, <1>5 DEF TotalInv
<1>7. pushed \in Seq(Int) /\ Holds(logRing, Capacity, pushed) /\ Full(logRing, Capacity, pushed)
  BY <1>1 DEF Types, TotalInv
<1>8. ASSUME NEW c \in 0 .. z
      PROVE  Newest(c) = [j \in 1 .. c |-> pushed[n - c + j]]
  <2>1. Newest(c) = [j \in 1 .. n - (n - c + 1) + 1 |-> pushed[n - c + 1 + j - 1]]
    BY <1>3 DEF Newest
  <2>2. n - (n - c + 1) + 1 = c
    BY <1>3, <1>4
  <2>3. \A j \in 1 .. c : n - c + 1 + j - 1 = n - c + j
    BY <1>3, <1>4
  <2> QED
    BY <2>1, <2>2, <2>3
<1>9. ASSUME fresh, logTotal # 0
      PROVE  /\ slice.offset = Wanted.offset
             /\ slice.items = [j \in 1 .. Larger(0, Smaller(Wanted.limit, z - Wanted.offset)) |->
                                 pushed[n - z + Wanted.offset + j]]
  <2>1. Answered(toMain, slice, req, Wanted.offset, Slice(logRing, Wanted.offset, Wanted.limit))
    BY <1>1, <1>2, <1>9 DEF AnswerInv
  <2>2. slice.offset = Wanted.offset /\ slice.items = Slice(logRing, Wanted.offset, Wanted.limit)
    BY <1>2, <2>1 DEF Answered
  <2>3. PICK o \in Nat, l \in Int : o = Wanted.offset /\ l = Wanted.limit
    BY <1>1, WantedIs
  <2>4. Slice(logRing, o, l) = Part(pushed, logRing.size, o, l)
    BY <1>7, <2>3, SliceIs
  <2> QED
    BY <1>3, <1>4, <2>2, <2>3, <2>4 DEF Part
<1>10. ASSUME fresh, view = "all"
       PROVE  /\ \A k \in StartIndex(logTotal, top) .. EndIndex(logTotal, top) :
                    /\ k - slice.offset + 1 \in DOMAIN slice.items
                    /\ EventAt(k) = Newest(logTotal)[k + 1]
              /\ pinned => EndIndex(logTotal, top) = logTotal - 1
  <2>1. PICK b \in Nat : b = StartIndex(z, top)
    BY <1>1, RangeIs DEF TableTypes
  <2>2. PICK e \in Int : e = EndIndex(z, top) /\ e <= z - 1
    BY <1>1, RangeIs DEF TableTypes
  <2>3. ASSUME NEW k \in b .. e
        PROVE  k - slice.offset + 1 \in DOMAIN slice.items /\ EventAt(k) = Newest(z)[k + 1]
    <3>1. k \in Nat /\ k + 1 \in 1 .. z /\ z # 0
      BY <1>4, <2>1, <2>2
    <3>2. Wanted.offset = b /\ Wanted.limit = e - b + 1
      <4>1. Wanted = RangeRequest(req, z, top)
        BY <1>5, <1>10 DEF Wanted
      <4>2. req \in Nat /\ top \in Nat
        BY <1>1 DEF TableTypes
      <4>3. /\ RangeRequest(req, z, top).offset = StartIndex(z, top)
            /\ RangeRequest(req, z, top).limit = EndIndex(z, top) - StartIndex(z, top) + 1
        BY <4>2, RangeIs
      <4> QED
        BY <2>1, <2>2, <4>1, <4>3
    <3>3. /\ slice.offset = b
          /\ slice.items = [j \in 1 .. Larger(0, Smaller(e - b + 1, z - b)) |-> pushed[n - z + b + j]]
      BY <1>5, <1>9, <1>10, <3>1, <3>2
    <3>4. /\ k - b + 1 \in 1 .. Larger(0, Smaller(e - b + 1, z - b))
          /\ n - z + b + (k - b + 1) = n - z + (k + 1)
      <4>1. k - b + 1 \in 1 .. e - b + 1 /\ e - b + 1 <= z - b
        BY <1>4, <2>1, <2>2
      <4>2. Larger(0, Smaller(e - b + 1, z - b)) = e - b + 1
        BY <1>4, <2>1, <2>2, <4>1 DEF Larger, Smaller
      <4>3. n - z + b + (k - b + 1) = n - z + (k + 1)
        BY <3>1
      <4> QED
        BY <4>1, <4>2, <4>3
    <3>5. slice.items[k - b + 1] = pushed[n - z + (k + 1)]
      BY <3>3, <3>4
    <3>6. Newest(z) = [j \in 1 .. z |-> pushed[n - z + j]]
      <4>1. z \in 0 .. z
        BY <1>4
      <4> QED
        BY <1>8, <4>1
    <3>7. Newest(z)[k + 1] = pushed[n - z + (k + 1)]
      BY <3>1, <3>6
    <3> QED
      BY <3>3, <3>4, <3>5, <3>7 DEF EventAt
  <2>4. ASSUME pinned PROVE e = z - 1
    <3>1. top = Bottom(z)
      BY <1>1, <1>2, <1>5, <1>10, <2>4 DEF ScrollInv
    <3> QED
      BY <1>4, <2>2, <3>1, LogViewAssumption DEF LogViewAssumption, Bottom, EndIndex, Larger, Smaller
  <2> QED
    BY <1>5, <2>1, <2>2, <2>3, <2>4
<1>11. ASSUME fresh, view = "filtered"
       PROVE  slice.items = Newest(Smaller(logTotal, WindowCount))
  <2>1. PICK c \in 0 .. z : c = Smaller(z, WindowCount)
    BY <1>1, <1>5, WindowIs DEF TableTypes
  <2>2. Newest(c) = [j \in 1 .. c |-> pushed[n - c + j]]
    BY <1>8
  <2>3. CASE z = 0
    <3>1. slice.items = <<>> /\ c = 0
      BY <1>1, <1>5, <2>1, <2>3 DEF AnswerInv, NoSlice
    <3> QED
      BY <1>5, <2>1, <2>2, <3>1
  <2>4. CASE z # 0
    <3>1. Wanted.offset = z - c /\ Wanted.limit = c
      BY <1>1, <1>5, <1>11, <2>1, WindowIs DEF Wanted, TableTypes
    <3>2. slice.items = [j \in 1 .. Larger(0, Smaller(c, z - (z - c))) |-> pushed[n - z + (z - c) + j]]
      BY <1>5, <1>9, <1>11, <2>4, <3>1
    <3>3. Larger(0, Smaller(c, z - (z - c))) = c
      BY <1>4, <2>1 DEF Larger, Smaller
    <3>4. \A j \in 1 .. c : n - z + (z - c) + j = n - c + j
      BY <1>3, <1>4, <2>1
    <3>5. slice.items = [j \in 1 .. c |-> pushed[n - c + j]]
      <4>1. slice.items = [j \in 1 .. c |-> pushed[n - z + (z - c) + j]]
        BY <3>2, <3>3
      <4> QED
        BY <3>4, <4>1
    <3> QED
      BY <1>5, <2>1, <2>2, <3>5
  <2> QED
    BY <2>3, <2>4
<1> QED
  BY <1>6, <1>10, <1>11 DEF ShowsTheRing

\* Once all messages and the scroll event are handled, the rows in the viewport
\* and the filter's window are what the worker's ring has there, whatever came
\* between a request and its answer, and a pinned table shows the last row; only
\* when the ring is full a table may not have asked since events came.
THEOREM TablesShowTheRing == Spec => []ShowsTheRing
<1>1. LogInv => Types
  BY DEF LogInv
<1> QED
  BY <1>1, InitLog, StepLog, InitTable, StepTable, Shows, PTL DEF Spec

=============================================================================
