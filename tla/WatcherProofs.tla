---------------------------- MODULE WatcherProofs ----------------------------
(***************************************************************************)
(* Theorems about Watcher, for any number of rows, ticks, failures and     *)
(* restarts and any page size: no row is streamed twice, history is not    *)
(* streamed, and with one writer nothing is passed over and ticks stay     *)
(* whole and in order.                                                     *)
(***************************************************************************)
EXTENDS Watcher, TLAPS, SequenceTheorems, FiniteSetTheorems, WellFoundedInduction

Row == [id : Nat \ {0}, ts : Nat]
Sample == [ts : Nat, rows : SUBSET Row]

\* Ids come from the sequence, whatever was aborted or truncated.
DbInv ==
    /\ table \subseteq Row /\ IsFiniteSet(table)
    /\ nextId \in Nat \ {0} /\ ticks \in Nat
    /\ tx \in [Writers -> SUBSET Row]
    /\ \A w \in Writers : IsFiniteSet(tx[w])
    /\ \A r \in table : r.id < nextId
    /\ \A w \in Writers : \A r \in tx[w] : r.id < nextId

LEMMA InitDb == Init => DbInv
  BY WatcherAssumption, FS_EmptySet DEF Init, DbInv

LEMMA InsertDb == ASSUME DbInv, NEW w \in Writers, Insert(w) PROVE DbInv'
<1>1. TimeOf(w) \in Nat
  <2>1. tx[w] \subseteq Row
    BY DEF DbInv
  <2> QED
    BY <2>1 DEF TimeOf, DbInv, Row
<1> DEFINE new == [id |-> nextId, ts |-> TimeOf(w)]
<1>2. new \in Row
  BY <1>1 DEF Row, DbInv
<1>3. /\ tx' = [tx EXCEPT ![w] = tx[w] \cup {new}]
      /\ nextId' = nextId + 1 /\ ticks' \in Nat /\ table' = table
  BY DEF Insert, DbInv
<1>4. IsFiniteSet(tx[w] \cup {new})
  BY FS_AddElement DEF DbInv
<1>5. new.id = nextId
  OBVIOUS
<1> HIDE DEF new
<1>6. /\ tx' \in [Writers -> SUBSET Row]
      /\ \A v \in Writers : tx'[v] = IF v = w THEN tx[w] \cup {new} ELSE tx[v]
  BY <1>2, <1>3 DEF DbInv
<1>7. \A v \in Writers : IsFiniteSet(tx'[v])
  BY <1>4, <1>6 DEF DbInv
<1>8. /\ \A r \in table : r.id < nextId + 1
      /\ \A v \in Writers : \A r \in tx'[v] : r.id < nextId + 1
  <2>1. \A r \in Row : r.id \in Nat
    BY DEF Row
  <2> QED
    BY <1>5, <1>6, <2>1 DEF DbInv
<1> QED
  BY <1>3, <1>6, <1>7, <1>8 DEF DbInv

LEMMA CommitDb == ASSUME DbInv, NEW w \in Writers, Commit(w) PROVE DbInv'
<1>1. /\ table' = table \cup tx[w] /\ tx' = [tx EXCEPT ![w] = {}]
      /\ UNCHANGED <<nextId, ticks>>
  BY DEF Commit
<1>2. IsFiniteSet(table')
  BY <1>1, FS_Union DEF DbInv
<1>3. /\ tx' \in [Writers -> SUBSET Row]
      /\ \A v \in Writers : tx'[v] = IF v = w THEN {} ELSE tx[v]
  BY <1>1 DEF DbInv
<1>4. \A v \in Writers : IsFiniteSet(tx'[v])
  BY <1>3, FS_EmptySet DEF DbInv
<1> QED
  BY <1>1, <1>2, <1>3, <1>4 DEF DbInv

LEMMA AbortDb == ASSUME DbInv, NEW w \in Writers, Abort(w) PROVE DbInv'
<1>1. tx' = [tx EXCEPT ![w] = {}] /\ UNCHANGED <<table, nextId, ticks>>
  BY DEF Abort
<1>2. /\ tx' \in [Writers -> SUBSET Row]
      /\ \A v \in Writers : tx'[v] = IF v = w THEN {} ELSE tx[v]
  BY <1>1 DEF DbInv
<1>3. \A v \in Writers : IsFiniteSet(tx'[v])
  BY <1>2, FS_EmptySet DEF DbInv
<1> QED
  BY <1>1, <1>2, <1>3 DEF DbInv

LEMMA BulkDb == ASSUME DbInv, Truncate \/ Seed PROVE DbInv'
<1>1. CASE Truncate
  <2>1. table' = {} /\ nextId' = 1 /\ UNCHANGED <<ticks, tx>> /\ \A w \in Writers : tx[w] = {}
    BY <1>1 DEF Truncate
  <2> QED
    BY <2>1, FS_EmptySet DEF DbInv
<1>2. CASE Seed
  <2> DEFINE new == [id |-> nextId, ts |-> ticks + 1]
  <2>1. /\ table' = table \cup {new} /\ nextId' = nextId + 1 /\ ticks' = ticks + 1 /\ tx' = tx
        /\ new \in Row /\ new.id = nextId
    BY <1>2 DEF Seed, DbInv, Row
  <2>2. IsFiniteSet(table')
    BY <2>1, FS_AddElement DEF DbInv
  <2> HIDE DEF new
  <2>3. \A r \in Row : r.id \in Nat
    BY DEF Row
  <2> QED
    BY <2>1, <2>2, <2>3 DEF DbInv
<1> QED
  BY <1>1, <1>2

\* Which steps touch the database, and which the watcher.
LEMMA WatcherLeavesDb ==
  ASSUME Run \/ InitFails \/ CallFails \/ Disconnect \/ Restart PROVE UNCHANGED dbVars
  BY DEF Run, InitLastID, Connect, Query, Emit, DrainEnd, Wake, WaitFails, Backoff,
         InitFails, CallFails, Disconnect, Restart

LEMMA DbLeavesWatcher ==
  ASSUME Truncate \/ Seed \/ Disconnect \/ \E w \in Writers : Writer(w)
  PROVE  UNCHANGED watcherVars
  BY DEF Truncate, Seed, Disconnect, Writer, Insert, Commit, Abort

LEMMA NextDb == DbInv /\ [Next]_vars => DbInv'
<1> SUFFICES ASSUME DbInv, [Next]_vars PROVE DbInv'
  OBVIOUS
<1>1. ASSUME UNCHANGED dbVars PROVE DbInv'
  BY <1>1 DEF DbInv, dbVars
<1>2. CASE UNCHANGED vars
  BY <1>1, <1>2 DEF vars
<1>3. ASSUME NEW w \in Writers, Writer(w) PROVE DbInv'
  BY <1>3, InsertDb, CommitDb, AbortDb DEF Writer
<1> QED
  BY <1>1, <1>2, <1>3, BulkDb, WatcherLeavesDb DEF Next, Fault

-----------------------------------------------------------------------------
(* The greatest id of some rows: MaxId, and the maxID of a page. *)

LEMMA LastRow ==
    ASSUME NEW S, S \subseteq Row, S # {}, NEW n \in Nat, \A r \in S : r.id < n
    PROVE  \E r \in S : \A q \in S : q.id <= r.id
<1> DEFINE D == {n - r.id : r \in S}
<1>1. \A r \in S : n - r.id \in Nat /\ r.id \in Nat
  BY DEF Row
<1>2. D \subseteq Nat /\ D # {}
  BY <1>1
<1>3. IsWellFoundedOn(OpToRel(<, Nat), Nat)
  BY NatLessThanWellFounded, Zenon
<1> HIDE DEF D
<1>4. PICK d \in D : \A e \in D : ~ (<<e, d>> \in OpToRel(<, Nat))
  BY <1>2, <1>3, WFMin, Zenon
<1>5. \A e \in D : ~ (e < d)
  <2>1. \A x, y \in Nat : x < y => <<x, y>> \in OpToRel(<, Nat)
    BY DEF OpToRel
  <2> QED
    BY <1>2, <1>4, <2>1, Zenon
<1>6. PICK r \in S : d = n - r.id
  BY DEF D
<1>7. ASSUME NEW q \in S PROVE q.id <= r.id
  <2>1. n - q.id \in D
    BY DEF D
  <2>2. ~ (n - q.id < n - r.id)
    BY <1>5, <1>6, <2>1
  <2> QED
    BY <1>1, <2>2
<1> QED
  BY <1>7

LEMMA MaxIdIsLast ==
    ASSUME DbInv
    PROVE  /\ MaxId \in Nat /\ MaxId < nextId /\ \A r \in table : r.id <= MaxId
           /\ MaxId = 0 \/ \E r \in table : r.id = MaxId
<1>1. CASE table = {}
  BY <1>1 DEF MaxId, DbInv
<1>2. CASE table # {}
  <2>1. table \subseteq Row /\ nextId \in Nat /\ \A r \in table : r.id < nextId
    BY DEF DbInv
  <2>2. \E r \in table : \A q \in table : q.id <= r.id
    BY <1>2, <2>1, LastRow
  <2> DEFINE top == CHOOSE r \in table : \A q \in table : q.id <= r.id
  <2>3. top \in table /\ \A q \in table : q.id <= top.id
    BY <2>2, Zenon
  <2>4. MaxId = top.id
    BY <1>2 DEF MaxId
  <2> HIDE DEF top
  <2> QED
    BY <2>1, <2>3, <2>4 DEF Row
<1> QED
  BY <1>1, <1>2

\* What a query reads, and how far.
LEMMA QueryReads ==
    ASSUME DbInv, lastID \in Nat, Query
    PROVE  /\ Page \subseteq Row /\ batch' = Grouped(Page)
           /\ maxID' \in Nat /\ lastID <= maxID'
           /\ \A r \in Page : lastID < r.id /\ r.id <= maxID'
           /\ maxID' = lastID \/ \E r \in Page : r.id = maxID'
<1>1. /\ Page \subseteq Row /\ nextId \in Nat
      /\ \A r \in Page : lastID < r.id /\ r.id < nextId
  BY DEF DbInv, Page, Backlog
<1>2. batch' = Grouped(Page)
  BY DEF Query
<1>3. CASE Page = {}
  BY <1>1, <1>2, <1>3 DEF Query
<1>4. CASE Page # {}
  <2> DEFINE top == CHOOSE r \in Page : \A q \in Page : q.id <= r.id
  <2>1. \E r \in Page : \A q \in Page : q.id <= r.id
    BY <1>1, <1>4, LastRow
  <2>2. top \in Page /\ \A q \in Page : q.id <= top.id
    BY <2>1, Zenon
  <2>3. maxID' = top.id
    BY <1>4 DEF Query
  <2> HIDE DEF top
  <2>4. top.id \in Nat
    BY <1>1, <2>2 DEF Row
  <2> QED
    BY <1>1, <1>2, <2>2, <2>3, <2>4
<1> QED
  BY <1>3, <1>4

-----------------------------------------------------------------------------
(* Nothing is streamed twice. *)

\* How far the watcher has read.
Reached == IF wpc = "emit" THEN maxID ELSE lastID

StreamTypes ==
    /\ lastID \in Nat /\ maxID \in Nat
    /\ batch \subseteq Sample /\ sent \in Seq(Sample)
    /\ wpc = "init" => sent = <<>>
    /\ wpc # "emit" => batch = {}
    /\ wpc = "emit" => lastID <= maxID

\* What was streamed is behind, what is in the batch is between lastID and
\* maxID, and the samples have no row in common.
StreamInv ==
    /\ StreamTypes
    /\ \A k \in DOMAIN sent : \A r \in sent[k].rows : r.id <= Reached
    /\ \A s \in batch : \A r \in s.rows : lastID < r.id /\ r.id <= maxID
    /\ \A s \in batch : \A k \in DOMAIN sent : s.rows \cap sent[k].rows = {}
    /\ \A s, o \in batch : s # o => s.rows \cap o.rows = {}
    /\ AtMostOnce

LEMMA InitStream == Init => StreamInv
  BY DEF Init, StreamInv, StreamTypes, AtMostOnce

\* Connections, waits and failures, and all that the database does.
LEMMA QuietStream ==
  ASSUME StreamInv, UNCHANGED <<lastID, maxID, batch, sent>>,
         wpc' = "emit" <=> wpc = "emit", wpc' = "init" => wpc = "init"
  PROVE  StreamInv'
  BY DEF StreamInv, StreamTypes, Reached, AtMostOnce

LEMMA InitLastIDStream == ASSUME DbInv, StreamInv, InitLastID PROVE StreamInv'
<1>1. /\ lastID' \in Nat /\ wpc' = "connect" /\ UNCHANGED <<maxID, batch, sent>>
  BY MaxIdIsLast DEF InitLastID
<1>2. sent = <<>> /\ batch = {}
  BY DEF StreamInv, StreamTypes, InitLastID
<1> QED
  BY <1>1, <1>2 DEF StreamInv, StreamTypes, AtMostOnce

LEMMA GroupedSamples ==
  ASSUME NEW S, S \subseteq Row
  PROVE  /\ Grouped(S) \subseteq Sample
         /\ \A s \in Grouped(S) : s.rows \subseteq S
         /\ \A s, o \in Grouped(S) : s # o => s.rows \cap o.rows = {}
         /\ \A r \in S : \E s \in Grouped(S) : r \in s.rows
<1> DEFINE Of(t) == [ts |-> t, rows |-> {r \in S : r.ts = t}]
<1>1. \A s \in Grouped(S) : \E t \in {r.ts : r \in S} : s = Of(t)
  BY DEF Grouped
<1>2. \A t \in {r.ts : r \in S} : Of(t) \in Sample /\ Of(t) \in Grouped(S)
  BY DEF Grouped, Sample, Row
<1>3. \A t, u : t # u => Of(t).rows \cap Of(u).rows = {}
  OBVIOUS
<1>4. \A t : Of(t).rows \subseteq S
  OBVIOUS
<1>5. \A r \in S : r \in Of(r.ts).rows /\ r.ts \in {q.ts : q \in S}
  OBVIOUS
<1> HIDE DEF Of
<1> QED
  BY <1>1, <1>2, <1>3, <1>4, <1>5

LEMMA QueryStream == ASSUME DbInv, StreamInv, Query PROVE StreamInv'
<1>1. /\ wpc = "drain" /\ wpc' = "emit" /\ UNCHANGED <<lastID, sent>>
  BY DEF Query
<1>2. lastID \in Nat /\ sent \in Seq(Sample)
  BY DEF StreamInv, StreamTypes
<1>3. /\ Page \subseteq Row /\ batch' = Grouped(Page)
      /\ maxID' \in Nat /\ lastID <= maxID'
      /\ \A r \in Page : lastID < r.id /\ r.id <= maxID'
  BY <1>2, QueryReads
<1>4. /\ batch' \subseteq Sample
      /\ \A s \in batch' : s.rows \subseteq Page
      /\ \A s, o \in batch' : s # o => s.rows \cap o.rows = {}
  BY <1>3, GroupedSamples
<1>5. StreamTypes'
  BY <1>1, <1>2, <1>3, <1>4 DEF StreamTypes
<1>6. \A k \in DOMAIN sent : \A r \in sent[k].rows : r.id <= lastID /\ r.id \in Nat
  <2>1. \A k \in DOMAIN sent : sent[k] \in Sample
    BY <1>2, LenProperties
  <2> QED
    BY <1>1, <2>1 DEF StreamInv, Reached, Sample, Row
<1>7. \A k \in DOMAIN sent' : \A r \in sent'[k].rows : r.id <= maxID'
  BY <1>1, <1>2, <1>3, <1>6
<1>8. \A s \in batch' : \A r \in s.rows : lastID' < r.id /\ r.id <= maxID'
  BY <1>1, <1>3, <1>4
<1>9. \A s \in batch' : \A k \in DOMAIN sent' : s.rows \cap sent'[k].rows = {}
  BY <1>1, <1>2, <1>6, <1>8
<1>10. AtMostOnce'
  BY <1>1 DEF StreamInv, AtMostOnce
<1> QED
  BY <1>1, <1>4, <1>5, <1>7, <1>8, <1>9, <1>10 DEF StreamInv, Reached

LEMMA EmitStream == ASSUME StreamInv, Emit PROVE StreamInv'
<1>1. /\ wpc = "emit" /\ wpc' = "emit" /\ UNCHANGED <<lastID, maxID>>
      /\ \E s \in batch : sent' = Append(sent, s) /\ batch' = batch \ {s}
  BY DEF Emit
<1>2. PICK s \in batch : sent' = Append(sent, s) /\ batch' = batch \ {s}
  BY <1>1
<1>3. sent \in Seq(Sample) /\ s \in Sample
  BY <1>2 DEF StreamInv, StreamTypes
<1>4. /\ sent' \in Seq(Sample) /\ Len(sent) \in Nat
      /\ DOMAIN sent = 1 .. Len(sent) /\ DOMAIN sent' = 1 .. Len(sent) + 1
      /\ \A k \in 1 .. Len(sent) : sent'[k] = sent[k]
      /\ sent'[Len(sent) + 1] = s
  BY <1>2, <1>3, AppendProperties
<1>5. \A k \in DOMAIN sent' : \/ k \in DOMAIN sent /\ sent'[k] = sent[k]
                              \/ k \notin DOMAIN sent /\ k = Len(sent) + 1 /\ sent'[k] = s
  BY <1>4
<1>6. StreamTypes'
  BY <1>1, <1>2, <1>4 DEF StreamInv, StreamTypes
<1>7. \A k \in DOMAIN sent' : \A r \in sent'[k].rows : r.id <= Reached'
  BY <1>1, <1>5 DEF StreamInv, Reached
<1>8. \A o \in batch' : \A k \in DOMAIN sent' : o.rows \cap sent'[k].rows = {}
  BY <1>2, <1>5 DEF StreamInv
<1>9. AtMostOnce'
  BY <1>5 DEF StreamInv, AtMostOnce
<1> QED
  BY <1>1, <1>2, <1>6, <1>7, <1>8, <1>9 DEF StreamInv

LEMMA DrainEndStream == ASSUME StreamInv, DrainEnd PROVE StreamInv'
<1>1. /\ wpc = "emit" /\ wpc' = "wait" /\ batch = {} /\ lastID' = maxID
      /\ UNCHANGED <<batch, maxID, sent>>
  BY DEF DrainEnd
<1> QED
  BY <1>1 DEF StreamInv, StreamTypes, Reached, AtMostOnce

LEMMA RestartStream == ASSUME Restart PROVE StreamInv'
  BY DEF Restart, StreamInv, StreamTypes, AtMostOnce

LEMMA NextStream == DbInv /\ StreamInv /\ [Next]_vars => StreamInv'
<1> SUFFICES ASSUME DbInv, StreamInv, [Next]_vars PROVE StreamInv'
  OBVIOUS
<1>1. ASSUME UNCHANGED vars PROVE StreamInv'
  BY <1>1, QuietStream DEF vars, watcherVars
<1>2. ASSUME Truncate \/ Seed \/ Disconnect \/ \E w \in Writers : Writer(w) PROVE StreamInv'
  BY <1>2, DbLeavesWatcher, QuietStream DEF watcherVars
<1>3. ASSUME InitFails \/ Connect \/ Wake \/ WaitFails \/ CallFails \/ Backoff PROVE StreamInv'
  BY <1>3, QuietStream DEF InitFails, Connect, Wake, WaitFails, CallFails, Backoff
<1> QED
  BY <1>1, <1>2, <1>3, InitLastIDStream, QueryStream, EmitStream, DrainEndStream, RestartStream
  DEF Next, Run, Fault

\* Theorem: no row is streamed twice by one process, whatever fails between
\* the query and the assignment of lastID, for any writers and page size, and
\* though the table is truncated and its ids start again (watcher.go:91-149).
THEOREM StreamedOnce == Spec => []AtMostOnce
<1>1. StreamInv => AtMostOnce
  BY DEF StreamInv
<1> QED
  BY <1>1, InitDb, NextDb, InitStream, NextStream, PTL DEF Spec

-----------------------------------------------------------------------------
(* History is not streamed. *)

\* Unless initLastID gave up, what the process found is behind lastID.
FreshInv ==
    /\ old \subseteq Row /\ attempt \in Nat
    /\ wpc = "init" => attempt < Attempts
    /\ attempt < Attempts /\ wpc # "init" => \A r \in old : r.id <= lastID
    /\ attempt < Attempts => \A k \in DOMAIN sent : sent[k].rows \cap old = {}

LEMMA EmittedRows == \A r : r \in Emitted <=> \E k \in DOMAIN sent : r \in sent[k].rows
  BY DEF Emitted, RowsOf

LEMMA InitFresh == Init => FreshInv
  BY WatcherAssumption DEF WatcherAssumption, Init, FreshInv

LEMMA QuietFresh ==
  ASSUME FreshInv, UNCHANGED <<lastID, attempt, sent, old>>, wpc' = "init" <=> wpc = "init"
  PROVE  FreshInv'
  BY DEF FreshInv

LEMMA InitFailsFresh == ASSUME FreshInv, StreamInv, InitFails PROVE FreshInv'
<1>1. /\ wpc = "init" /\ attempt' = attempt + 1 /\ UNCHANGED <<lastID, sent, old>>
      /\ wpc' = IF attempt + 1 = Attempts THEN "connect" ELSE "init"
  BY DEF InitFails
<1>2. sent = <<>>
  BY <1>1 DEF StreamInv, StreamTypes
<1> QED
  BY <1>1, <1>2, WatcherAssumption DEF FreshInv, WatcherAssumption

LEMMA InitLastIDFresh == ASSUME FreshInv, StreamInv, DbInv, InitLastID PROVE FreshInv'
<1>1. /\ wpc = "init" /\ wpc' = "connect" /\ lastID' = MaxId /\ old' = table
      /\ UNCHANGED <<attempt, sent>>
  BY DEF InitLastID
<1>2. sent = <<>> /\ table \subseteq Row /\ \A r \in table : r.id <= MaxId
  BY <1>1, MaxIdIsLast DEF StreamInv, StreamTypes, DbInv
<1> QED
  BY <1>1, <1>2 DEF FreshInv

\* A batch is beyond lastID, and so is none of the history.
LEMMA EmitFresh == ASSUME FreshInv, StreamInv, Emit PROVE FreshInv'
<1>1. /\ wpc = "emit" /\ UNCHANGED <<wpc, lastID, attempt, old>>
      /\ \E s \in batch : sent' = Append(sent, s)
  BY DEF Emit
<1>2. PICK s \in batch : sent' = Append(sent, s)
  BY <1>1
<1>3. /\ sent \in Seq(Sample) /\ s \in Sample /\ lastID \in Nat
      /\ \A r \in s.rows : lastID < r.id
  BY <1>2 DEF StreamInv, StreamTypes
<1>4. \A k \in DOMAIN sent' : (k \in DOMAIN sent /\ sent'[k] = sent[k]) \/ sent'[k] = s
  BY <1>2, <1>3, AppendProperties
<1>5. attempt < Attempts => s.rows \cap old = {}
  <2>1. \A r \in old : r.id \in Nat
    BY DEF FreshInv, Row
  <2> QED
    BY <1>1, <1>3, <2>1 DEF FreshInv
<1> QED
  BY <1>1, <1>4, <1>5 DEF FreshInv

LEMMA DrainEndFresh == ASSUME FreshInv, StreamInv, DrainEnd PROVE FreshInv'
<1>1. /\ wpc = "emit" /\ wpc' = "wait" /\ lastID' = maxID
      /\ UNCHANGED <<attempt, sent, old>>
  BY DEF DrainEnd
<1>2. lastID \in Nat /\ maxID \in Nat /\ lastID <= maxID
  BY <1>1 DEF StreamInv, StreamTypes
<1>3. \A r \in old : r.id \in Nat
  BY DEF FreshInv, Row
<1> QED
  BY <1>1, <1>2, <1>3 DEF FreshInv

LEMMA RestartFresh == ASSUME DbInv, Restart PROVE FreshInv'
  BY WatcherAssumption DEF WatcherAssumption, Restart, FreshInv, DbInv

LEMMA NextFresh == DbInv /\ StreamInv /\ FreshInv /\ [Next]_vars => FreshInv'
<1> SUFFICES ASSUME DbInv, StreamInv, FreshInv, [Next]_vars PROVE FreshInv'
  OBVIOUS
<1>1. ASSUME UNCHANGED vars PROVE FreshInv'
  BY <1>1, QuietFresh DEF vars, watcherVars
<1>2. ASSUME Truncate \/ Seed \/ Disconnect \/ \E w \in Writers : Writer(w) PROVE FreshInv'
  BY <1>2, DbLeavesWatcher, QuietFresh DEF watcherVars
<1>3. ASSUME Connect \/ Wake \/ WaitFails \/ CallFails \/ Backoff \/ Query PROVE FreshInv'
  BY <1>3, QuietFresh DEF Connect, Wake, WaitFails, CallFails, Backoff, Query
<1> QED
  BY <1>1, <1>2, <1>3, InitLastIDFresh, InitFailsFresh, EmitFresh, DrainEndFresh, RestartFresh
  DEF Next, Run, Fault

\* Theorem: rows that were committed when the process started, or when it read
\* MAX(id), are not streamed, whatever fails later, unless initLastID gave up
\* (watcher.go:8-11 and 154-175).
THEOREM HistoryIsNotReplayed == Spec => []NoReplay
<1>1. FreshInv => NoReplay
  BY EmittedRows DEF FreshInv, NoReplay
<1> QED
  BY <1>1, InitDb, NextDb, InitStream, NextStream, InitFresh, NextFresh, PTL DEF Spec

-----------------------------------------------------------------------------
(* With one writer, and as long as nothing was loaded or truncated beside    *)
(* it, ids commit in their order.                                            *)

FaultTypes == faults \in [failures : Nat, seeded : Nat, truncates : Nat, restarts : Nat]

\* What is not committed yet is beyond all that is, and beyond what the watcher
\* has read; and what it has read and not streamed is in the batch.
OrderInv ==
    /\ Reached < nextId
    /\ \A w \in Writers : \A q \in tx[w] : Reached < q.id /\ \A r \in table : r.id < q.id
    /\ PassedIsStreamed
    /\ wpc = "emit" => \A r \in table : lastID < r.id /\ r.id <= maxID => r \in Emitted \cup RowsOf(batch)

LEMMA InitOrder == Init => FaultTypes /\ OrderInv
  BY DEF Init, FaultTypes, OrderInv, Reached, PassedIsStreamed

LEMMA NextFaults == FaultTypes /\ [Next]_vars => FaultTypes'
<1> SUFFICES ASSUME FaultTypes, [Next]_vars PROVE FaultTypes'
  OBVIOUS
<1>1. ASSUME Failure \/ Truncate \/ Seed \/ Restart PROVE FaultTypes'
  BY <1>1 DEF FaultTypes, Failure, Truncate, Seed, Restart
<1>2. ASSUME UNCHANGED faults PROVE FaultTypes'
  BY <1>2 DEF FaultTypes
<1>3. Failure \/ Truncate \/ Seed \/ Restart \/ UNCHANGED faults
  BY DEF vars, Next, Run, Fault, InitLastID, Connect, Query, Emit, DrainEnd, Wake, WaitFails,
         Backoff, InitFails, CallFails, Disconnect, Writer, Insert, Commit, Abort
<1> QED
  BY <1>1, <1>2, <1>3

\* Once cmd/seed has run, it has run for good.
LEMMA WasUndisturbed ==
  FaultTypes /\ [Next]_vars /\ Undisturbed' => Undisturbed /\ ~ Truncate /\ ~ Seed
<1> SUFFICES ASSUME FaultTypes, [Next]_vars, Undisturbed'
             PROVE  Undisturbed /\ ~ Truncate /\ ~ Seed
  OBVIOUS
<1>1. ~ Truncate /\ ~ Seed
  BY DEF FaultTypes, Undisturbed, Truncate, Seed
<1>2. ASSUME Failure \/ Restart PROVE Undisturbed
  BY <1>2 DEF FaultTypes, Undisturbed, Failure, Restart
<1>3. ASSUME UNCHANGED faults PROVE Undisturbed
  BY <1>3 DEF Undisturbed
<1>4. Failure \/ Restart \/ UNCHANGED faults
  BY <1>1 DEF vars, Next, Run, Fault, InitLastID, Connect, Query, Emit, DrainEnd, Wake, WaitFails,
              Backoff, InitFails, CallFails, Disconnect, Writer, Insert, Commit, Abort
<1> QED
  BY <1>1, <1>2, <1>3, <1>4

LEMMA QuietOrder ==
  ASSUME OrderInv, UNCHANGED <<dbVars, lastID, maxID, batch, sent, old>>,
         wpc' = "emit" <=> wpc = "emit"
  PROVE  OrderInv'
  BY DEF OrderInv, dbVars, Reached, PassedIsStreamed, Emitted, RowsOf

LEMMA ReachedNat == ASSUME StreamInv PROVE Reached \in Nat /\ lastID <= Reached /\ lastID \in Nat
  BY DEF StreamInv, StreamTypes, Reached

LEMMA InsertOrder ==
  ASSUME DbInv, StreamInv, OrderInv, NEW w \in Writers, Insert(w) PROVE OrderInv'
<1> DEFINE new == [id |-> nextId, ts |-> TimeOf(w)]
<1>1. /\ tx' = [tx EXCEPT ![w] = tx[w] \cup {new}] /\ nextId' = nextId + 1
      /\ table' = table /\ new.id = nextId /\ UNCHANGED watcherVars
  BY DEF Insert
<1> HIDE DEF new
<1>2. nextId \in Nat /\ \A r \in table : r.id < nextId
  BY DEF DbInv
<1>3. \A v \in Writers : \A q \in tx'[v] : q \in tx[v] \/ q = new
  BY <1>1 DEF DbInv
<1>4. Reached \in Nat /\ Reached' = Reached
  BY <1>1, ReachedNat DEF Reached, watcherVars
<1> QED
  BY <1>1, <1>2, <1>3, <1>4 DEF OrderInv, PassedIsStreamed, Emitted, RowsOf, watcherVars

LEMMA CommitOrder ==
  ASSUME DbInv, StreamInv, OrderInv, \A v, w \in Writers : v = w,
         NEW w \in Writers, Commit(w)
  PROVE  OrderInv'
<1>1. /\ table' = table \cup tx[w] /\ tx' = [tx EXCEPT ![w] = {}] /\ nextId' = nextId
      /\ UNCHANGED watcherVars
  BY DEF Commit
<1>2. \A v \in Writers : tx'[v] = {}
  BY <1>1 DEF DbInv
<1>3. /\ Reached \in Nat /\ Reached' = Reached /\ lastID \in Nat /\ lastID <= Reached
      /\ Emitted' = Emitted /\ RowsOf(batch)' = RowsOf(batch)
  BY <1>1, ReachedNat DEF Reached, Emitted, RowsOf, watcherVars
<1>4. \A q \in tx[w] : q.id \in Nat /\ Reached < q.id
  BY DEF OrderInv, DbInv, Row
<1>5. PassedIsStreamed'
  BY <1>1, <1>3, <1>4 DEF OrderInv, PassedIsStreamed, watcherVars
<1>6. wpc = "emit" => \A r \in table' : lastID < r.id /\ r.id <= maxID => r \in Emitted \cup RowsOf(batch)
  BY <1>1, <1>3, <1>4 DEF OrderInv, Reached
<1> QED
  BY <1>1, <1>2, <1>3, <1>5, <1>6 DEF OrderInv, watcherVars

LEMMA AbortOrder ==
  ASSUME DbInv, OrderInv, NEW w \in Writers, Abort(w) PROVE OrderInv'
<1>1. /\ tx' = [tx EXCEPT ![w] = {}] /\ UNCHANGED <<table, nextId, watcherVars>>
  BY DEF Abort
<1>2. \A v \in Writers : tx'[v] \subseteq tx[v]
  BY <1>1 DEF DbInv
<1> QED
  BY <1>1, <1>2 DEF OrderInv, Reached, PassedIsStreamed, Emitted, RowsOf, watcherVars

LEMMA InitLastIDOrder == ASSUME DbInv, OrderInv, InitLastID PROVE OrderInv'
<1>1. /\ wpc' = "connect" /\ lastID' = MaxId /\ old' = table /\ UNCHANGED <<dbVars, batch, sent>>
  BY DEF InitLastID
<1>2. MaxId < nextId /\ (MaxId = 0 \/ \E r \in table : r.id = MaxId)
  BY MaxIdIsLast
<1>3. \A w \in Writers : \A q \in tx[w] : MaxId < q.id
  <2>1. \A w \in Writers : \A q \in tx[w] : 0 < q.id
    BY DEF DbInv, Row
  <2> QED
    BY <1>2, <2>1 DEF OrderInv
<1> QED
  BY <1>1, <1>2, <1>3 DEF OrderInv, Reached, PassedIsStreamed, dbVars

\* The page is cut by the LIMIT from above only.
LEMMA PageIsPrefix ==
  ASSUME DbInv, lastID \in Nat, NEW q \in Page, NEW r \in Backlog, r.id <= q.id PROVE r \in Page
<1> DEFINE Below(x) == {b \in Backlog : b.id < x.id}
<1>1. Backlog \subseteq Row /\ IsFiniteSet(Backlog)
  BY FS_Subset DEF DbInv, Backlog
<1>2. q \in Backlog /\ Cardinality(Below(q)) < Limit
  BY DEF Page
<1>3. Below(r) \subseteq Below(q)
  BY <1>1, <1>2 DEF Row
<1>4. IsFiniteSet(Below(q)) /\ IsFiniteSet(Below(r))
  BY <1>1, FS_Subset
<1> HIDE DEF Below
<1>5. Cardinality(Below(r)) <= Cardinality(Below(q))
  BY <1>3, <1>4, FS_Subset
<1>6. /\ Cardinality(Below(r)) \in Nat /\ Cardinality(Below(q)) \in Nat /\ Limit \in Nat
  BY <1>4, FS_CardinalityType, WatcherAssumption DEF WatcherAssumption
<1>7. Cardinality(Below(r)) < Limit
  BY <1>2, <1>5, <1>6
<1> QED
  BY <1>7 DEF Page, Below

LEMMA QueryOrder == ASSUME DbInv, StreamInv, OrderInv, Query PROVE OrderInv'
<1>1. /\ wpc = "drain" /\ wpc' = "emit" /\ UNCHANGED <<dbVars, lastID, sent, old>>
  BY DEF Query
<1>2. lastID \in Nat /\ Reached = lastID
  BY <1>1, ReachedNat DEF Reached
<1>3. /\ Page \subseteq Row /\ batch' = Grouped(Page)
      /\ maxID' \in Nat /\ lastID <= maxID'
      /\ maxID' = lastID \/ \E r \in Page : r.id = maxID'
  BY <1>2, QueryReads
<1>4. Page \subseteq table
  BY DEF Page, Backlog
<1>5. Reached' = maxID'
  BY <1>1 DEF Reached
<1>6. maxID' < nextId
  BY <1>2, <1>3, <1>4 DEF OrderInv, DbInv
<1>7. \A w \in Writers : \A q \in tx[w] : maxID' < q.id
  BY <1>2, <1>3, <1>4 DEF OrderInv
<1>8. ASSUME NEW r \in table, lastID < r.id, r.id <= maxID' PROVE r \in RowsOf(batch')
  <2>1. r \in Backlog /\ r.id \in Nat
    BY <1>8 DEF Backlog, DbInv, Row
  <2>2. r \in Page
    BY <1>2, <1>3, <1>8, <2>1, PageIsPrefix
  <2> QED
    BY <1>3, <2>2, GroupedSamples DEF RowsOf
<1>9. PassedIsStreamed'
  BY <1>1 DEF OrderInv, PassedIsStreamed, Emitted, RowsOf, dbVars
<1> QED
  BY <1>1, <1>5, <1>6, <1>7, <1>8, <1>9 DEF OrderInv, RowsOf, dbVars

LEMMA EmitOrder == ASSUME StreamInv, OrderInv, Emit PROVE OrderInv'
<1>1. /\ wpc = "emit" /\ UNCHANGED <<dbVars, wpc, lastID, maxID, old>>
      /\ \E s \in batch : sent' = Append(sent, s) /\ batch' = batch \ {s}
  BY DEF Emit
<1>2. PICK s \in batch : sent' = Append(sent, s) /\ batch' = batch \ {s}
  BY <1>1
<1>3. sent \in Seq(Sample) /\ s \in Sample
  BY <1>2 DEF StreamInv, StreamTypes
<1>4. /\ \A k \in DOMAIN sent : k \in DOMAIN sent' /\ sent'[k] = sent[k]
      /\ \E k \in DOMAIN sent' : sent'[k] = s
  <2>1. /\ sent' \in Seq(Sample) /\ Len(sent') = Len(sent) + 1
        /\ \A k \in 1 .. Len(sent) : sent'[k] = sent[k]
        /\ sent'[Len(sent) + 1] = s
    BY <1>2, <1>3, AppendProperties
  <2>2. /\ Len(sent) \in Nat /\ DOMAIN sent = 1 .. Len(sent)
        /\ DOMAIN sent' = 1 .. Len(sent')
    BY <1>3, <2>1, LenProperties
  <2>3. Len(sent) + 1 \in DOMAIN sent'
    BY <2>1, <2>2
  <2> QED
    BY <2>1, <2>2, <2>3
<1>5. Emitted \subseteq Emitted' /\ s.rows \subseteq Emitted'
  BY <1>4 DEF Emitted, RowsOf
<1>6. RowsOf(batch) \subseteq RowsOf(batch') \cup s.rows
  BY <1>2 DEF RowsOf
<1>7. PassedIsStreamed'
  BY <1>1, <1>5 DEF OrderInv, PassedIsStreamed, dbVars
<1>8. \A r \in table : lastID < r.id /\ r.id <= maxID => r \in Emitted' \cup RowsOf(batch')
  BY <1>1, <1>5, <1>6 DEF OrderInv
<1> QED
  BY <1>1, <1>7, <1>8 DEF OrderInv, Reached, dbVars, RowsOf

LEMMA DrainEndOrder == ASSUME DbInv, StreamInv, OrderInv, DrainEnd PROVE OrderInv'
<1>1. /\ wpc = "emit" /\ wpc' = "wait" /\ batch = {} /\ lastID' = maxID
      /\ UNCHANGED <<dbVars, sent, old>>
  BY DEF DrainEnd
<1>2. lastID \in Nat /\ Reached' = Reached /\ \A r \in table : r.id \in Nat
  BY <1>1 DEF StreamInv, StreamTypes, Reached, DbInv, Row
<1>3. \A r \in table : r.id <= maxID => r \in old \cup Emitted
  BY <1>1, <1>2 DEF OrderInv, PassedIsStreamed, RowsOf
<1>4. PassedIsStreamed'
  BY <1>1, <1>3 DEF PassedIsStreamed, Emitted, RowsOf, dbVars
<1> QED
  BY <1>1, <1>2, <1>4 DEF OrderInv, dbVars

LEMMA RestartOrder == ASSUME DbInv, OrderInv, Restart PROVE OrderInv'
<1>1. /\ wpc' = "init" /\ lastID' = 0 /\ old' = table /\ UNCHANGED dbVars
  BY DEF Restart
<1>2. 0 < nextId /\ \A w \in Writers : \A q \in tx[w] : 0 < q.id
  BY DEF DbInv, Row
<1> QED
  BY <1>1, <1>2 DEF OrderInv, Reached, PassedIsStreamed, dbVars

LEMMA NextOrder ==
  ASSUME \A v, w \in Writers : v = w
  PROVE  DbInv /\ StreamInv /\ FaultTypes /\ OrderInv /\ [Next]_vars /\ Undisturbed' => OrderInv'
<1> SUFFICES ASSUME DbInv, StreamInv, FaultTypes, OrderInv, [Next]_vars, Undisturbed' PROVE OrderInv'
  OBVIOUS
<1>1. ASSUME UNCHANGED vars PROVE OrderInv'
  BY <1>1, QuietOrder DEF vars, watcherVars
<1>2. ASSUME Disconnect \/ InitFails \/ Connect \/ Wake \/ WaitFails \/ CallFails \/ Backoff
      PROVE  OrderInv'
  BY <1>2, QuietOrder DEF Disconnect, InitFails, Connect, Wake, WaitFails, CallFails, Backoff,
                          watcherVars
<1>3. ~ Truncate /\ ~ Seed
  BY WasUndisturbed
<1>4. ASSUME NEW w \in Writers, Writer(w) PROVE OrderInv'
  BY <1>4, InsertOrder, CommitOrder, AbortOrder DEF Writer
<1> QED
  BY <1>1, <1>2, <1>3, <1>4, InitLastIDOrder, QueryOrder, EmitOrder, DrainEndOrder, RestartOrder
  DEF Next, Run, Fault

\* Theorem: with at most one writer, and until a seed run touches the table,
\* lastID never passes a row that was not streamed: through aborted ticks,
\* failures between any two calls, restarts, and backlogs longer than a page
\* (watcher.go:91-149).  With two writers it does (writer/main.go:7-8 says
\* otherwise).
THEOREM OneWriterSkipsNothing ==
  ASSUME \A v, w \in Writers : v = w
  PROVE  Spec => []NothingSkipped
<1> DEFINE Inv == DbInv /\ StreamInv /\ FaultTypes /\ (Undisturbed => OrderInv)
<1>1. Init => Inv
  BY InitDb, InitStream, InitOrder
<1>2. Inv /\ [Next]_vars => Inv'
  <2>1. DbInv /\ StreamInv /\ FaultTypes /\ OrderInv /\ [Next]_vars /\ Undisturbed' => OrderInv'
    BY NextOrder
  <2> QED
    BY <2>1, NextDb, NextStream, NextFaults, WasUndisturbed
<1>3. Inv => NothingSkipped
  BY DEF OrderInv, NothingSkipped
<1> QED
  BY <1>1, <1>2, <1>3, PTL DEF Spec

-----------------------------------------------------------------------------
(* With one writer the ticks are whole, in the table and on every page.     *)

RowsAt(t) == {q \in table : q.ts = t}

\* A tick's rows are all in the table or all in its transaction, and the ids
\* follow the ticks.
TableTicks ==
    /\ \A r \in table : r.ts <= ticks
    /\ \A w \in Writers : \A q \in tx[w] : q.ts = ticks /\ \A r \in table : r.ts < q.ts
    /\ \A r \in table : Cardinality(RowsAt(r.ts)) = RowsPerTick
    /\ \A r, q \in table : r.ts < q.ts => r.id < q.id

\* No tick is read in part.
CutAt(n) == \A r, q \in table : r.ts = q.ts /\ r.id <= n => q.id <= n

\* The ticks that were streamed are before those in the batch, and before those
\* that are still to be read.
StreamTicks ==
    /\ CutAt(Reached)
    /\ \A s \in batch : /\ s.rows # {} /\ s.rows \subseteq table
                        /\ \A r \in s.rows : r.ts = s.ts
    /\ \A s, o \in batch : s # o => s.ts # o.ts
    /\ \A k \in DOMAIN sent :
          /\ sent[k].ts <= ticks
          /\ \A w \in Writers : \A q \in tx[w] : sent[k].ts < q.ts
          /\ \A r \in table : r.id > Reached => sent[k].ts < r.ts
          /\ \A s \in batch : sent[k].ts < s.ts
    /\ SamplesInOrder

LEMMA InitTicks == Init => TableTicks /\ StreamTicks
  BY DEF Init, TableTicks, StreamTicks, CutAt, SamplesInOrder

LEMMA InsertTicks ==
  ASSUME DbInv, StreamInv, TableTicks, StreamTicks, \A v, w \in Writers : v = w,
         NEW w \in Writers, Insert(w)
  PROVE  TableTicks' /\ StreamTicks'
<1> DEFINE new == [id |-> nextId, ts |-> TimeOf(w)]
<1>1. /\ tx' = [tx EXCEPT ![w] = tx[w] \cup {new}]
      /\ ticks' = IF tx[w] = {} THEN ticks + 1 ELSE ticks
      /\ table' = table /\ UNCHANGED watcherVars
  BY DEF Insert
<1>2. ticks \in Nat /\ tx[w] \subseteq Row /\ \A r \in table : r.ts \in Nat
  BY DEF DbInv, Row
<1>3. new.ts = ticks' /\ ticks' \in Nat /\ ticks <= ticks'
  <2>1. CASE tx[w] = {}
    BY <1>1, <1>2, <2>1 DEF TimeOf
  <2>2. CASE tx[w] # {}
    BY <1>1, <1>2, <2>2 DEF TimeOf, TableTicks
  <2> QED
    BY <2>1, <2>2
<1>4. \A r \in table : r.ts < new.ts
  <2>1. CASE tx[w] = {}
    BY <1>1, <1>2, <1>3, <2>1 DEF TableTicks
  <2>2. CASE tx[w] # {}
    BY <1>1, <1>2, <1>3, <2>2 DEF TableTicks
  <2> QED
    BY <2>1, <2>2
<1>5. \A k \in DOMAIN sent : sent[k].ts < new.ts /\ sent[k].ts <= ticks'
  <2>1. \A k \in DOMAIN sent : sent[k].ts \in Nat
    <3>1. sent \in Seq(Sample)
      BY DEF StreamInv, StreamTypes
    <3>2. \A k \in DOMAIN sent : sent[k] \in Sample
      BY <3>1, LenProperties
    <3> QED
      BY <3>2 DEF Sample
  <2>2. CASE tx[w] = {}
    BY <1>1, <1>2, <1>3, <2>1, <2>2 DEF StreamTicks
  <2>3. CASE tx[w] # {}
    BY <1>1, <1>2, <1>3, <2>1, <2>3 DEF StreamTicks, TableTicks
  <2> QED
    BY <2>2, <2>3
<1> HIDE DEF new
<1>6. \A v \in Writers : \A q \in tx'[v] : (q \in tx[w] /\ tx[w] # {}) \/ q = new
  BY <1>1 DEF DbInv
<1>7. \A q \in tx[w] : ticks' = ticks
  BY <1>1
<1>8. TableTicks'
  BY <1>1, <1>2, <1>3, <1>4, <1>6, <1>7 DEF TableTicks, RowsAt
<1>9. StreamTicks'
  BY <1>1, <1>5, <1>6 DEF StreamTicks, CutAt, Reached, SamplesInOrder, watcherVars
<1> QED
  BY <1>8, <1>9

LEMMA CommitTicks ==
  ASSUME DbInv, StreamInv, OrderInv, TableTicks, StreamTicks, \A v, w \in Writers : v = w,
         NEW w \in Writers, Commit(w)
  PROVE  TableTicks' /\ StreamTicks'
<1>1. /\ table' = table \cup tx[w] /\ ticks' = ticks /\ UNCHANGED watcherVars
      /\ Cardinality(tx[w]) = RowsPerTick
      /\ \A v \in Writers : tx'[v] = {}
  BY DEF Commit, DbInv
<1>2. ticks \in Nat /\ tx[w] \subseteq Row /\ table \subseteq Row
  BY DEF DbInv
<1>3. \A q \in tx[w] : q.ts = ticks /\ \A r \in table : r.ts < ticks /\ r.id < q.id
  BY DEF TableTicks, OrderInv
<1>4. \A r \in Row : r.ts \in Nat /\ r.id \in Nat
  BY DEF Row
<1>5. \A r \in table' : Cardinality(RowsAt(r.ts)') = RowsPerTick
  <2>1. ASSUME NEW r \in table PROVE Cardinality(RowsAt(r.ts)') = RowsPerTick
    <3>1. RowsAt(r.ts)' = RowsAt(r.ts)
      BY <1>1, <1>2, <1>3, <1>4 DEF RowsAt
    <3> QED
      BY <3>1 DEF TableTicks
  <2>2. ASSUME NEW r \in tx[w] PROVE Cardinality(RowsAt(r.ts)') = RowsPerTick
    <3>1. RowsAt(r.ts)' = tx[w]
      BY <1>1, <1>2, <1>3, <1>4 DEF RowsAt
    <3> QED
      BY <1>1, <3>1
  <2> QED
    BY <1>1, <2>1, <2>2
<1>6. \A r, q \in table' : r.ts < q.ts => r.id < q.id
  BY <1>1, <1>2, <1>3, <1>4 DEF TableTicks
<1>7. TableTicks'
  BY <1>1, <1>2, <1>3, <1>4, <1>5, <1>6 DEF TableTicks
<1>8. Reached' = Reached /\ Reached \in Nat
  BY <1>1, ReachedNat DEF Reached, watcherVars
<1>9. \A q \in tx[w] : Reached < q.id
  BY DEF OrderInv
<1>10. CutAt(Reached)'
  BY <1>1, <1>2, <1>3, <1>4, <1>8, <1>9 DEF StreamTicks, CutAt
<1>11. \A k \in DOMAIN sent : \A r \in table' : r.id > Reached => sent[k].ts < r.ts
  BY <1>1 DEF StreamTicks
<1>12. UNCHANGED <<batch, sent>>
  BY <1>1 DEF watcherVars
<1>13. StreamTicks'
  BY <1>1, <1>8, <1>10, <1>11, <1>12 DEF StreamTicks, SamplesInOrder
<1> QED
  BY <1>7, <1>13

LEMMA AbortTicks ==
  ASSUME DbInv, TableTicks, StreamTicks, NEW w \in Writers, Abort(w)
  PROVE  TableTicks' /\ StreamTicks'
<1>1. tx' = [tx EXCEPT ![w] = {}] /\ UNCHANGED <<table, nextId, ticks, watcherVars>>
  BY DEF Abort
<1>2. \A v \in Writers : tx'[v] \subseteq tx[v]
  BY <1>1 DEF DbInv
<1>3. TableTicks'
  BY <1>1, <1>2 DEF TableTicks, RowsAt
<1>4. StreamTicks'
  BY <1>1, <1>2 DEF StreamTicks, CutAt, Reached, SamplesInOrder, watcherVars
<1> QED
  BY <1>3, <1>4

LEMMA QuietTicks ==
  ASSUME StreamTicks, TableTicks, UNCHANGED <<dbVars, lastID, maxID, batch, sent>>,
         wpc' = "emit" <=> wpc = "emit"
  PROVE  TableTicks' /\ StreamTicks'
<1>1. TableTicks'
  BY DEF TableTicks, RowsAt, dbVars
<1>2. Reached' = Reached
  BY DEF Reached
<1>3. StreamTicks'
  BY <1>2 DEF StreamTicks, CutAt, SamplesInOrder, dbVars
<1> QED
  BY <1>1, <1>3

LEMMA InitLastIDTicks ==
  ASSUME DbInv, StreamInv, TableTicks, InitLastID
  PROVE  TableTicks' /\ StreamTicks'
<1>1. /\ wpc = "init" /\ wpc' = "connect" /\ lastID' = MaxId /\ UNCHANGED <<dbVars, batch, sent>>
  BY DEF InitLastID
<1>2. sent = <<>> /\ batch = {} /\ \A r \in table : r.id <= MaxId
  BY <1>1, MaxIdIsLast DEF StreamInv, StreamTypes
<1>3. Reached' = MaxId
  BY <1>1 DEF Reached
<1>4. TableTicks'
  BY <1>1 DEF TableTicks, RowsAt, dbVars
<1>5. StreamTicks'
  BY <1>1, <1>2, <1>3 DEF StreamTicks, CutAt, SamplesInOrder, dbVars
<1> QED
  BY <1>4, <1>5

LEMMA RestartTicks ==
  ASSUME DbInv, TableTicks, Restart
  PROVE  TableTicks' /\ StreamTicks'
<1>1. wpc' = "init" /\ lastID' = 0 /\ batch' = {} /\ sent' = <<>> /\ UNCHANGED dbVars
  BY DEF Restart
<1>2. \A r \in table : ~(r.id <= 0)
  BY DEF DbInv, Row
<1>3. TableTicks'
  BY <1>1 DEF TableTicks, RowsAt, dbVars
<1>4. StreamTicks'
  BY <1>1, <1>2 DEF StreamTicks, CutAt, Reached, SamplesInOrder, dbVars
<1> QED
  BY <1>3, <1>4

LEMMA DrainEndTicks ==
  ASSUME TableTicks, StreamTicks, DrainEnd
  PROVE  TableTicks' /\ StreamTicks'
<1>1. /\ wpc = "emit" /\ wpc' = "wait" /\ lastID' = maxID
      /\ UNCHANGED <<dbVars, batch, maxID, sent>>
  BY DEF DrainEnd
<1>2. Reached' = Reached
  BY <1>1 DEF Reached
<1>3. TableTicks'
  BY <1>1 DEF TableTicks, RowsAt, dbVars
<1>4. StreamTicks'
  BY <1>1, <1>2 DEF StreamTicks, CutAt, SamplesInOrder, dbVars
<1> QED
  BY <1>3, <1>4

\* The backlog is made of whole ticks, so its part before a time is so too.
LEMMA WholeTicks ==
  ASSUME DbInv, TableTicks, lastID \in Nat, CutAt(lastID)
  PROVE  \A t \in Nat : \E m \in Nat : Cardinality({b \in Backlog : b.ts < t}) = m * RowsPerTick
<1> DEFINE Before(t) == {b \in Backlog : b.ts < t}
           Whole(t) == \E m \in Nat : Cardinality(Before(t)) = m * RowsPerTick
           Bad == {t \in Nat : ~ Whole(t)}
<1>1. RowsPerTick \in Nat
  BY WatcherAssumption DEF WatcherAssumption
<1>2. Backlog \subseteq table /\ table \subseteq Row /\ IsFiniteSet(Backlog)
  BY FS_Subset DEF DbInv, Backlog
<1>3. \A t : IsFiniteSet(Before(t)) /\ Cardinality(Before(t)) \in Nat
  <2> TAKE t
  <2>1. Before(t) \in SUBSET Backlog
    OBVIOUS
  <2>2. IsFiniteSet(Before(t))
    BY <1>2, <2>1, FS_Subset
  <2> QED
    BY <2>2, FS_CardinalityType
<1>4. \A r \in Backlog : r.ts \in Nat
  BY <1>2 DEF Row
<1>5. Whole(0)
  <2>1. Before(0) = {}
    BY <1>4
  <2>2. Cardinality(Before(0)) = 0 * RowsPerTick
    BY <1>1, <2>1, FS_EmptySet
  <2> QED
    BY <2>2
<1>6. ASSUME NEW t \in Nat, Whole(t) PROVE Whole(t + 1)
  <2> DEFINE Now == {b \in Backlog : b.ts = t}
  <2>1. Before(t + 1) = Before(t) \cup Now /\ Before(t) \cap Now = {}
    BY <1>4
  <2>2. CASE Now = {}
    <3>1. Before(t + 1) = Before(t)
      BY <2>1, <2>2
    <3> QED
      BY <1>6, <3>1
  <2>3. CASE Now # {}
    <3>1. PICK b \in Backlog : b.ts = t
      BY <2>3
    <3>2. Now = RowsAt(t)
      <4>1. \A q \in table : q.ts = b.ts /\ q.id <= lastID => b.id <= lastID
        BY <1>2, <3>1 DEF CutAt
      <4>2. ~(b.id <= lastID) /\ \A q \in table : q.id \in Nat
        BY <1>2, <3>1 DEF Backlog, Row
      <4> QED
        BY <3>1, <4>1, <4>2 DEF Backlog, RowsAt
    <3>3. Cardinality(Now) = RowsPerTick
      BY <1>2, <3>1, <3>2 DEF TableTicks
    <3>4. IsFiniteSet(Now)
      BY <1>2, FS_Subset
    <3>5. Cardinality(Before(t) \cap Now) = 0
      BY <2>1, FS_EmptySet
    <3> HIDE DEF Before, Now
    <3>6. Cardinality(Before(t + 1)) = Cardinality(Before(t)) + RowsPerTick
      <4>1. Cardinality(Before(t) \cup Now) =
               Cardinality(Before(t)) + Cardinality(Now) - Cardinality(Before(t) \cap Now)
        BY <1>3, <3>4, FS_Union
      <4>2. Cardinality(Before(t)) \in Nat
        BY <1>3
      <4> QED
        BY <1>1, <2>1, <3>3, <3>5, <4>1, <4>2
    <3>7. PICK m \in Nat : Cardinality(Before(t)) = m * RowsPerTick
      BY <1>6
    <3>8. (m + 1) * RowsPerTick = m * RowsPerTick + RowsPerTick
      BY <1>1
    <3>9. Cardinality(Before(t + 1)) = (m + 1) * RowsPerTick /\ m + 1 \in Nat
      BY <3>6, <3>7, <3>8
    <3> QED
      BY <3>9
  <2> QED
    BY <2>2, <2>3
<1> HIDE DEF Whole
<1>7. Bad = {}
  <2> SUFFICES ASSUME Bad # {} PROVE FALSE
    OBVIOUS
  <2>1. Bad \subseteq Nat
    OBVIOUS
  <2>2. IsWellFoundedOn(OpToRel(<, Nat), Nat)
    BY NatLessThanWellFounded, Zenon
  <2>3. \A t \in Nat : t \notin Bad => Whole(t)
    OBVIOUS
  <2>4. \A t \in Bad : ~ Whole(t)
    OBVIOUS
  <2> HIDE DEF Bad
  <2>5. PICK t \in Bad : \A u \in Bad : ~ (<<u, t>> \in OpToRel(<, Nat))
    BY <2>1, <2>2, WFMin, Zenon
  <2>6. t # 0
    BY <1>5, <2>4
  <2>7. PICK u \in Nat : u < t /\ u + 1 = t
    <3>1. t - 1 \in Nat /\ t - 1 < t /\ (t - 1) + 1 = t
      BY <2>1, <2>6
    <3> QED
      BY <3>1
  <2>8. \A x, y \in Nat : x < y => <<x, y>> \in OpToRel(<, Nat)
    BY DEF OpToRel
  <2>9. <<u, t>> \in OpToRel(<, Nat)
    BY <2>1, <2>7, <2>8, Zenon
  <2>10. u \notin Bad
    BY <2>5, <2>9, Zenon
  <2>11. Whole(u + 1)
    BY <1>6, <2>3, <2>7, <2>10
  <2> QED
    BY <2>4, <2>7, <2>11
<1>8. ASSUME NEW t \in Nat PROVE Whole(t)
  BY <1>7
<1> QED
  BY <1>8 DEF Whole

\* A page as long as some ticks cuts none.
LEMMA PageCutsNone ==
  ASSUME DbInv, TableTicks, lastID \in Nat, CutAt(lastID),
         NEW n \in Nat, Limit = n * RowsPerTick,
         NEW r \in Page, NEW q \in Backlog, q.ts = r.ts
  PROVE  q \in Page
<1> DEFINE Before == {b \in Backlog : b.ts < r.ts}
           Below(x) == {b \in Backlog : b.id < x.id}
           Now == RowsAt(r.ts)
<1>1. RowsPerTick \in Nat \ {0}
  BY WatcherAssumption DEF WatcherAssumption
<1>2. /\ Backlog \subseteq table /\ table \subseteq Row /\ IsFiniteSet(Backlog)
      /\ IsFiniteSet(table) /\ r \in Backlog
  BY FS_Subset DEF DbInv, Backlog, Page
<1>3. \A b \in Backlog : b.ts \in Nat /\ b.id \in Nat
  BY <1>2 DEF Row
<1>4. /\ IsFiniteSet(Before) /\ IsFiniteSet(Below(r)) /\ IsFiniteSet(Below(q))
      /\ IsFiniteSet(Now) /\ Cardinality(Now) = RowsPerTick
  <2>1. Before \in SUBSET Backlog /\ Below(r) \in SUBSET Backlog /\ Below(q) \in SUBSET Backlog
    OBVIOUS
  <2>2. IsFiniteSet(Now) /\ Cardinality(Now) = RowsPerTick
    BY <1>2, FS_Subset DEF TableTicks, RowsAt
  <2> QED
    BY <1>2, <2>1, <2>2, FS_Subset
<1>5. Before \in SUBSET Below(r)
  BY <1>2, <1>3 DEF TableTicks
<1>6. Below(q) \in SUBSET (Before \cup (Now \ {q}))
  <2> SUFFICES ASSUME NEW b \in Backlog, b.id < q.id, ~(b.ts < r.ts)
               PROVE  b \in Now \ {q}
    OBVIOUS
  <2>1. ~(q.ts < b.ts)
    BY <1>2, <1>3 DEF TableTicks
  <2>2. b.ts = r.ts
    BY <1>2, <1>3, <2>1
  <2>3. b # q
    BY <1>3
  <2> QED
    BY <1>2, <2>2, <2>3 DEF RowsAt
<1>7. q \in Now
  BY <1>2 DEF RowsAt
<1>8. Cardinality(Below(r)) < Limit
  BY DEF Page
<1>9. r.ts \in Nat
  BY <1>2, <1>3
<1>10. PICK m \in Nat : Cardinality(Before) = m * RowsPerTick
  BY <1>9, WholeTicks
<1> HIDE DEF Before, Below, Now
<1>11. /\ Cardinality(Before) \in Nat /\ Cardinality(Below(r)) \in Nat
       /\ Cardinality(Below(q)) \in Nat
       /\ Cardinality(Before) <= Cardinality(Below(r))
  BY <1>4, <1>5, FS_Subset, FS_CardinalityType
<1>12. m < n
  <2> SUFFICES ASSUME n <= m PROVE FALSE
    OBVIOUS
  <2>1. n * RowsPerTick <= m * RowsPerTick
    BY <1>1
  <2>2. n * RowsPerTick \in Nat /\ m * RowsPerTick \in Nat
    BY <1>1
  <2> QED
    BY <1>8, <1>10, <1>11, <2>1, <2>2
<1>13. m * RowsPerTick + RowsPerTick <= Limit
  <2>1. (m + 1) * RowsPerTick <= n * RowsPerTick
    BY <1>1, <1>12
  <2>2. (m + 1) * RowsPerTick = m * RowsPerTick + RowsPerTick
    BY <1>1
  <2> QED
    BY <2>1, <2>2
<1>14. IsFiniteSet(Now \ {q}) /\ Cardinality(Now \ {q}) = RowsPerTick - 1
  BY <1>4, <1>7, FS_RemoveElement
<1>15. /\ IsFiniteSet(Before \cup (Now \ {q}))
       /\ Cardinality(Before \cup (Now \ {q})) <= m * RowsPerTick + (RowsPerTick - 1)
  <2> DEFINE rest == Now \ {q}
  <2>1. IsFiniteSet(rest) /\ Cardinality(rest) = RowsPerTick - 1
    BY <1>14
  <2> HIDE DEF rest
  <2>2. /\ IsFiniteSet(Before \cup rest)
        /\ Cardinality(Before \cup rest) =
              Cardinality(Before) + Cardinality(rest) - Cardinality(Before \cap rest)
    BY <1>4, <2>1, FS_Union
  <2>3. Cardinality(Before \cap rest) \in Nat
    BY <1>4, FS_Subset, FS_CardinalityType
  <2>4. Cardinality(Before \cup rest) <= m * RowsPerTick + (RowsPerTick - 1)
    BY <1>1, <1>10, <1>11, <2>1, <2>2, <2>3
  <2> QED
    BY <2>2, <2>4 DEF rest
<1>16. Cardinality(Below(q)) <= Cardinality(Before \cup (Now \ {q}))
  BY <1>6, <1>15, FS_Subset
<1>17. Cardinality(Below(q)) < Limit
  <2> DEFINE c == Cardinality(Before \cup (Now \ {q}))
             p == m * RowsPerTick
  <2>1. c \in Nat
    BY <1>15, FS_CardinalityType
  <2>2. p \in Nat
    BY <1>1
  <2>3. Limit \in Nat /\ c <= p + (RowsPerTick - 1) /\ p + RowsPerTick <= Limit
        /\ Cardinality(Below(q)) <= c
    BY <1>13, <1>15, <1>16, WatcherAssumption DEF WatcherAssumption
  <2> HIDE DEF c, p
  <2> QED
    BY <1>1, <1>11, <2>1, <2>2, <2>3
<1> QED
  BY <1>17 DEF Page, Below

LEMMA QueryTicks ==
  ASSUME DbInv, StreamInv, TableTicks, StreamTicks, Query,
         NEW n \in Nat, Limit = n * RowsPerTick
  PROVE  TableTicks' /\ StreamTicks'
<1>1. /\ wpc = "drain" /\ wpc' = "emit" /\ UNCHANGED <<dbVars, lastID, sent>>
  BY DEF Query
<1>2. lastID \in Nat /\ Reached = lastID /\ Reached' = maxID'
  BY <1>1, ReachedNat DEF Reached
<1>3. /\ Page \subseteq Row /\ batch' = Grouped(Page)
      /\ maxID' \in Nat /\ lastID <= maxID'
      /\ \A r \in Page : lastID < r.id /\ r.id <= maxID'
      /\ maxID' = lastID \/ \E r \in Page : r.id = maxID'
  BY <1>2, QueryReads
<1>4. Page \subseteq Backlog /\ Backlog \subseteq table
  BY DEF Page, Backlog
<1>5. TableTicks'
  BY <1>1 DEF TableTicks, RowsAt, dbVars
<1>6. CutAt(lastID)
  BY <1>2 DEF StreamTicks
<1>7. \A r \in table : r.id \in Nat
  BY DEF DbInv, Row
<1>8. ASSUME NEW r \in table, NEW q \in table, r.ts = q.ts, r.id <= maxID'
      PROVE  q.id <= maxID'
  <2>1. CASE r.id <= lastID
    <3>1. q.id <= lastID
      BY <1>6, <1>8, <2>1 DEF CutAt
    <3> QED
      BY <1>2, <1>3, <1>7, <3>1
  <2>2. CASE ~(r.id <= lastID)
    <3>1. ~(q.id <= lastID)
      BY <1>6, <1>8, <2>2 DEF CutAt
    <3>2. r \in Backlog /\ q \in Backlog
      BY <1>2, <1>7, <2>2, <3>1 DEF Backlog
    <3>3. PICK p \in Page : p.id = maxID'
      BY <1>2, <1>3, <1>7, <1>8, <2>2
    <3>4. r \in Page
      BY <1>2, <1>8, <3>2, <3>3, PageIsPrefix
    <3>5. q \in Page
      BY <1>2, <1>6, <1>8, <3>2, <3>4, PageCutsNone
    <3> QED
      BY <1>3, <3>5
  <2> QED
    BY <2>1, <2>2
<1>9. CutAt(Reached)'
  BY <1>1, <1>2, <1>8 DEF CutAt, dbVars
<1>10. \A s \in batch' : /\ s.rows # {} /\ s.rows \subseteq Page
                         /\ \A r \in s.rows : r.ts = s.ts
  BY <1>3 DEF Grouped
<1>11. \A s, o \in batch' : s # o => s.ts # o.ts
  <2>1. \A s \in batch' : s = [ts |-> s.ts, rows |-> {r \in Page : r.ts = s.ts}]
    BY <1>3 DEF Grouped
  <2> SUFFICES ASSUME NEW s \in batch', NEW o \in batch', s.ts = o.ts PROVE s = o
    OBVIOUS
  <2>2. /\ s = [ts |-> s.ts, rows |-> {r \in Page : r.ts = s.ts}]
        /\ o = [ts |-> o.ts, rows |-> {r \in Page : r.ts = o.ts}]
    BY <2>1
  <2> QED
    BY <2>2
<1>12. ASSUME NEW k \in DOMAIN sent, NEW s \in batch' PROVE sent[k].ts < s.ts
  <2>1. PICK r \in Page : r.ts = s.ts
    BY <1>10
  <2>2. r \in table /\ r.id > Reached
    BY <1>2, <1>3, <1>4, <1>7
  <2>3. sent[k].ts < r.ts
    BY <2>2 DEF StreamTicks
  <2> QED
    BY <2>1, <2>3
<1>13. ASSUME NEW k \in DOMAIN sent, NEW r \in table, r.id > maxID' PROVE sent[k].ts < r.ts
  <2>1. r.id > Reached
    BY <1>2, <1>3, <1>7, <1>13
  <2> QED
    BY <2>1 DEF StreamTicks
<1>14. sent' = sent /\ table' = table /\ tx' = tx /\ ticks' = ticks
  BY <1>1 DEF dbVars
<1>15. StreamTicks'
  <2>1. \A s \in batch' : /\ s.rows # {} /\ s.rows \subseteq table'
                          /\ \A r \in s.rows : r.ts = s.ts
    BY <1>4, <1>10, <1>14
  <2>2. \A k \in DOMAIN sent' :
          /\ sent'[k].ts <= ticks'
          /\ \A w \in Writers : \A q \in tx'[w] : sent'[k].ts < q.ts
          /\ \A r \in table' : r.id > Reached' => sent'[k].ts < r.ts
          /\ \A s \in batch' : sent'[k].ts < s.ts
    BY <1>2, <1>12, <1>13, <1>14 DEF StreamTicks
  <2>3. SamplesInOrder'
    BY <1>14 DEF StreamTicks, SamplesInOrder
  <2> QED
    BY <1>9, <1>11, <2>1, <2>2, <2>3 DEF StreamTicks
<1> QED
  BY <1>5, <1>15

LEMMA EmitTicks ==
  ASSUME DbInv, StreamInv, TableTicks, StreamTicks, Emit
  PROVE  TableTicks' /\ StreamTicks'
<1>1. /\ wpc = "emit" /\ UNCHANGED <<dbVars, wpc, lastID, maxID>>
      /\ \E s \in batch : First(s) /\ sent' = Append(sent, s) /\ batch' = batch \ {s}
  BY DEF Emit
<1>2. PICK s \in batch : First(s) /\ sent' = Append(sent, s) /\ batch' = batch \ {s}
  BY <1>1
<1>3. sent \in Seq(Sample) /\ s \in Sample /\ Reached = maxID /\ Reached' = maxID /\ maxID \in Nat
  BY <1>1, <1>2 DEF StreamInv, StreamTypes, Reached
<1>4. /\ Len(sent) \in Nat /\ DOMAIN sent = 1 .. Len(sent) /\ DOMAIN sent' = 1 .. Len(sent) + 1
      /\ \A k \in 1 .. Len(sent) : sent'[k] = sent[k]
      /\ sent'[Len(sent) + 1] = s
  BY <1>2, <1>3, AppendProperties
<1>5. \A k \in DOMAIN sent' : \/ k \in DOMAIN sent /\ sent'[k] = sent[k] /\ k <= Len(sent)
                              \/ k = Len(sent) + 1 /\ sent'[k] = s
  BY <1>4
<1>6. table' = table /\ tx' = tx /\ ticks' = ticks
  BY <1>1 DEF dbVars
<1>7. TableTicks'
  BY <1>1 DEF TableTicks, RowsAt, dbVars
<1>8. /\ \A r \in table : r.ts \in Nat /\ r.id \in Nat /\ r.ts <= ticks
      /\ \A w \in Writers : \A q \in tx[w] : q.ts \in Nat /\ \A r \in table : r.ts < q.ts
  BY DEF DbInv, Row, TableTicks
<1>9. PICK r \in table : r \in s.rows /\ r.ts = s.ts
  BY DEF StreamTicks
<1>10. s.ts <= ticks /\ \A w \in Writers : \A q \in tx[w] : s.ts < q.ts
  BY <1>8, <1>9
<1>11. ASSUME NEW q \in table, q.id > maxID PROVE s.ts < q.ts
  <2>1. r.id <= maxID
    BY <1>9 DEF StreamInv
  <2>2. ~(q.ts < r.ts)
    BY <1>3, <1>8, <1>11, <2>1 DEF TableTicks
  <2>3. q.ts # r.ts
    BY <1>3, <1>8, <1>11, <2>1 DEF StreamTicks, CutAt
  <2> QED
    BY <1>8, <1>9, <2>2, <2>3
<1>12. ASSUME NEW o \in batch' PROVE s.ts < o.ts
  <2>1. o \in batch /\ o # s
    BY <1>2, <1>12
  <2>2. PICK p \in s.rows : \A q \in o.rows : p.id <= q.id
    BY <1>2, <2>1 DEF First
  <2>3. PICK q \in o.rows : q \in table /\ q.ts = o.ts
    BY <2>1 DEF StreamTicks
  <2>4. p \in table /\ p.ts = s.ts
    BY <2>2 DEF StreamTicks
  <2>5. ~(q.ts < p.ts)
    BY <1>8, <2>2, <2>3, <2>4 DEF TableTicks
  <2>6. o.ts # s.ts
    BY <2>1 DEF StreamTicks
  <2> QED
    BY <1>8, <2>3, <2>4, <2>5, <2>6
<1>13. \A k \in DOMAIN sent' :
          /\ sent'[k].ts <= ticks
          /\ \A w \in Writers : \A q \in tx[w] : sent'[k].ts < q.ts
          /\ \A q \in table : q.id > maxID => sent'[k].ts < q.ts
          /\ \A o \in batch' : sent'[k].ts < o.ts
  <2> SUFFICES ASSUME NEW k \in DOMAIN sent'
               PROVE  /\ sent'[k].ts <= ticks
                      /\ \A w \in Writers : \A q \in tx[w] : sent'[k].ts < q.ts
                      /\ \A q \in table : q.id > maxID => sent'[k].ts < q.ts
                      /\ \A o \in batch' : sent'[k].ts < o.ts
    OBVIOUS
  <2>1. CASE k \in DOMAIN sent /\ sent'[k] = sent[k]
    BY <1>2, <1>3, <2>1 DEF StreamTicks
  <2>2. CASE sent'[k] = s
    BY <1>10, <1>11, <1>12, <2>2
  <2> QED
    BY <1>5, <2>1, <2>2
<1>14. SamplesInOrder'
  <2> SUFFICES ASSUME NEW j \in DOMAIN sent', NEW k \in DOMAIN sent', j < k
               PROVE  sent'[j].ts < sent'[k].ts
    BY DEF SamplesInOrder
  <2>1. j \in DOMAIN sent /\ sent'[j] = sent[j]
    BY <1>4, <1>5
  <2>2. CASE k \in DOMAIN sent /\ sent'[k] = sent[k]
    BY <2>1, <2>2 DEF StreamTicks, SamplesInOrder
  <2>3. CASE sent'[k] = s
    BY <2>1, <2>3 DEF StreamTicks
  <2> QED
    BY <1>5, <2>2, <2>3
<1>15. CutAt(Reached)'
  BY <1>3, <1>6 DEF StreamTicks, CutAt
<1>16. /\ \A o \in batch' : /\ o.rows # {} /\ o.rows \subseteq table'
                            /\ \A q \in o.rows : q.ts = o.ts
       /\ \A o, p \in batch' : o # p => o.ts # p.ts
  BY <1>2, <1>6 DEF StreamTicks
<1>17. StreamTicks'
  BY <1>3, <1>6, <1>13, <1>14, <1>15, <1>16 DEF StreamTicks
<1> QED
  BY <1>7, <1>17

LEMMA NextTicks ==
  ASSUME \A v, w \in Writers : v = w, NEW n \in Nat, Limit = n * RowsPerTick
  PROVE  DbInv /\ StreamInv /\ FaultTypes /\ OrderInv /\ TableTicks /\ StreamTicks /\ [Next]_vars
            /\ Undisturbed' => TableTicks' /\ StreamTicks'
<1> SUFFICES ASSUME DbInv, StreamInv, FaultTypes, OrderInv, TableTicks, StreamTicks, [Next]_vars,
                    Undisturbed'
             PROVE  TableTicks' /\ StreamTicks'
  OBVIOUS
<1>1. ASSUME UNCHANGED vars PROVE TableTicks' /\ StreamTicks'
  BY <1>1, QuietTicks DEF vars, watcherVars
<1>2. ASSUME Disconnect \/ InitFails \/ Connect \/ Wake \/ WaitFails \/ CallFails \/ Backoff
      PROVE  TableTicks' /\ StreamTicks'
  BY <1>2, QuietTicks DEF Disconnect, InitFails, Connect, Wake, WaitFails, CallFails, Backoff,
                          watcherVars
<1>3. ~ Truncate /\ ~ Seed
  BY WasUndisturbed
<1>4. ASSUME NEW w \in Writers, Writer(w) PROVE TableTicks' /\ StreamTicks'
  BY <1>4, InsertTicks, CommitTicks, AbortTicks DEF Writer
<1>5. ASSUME Query PROVE TableTicks' /\ StreamTicks'
  BY <1>5, QueryTicks
<1> QED
  BY <1>1, <1>2, <1>3, <1>4, <1>5, InitLastIDTicks, EmitTicks, DrainEndTicks, RestartTicks
  DEF Next, Run, Fault

\* Theorem: with at most one writer, and until a seed run touches the table, a
\* tick's rows are streamed as one sample, and later ticks later (watcher.go:
\* 89-90), however long the backlog is, as long as the page's length is a
\* multiple of a tick's: 5000 and 10 in the code.
THEOREM OneWriterInOrder ==
  ASSUME \A v, w \in Writers : v = w, \E n \in Nat : Limit = n * RowsPerTick
  PROVE  Spec => []TicksInOrder
<1> DEFINE Tidy == OrderInv /\ TableTicks /\ StreamTicks
           Inv == DbInv /\ StreamInv /\ FaultTypes /\ (Undisturbed => Tidy)
<1>1. Init => Inv
  BY InitDb, InitStream, InitOrder, InitTicks
<1>2. Inv /\ [Next]_vars => Inv'
  <2>1. DbInv /\ StreamInv /\ FaultTypes /\ OrderInv /\ [Next]_vars /\ Undisturbed' => OrderInv'
    BY NextOrder
  <2>2. DbInv /\ StreamInv /\ FaultTypes /\ Tidy /\ [Next]_vars /\ Undisturbed'
          => TableTicks' /\ StreamTicks'
    BY NextTicks
  <2> QED
    BY <2>1, <2>2, NextDb, NextStream, NextFaults, WasUndisturbed
<1>3. Inv => TicksInOrder
  BY DEF StreamTicks, TicksInOrder
<1> QED
  BY <1>1, <1>2, <1>3, PTL DEF Spec
=============================================================================
