------------------------------ MODULE Watcher ------------------------------
(***************************************************************************)
(* The database-driven pipeline: cmd/writer inserts one row per metric in  *)
(* a transaction that ends with a NOTIFY, internal/watcher LISTENs, reads  *)
(* the rows after lastID and broadcasts one sample per timestamp.  cmd/seed*)
(* (db.Bulk) may load rows, or truncate the table, under a running watcher.*)
(*                                                                         *)
(* A row is an id and the time of the tick it belongs to; the value and    *)
(* the metric's name tell nothing apart here.  A tick's time is its rank.  *)
(* PostgreSQL is external: an id is allocated when a row is inserted, a    *)
(* row becomes visible when its transaction commits, a NOTIFY reaches the  *)
(* sessions listening at that moment, and the sequence of a truncated      *)
(* table restarts.                                                         *)
(***************************************************************************)
EXTENDS Integers, Sequences, FiniteSets

CONSTANTS Writers,      \* the running cmd/writer processes
          RowsPerTick,  \* len(db.MetricNames)
          Limit,        \* the LIMIT of drain's query, 5000 in the code
          Attempts,     \* the attempts of initLastID, 5 in the code
          MaxTicks,     \* bound: ticks and seeded rows
          MaxFailures,  \* bound: database errors the watcher meets
          MaxSeeded,    \* bound: rows loaded by db.Bulk
          MaxTruncates, \* bound: runs of `seed --reset'
          MaxRestarts   \* bound: restarts of the server

ASSUME WatcherAssumption ==
    /\ RowsPerTick \in Nat \ {0}
    /\ Limit \in Nat \ {0}
    /\ Attempts \in Nat \ {0}
    /\ {MaxTicks, MaxFailures, MaxSeeded, MaxTruncates, MaxRestarts} \subseteq Nat

VARIABLES table,     \* the committed rows of metrics
          nextId,    \* the sequence behind metrics.id
          ticks,     \* how many times have been given out
          tx,        \* the rows a writer has inserted and not committed
          listening, \* the watcher's connection is up and has run LISTEN
          notifs,    \* the notifications it has not consumed
          wpc,       \* where the watcher's goroutine is
          lastID,    \* Run's lastID
          attempt,   \* initLastID's attempts that failed
          delay,     \* Run's backoff, in seconds
          batch,     \* the samples drain has read and not yet broadcast
          maxID,     \* drain's maxID
          sent,      \* what this process has handed to Hub.Broadcast, in order
          old,       \* the rows committed when the process started, then
                     \* those committed when initLastID read MAX(id)
          faults     \* how much of the environment's bounds is used

dbVars == <<table, nextId, ticks, tx>>
connVars == <<listening, notifs>>
watcherVars == <<wpc, lastID, attempt, delay, batch, maxID, sent, old>>
vars == <<dbVars, connVars, watcherVars, faults>>

RowsOf(samples) == UNION {s.rows : s \in samples}
Emitted == RowsOf({sent[k] : k \in DOMAIN sent})

Init ==
    /\ table = {}
    /\ nextId = 1
    /\ ticks = 0
    /\ tx = [w \in Writers |-> {}]
    /\ listening = FALSE
    /\ notifs = 0
    /\ wpc = "init"
    /\ lastID = 0
    /\ attempt = 0
    /\ delay = 1
    /\ batch = {}
    /\ maxID = 0
    /\ sent = <<>>
    /\ old = {}
    /\ faults = [failures |-> 0, seeded |-> 0, truncates |-> 0, restarts |-> 0]

-----------------------------------------------------------------------------
(* cmd/writer: pgx sends the batch as one implicit transaction. *)

TimeOf(w) == IF tx[w] = {} THEN ticks + 1 ELSE (CHOOSE r \in tx[w] : TRUE).ts

\* An INSERT of the batch; the first one opens the tick's transaction.
Insert(w) ==
    /\ Cardinality(tx[w]) < RowsPerTick
    /\ TimeOf(w) <= MaxTicks
    /\ tx' = [tx EXCEPT ![w] = @ \cup {[id |-> nextId, ts |-> TimeOf(w)]}]
    /\ nextId' = nextId + 1
    /\ ticks' = IF tx[w] = {} THEN ticks + 1 ELSE ticks
    /\ UNCHANGED <<table, connVars, watcherVars, faults>>

\* The NOTIFY closes the batch; both take effect at the commit.
Commit(w) ==
    /\ Cardinality(tx[w]) = RowsPerTick
    /\ table' = table \cup tx[w]
    /\ tx' = [tx EXCEPT ![w] = {}]
    /\ notifs' = IF listening THEN notifs + 1 ELSE notifs
    /\ UNCHANGED <<nextId, ticks, listening, watcherVars, faults>>

\* br.Close returns an error: the tick is lost and its ids are not reused.
Abort(w) ==
    /\ tx[w] # {}
    /\ tx' = [tx EXCEPT ![w] = {}]
    /\ UNCHANGED <<table, nextId, ticks, connVars, watcherVars, faults>>

-----------------------------------------------------------------------------
(* db.Bulk, run by cmd/seed: no NOTIFY. *)

\* TRUNCATE ... RESTART IDENTITY waits for the transactions on the table.
Truncate ==
    /\ faults.truncates < MaxTruncates
    /\ \A w \in Writers : tx[w] = {}
    /\ table' = {}
    /\ nextId' = 1
    /\ faults' = [faults EXCEPT !.truncates = @ + 1]
    /\ UNCHANGED <<ticks, tx, connVars, watcherVars>>

\* A COPY: the times of seeded rows belong to no tick of a writer.
Seed ==
    /\ faults.seeded < MaxSeeded
    /\ ticks < MaxTicks
    /\ table' = table \cup {[id |-> nextId, ts |-> ticks + 1]}
    /\ nextId' = nextId + 1
    /\ ticks' = ticks + 1
    /\ faults' = [faults EXCEPT !.seeded = @ + 1]
    /\ UNCHANGED <<tx, connVars, watcherVars>>

-----------------------------------------------------------------------------
(* The watcher: Run, initLastID, loop and drain. *)

\* The environment may still make one more database call fail.
Failure ==
    /\ faults.failures < MaxFailures
    /\ faults' = [faults EXCEPT !.failures = @ + 1]

\* COALESCE(MAX(id), 0)
MaxId == IF table = {} THEN 0
         ELSE (CHOOSE r \in table : \A q \in table : q.id <= r.id).id

\* Mutant: the watcher starts from the beginning of the table.
InitLastID_Zero ==
    /\ wpc = "init"
    /\ lastID' = 0
    /\ old' = table
    /\ wpc' = "connect"
    /\ UNCHANGED <<dbVars, connVars, attempt, delay, batch, maxID, sent, faults>>

InitLastID ==
    /\ wpc = "init"
    /\ lastID' = MaxId
    /\ old' = table
    /\ wpc' = "connect"
    /\ UNCHANGED <<dbVars, connVars, attempt, delay, batch, maxID, sent, faults>>

\* After its last attempt initLastID returns an error, and Run goes on.
InitFails ==
    /\ wpc = "init"
    /\ Failure
    /\ attempt' = attempt + 1
    /\ wpc' = IF attempt + 1 = Attempts THEN "connect" ELSE "init"
    /\ UNCHANGED <<dbVars, connVars, lastID, delay, batch, maxID, sent, old>>

\* Mutant: no initial drain, loop waits for a notification at once.
Connect_NoDrain ==
    /\ wpc = "connect"
    /\ listening' = TRUE
    /\ notifs' \in {0, notifs}
    /\ wpc' = "wait"
    /\ UNCHANGED <<dbVars, lastID, attempt, delay, batch, maxID, sent, old, faults>>

\* Acquire and LISTEN.  The pool may hand back the connection the previous
\* loop released, with the notifications it had not consumed.
Connect ==
    /\ wpc = "connect"
    /\ listening' = TRUE
    /\ notifs' \in {0, notifs}
    /\ wpc' = "drain"
    /\ UNCHANGED <<dbVars, lastID, attempt, delay, batch, maxID, sent, old, faults>>

\* Acquire, LISTEN or the query of drain fails: loop returns, and its
\* connection goes back to the pool.
CallFails ==
    /\ wpc \in {"connect", "drain"}
    /\ Failure
    /\ wpc' = "backoff"
    /\ UNCHANGED <<dbVars, connVars, lastID, attempt, delay, batch, maxID, sent, old>>

\* The listening session ends: its notifications are lost with it.
Disconnect ==
    /\ listening
    /\ Failure
    /\ listening' = FALSE
    /\ notifs' = 0
    /\ UNCHANGED <<dbVars, watcherVars>>

Backlog == {r \in table : r.id > lastID}

\* Mutant: the page has one row more than the LIMIT of whole ticks.
Page_OneMore == {r \in Backlog : Cardinality({q \in Backlog : q.id < r.id}) <= Limit}

\* ORDER BY id ASC LIMIT
Page == {r \in Backlog : Cardinality({q \in Backlog : q.id < r.id}) < Limit}

\* One sample per timestamp.
Grouped(rows) ==
    {[ts |-> t, rows |-> {r \in rows : r.ts = t}] : t \in {r.ts : r \in rows}}

\* drain's SELECT and its scan, grouped by timestamp.
Query ==
    /\ wpc = "drain"
    /\ batch' = Grouped(Page)
    /\ maxID' = IF Page = {} THEN lastID
                ELSE (CHOOSE r \in Page : \A q \in Page : q.id <= r.id).id
    /\ wpc' = "emit"
    /\ UNCHANGED <<dbVars, connVars, lastID, attempt, delay, sent, old, faults>>

\* s was met first in the scan: `ordered' keeps that order.
First(s) == \A o \in batch : \E r \in s.rows : \A q \in o.rows : r.id <= q.id

\* h.Broadcast of the next sample.
Emit ==
    /\ wpc = "emit"
    /\ \E s \in batch :
        /\ First(s)
        /\ sent' = Append(sent, s)
        /\ batch' = batch \ {s}
    /\ UNCHANGED <<dbVars, connVars, wpc, lastID, attempt, delay, maxID, old, faults>>

\* Mutant: lastID is not advanced.
DrainEnd_Stay ==
    /\ wpc = "emit"
    /\ batch = {}
    /\ wpc' = "wait"
    /\ UNCHANGED <<dbVars, connVars, lastID, attempt, delay, batch, maxID, sent, old, faults>>

\* Mutant: lastID jumps to what the table holds now, not to what was read.
DrainEnd_Jump ==
    /\ wpc = "emit"
    /\ batch = {}
    /\ lastID' = MaxId
    /\ wpc' = "wait"
    /\ UNCHANGED <<dbVars, connVars, attempt, delay, batch, maxID, sent, old, faults>>

\* *lastID = maxID
DrainEnd ==
    /\ wpc = "emit"
    /\ batch = {}
    /\ lastID' = maxID
    /\ wpc' = "wait"
    /\ UNCHANGED <<dbVars, connVars, attempt, delay, batch, maxID, sent, old, faults>>

\* WaitForNotification returns one notification.
Wake ==
    /\ wpc = "wait"
    /\ notifs > 0
    /\ notifs' = notifs - 1
    /\ wpc' = "drain"
    /\ UNCHANGED <<dbVars, listening, lastID, attempt, delay, batch, maxID, sent, old, faults>>

\* WaitForNotification returns an error.
WaitFails ==
    /\ wpc = "wait"
    /\ ~listening
    /\ wpc' = "backoff"
    /\ UNCHANGED <<dbVars, connVars, lastID, attempt, delay, batch, maxID, sent, old, faults>>

\* Run sleeps, doubles a delay below ten seconds, and calls loop again.
Backoff ==
    /\ wpc = "backoff"
    /\ delay' = IF delay < 10 THEN 2 * delay ELSE delay
    /\ wpc' = "connect"
    /\ UNCHANGED <<dbVars, connVars, lastID, attempt, batch, maxID, sent, old, faults>>

\* The server process ends, at any moment, and is started again.
Restart ==
    /\ faults.restarts < MaxRestarts
    /\ faults' = [faults EXCEPT !.restarts = @ + 1]
    /\ listening' = FALSE
    /\ notifs' = 0
    /\ wpc' = "init"
    /\ lastID' = 0
    /\ attempt' = 0
    /\ delay' = 1
    /\ batch' = {}
    /\ maxID' = 0
    /\ sent' = <<>>
    /\ old' = table
    /\ UNCHANGED dbVars

-----------------------------------------------------------------------------
Writer(w) == Insert(w) \/ Commit(w) \/ Abort(w)

\* What the watcher does when no database call fails.
Run == InitLastID \/ Connect \/ Query \/ Emit \/ DrainEnd \/ Wake \/ WaitFails \/ Backoff

Fault == InitFails \/ CallFails \/ Disconnect \/ Truncate \/ Seed \/ Restart

Next == Run \/ Fault \/ \E w \in Writers : Writer(w)

Spec == Init /\ [][Next]_vars

\* The watcher's goroutine keeps running; nobody has to write anything.
FairSpec == Spec /\ WF_vars(Run)
-----------------------------------------------------------------------------

\* Rows committed before lastID was seeded are never streamed, history is
\* served by /api/history (watcher.go:8-11), unless initLastID has given up and
\* left lastID at 0 (watcher.go:38-40).
NoReplay == attempt < Attempts => Emitted \cap old = {}

\* No row is broadcast twice by one process, whatever fails between the query
\* and the assignment of lastID, and however often the watcher reconnects.
AtMostOnce ==
    \A j, k \in DOMAIN sent : j # k => sent[j].rows \cap sent[k].rows = {}

\* No cmd/seed has loaded or truncated the table beside the writers.
Undisturbed == faults.seeded = 0 /\ faults.truncates = 0

PassedIsStreamed == \A r \in table : r.id <= lastID => r \in old \cup Emitted

SamplesInOrder == \A j, k \in DOMAIN sent : j < k => sent[j].ts < sent[k].ts

\* With one writer, lastID never moves past a row nobody has broadcast: what is
\* behind it is history or has been streamed (watcher.go:149), although drain
\* reads pages, fails between any two calls and meets aborted ticks.
NothingSkipped == Undisturbed => PassedIsStreamed

\* cmd/writer says that the watcher sees every row, also with several writers
\* (writer/main.go:7-8): once drain has moved lastID past a row that is newer
\* than all that was committed when the watcher read MAX(id), it has been
\* broadcast.
NewRowsSeen ==
    \A r \in table :
        r.id <= lastID /\ (\A o \in old : o.id < r.id) => r \in Emitted

\* With one writer the rows of a tick are streamed as one sample (watcher.go:
\* 89-90), and a client of the hub never sees time go back, although the pages
\* of drain cut a backlog of more than Limit rows.
TicksInOrder == Undisturbed => SamplesInOrder

\* Every committed row is history, or is streamed in the end: "broadcasts every
\* new row" (watcher.go:1-2), "reads every row with id > *lastID" (89).
EveryRowIsStreamed ==
    \A i \in 1..MaxTicks * RowsPerTick, t \in 1..MaxTicks :
        LET r == [id |-> i, ts |-> t] IN
        r \in table ~> r \notin table \/ r \in old \cup Emitted

\* drain finds no more rows than it reads at once.
KeepsUp == wpc = "drain" => Cardinality(Backlog) <= Limit

\* Every row of one writer is history or is streamed in the end, also when its
\* NOTIFY was lost with the connection (watcher.go:72-74), as long as no backlog
\* is longer than the page of drain: what is beyond the LIMIT waits for a NOTIFY
\* that may never come.
EventuallyStreamed == [](KeepsUp /\ Undisturbed) => EveryRowIsStreamed

=============================================================================
