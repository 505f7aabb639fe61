----------------------------- MODULE Snapshots -----------------------------
(***************************************************************************)
(* Snapshots and their comments in the server: the REST handlers           *)
(* (internal/handler/snapshots.go), their statements (internal/db) and the *)
(* retention loop.  A handler takes one step per database statement, so    *)
(* other requests and the retention run between them.                      *)
(*                                                                         *)
(* A snapshot is its id; ids and creation times come in the same order, so *)
(* "newest" is "greatest id".  Its payload, and the author and body of a   *)
(* comment, tell nothing apart; a request that is refused before it has    *)
(* done anything is left out.                                              *)
(***************************************************************************)
EXTENDS Naturals, FiniteSets

CONSTANTS MaxSnapshots, \* the cap of pruneSnapshots, 500 in the code
          Made,         \* bound: snapshots ever created
          Posters,      \* who posts comments, each one at a time
          OldSnaps,     \* bound: snapshots in the database at the start
          OldComments,  \* bound: comments on the newest of them
          MaxComments   \* bound: comments ever inserted

ASSUME SnapshotsAssumption ==
    /\ {MaxSnapshots, Made, OldSnaps, OldComments, MaxComments} \subseteq Nat
    /\ OldComments > 0 => OldSnaps > 0

VARIABLES snaps,     \* the rows of snapshots
          lastSnap,  \* the sequence behind snapshots.id
          comments,  \* the rows of snapshot_comments
          lastComment, \* the sequence behind snapshot_comments.id
          posts      \* where the handler of each poster's POST is

server == <<snaps, lastSnap, comments, lastComment, posts>>

Comment == [id : Nat, snap : Nat]
Idle == [pc |-> "idle", snap |-> 0, id |-> 0]

ServerInit ==
    /\ lastSnap = OldSnaps
    /\ snaps = 1 .. OldSnaps
    /\ lastComment = OldComments
    /\ comments = [id : 1 .. OldComments, snap : {OldSnaps}]
    /\ posts = [p \in Posters |-> Idle]

\* db.CreateSnapshot
InsertSnapshot ==
    /\ lastSnap' = lastSnap + 1
    /\ snaps' = snaps \cup {lastSnap + 1}

\* POST /api/snapshots
CreateSnapshot ==
    /\ lastSnap < Made
    /\ InsertSnapshot
    /\ UNCHANGED <<comments, lastComment, posts>>

\* Every DELETE of snapshots takes the comments along: ON DELETE CASCADE.
Delete(gone) ==
    /\ snaps' = snaps \ gone
    /\ comments' = {c \in comments : c.snap \notin gone}

\* db.GetSnapshot finds the row.
GetSnapshot(s) == s \in snaps

\* DELETE /api/snapshots/:id; without a row it changes nothing.
DeleteSnapshot(s) ==
    /\ GetSnapshot(s)
    /\ Delete({s})
    /\ UNCHANGED <<lastSnap, lastComment, posts>>

Newest(n) == {s \in snaps : Cardinality({t \in snaps : t > s}) < n}

\* The two statements of pruneSnapshots.  The second runs even if the first
\* failed or found nothing, and either may fail: nothing ties them together.
\* First, whatever is older than the cutoff;
PruneOld(cutoff) ==
    /\ Delete({s \in snaps : s <= cutoff})
    /\ UNCHANGED <<lastSnap, lastComment, posts>>

\* then, whatever is beyond the cap.
PruneCap ==
    /\ Delete(snaps \ Newest(MaxSnapshots))
    /\ UNCHANGED <<lastSnap, lastComment, posts>>

RunRetention == (\E s \in snaps : PruneOld(s)) \/ PruneCap

-----------------------------------------------------------------------------
(* POST /api/snapshots/:id/comments: look up, insert, announce, answer. *)

At(p, pc, s, c) == posts' = [posts EXCEPT ![p] = [pc |-> pc, snap |-> s, id |-> c]]

\* GetSnapshot finds the snapshot; otherwise the answer is 404 and nothing is
\* left of the request.
LookUp(p, s) ==
    /\ posts[p].pc = "idle"
    /\ GetSnapshot(s)
    /\ At(p, "found", s, 0)
    /\ UNCHANGED <<snaps, lastSnap, comments, lastComment>>

\* The body is refused (400), or the INSERT fails for another reason (500).
Refuse(p) ==
    /\ posts[p].pc = "found"
    /\ posts' = [posts EXCEPT ![p] = Idle]
    /\ UNCHANGED <<snaps, lastSnap, comments, lastComment>>

\* db.CreateComment, when the row is accepted.
InsertRow(s) ==
    /\ lastComment' = lastComment + 1
    /\ comments' = comments \cup {[id |-> lastComment + 1, snap |-> s]}

\* Mutant: the table has no foreign key.
InsertComment_NoForeignKey(p) ==
    /\ posts[p].pc = "found"
    /\ lastComment < MaxComments
    /\ InsertRow(posts[p].snap)
    /\ At(p, "stored", posts[p].snap, lastComment + 1)
    /\ UNCHANGED <<snaps, lastSnap>>

\* The snapshot may have been deleted since: the foreign key refuses the row
\* (the id is spent all the same) and the answer is 500.  The row gets its id and
\* is seen in one step: of two INSERTs that run at the same moment the one with
\* the smaller id is committed first.
InsertComment(p) ==
    /\ posts[p].pc = "found"
    /\ lastComment < MaxComments
    /\ IF posts[p].snap \in snaps
       THEN /\ InsertRow(posts[p].snap)
            /\ At(p, "stored", posts[p].snap, lastComment + 1)
       ELSE /\ lastComment' = lastComment + 1
            /\ posts' = [posts EXCEPT ![p] = Idle]
            /\ UNCHANGED comments
    /\ UNCHANGED <<snaps, lastSnap>>

\* h.Broadcast, then the answer 201.  Who hears it is the composition's.
Announce(p) ==
    /\ posts[p].pc = "stored"
    /\ posts' = [posts EXCEPT ![p] = Idle]
    /\ UNCHANGED <<snaps, lastSnap, comments, lastComment>>

ServerNext ==
    \/ CreateSnapshot
    \/ \E s \in snaps : DeleteSnapshot(s)
    \/ RunRetention
    \/ \E p \in Posters, s \in snaps : LookUp(p, s)
    \/ \E p \in Posters : Refuse(p) \/ InsertComment(p)

-----------------------------------------------------------------------------
ServerTypeOK ==
    /\ snaps \subseteq Nat
    /\ lastSnap \in Nat
    /\ comments \subseteq Comment
    /\ lastComment \in Nat
    /\ posts \in [Posters -> [pc : {"idle", "found", "stored"},
                            snap : Nat, id : Nat]]

\* A comment never outlives its snapshot, although the handler looks the
\* snapshot up in one statement and inserts in another while DELETE requests
\* and the retention run.
NoOrphans == \A c \in comments : c.snap \in snaps
=============================================================================
