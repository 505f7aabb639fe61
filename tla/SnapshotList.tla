---------------------------- MODULE SnapshotList ----------------------------
(***************************************************************************)
(* The list of snapshots in the browser and the dialog that saves one       *)
(* (lib/snapshots.svelte.ts, views/Snapshots.svelte, SnapshotModal.svelte). *)
(* A request is sent, served and answered; requests that are under way      *)
(* together are served and answered in any order, and each may fail, before *)
(* or after the server has done its part.  The view may be left while a     *)
(* save is under way: `instance' numbers the views that were mounted.       *)
(* SnapshotViewer follows one snapshot with its comments.                   *)
(***************************************************************************)
EXTENDS SettingsStore

VARIABLES
    server,          \* the snapshots there are, a set of records
    snapshots,       \* snapshotStore.snapshots, by their ids
    loading, failed, \* snapshotStore.loading, and .error as a flag
    requests,        \* the requests under way
    sent,            \* the number of requests so far, which names the next
    modal,           \* the dialog of the mounted view
    instance,        \* the number of the view that was mounted last
    calm             \* history: since a list that was asked for alone, nothing
                     \* overlapped and nothing was lost

listVars == <<server, snapshots, loading, failed, requests, sent, modal, instance, calm>>

None == [none |-> TRUE]

\* The effect of SnapshotModal when `open' is false, and its first state; a
\* save that is under way is not forgotten.
Closed(saving) ==
    [open |-> FALSE, captured |-> None, selected |-> Metrics, named |-> FALSE,
     saving |-> saving, failed |-> FALSE, range |-> 0, openedAt |-> 0]

Send(kind, arg, alone) ==
    /\ requests' = alone \cup {[no |-> sent + 1, kind |-> kind, arg |-> arg,
                                from |-> instance', state |-> "sent", answer |-> {}]}
    /\ sent' = sent + 1

\* loadSnapshots, up to its await; `others' are the requests still under way.
LoadSnapshots(others) ==
    /\ Send("list", None, others)
    /\ loading' = TRUE /\ failed' = FALSE
    /\ calm' = (others = {})

\* onMount of Snapshots.svelte.
MountList ==
    /\ instance' = instance + 1
    /\ modal' = Closed(FALSE)
    /\ LoadSnapshots(requests)
    /\ UNCHANGED <<server, snapshots>>

\* The button that opens the dialog, after n frames: its effect reads the
\* default range.
OpenModal(n) ==
    /\ ~modal.open
    /\ modal' = [modal EXCEPT !.open = TRUE, !.range = current.range, !.openedAt = n]
    /\ UNCHANGED <<server, snapshots, loading, failed, requests, sent, instance, calm>>

\* Cancel, or a click beside the dialog.
CloseModal ==
    /\ modal.open
    /\ modal' = Closed(modal.saving)
    /\ UNCHANGED <<server, snapshots, loading, failed, requests, sent, instance, calm>>

\* Mutant: the handler of frames is not removed.
Capture_KeepHandler(n, frame) ==
    IF modal.open
    THEN [modal EXCEPT !.captured = [frame |-> n, metrics |-> DOMAIN frame]]
    ELSE modal

\* The frame handler of the dialog, which removes itself: it copies the first
\* frame there is, with its number n.
Capture(n, frame) ==
    IF modal.open /\ modal.captured = None
    THEN [modal EXCEPT !.captured = [frame |-> n, metrics |-> DOMAIN frame]]
    ELSE modal

\* toggleMetric, selectAll, deselectAll, and typing a name.
EditModal ==
    /\ modal.open
    /\ \/ \E m \in Metrics :
            modal' = [modal EXCEPT !.selected = IF m \in @ THEN @ \ {m} ELSE @ \cup {m}]
       \/ modal' = [modal EXCEPT !.selected = Metrics]
       \/ modal' = [modal EXCEPT !.selected = {}]
       \/ modal' = [modal EXCEPT !.named = ~@]
    /\ UNCHANGED <<server, snapshots, loading, failed, requests, sent, instance, calm>>

MayPressSave ==
    modal.open /\ ~modal.saving /\ modal.captured # None /\ modal.selected # {}

\* handleSave of a form that validateForm refuses ...
SaveRefused ==
    /\ MayPressSave
    /\ ~modal.named
    /\ modal' = [modal EXCEPT !.failed = TRUE]
    /\ UNCHANGED <<server, snapshots, loading, failed, requests, sent, instance, calm>>

\* ... and of one it takes, up to the await, with createSnapshot.
Save ==
    /\ MayPressSave
    /\ modal.named
    /\ modal' = [modal EXCEPT !.saving = TRUE, !.failed = FALSE]
    /\ UNCHANGED instance
    /\ Send("save", [frame |-> modal.captured.frame, openedAt |-> modal.openedAt,
                     metrics |-> modal.selected, range |-> modal.range,
                     data |-> modal.selected \cap modal.captured.metrics], requests)
    /\ loading' = TRUE /\ failed' = FALSE
    /\ calm' = (calm /\ requests = {})
    /\ UNCHANGED <<server, snapshots>>

\* handleDelete of a card that is shown, up to the await of deleteSnapshot.
Delete(id) ==
    /\ id \in snapshots /\ ~loading /\ ~failed
    /\ UNCHANGED instance
    /\ Send("delete", [id |-> id], requests)
    /\ calm' = (calm /\ requests = {})
    /\ UNCHANGED <<server, snapshots, loading, failed, modal>>

IdsOf(set) == {s.id : s \in set}
With(r, new) == requests' = (requests \ {r}) \cup {new}

\* The server's part: a save is given a new id, a delete of one that is gone
\* is refused.
Serve(r) ==
    /\ r.state = "sent"
    /\ \/ /\ r.kind = "list"
          /\ With(r, [r EXCEPT !.state = "served", !.answer = IdsOf(server)])
          /\ UNCHANGED server
       \/ /\ r.kind = "save"
          /\ With(r, [r EXCEPT !.state = "served"])
          /\ server' = server \cup {[id |-> r.no, saved |-> r.arg]}
       \/ /\ r.kind = "delete"
          /\ With(r, [r EXCEPT !.state = IF r.arg.id \in IdsOf(server) THEN "served" ELSE "failed"])
          /\ server' = {s \in server : s.id # r.arg.id}
    /\ UNCHANGED <<snapshots, loading, failed, sent, modal, instance, calm>>

\* The request or its response is lost, or the server answers with an error.
Lose(r) ==
    /\ r.state \in {"sent", "served"}
    /\ With(r, [r EXCEPT !.state = "failed"])
    /\ calm' = FALSE
    /\ UNCHANGED <<server, snapshots, loading, failed, sent, modal, instance>>

\* The rest of loadSnapshots.
ListAnswered(r) ==
    /\ r.kind = "list" /\ r.state \in {"served", "failed"}
    /\ requests' = requests \ {r}
    /\ snapshots' = IF r.state = "served" THEN r.answer ELSE snapshots
    /\ failed' = (failed \/ r.state = "failed")
    /\ loading' = FALSE
    /\ UNCHANGED <<server, sent, modal, instance, calm>>

\* Mutant: the card stays.
DeleteAnswered_KeepCard(r) ==
    /\ r.kind = "delete" /\ r.state \in {"served", "failed"}
    /\ requests' = requests \ {r}
    /\ UNCHANGED <<server, snapshots, loading, failed, sent, modal, instance, calm>>

\* The rest of deleteSnapshot: a failure is not reported.
DeleteAnswered(r) ==
    /\ r.kind = "delete" /\ r.state \in {"served", "failed"}
    /\ requests' = requests \ {r}
    /\ snapshots' = IF r.state = "served" THEN snapshots \ {r.arg.id} ELSE snapshots
    /\ UNCHANGED <<server, loading, failed, sent, modal, instance, calm>>

\* The rest of createSnapshot and handleSave, once the save succeeded: onSaved
\* closes the dialog of the view that sent it, a dialog opened again meanwhile
\* included, and loads the list, also when that view is gone.
SaveDone(r) ==
    /\ r.kind = "save" /\ r.state = "served"
    /\ modal' = IF r.from = instance THEN Closed(FALSE) ELSE modal
    /\ UNCHANGED instance
    /\ LoadSnapshots(requests \ {r})
    /\ UNCHANGED <<server, snapshots>>

SaveFailed(r) ==
    /\ r.kind = "save" /\ r.state = "failed"
    /\ requests' = requests \ {r}
    /\ loading' = FALSE /\ failed' = TRUE
    /\ modal' = IF r.from = instance
                THEN [modal EXCEPT !.saving = FALSE, !.failed = TRUE]
                ELSE modal
    /\ UNCHANGED <<server, snapshots, sent, instance, calm>>
=============================================================================
