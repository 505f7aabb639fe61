----------------------------- MODULE Dashboard -----------------------------
(***************************************************************************)
(* The page of the Svelte dashboard: the router and its views, the frames   *)
(* the data worker sends, the range the views ask of the worker, and the    *)
(* stores they share (AlertStore, SettingsStore, SnapshotList).  The        *)
(* worker's own work is DataWorker's: here it takes ranges and sends        *)
(* frames, one a second whatever the page does meanwhile.  The views of     *)
(* logs, containers and one snapshot have modules of their own.             *)
(*                                                                         *)
(* A session follows a tour, chosen first, which bounds it: where the user  *)
(* goes, how much he does, and which frames the worker can send.            *)
(***************************************************************************)
EXTENDS SnapshotList, FiniteSetsExt

CONSTANTS
    Tours,         \* bound: the tours; [start, paths, moves, frames], the
                   \* frames as a sequence of sets of frames
    Ranges,        \* TIME_RANGE_PRESETS, by their labels
    AllData,       \* the one of null, with which a worker starts
    GridRange,     \* the window DashboardGrid opens with
    Accents, Endpoints,
    First,         \* METRICS[0]
    HeatmapFirst,  \* the metrics the heatmap shows first
    YRange,        \* METRIC_META[m].yRange, a bound as a set, {} for null
    Cols, Buckets, \* HEATMAP_COLS, HEATMAP_BUCKETS
    LowEdges       \* the <<x, span, n>> for which x * (n / span), in doubles,
                   \* falls short of the whole number it is

ASSUME DashboardAssumption ==
    /\ {GridRange, AllData} \subseteq Ranges
    /\ EnvDefaults \in [endpoints : Endpoints, range : Ranges, accent : Accents]
    /\ First \in Metrics /\ HeatmapFirst \subseteq Metrics /\ HeatmapFirst # {}
    /\ \A t \in Tours :
         /\ \A p \in t.paths \cup {t.start} : p.at # "none"
         /\ \A n \in 1 .. Len(t.frames) : \A f \in t.frames[n] :
              /\ DOMAIN f \subseteq Metrics
              /\ \A m \in DOMAIN f : f[m] \in Seq([t : Int, v : Int])
    /\ \A m \in Metrics :
         /\ \A k \in {1, 2} : YRange[m][k] = {} \/ \E y \in YRange[m][k] : YRange[m][k] = {y}
         /\ YRange[m][1] \cup YRange[m][2] \subseteq Int
         /\ \A lo \in YRange[m][1], hi \in YRange[m][2] : lo <= hi
    /\ Cols \in Nat \ {0} /\ Buckets \in Nat \ {0}
    /\ \A e \in LowEdges : e \in Nat \X (Nat \ {0}) \X (Nat \ {0}) /\ (e[1] * e[3]) % e[2] = 0

VARIABLES
    tour,
    hash,          \* window.location.hash, parsed
    events,        \* the hashchange events that are due
    path,          \* router.path
    view,          \* the state of the mounted view
    toWorker,      \* the setRange messages under way, in order
    range,         \* the range of the worker
    endpoints,     \* the endpoints the worker was built with
    frames,        \* the number of frames so far: the clock
    moves,         \* what the user did so far
    history        \* history: the rules that breached, frame by frame

pageVars == <<hash, events, path, view, toWorker, range, endpoints>>
vars == <<alertVars, settingsVars, listVars, pageVars, tour, frames, moves, history>>

-----------------------------------------------------------------------------
(* A series is a sequence of [t, v]; a frame maps some metrics to theirs.   *)

Last(s) == s[Len(s)]

\* The latest value of the metrics that have one.
Latest(f) == [m \in {m \in DOMAIN f : f[m] # <<>>} |-> Last(f[m]).v]

\* valueBounds of a series that is not empty, in halves.
ValueBounds(s, yRange) ==
    LET values == {s[i].v : i \in DOMAIN s}
        scan   == IF {} \in {yRange[1], yRange[2]} THEN values ELSE {}
        lo == Min(scan \cup yRange[1])
        hi == Max(scan \cup yRange[2])
    IN  IF lo = hi THEN <<2 * lo - 1, 2 * hi + 1>> ELSE <<2 * lo, 2 * hi>>

\* The scale n / (hi - lo) is rounded: on the edge of two cells x may end below
\* it.  Off an edge whole numbers are too far from one to be moved across.
Short(x, lo, hi, n) == IF <<x - lo, hi - lo, n>> \in LowEdges THEN 1 ELSE 0

\* Mutant: what lies on the upper edge gets a cell of its own.
Cell_NoClamp(x, lo, hi, n) == Max({0, ((x - lo) * n - Short(x, lo, hi, n)) \div (hi - lo)})

\* The cell of n between lo and hi in which x lies, clamped to the first and
\* the last.
Cell(x, lo, hi, n) ==
    Max({0, Min({n - 1, ((x - lo) * n - Short(x, lo, hi, n)) \div (hi - lo)})})

\* bucketize: the samples in each cell, over those of the fullest cell of its
\* column, as <<count, most>>; a column without samples is not divided.
\* valueBounds never returns an empty span.
Bucketize(s, lo, hi) ==
    LET t0 == s[1].t
        t1 == Last(s).t
        in(c, b) == {i \in DOMAIN s : /\ Cell(s[i].t, t0, t1, Cols) = c
                                      /\ Cell(2 * s[i].v, lo, hi, Buckets) = b}
        most(c) == Max({Cardinality(in(c, b)) : b \in 0 .. Buckets - 1})
    IN  [c \in 0 .. Cols - 1 |->
           [b \in 0 .. Buckets - 1 |->
              IF most(c) > 0 THEN <<Cardinality(in(c, b)), most(c)>> ELSE <<0, 1>>]]

\* The frame handler of HeatmapChart: a series that is absent or has no span
\* leaves what is drawn.  `of' is history: the series it was made from.
Heat(f, m, old) ==
    IF m \notin DOMAIN f \/ Len(f[m]) < 2 \/ Last(f[m]).t <= f[m][1].t
    THEN old
    ELSE LET bounds == ValueBounds(f[m], YRange[m])
         IN  [of |-> f[m], bounds |-> bounds,
              density |-> Bucketize(f[m], bounds[1], bounds[2])]

-----------------------------------------------------------------------------
(* The views.  App.svelte's chain of conditions is the kind of a path.      *)

\* The metric in the path, METRICS[0] when there is none of that name.
MetricOf(p) == IF p.arg \in Metrics THEN p.arg ELSE First

\* The state a view is mounted with; booted: by the page's start.
NewView(p, settings, booted) ==
    CASE p.at = "metrics" ->
           [kind |-> "metrics", window |-> GridRange, untouched |-> booted, charts |-> {}]
      [] p.at = "explore" ->
           [kind |-> "explore", window |-> settings.range, metric |-> MetricOf(p),
            latest |-> None, chart |-> None]
      [] p.at = "settings" -> [kind |-> "settings", draft |-> settings.endpoints]
      [] p.at = "heatmap" ->
           [kind |-> "heatmap", grids |-> [m \in HeatmapFirst |-> None]]
      [] p.at \in {"/", "alerts"} -> [kind |-> p.at, latest |-> <<>>]
      [] OTHER -> [kind |-> p.at]

HasWindow(v) == v.kind \in {"metrics", "explore"}

\* The effect of a view with a window, each time the window is set: mounting
\* the view sets it too.
PushedBy(v) == IF HasWindow(v) THEN <<v.window>> ELSE <<>>

\* The frame handler of each view.
Shown(v, f) ==
    CASE v.kind = "metrics" -> [v EXCEPT !.charts = @ \cup DOMAIN f]
      [] v.kind = "explore" ->
           IF v.metric \in DOMAIN f
           THEN [v EXCEPT !.latest = v.metric, !.chart = v.metric]
           ELSE [v EXCEPT !.latest = None]
      [] v.kind = "heatmap" ->
           [v EXCEPT !.grids = [m \in DOMAIN @ |-> Heat(f, m, @[m])]]
      [] v.kind \in {"/", "alerts"} -> [v EXCEPT !.latest = Latest(f)]
      [] OTHER -> v

\* The metric of Explore changes: a new chart, painted from the frame that is
\* kept, whose series is still the one of the metric before.
Switched(v, m) ==
    IF v.metric = m THEN v ELSE [v EXCEPT !.metric = m, !.chart = v.latest]

-----------------------------------------------------------------------------
Gone == [kind |-> "none"]

Init ==
    /\ tour \in Tours
    /\ hash = tour.start /\ path = tour.start /\ events = 0
    /\ view = Gone /\ toWorker = <<>> /\ range = AllData /\ endpoints = EnvDefaults.endpoints
    /\ rules = DefaultRules /\ firing = NoneFiring /\ storedRules = {} /\ rulesKept = TRUE
    /\ used = DOMAIN DefaultRules
    /\ current = EnvDefaults /\ boot = EnvDefaults /\ stored = {} /\ settingsKept = TRUE
    /\ server = {} /\ snapshots = {} /\ loading = FALSE /\ failed = FALSE
    /\ requests = {} /\ sent = 0 /\ modal = Closed(FALSE) /\ instance = 0 /\ calm = FALSE
    /\ frames = 0 /\ moves = 0 /\ history = <<>>

\* What the page starts with, apart from the list of snapshots: a view's
\* effects run before those of App, which sends the default range last.  When
\* localStorage cannot be read the page starts with the defaults.
Start == \E denied \in BOOLEAN :
    LET settings == LoadedSettings(IF denied THEN {} ELSE stored)
    IN  /\ view = Gone
        /\ rules' = LoadedRules(IF denied THEN {} ELSE storedRules) /\ firing' = NoneFiring
        /\ current' = settings /\ boot' = settings
        /\ rulesKept' = ~denied /\ settingsKept' = ~denied
        /\ path' = hash /\ events' = 0
        /\ view' = NewView(hash, settings, TRUE)
        /\ toWorker' = PushedBy(view') \o <<settings.range>>
        /\ range' = AllData /\ endpoints' = settings.endpoints
        /\ history' = [i \in 1 .. frames |-> {}]
        /\ UNCHANGED <<storedRules, used, stored, hash, tour, frames, moves>>

Load ==
    /\ hash.at # "snapshots"
    /\ Start
    /\ UNCHANGED listVars

LoadAtList ==
    /\ hash.at = "snapshots"
    /\ Start
    /\ MountList

\* The tab is closed or reloaded: requests are aborted, timers are gone.
Leave ==
    /\ view' = Gone /\ toWorker' = <<>> /\ events' = 0
    /\ firing' = NoneFiring
    /\ snapshots' = {} /\ loading' = FALSE /\ failed' = FALSE /\ requests' = {}
    /\ modal' = Closed(FALSE) /\ calm' = FALSE
    /\ history' = [i \in 1 .. frames |-> {}]
    /\ UNCHANGED <<rules, storedRules, rulesKept, used, server, sent, instance, hash, path, range,
                   endpoints, tour, frames>>

\* The user acts on the view of a kind, or on any.
Acts(kinds) ==
    /\ view.kind \in kinds /\ moves < tour.moves
    /\ moves' = moves + 1
    /\ UNCHANGED tour
Anywhere == {view.kind} \ {"none"}

CloseTab ==
    /\ Acts(Anywhere)
    /\ Leave
    /\ UNCHANGED settingsVars

\* navigate, a link, or the browser's own buttons: the event comes later.
Navigate(p) ==
    /\ Acts(Anywhere)
    /\ p \in tour.paths \ {hash}
    /\ hash' = p /\ events' = events + 1
    /\ UNCHANGED <<alertVars, settingsVars, listVars, path, view, toWorker, range,
                   endpoints, frames, history>>

\* The handler of hashchange reads the hash there is now.
HashChange ==
    /\ events > 0
    /\ events' = events - 1
    /\ path' = hash
    /\ UNCHANGED <<alertVars, settingsVars, hash, range, endpoints, tour, frames,
                   moves, history>>

\* It is the path already, or Explore stays and may change its metric.
StayOn ==
    /\ HashChange
    /\ path' = path \/ (hash.at = path.at /\ hash.at = "explore")
    /\ view' = IF path' = path THEN view ELSE Switched(view, MetricOf(hash))
    /\ UNCHANGED <<listVars, toWorker>>

\* One view is destroyed, with the handlers it had, and another is mounted.
Remount ==
    /\ HashChange
    /\ path' # path /\ ~(hash.at = path.at /\ hash.at = "explore")
    /\ view' = NewView(hash, current, FALSE)

\* Mutant: a view that is mounted does not send its window.
Mount_NoPush ==
    /\ Remount /\ hash.at # "snapshots"
    /\ UNCHANGED toWorker
    /\ modal' = Closed(FALSE)
    /\ UNCHANGED <<server, snapshots, loading, failed, requests, sent, instance, calm>>

Mount ==
    /\ Remount /\ hash.at # "snapshots"
    /\ toWorker' = toWorker \o PushedBy(view')
    /\ modal' = Closed(FALSE)
    /\ UNCHANGED <<server, snapshots, loading, failed, requests, sent, instance, calm>>

MountSnapshots ==
    /\ Remount /\ hash.at = "snapshots"
    /\ UNCHANGED toWorker
    /\ MountList

TakeRange ==
    /\ toWorker # <<>>
    /\ range' = Head(toWorker) /\ toWorker' = Tail(toWorker)
    /\ UNCHANGED <<alertVars, settingsVars, listVars, hash, events, path, view, endpoints,
                   tour, frames, moves, history>>

\* A frame reaches App, which evaluates the rules, the view and its dialog.
Frame ==
    /\ view # Gone /\ frames < Len(tour.frames)
    /\ frames' = frames + 1
    /\ \E f \in tour.frames[frames'] :
         /\ Evaluate(Latest(f), frames')
         /\ history' = Append(history, Breaching(Latest(f)))
         /\ view' = Shown(view, f)
         /\ modal' = Capture(frames', f)
    /\ UNCHANGED <<settingsVars, server, snapshots, loading, failed, requests, sent,
                   instance, calm, hash, events, path, toWorker, range, endpoints, tour, moves>>

\* TimeRangeControls: the window that is set already changes nothing.
SetWindow(w) ==
    /\ Acts({"metrics", "explore"})
    /\ w # view.window
    /\ view' = IF view.kind = "metrics"
               THEN [view EXCEPT !.window = w, !.untouched = FALSE]
               ELSE [view EXCEPT !.window = w]
    /\ toWorker' = Append(toWorker, w)
    /\ UNCHANGED <<alertVars, settingsVars, listVars, hash, events, path, range,
                   endpoints, frames, history>>

\* The toggle of the heatmap, which keeps at least one metric.
ToggleHeat(m) ==
    /\ Acts({"heatmap"})
    /\ \/ /\ m \in DOMAIN view.grids /\ Cardinality(DOMAIN view.grids) > 1
          /\ view' = [view EXCEPT !.grids = [k \in DOMAIN @ \ {m} |-> @[k]]]
       \/ /\ m \notin DOMAIN view.grids
          /\ view' = [view EXCEPT !.grids =
                        [k \in DOMAIN @ \cup {m} |-> IF k = m THEN None ELSE @[k]]]
    /\ UNCHANGED <<alertVars, settingsVars, listVars, hash, events, path, toWorker, range,
                   endpoints, frames, history>>

-----------------------------------------------------------------------------
(* views/Settings.svelte                                                    *)

OnSettings ==
    /\ Acts({"settings"})
    /\ UNCHANGED <<alertVars, listVars, hash, events, path, range, endpoints, frames, history>>

EditDraft(e) ==
    /\ OnSettings
    /\ view' = [view EXCEPT !.draft = e]
    /\ UNCHANGED <<settingsVars, toWorker>>

SetDefaultRange(r) ==
    /\ OnSettings
    /\ UpdateSetting("range", r)
    /\ toWorker' = Append(toWorker, r)
    /\ UNCHANGED view

SetAccent(a) ==
    /\ OnSettings
    /\ UpdateSetting("accent", a)
    /\ UNCHANGED <<view, toWorker>>

ResetAll ==
    /\ OnSettings
    /\ ResetSettings
    /\ view' = [view EXCEPT !.draft = EnvDefaults.endpoints]
    /\ toWorker' = Append(toWorker, EnvDefaults.range)

\* saveEndpoints: the page is loaded anew, with the worker it builds.
SaveEndpoints ==
    /\ Acts({"settings"})
    /\ view.draft # boot.endpoints
    /\ UpdateSetting("endpoints", view.draft)
    /\ Leave

-----------------------------------------------------------------------------
(* views/Alerts.svelte and views/Snapshots.svelte                           *)

OnAlerts ==
    /\ Acts({"alerts"})
    /\ UNCHANGED <<settingsVars, listVars, pageVars, frames, history>>

Add(rule) == OnAlerts /\ AddRule(rule)
Remove(id) == OnAlerts /\ RemoveRule(id)
Toggle(id) == OnAlerts /\ ToggleRule(id)
Update(id) == OnAlerts /\ \/ \E c \in Comparators : UpdateRule(id, "comparator", c)
                          \/ \E t \in Thresholds : UpdateRule(id, "threshold", t)

OnList ==
    /\ Acts({"snapshots"})
    /\ UNCHANGED <<alertVars, settingsVars, pageVars, frames, history>>

PressOpen == OnList /\ OpenModal(frames)
PressCancel == OnList /\ CloseModal
PressEdit == OnList /\ EditModal
PressRefused == OnList /\ SaveRefused
PressSave == OnList /\ Save
PressDelete(id) == OnList /\ Delete(id)

\* A request goes on by itself, and so does what awaits it.
Quiet == UNCHANGED <<alertVars, settingsVars, pageVars, tour, frames, moves, history>>

ServeOne(r) == Serve(r) /\ Quiet
LoseOne(r) == Lose(r) /\ Quiet
AnswerList(r) == ListAnswered(r) /\ Quiet
AnswerDelete(r) == DeleteAnswered(r) /\ Quiet
AnswerSaved(r) == SaveDone(r) /\ Quiet
AnswerUnsaved(r) == SaveFailed(r) /\ Quiet

Next ==
    \/ Load \/ LoadAtList \/ CloseTab
    \/ \E p \in tour.paths : Navigate(p)
    \/ StayOn \/ Mount \/ MountSnapshots
    \/ TakeRange \/ Frame
    \/ \E w \in Ranges : SetWindow(w) \/ SetDefaultRange(w)
    \/ \E m \in Metrics : ToggleHeat(m)
    \/ \E e \in Endpoints : EditDraft(e)
    \/ \E a \in Accents : SetAccent(a)
    \/ ResetAll \/ SaveEndpoints
    \/ \E rule \in {r \in Rule : r.enabled} : Add(rule)
    \/ \E id \in DOMAIN rules : Remove(id) \/ Toggle(id) \/ Update(id)
    \/ PressOpen \/ PressCancel \/ PressEdit \/ PressRefused \/ PressSave
    \/ \E id \in snapshots : PressDelete(id)
    \/ \E r \in requests :
         \/ ServeOne(r) \/ LoseOne(r) \/ AnswerList(r)
         \/ AnswerDelete(r) \/ AnswerSaved(r) \/ AnswerUnsaved(r)

Spec == Init /\ [][Next]_vars

-----------------------------------------------------------------------------
(* Properties                                                               *)

\* Invariant: a rule fires exactly when it breached in the last frame and was
\* not removed since, and it fires since the first frame of the breach that
\* is unbroken up to now, whatever other rules started or stopped meanwhile.
FiringIsTrue ==
    /\ DOMAIN firing =
         IF frames = 0 THEN {} ELSE history[frames] \cap DOMAIN rules
    /\ \A id \in DOMAIN firing :
         LET since == firing[id].since
         IN  /\ \A k \in since .. frames : id \in history[k]
             /\ since > 1 => id \notin history[since - 1]

\* Invariant: once the worker has taken what was sent to it, a view that shows
\* a window shows the worker's, from whatever view and by whatever clicks the
\* user came to it; the grid of a page that was just started excepted.
RangeAgrees ==
    (toWorker = <<>> /\ HasWindow(view))
        => \/ view.kind = "metrics" /\ view.untouched
           \/ range = view.window

\* Invariant: a snapshot holds the first frame after its dialog was opened,
\* not one of an earlier opening nor a later one, and of the metrics that were
\* chosen only those.
CapturesFirstFrame ==
    \A s \in server : /\ s.saved.frame = s.saved.openedAt + 1
                      /\ s.saved.data \subseteq s.saved.metrics

\* Invariant: however often localStorage refused, once it has taken a change a
\* load that can read it finds all that is in force, the changes it refused
\* included; never a part of them, nor the settings of some earlier time.
ReloadKeeps ==
    view # Gone => /\ settingsKept => LoadedSettings(stored) = current
                   /\ rulesKept => LoadedRules(storedRules) = rules

\* x lies in the cell c of n between lo and hi or on an edge of it, told by
\* multiplication, the outer cells taking what lies beyond them.
Touches(x, c, lo, hi, n) ==
    /\ c = 0 \/ (x - lo) * n >= c * (hi - lo)
    /\ c = n - 1 \/ (x - lo) * n <= (c + 1) * (hi - lo)

\* Invariant: a heatmap counts every sample of the series it was made from
\* once, in a cell it lies in; a column with samples has a cell of density 1
\* and none above, one without has density 0 and divides by nothing.
GridIsDensity ==
    view.kind = "heatmap" =>
        \A m \in DOMAIN view.grids : LET g == view.grids[m] IN g # None =>
            /\ \E at \in [DOMAIN g.of -> (0 .. Cols - 1) \X (0 .. Buckets - 1)] :
                 /\ \A i \in DOMAIN g.of :
                      /\ Touches(g.of[i].t, at[i][1], g.of[1].t, Last(g.of).t, Cols)
                      /\ Touches(2 * g.of[i].v, at[i][2], g.bounds[1], g.bounds[2], Buckets)
                 /\ \A c \in 0 .. Cols - 1, b \in 0 .. Buckets - 1 :
                      g.density[c][b][1] = Cardinality({i \in DOMAIN g.of : at[i] = <<c, b>>})
            /\ \A c \in 0 .. Cols - 1 :
                 /\ \A b \in 0 .. Buckets - 1 :
                      g.density[c][b][2] > 0 /\ g.density[c][b][1] <= g.density[c][b][2]
                 /\ \/ \A b \in 0 .. Buckets - 1 : g.density[c][b][1] = 0
                    \/ \E b \in 0 .. Buckets - 1 : g.density[c][b][1] = g.density[c][b][2]

\* Invariant: when every request is answered, and since a list was asked for
\* alone none overlapped another or was lost, the cards are the snapshots the
\* server has.
ListSettles ==
    (calm /\ requests = {}) => snapshots = IdsOf(server)
=============================================================================
