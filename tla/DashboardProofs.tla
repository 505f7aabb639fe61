--------------------------- MODULE DashboardProofs ---------------------------
(***************************************************************************)
(* Proofs about Dashboard, for every tour, whatever the metrics, frames and *)
(* ranges: the worker's range follows the view on the screen, a load of the *)
(* page finds the settings and rules in force, the rules that breach fire,  *)
(* a snapshot holds the frame it should, the cards are the snapshots of the *)
(* server, and a heatmap counts every sample where it lies.                 *)
(***************************************************************************)
EXTENDS Dashboard, SequenceTheorems, FiniteSetTheorems, WellFoundedInduction, TLAPS

\* The range the worker has, once it has taken what was sent to it.
Coming == IF toWorker = <<>> THEN range ELSE Last(toWorker)

Settings == [endpoints : Endpoints, range : Ranges, accent : Accents]

Grid == [kind : {"metrics"}, window : Ranges, untouched : BOOLEAN, charts : SUBSET Metrics]
Explore == [kind : {"explore"}, window : Ranges, metric : Metrics,
            latest : Metrics \cup {None}, chart : Metrics \cup {None}]
Draft == [kind : {"settings"}, draft : Endpoints]
IsPlain(v) ==
    /\ "kind" \in DOMAIN v /\ v.kind \notin {"metrics", "explore"}
    /\ v.kind = "none" => v = Gone
    /\ v.kind = "settings" => v \in Draft

\* The view has one of the shapes NewView gives it.
ViewShape(v) == v \in Grid \/ v \in Explore \/ IsPlain(v)

SettingsInv ==
    /\ current \in Settings
    /\ stored = {} \/ \E s \in Settings : stored = {s}

WindowInv ==
    /\ tour \in Tours /\ hash \in tour.paths \cup {tour.start} /\ frames \in Nat
    /\ toWorker \in Seq(Ranges) /\ range \in Ranges
    /\ ViewShape(view)
    /\ view # Gone /\ path.at = "explore" => view \in Explore
    /\ events > 0 => view # Gone

\* Any view with a window but the grid of a page just started was the last to
\* send a range.
Follows ==
    HasWindow(view) => \/ view.kind = "metrics" /\ view.untouched
                       \/ Coming = view.window

-----------------------------------------------------------------------------
(* The settings.                                                            *)

LEMMA LoadedIsSettings ==
    ASSUME SettingsInv PROVE LoadedSettings(stored) \in Settings
<1>1. EnvDefaults \in Settings
  BY DashboardAssumption DEF DashboardAssumption, Settings
<1>2. ASSUME NEW s \in Settings, stored = {s} PROVE LoadedSettings(stored) = s
  BY <1>2 DEF LoadedSettings
<1> QED
  BY <1>1, <1>2 DEF SettingsInv, LoadedSettings

LEMMA UpdateKeepsSettings ==
    ASSUME SettingsInv,
           \/ \E e \in Endpoints : UpdateSetting("endpoints", e)
           \/ \E r \in Ranges : UpdateSetting("range", r)
           \/ \E a \in Accents : UpdateSetting("accent", a)
    PROVE  SettingsInv'
<1>1. current' \in Settings /\ (stored' = {current'} \/ stored' = stored)
  BY DEF SettingsInv, UpdateSetting, Keep, Settings
<1> QED
  BY <1>1 DEF SettingsInv

\* An action that leaves the settings alone is most of them.
LEMMA SettingsStay ==
    ASSUME SettingsInv, UNCHANGED <<current, stored>> PROVE SettingsInv'
  BY DEF SettingsInv

-----------------------------------------------------------------------------
(* The shapes of views.                                                     *)

LEMMA NewViewShape ==
    ASSUME NEW p, p.at # "none", NEW s \in Settings, NEW b \in BOOLEAN
    PROVE  /\ ViewShape(NewView(p, s, b))
           /\ NewView(p, s, b) # Gone
           /\ p.at = "explore" => NewView(p, s, b) \in Explore /\ NewView(p, s, b).window = s.range
           /\ p.at # "explore" /\ HasWindow(NewView(p, s, b)) =>
                 /\ NewView(p, s, b) \in Grid /\ NewView(p, s, b).untouched = b
<1>. DEFINE v == NewView(p, s, b)
<1>1. CASE p.at = "metrics"
  <2>1. v = [kind |-> "metrics", window |-> GridRange, untouched |-> b, charts |-> {}]
    BY <1>1 DEF NewView
  <2> QED
    BY <1>1, <2>1, DashboardAssumption
    DEF DashboardAssumption, ViewShape, Grid, HasWindow, Gone
<1>2. CASE p.at = "explore"
  <2>1. v = [kind |-> "explore", window |-> s.range, metric |-> MetricOf(p),
             latest |-> None, chart |-> None]
    BY <1>2 DEF NewView
  <2> QED
    BY <1>2, <2>1, DashboardAssumption
    DEF DashboardAssumption, MetricOf, ViewShape, Explore, HasWindow, Gone, Settings
<1>3. CASE p.at \notin {"metrics", "explore"}
  <2>1. CASE p.at = "settings"
    <3>1. v = [kind |-> "settings", draft |-> s.endpoints]
      BY <2>1 DEF NewView
    <3> QED
      BY <1>3, <3>1 DEF ViewShape, IsPlain, Draft, Settings, HasWindow, Gone
  <2>2. CASE p.at = "heatmap"
    <3>1. v = [kind |-> "heatmap", grids |-> [m \in HeatmapFirst |-> None]]
      BY <2>2 DEF NewView
    <3> QED
      BY <1>3, <3>1 DEF ViewShape, IsPlain, HasWindow, Gone
  <2>3. CASE p.at \in {"/", "alerts"}
    <3>1. v = [kind |-> p.at, latest |-> <<>>]
      BY <2>3 DEF NewView
    <3> QED
      BY <1>3, <2>3, <3>1 DEF ViewShape, IsPlain, HasWindow, Gone
  <2>4. CASE p.at \notin {"settings", "heatmap", "/", "alerts"} /\ p.at # "none"
    <3>1. v = [kind |-> p.at]
      BY <1>3, <2>4 DEF NewView
    <3> QED
      BY <1>3, <2>4, <3>1 DEF ViewShape, IsPlain, HasWindow, Gone
  <2> QED
    BY <1>3, <2>1, <2>2, <2>3, <2>4
<1> QED
  BY <1>1, <1>2, <1>3

\* A frame leaves the shape of a view, its window and whether it was touched.
LEMMA ShownShape ==
    ASSUME NEW f, DOMAIN f \subseteq Metrics, ViewShape(view)
    PROVE  LET v == Shown(view, f) IN
           /\ ViewShape(v)
           /\ view \in Explore => v \in Explore
           /\ v.kind = view.kind
           /\ HasWindow(view) => v.window = view.window
           /\ view.kind = "metrics" => v.untouched = view.untouched
<1>. DEFINE v == Shown(view, f)
<1>1. CASE view \in Grid
  <2>1. view.kind = "metrics"
    BY <1>1 DEF Grid
  <2>2. v = [view EXCEPT !.charts = @ \cup DOMAIN f]
    BY <2>1 DEF Shown
  <2>3. v \in Grid /\ v.window = view.window /\ v.untouched = view.untouched
    BY <1>1, <2>2 DEF Grid
  <2> QED
    BY <1>1, <2>1, <2>3 DEF ViewShape, Grid, Explore
<1>2. CASE view \in Explore
  <2>1. view.kind = "explore"
    BY <1>2 DEF Explore
  <2>2. v = IF view.metric \in DOMAIN f
            THEN [view EXCEPT !.latest = view.metric, !.chart = view.metric]
            ELSE [view EXCEPT !.latest = None]
    BY <2>1 DEF Shown
  <2>3. v \in Explore /\ v.window = view.window
    <3>1. CASE view.metric \in DOMAIN f
      BY <1>2, <2>2, <3>1 DEF Explore
    <3>2. CASE view.metric \notin DOMAIN f
      BY <1>2, <2>2, <3>2 DEF Explore
    <3> QED
      BY <3>1, <3>2
  <2> QED
    BY <2>1, <2>3 DEF ViewShape, Explore
<1>3. CASE IsPlain(view)
  <2>1. IsPlain(v) /\ v.kind = view.kind
    <3>1. CASE view.kind = "heatmap"
      <4>1. v = [view EXCEPT !.grids = [m \in DOMAIN @ |-> Heat(f, m, @[m])]]
        BY <3>1 DEF Shown
      <4>2. "kind" \in DOMAIN v /\ v.kind = "heatmap"
        BY <1>3, <3>1, <4>1 DEF IsPlain
      <4> QED
        BY <3>1, <4>2 DEF IsPlain
    <3>2. CASE view.kind \in {"/", "alerts"}
      <4>1. v = [view EXCEPT !.latest = Latest(f)]
        BY <3>2 DEF Shown
      <4>2. "kind" \in DOMAIN v /\ v.kind = view.kind
        BY <1>3, <4>1 DEF IsPlain
      <4> QED
        BY <3>2, <4>2 DEF IsPlain
    <3>3. CASE view.kind \notin {"heatmap", "/", "alerts"}
      <4>1. v = view
        BY <1>3, <3>3 DEF Shown, IsPlain
      <4> QED
        BY <1>3, <4>1
    <3> QED
      BY <3>1, <3>2, <3>3
  <2> QED
    BY <1>3, <2>1 DEF ViewShape, IsPlain, HasWindow, Explore
<1> QED
  BY <1>1, <1>2, <1>3 DEF ViewShape

LEMMA SwitchedShape ==
    ASSUME view \in Explore, NEW m \in Metrics
    PROVE  Switched(view, m) \in Explore /\ Switched(view, m).window = view.window
<1>1. CASE view.metric = m
  BY <1>1 DEF Switched
<1>2. CASE view.metric # m
  <2>1. Switched(view, m) = [view EXCEPT !.metric = m, !.chart = view.latest]
    BY <1>2 DEF Switched
  <2> QED
    BY <2>1 DEF Explore
<1> QED
  BY <1>1, <1>2

-----------------------------------------------------------------------------
(* The channel to the worker.                                               *)

LEMMA OneRange == ASSUME NEW w \in Ranges PROVE <<w>> \in Seq(Ranges)
OBVIOUS

LEMMA SendRange ==
    ASSUME NEW s \in Seq(Ranges), NEW w \in Ranges
    PROVE  /\ Append(s, w) \in Seq(Ranges) /\ Append(s, w) # <<>> /\ Last(Append(s, w)) = w
           /\ s \o <<w>> \in Seq(Ranges) /\ s \o <<w>> # <<>> /\ Last(s \o <<w>>) = w
<1>1. Append(s, w) \in Seq(Ranges) /\ Len(Append(s, w)) = Len(s) + 1 /\ Append(s, w)[Len(s) + 1] = w
  BY AppendProperties
<1>2. s \o <<w>> = Append(s, w)
  OBVIOUS
<1>3. Len(s) \in Nat /\ Len(<<>>) = 0
  BY LenProperties
<1> QED
  BY <1>1, <1>2, <1>3 DEF Last

LEMMA TakeHead ==
    ASSUME NEW s \in Seq(Ranges), s # <<>>
    PROVE  /\ Head(s) \in Ranges /\ Tail(s) \in Seq(Ranges)
           /\ Last(s) \in Ranges
           /\ IF Tail(s) = <<>> THEN Head(s) = Last(s) ELSE Last(Tail(s)) = Last(s)
<1>1. Len(s) \in Nat \ {0} /\ Head(s) = s[1] /\ Tail(s) \in Seq(Ranges) /\ Len(Tail(s)) = Len(s) - 1
  BY LenProperties, HeadTailProperties, EmptySeq
<1>2. \A i \in 1 .. Len(s) : s[i] \in Ranges
  BY ElementOfSeq
<1>3. \A i \in 1 .. Len(s) - 1 : Tail(s)[i] = s[i + 1]
  BY HeadTailProperties
<1>4. Tail(s) = <<>> <=> Len(s) = 1
  <2>1. Tail(s) # <<>> => Len(Tail(s)) \in Nat \ {0}
    BY <1>1, EmptySeq
  <2>2. Tail(s) = <<>> => Len(Tail(s)) = 0
    BY EmptySeq
  <2> QED
    BY <1>1, <2>1, <2>2
<1>5. CASE Len(s) = 1
  BY <1>1, <1>2, <1>4, <1>5 DEF Last
<1>6. CASE Len(s) # 1
  <2>1. Len(Tail(s)) \in 1 .. Len(s) - 1
    BY <1>1, <1>6
  <2>2. Last(Tail(s)) = s[Len(s)]
    BY <1>1, <1>3, <2>1 DEF Last
  <2> QED
    BY <1>1, <1>2, <1>4, <1>6, <2>2 DEF Last
<1> QED
  BY <1>5, <1>6

-----------------------------------------------------------------------------
(* One lemma per action that concerns the view or the worker.               *)

Inv == SettingsInv /\ WindowInv /\ Follows

\* Alerts, the list of snapshots and its requests leave all of it alone.
LEMMA Elsewhere ==
    ASSUME Inv,
           UNCHANGED <<settingsVars, hash, events, path, view, toWorker, range, tour, frames>>
    PROVE  Inv'
  BY DEF Inv, SettingsInv, WindowInv, Follows, Coming, settingsVars

LEMMA InitInv == Init => Inv
<1> SUFFICES ASSUME Init PROVE Inv
  OBVIOUS
<1>1. SettingsInv
  BY DashboardAssumption DEF DashboardAssumption, Init, SettingsInv, Settings
<1>2. view = [kind |-> "none"] /\ events = 0 /\ toWorker = <<>> /\ range = AllData
      /\ tour \in Tours /\ hash = tour.start /\ frames = 0
  BY DEF Init, Gone
<1>3. WindowInv
  BY <1>2, EmptySeq, DashboardAssumption
  DEF DashboardAssumption, WindowInv, ViewShape, IsPlain, Gone
<1>4. Follows
  BY <1>2 DEF Follows, HasWindow
<1> QED
  BY <1>1, <1>3, <1>4 DEF Inv

\* App sends the default range after the view: only the grid may differ.
LEMMA StartInv == Inv /\ Start => Inv'
<1> SUFFICES ASSUME Inv, Start PROVE Inv'
  OBVIOUS
<1>0. PICK denied \in BOOLEAN :
        LET s == LoadedSettings(IF denied THEN {} ELSE stored)
        IN  /\ current' = s /\ stored' = stored /\ path' = hash /\ events' = 0
            /\ view' = NewView(hash, s, TRUE)
            /\ toWorker' = PushedBy(view') \o <<s.range>> /\ range' = AllData
            /\ hash' = hash /\ tour' = tour /\ frames' = frames
  BY DEF Start
<1>. DEFINE s == LoadedSettings(IF denied THEN {} ELSE stored)
<1>. DEFINE v == NewView(hash, s, TRUE)
<1>1. s \in Settings
  <2>1. LoadedSettings({}) = EnvDefaults
    BY DEF LoadedSettings
  <2>2. EnvDefaults \in Settings
    BY DashboardAssumption DEF DashboardAssumption, Settings
  <2>3. LoadedSettings(stored) \in Settings
    BY LoadedIsSettings DEF Inv
  <2> QED
    BY <2>1, <2>2, <2>3
<1>2. /\ current' = s /\ stored' = stored /\ path' = hash /\ events' = 0 /\ view' = v
      /\ toWorker' = PushedBy(v) \o <<s.range>> /\ range' = AllData
      /\ hash' = hash /\ tour' = tour /\ frames' = frames
  BY <1>0
<1>. HIDE DEF s
<1>3. hash.at # "none"
  BY DashboardAssumption DEF Inv, WindowInv, DashboardAssumption
<1>4. /\ ViewShape(v) /\ v # Gone
      /\ hash.at = "explore" => v \in Explore /\ v.window = s.range
      /\ hash.at # "explore" /\ HasWindow(v) => v \in Grid /\ v.untouched = TRUE
  BY <1>1, <1>3, NewViewShape
<1>5. PushedBy(v) \in Seq(Ranges)
  <2>1. CASE HasWindow(v)
    <3>1. v.window \in Ranges
      BY <1>4, <2>1 DEF Explore, Grid
    <3>2. PushedBy(v) = <<v.window>>
      BY <2>1 DEF PushedBy
    <3> QED
      BY <3>1, <3>2, OneRange
  <2>2. CASE ~HasWindow(v)
    BY <2>2, EmptySeq DEF PushedBy
  <2> QED
    BY <2>1, <2>2
<1>6. toWorker' \in Seq(Ranges) /\ toWorker' # <<>> /\ Last(toWorker') = s.range
  BY <1>1, <1>2, <1>5, SendRange DEF Settings
<1>7. SettingsInv'
  BY <1>1, <1>2 DEF Inv, SettingsInv
<1>8. WindowInv'
  BY <1>2, <1>4, <1>6, DashboardAssumption DEF Inv, WindowInv, DashboardAssumption
<1>9. Follows'
  <2>1. CASE hash.at = "explore"
    BY <1>2, <1>4, <1>6, <2>1 DEF Follows, Coming
  <2>2. CASE hash.at # "explore"
    BY <1>2, <1>4, <2>2 DEF Follows, Grid
  <2> QED
    BY <2>1, <2>2
<1> QED
  BY <1>7, <1>8, <1>9 DEF Inv

LEMMA LeaveInv == Inv /\ Leave /\ SettingsInv' => Inv'
<1> SUFFICES ASSUME Inv, Leave, SettingsInv' PROVE Inv'
  OBVIOUS
<1>1. /\ view' = [kind |-> "none"] /\ toWorker' = <<>> /\ events' = 0
      /\ UNCHANGED <<hash, path, range, tour, frames>>
  BY DEF Leave, Gone
<1>2. WindowInv'
  BY <1>1, EmptySeq DEF Inv, WindowInv, ViewShape, IsPlain, Gone
<1>3. Follows'
  BY <1>1 DEF Follows, HasWindow
<1> QED
  BY <1>2, <1>3 DEF Inv

\* A view that is mounted with a window sends it.
LEMMA RemountInv ==
    ASSUME Inv, Remount, UNCHANGED settingsVars, toWorker' = toWorker \o PushedBy(view')
    PROVE  Inv'
<1>. DEFINE v == NewView(hash, current, FALSE)
<1>1. /\ events > 0 /\ events' = events - 1 /\ path' = hash /\ view' = v
      /\ UNCHANGED <<hash, range, tour, frames, current, stored>>
  BY DEF Remount, HashChange, settingsVars
<1>2. hash.at # "none"
  BY DashboardAssumption DEF Inv, WindowInv, DashboardAssumption
<1>3. /\ ViewShape(v) /\ v # Gone
      /\ hash.at = "explore" => v \in Explore /\ v.window = current.range
      /\ hash.at # "explore" /\ HasWindow(v) => v \in Grid /\ v.untouched = FALSE
  BY <1>2, NewViewShape DEF Inv, SettingsInv
<1>4. CASE HasWindow(v)
  <2>1. v.window \in Ranges
    BY <1>3, <1>4 DEF Explore, Grid
  <2>2. toWorker' = toWorker \o <<v.window>>
    BY <1>1, <1>4 DEF PushedBy
  <2>3. toWorker' \in Seq(Ranges) /\ toWorker' # <<>> /\ Last(toWorker') = v.window
    BY <2>1, <2>2, SendRange DEF Inv, WindowInv
  <2>4. SettingsInv' /\ WindowInv'
    BY <1>1, <1>3, <2>3 DEF Inv, SettingsInv, WindowInv
  <2>5. Follows'
    BY <1>1, <2>3 DEF Follows, Coming
  <2> QED
    BY <2>4, <2>5 DEF Inv
<1>5. CASE ~HasWindow(v)
  <2>1. toWorker' = toWorker
    BY <1>1, <1>5, ConcatEmptySeq DEF PushedBy, Inv, WindowInv
  <2>2. SettingsInv' /\ WindowInv'
    BY <1>1, <1>3, <2>1 DEF Inv, SettingsInv, WindowInv
  <2>3. Follows'
    BY <1>1, <1>5 DEF Follows
  <2> QED
    BY <2>2, <2>3 DEF Inv
<1> QED
  BY <1>4, <1>5

\* The hash changes to the path there is, or within Explore.
LEMMA StayOnInv == Inv /\ StayOn => Inv'
<1> SUFFICES ASSUME Inv, StayOn PROVE Inv'
  OBVIOUS
<1>1. /\ events > 0 /\ events' = events - 1 /\ path' = hash
      /\ UNCHANGED <<settingsVars, hash, range, toWorker, tour, frames>>
      /\ path' = path \/ (hash.at = path.at /\ hash.at = "explore")
      /\ view' = IF path' = path THEN view ELSE Switched(view, MetricOf(hash))
  BY DEF StayOn, HashChange
<1>2. SettingsInv'
  BY <1>1, SettingsStay DEF Inv, settingsVars
<1>3. view # Gone
  BY <1>1 DEF Inv, WindowInv
<1>4. CASE path' = path
  BY <1>1, <1>2, <1>3, <1>4 DEF Inv, WindowInv, Follows, Coming
<1>5. CASE path' # path
  <2>1. view \in Explore
    BY <1>1, <1>3, <1>5 DEF Inv, WindowInv
  <2>2. MetricOf(hash) \in Metrics
    BY DashboardAssumption DEF MetricOf, DashboardAssumption
  <2>3. view' \in Explore /\ view'.window = view.window
    BY <1>1, <1>5, <2>1, <2>2, SwitchedShape
  <2>4. view'.kind = "explore" /\ view.kind = "explore"
    BY <2>1, <2>3 DEF Explore
  <2>5. WindowInv'
    BY <1>1, <2>3, <2>4 DEF Inv, WindowInv, ViewShape, Gone
  <2>6. Follows'
    BY <1>1, <2>3, <2>4 DEF Inv, Follows, Coming, HasWindow
  <2> QED
    BY <1>2, <2>5, <2>6 DEF Inv
<1> QED
  BY <1>4, <1>5

LEMMA TakeRangeInv == Inv /\ TakeRange => Inv'
<1> SUFFICES ASSUME Inv, TakeRange PROVE Inv'
  OBVIOUS
<1>1. /\ toWorker # <<>> /\ range' = Head(toWorker) /\ toWorker' = Tail(toWorker)
      /\ UNCHANGED <<settingsVars, hash, events, path, view, tour, frames>>
  BY DEF TakeRange
<1>2. SettingsInv'
  BY <1>1, SettingsStay DEF Inv, settingsVars
<1>3. /\ range' \in Ranges /\ toWorker' \in Seq(Ranges)
      /\ Coming' = Coming
  BY <1>1, TakeHead DEF Inv, WindowInv, Coming
<1>4. WindowInv'
  BY <1>1, <1>3 DEF Inv, WindowInv
<1>5. Follows'
  BY <1>1, <1>3 DEF Inv, Follows
<1> QED
  BY <1>2, <1>4, <1>5 DEF Inv

LEMMA FrameInv == Inv /\ Frame => Inv'
<1> SUFFICES ASSUME Inv, Frame PROVE Inv'
  OBVIOUS
<1>1. PICK f \in tour.frames[frames + 1] : view' = Shown(view, f)
  BY DEF Frame
<1>2. /\ view # Gone /\ frames < Len(tour.frames) /\ frames' = frames + 1
      /\ UNCHANGED <<settingsVars, hash, events, path, toWorker, range, tour>>
  BY DEF Frame
<1>3. Len(tour.frames) \in Nat /\ DOMAIN f \subseteq Metrics
  BY <1>2, DashboardAssumption DEF DashboardAssumption, Inv, WindowInv
<1>4. /\ ViewShape(view') /\ (view \in Explore => view' \in Explore)
      /\ view'.kind = view.kind
      /\ HasWindow(view) => view'.window = view.window
      /\ view.kind = "metrics" => view'.untouched = view.untouched
  BY <1>1, <1>3, ShownShape DEF Inv, WindowInv
<1>5. SettingsInv'
  BY <1>2, SettingsStay DEF Inv, settingsVars
<1>6. view' # Gone
  <2>1. view.kind # "none"
    BY <1>2 DEF Inv, WindowInv, ViewShape, Grid, Explore, IsPlain
  <2> QED
    BY <1>4, <2>1 DEF Gone
<1>7. WindowInv'
  BY <1>2, <1>4, <1>6 DEF Inv, WindowInv
<1>8. Follows'
  BY <1>2, <1>4 DEF Inv, Follows, Coming, HasWindow
<1> QED
  BY <1>5, <1>7, <1>8 DEF Inv

LEMMA SetWindowInv ==
    ASSUME Inv, NEW w \in Ranges, SetWindow(w) PROVE Inv'
<1>1. /\ view.kind \in {"metrics", "explore"}
      /\ view' = IF view.kind = "metrics"
                 THEN [view EXCEPT !.window = w, !.untouched = FALSE]
                 ELSE [view EXCEPT !.window = w]
      /\ toWorker' = Append(toWorker, w)
      /\ UNCHANGED <<settingsVars, hash, events, path, range, tour, frames>>
  BY DEF SetWindow, Acts
<1>2. SettingsInv'
  BY <1>1, SettingsStay DEF Inv, settingsVars
<1>3. toWorker' \in Seq(Ranges) /\ toWorker' # <<>> /\ Last(toWorker') = w
  BY <1>1, SendRange DEF Inv, WindowInv
<1>4. /\ view \in Grid => view' \in Grid
      /\ view \in Explore => view' \in Explore
      /\ view \in Grid \/ view \in Explore
      /\ view'.window = w
  <2>1. view \in Grid \/ view \in Explore
    BY <1>1 DEF Inv, WindowInv, ViewShape, IsPlain
  <2>2. CASE view \in Grid
    <3>1. view.kind = "metrics" /\ view \notin Explore
      BY <2>2 DEF Grid, Explore
    <3>2. view' = [view EXCEPT !.window = w, !.untouched = FALSE]
      BY <1>1, <3>1
    <3> QED
      BY <2>2, <3>1, <3>2 DEF Grid
  <2>3. CASE view \in Explore
    <3>1. view.kind = "explore" /\ view \notin Grid
      BY <2>3 DEF Grid, Explore
    <3>2. view' = [view EXCEPT !.window = w]
      BY <1>1, <3>1
    <3> QED
      BY <2>3, <3>1, <3>2 DEF Explore
  <2> QED
    BY <2>1, <2>2, <2>3
<1>5. view # Gone /\ view' # Gone
  BY <1>4 DEF Grid, Explore, Gone
<1>6. WindowInv'
  BY <1>1, <1>3, <1>4, <1>5 DEF Inv, WindowInv, ViewShape
<1>7. Follows'
  BY <1>3, <1>4 DEF Follows, Coming
<1> QED
  BY <1>2, <1>6, <1>7 DEF Inv

LEMMA ToggleHeatInv ==
    ASSUME Inv, NEW m, ToggleHeat(m) PROVE Inv'
<1>1. /\ view.kind = "heatmap"
      /\ \E g : view' = [view EXCEPT !.grids = g]
      /\ UNCHANGED <<settingsVars, hash, events, path, toWorker, range, tour, frames>>
  BY DEF ToggleHeat, Acts
<1>2. SettingsInv'
  BY <1>1, SettingsStay DEF Inv, settingsVars
<1>3. IsPlain(view)
  BY <1>1 DEF Inv, WindowInv, ViewShape, Grid, Explore
<1>4. IsPlain(view') /\ view'.kind = "heatmap"
  BY <1>1, <1>3 DEF IsPlain
<1>5. view # Gone /\ view' # Gone
  BY <1>1, <1>4 DEF Gone
<1>6. WindowInv'
  BY <1>1, <1>4, <1>5 DEF Inv, WindowInv, ViewShape, Explore
<1>7. Follows'
  BY <1>4 DEF Follows, HasWindow
<1> QED
  BY <1>2, <1>6, <1>7 DEF Inv

\* What the settings view does to itself and to the worker, apart from Save.
LEMMA OnSettingsInv ==
    ASSUME Inv, OnSettings, SettingsInv',
           view' = view \/ \E e \in Endpoints : view' = [view EXCEPT !.draft = e],
           toWorker' = toWorker \/ \E r \in Ranges : toWorker' = Append(toWorker, r)
    PROVE  Inv'
<1>1. view.kind = "settings" /\ UNCHANGED <<hash, events, path, range, tour, frames>>
  BY DEF OnSettings, Acts
<1>2. view \in Draft
  BY <1>1 DEF Inv, WindowInv, ViewShape, Grid, Explore, IsPlain
<1>3. view' \in Draft
  BY <1>2 DEF Draft
<1>4. view.kind = "settings" /\ view'.kind = "settings" /\ "kind" \in DOMAIN view'
  BY <1>2, <1>3 DEF Draft
<1>5. view # Gone /\ view' # Gone
  BY <1>4 DEF Gone
<1>6. toWorker' \in Seq(Ranges)
  BY SendRange DEF Inv, WindowInv
<1>7. path.at # "explore"
  BY <1>4, <1>5 DEF Inv, WindowInv, Explore
<1>8. WindowInv'
  BY <1>1, <1>3, <1>4, <1>5, <1>6, <1>7 DEF Inv, WindowInv, ViewShape, IsPlain
<1>9. Follows'
  BY <1>4 DEF Follows, HasWindow
<1> QED
  BY <1>8, <1>9 DEF Inv

LEMMA SaveEndpointsInv == Inv /\ SaveEndpoints => Inv'
<1> SUFFICES ASSUME Inv, SaveEndpoints PROVE Inv'
  OBVIOUS
<1>1. view.kind = "settings" /\ UpdateSetting("endpoints", view.draft) /\ Leave
  BY DEF SaveEndpoints, Acts
<1>2. view.draft \in Endpoints
  BY <1>1 DEF Inv, WindowInv, ViewShape, Grid, Explore, IsPlain, Draft
<1>3. SettingsInv'
  BY <1>1, <1>2, UpdateKeepsSettings DEF Inv
<1> QED
  BY <1>1, <1>3, LeaveInv

LEMMA ResetAllInv == Inv /\ ResetAll => Inv'
<1> SUFFICES ASSUME Inv, ResetAll PROVE Inv'
  OBVIOUS
<1>1. /\ OnSettings /\ current' = EnvDefaults /\ (stored' = {} \/ stored' = stored)
      /\ view' = [view EXCEPT !.draft = EnvDefaults.endpoints]
      /\ toWorker' = Append(toWorker, EnvDefaults.range)
  BY DEF ResetAll, ResetSettings, Keep
<1>2. EnvDefaults \in Settings
  BY DashboardAssumption DEF DashboardAssumption, Settings
<1>3. SettingsInv'
  BY <1>1, <1>2 DEF Inv, SettingsInv
<1>4. EnvDefaults.endpoints \in Endpoints /\ EnvDefaults.range \in Ranges
  BY <1>2 DEF Settings
<1> QED
  BY <1>1, <1>3, <1>4, OnSettingsInv

LEMMA NextInv == Inv /\ [Next]_vars => Inv'
<1> SUFFICES ASSUME Inv, [Next]_vars PROVE Inv'
  OBVIOUS
<1>1. ASSUME Load \/ LoadAtList PROVE Inv'
  BY <1>1, StartInv DEF Load, LoadAtList
<1>2. CASE CloseTab
  BY <1>2, SettingsStay, LeaveInv DEF CloseTab, Inv, settingsVars
<1>3. ASSUME NEW p \in tour.paths, Navigate(p) PROVE Inv'
  <2>1. /\ hash' = p /\ events' = events + 1 /\ view.kind # "none"
        /\ UNCHANGED <<settingsVars, path, view, toWorker, range, tour, frames>>
    BY <1>3 DEF Navigate, Acts, Anywhere
  <2>2. view # Gone
    BY <2>1 DEF Gone
  <2> QED
    BY <2>1, <2>2 DEF Inv, SettingsInv, WindowInv, Follows, Coming, settingsVars
<1>4. CASE StayOn
  BY <1>4, StayOnInv
<1>5. CASE Mount
  BY <1>5, RemountInv DEF Mount, Remount, HashChange
<1>6. CASE MountSnapshots
  <2>1. Remount /\ view'.kind = "snapshots" /\ toWorker' = toWorker /\ UNCHANGED settingsVars
    BY <1>6 DEF MountSnapshots, Remount, HashChange, NewView
  <2>2. toWorker' = toWorker \o PushedBy(view')
    BY <2>1, ConcatEmptySeq DEF PushedBy, HasWindow, Inv, WindowInv
  <2> QED
    BY <2>1, <2>2, RemountInv
<1>7. CASE TakeRange
  BY <1>7, TakeRangeInv
<1>8. CASE Frame
  BY <1>8, FrameInv
<1>9. ASSUME NEW w \in Ranges, SetWindow(w) PROVE Inv'
  BY <1>9, SetWindowInv
<1>10. ASSUME NEW w \in Ranges, SetDefaultRange(w) PROVE Inv'
  BY <1>10, UpdateKeepsSettings, OnSettingsInv DEF SetDefaultRange, Inv
<1>11. ASSUME NEW m \in Metrics, ToggleHeat(m) PROVE Inv'
  BY <1>11, ToggleHeatInv
<1>12. ASSUME NEW e \in Endpoints, EditDraft(e) PROVE Inv'
  BY <1>12, SettingsStay, OnSettingsInv DEF EditDraft, Inv, settingsVars
<1>13. ASSUME NEW a \in Accents, SetAccent(a) PROVE Inv'
  BY <1>13, UpdateKeepsSettings, OnSettingsInv DEF SetAccent, Inv
<1>14. ASSUME ResetAll \/ SaveEndpoints PROVE Inv'
  BY <1>14, ResetAllInv, SaveEndpointsInv
<1>15. ASSUME OnAlerts \/ OnList PROVE Inv'
  BY <1>15, Elsewhere DEF OnAlerts, OnList, Acts, pageVars
<1>16. ASSUME Quiet \/ UNCHANGED vars PROVE Inv'
  BY <1>16, Elsewhere DEF Quiet, vars, pageVars
<1> QED
  BY <1>1, <1>2, <1>3, <1>4, <1>5, <1>6, <1>7, <1>8, <1>9, <1>10, <1>11, <1>12, <1>13,
     <1>14, <1>15, <1>16
  DEF Next, Add, Remove, Toggle, Update, PressOpen, PressCancel, PressEdit,
      PressRefused, PressSave, PressDelete, ServeOne, LoseOne, AnswerList,
      AnswerDelete, AnswerSaved, AnswerUnsaved

-----------------------------------------------------------------------------
\* Theorem: however the user goes from view to view, sets windows, changes the
\* settings, reloads or closes the page, and however late the worker takes the
\* ranges, a view that shows a window shows the worker's once nothing is under
\* way (controller.setRange in DashboardGrid, Explore, Settings and App).
THEOREM RangeFollowsView == Spec => []RangeAgrees
<1>1. Inv => RangeAgrees
  BY DEF Inv, Follows, Coming, RangeAgrees
<1> QED
  BY InitInv, NextInv, <1>1, PTL DEF Spec

-----------------------------------------------------------------------------
(* What is kept.                                                            *)

kept == <<rules, storedRules, rulesKept, current, stored, settingsKept>>

\* Also while no page is open, and whatever was refused before.
KeptInv ==
    /\ settingsKept => LoadedSettings(stored) = current
    /\ rulesKept => LoadedRules(storedRules) = rules

LEMMA SameKept == ASSUME KeptInv, UNCHANGED kept PROVE KeptInv'
  BY DEF KeptInv, kept, LoadedSettings, LoadedRules

\* A change that is taken makes up for those that were refused before it.
LEMMA SettingsEdit ==
    ASSUME KeptInv, NEW f, NEW v, UpdateSetting(f, v) \/ ResetSettings,
           UNCHANGED <<rules, storedRules, rulesKept>>
    PROVE  KeptInv'
<1>1. settingsKept' => LoadedSettings(stored') = current'
  BY DEF UpdateSetting, ResetSettings, Keep, LoadedSettings
<1> QED
  BY <1>1 DEF KeptInv, LoadedRules

LEMMA RulesEdit ==
    ASSUME KeptInv, OnAlerts, NEW new, Persist(new) PROVE KeptInv'
<1>1. rulesKept' => LoadedRules(storedRules') = rules'
  BY DEF Persist, LoadedRules
<1>2. UNCHANGED <<current, stored, settingsKept>>
  BY DEF OnAlerts, settingsVars
<1> QED
  BY <1>1, <1>2 DEF KeptInv, LoadedSettings

LEMMA StartKept == ASSUME KeptInv, Start PROVE KeptInv'
<1>1. PICK denied \in BOOLEAN :
        /\ rules' = LoadedRules(IF denied THEN {} ELSE storedRules) /\ storedRules' = storedRules
        /\ current' = LoadedSettings(IF denied THEN {} ELSE stored) /\ stored' = stored
        /\ rulesKept' = ~denied /\ settingsKept' = ~denied
  BY DEF Start
<1>2. CASE denied
  BY <1>1, <1>2 DEF KeptInv
<1>3. CASE ~denied
  <2>1. rules' = LoadedRules(storedRules) /\ current' = LoadedSettings(stored)
    BY <1>1, <1>3
  <2> QED
    BY <1>1, <2>1 DEF KeptInv, LoadedSettings, LoadedRules
<1> QED
  BY <1>2, <1>3

\* Everything edited in a view goes through one of the edits above.
LEMMA NextKept == KeptInv /\ [Next]_vars => KeptInv'
<1> SUFFICES ASSUME KeptInv, [Next]_vars PROVE KeptInv'
  OBVIOUS
<1>1. ASSUME Load \/ LoadAtList PROVE KeptInv'
  BY <1>1, StartKept DEF Load, LoadAtList
<1>2. ASSUME CloseTab PROVE UNCHANGED kept
  BY <1>2 DEF CloseTab, Leave, settingsVars, kept
<1>3. ASSUME NEW p \in tour.paths, Navigate(p) PROVE UNCHANGED kept
  BY <1>3 DEF Navigate, alertVars, settingsVars, kept
<1>4. ASSUME StayOn \/ Mount \/ MountSnapshots PROVE UNCHANGED kept
  BY <1>4 DEF StayOn, Mount, MountSnapshots, Remount, HashChange, alertVars, settingsVars, kept
<1>5. ASSUME TakeRange PROVE UNCHANGED kept
  BY <1>5 DEF TakeRange, alertVars, settingsVars, kept
<1>6. ASSUME Frame PROVE UNCHANGED kept
  <2>1. UNCHANGED settingsVars /\ \E f \in tour.frames[frames'] : Evaluate(Latest(f), frames')
    BY <1>6 DEF Frame
  <2> QED
    BY <2>1 DEF Evaluate, settingsVars, kept
<1>7. ASSUME NEW w \in Ranges, SetWindow(w) PROVE UNCHANGED kept
  BY <1>7 DEF SetWindow, alertVars, settingsVars, kept
<1>8. ASSUME NEW m \in Metrics, ToggleHeat(m) PROVE UNCHANGED kept
  BY <1>8 DEF ToggleHeat, alertVars, settingsVars, kept
<1>9. ASSUME NEW e \in Endpoints, EditDraft(e) PROVE UNCHANGED kept
  BY <1>9 DEF EditDraft, OnSettings, alertVars, settingsVars, kept
<1>10. ASSUME NEW w \in Ranges, SetDefaultRange(w) PROVE KeptInv'
  BY <1>10, SettingsEdit DEF SetDefaultRange, OnSettings, alertVars
<1>11. ASSUME NEW a \in Accents, SetAccent(a) PROVE KeptInv'
  BY <1>11, SettingsEdit DEF SetAccent, OnSettings, alertVars
<1>12. ASSUME ResetAll PROVE KeptInv'
  BY <1>12, SettingsEdit DEF ResetAll, OnSettings, alertVars
<1>13. ASSUME SaveEndpoints PROVE KeptInv'
  BY <1>13, SettingsEdit DEF SaveEndpoints, Leave
<1>14. ASSUME NEW rule, Add(rule) PROVE KeptInv'
  <2>1. \E id \in RuleIds \ used :
           Persist([i \in DOMAIN rules \cup {id} |-> IF i = id THEN rule ELSE rules[i]])
    BY <1>14 DEF Add, AddRule
  <2> QED
    BY <1>14, <2>1, RulesEdit DEF Add
<1>15. ASSUME NEW id, Remove(id) \/ Toggle(id) \/ Update(id) PROVE KeptInv'
  BY <1>15, RulesEdit DEF Remove, Toggle, Update, RemoveRule, ToggleRule, UpdateRule
<1>16. ASSUME OnList \/ Quiet \/ UNCHANGED vars PROVE UNCHANGED kept
  BY <1>16 DEF OnList, Quiet, vars, alertVars, settingsVars, kept
<1> QED
  BY <1>1, <1>2, <1>3, <1>4, <1>5, <1>6, <1>7, <1>8, <1>9, <1>10, <1>11, <1>12, <1>13,
     <1>14, <1>15, <1>16, SameKept
  DEF Next, PressOpen, PressCancel, PressEdit, PressRefused, PressSave, PressDelete,
      ServeOne, LoseOne, AnswerList, AnswerDelete, AnswerSaved, AnswerUnsaved

\* Theorem: whatever is edited, reset, saved or removed, in whatever order, and
\* however often localStorage refused meanwhile, once it has taken a change a
\* load finds the settings, or the rules, that are in force, all of them (persist,
\* reset and load in settings.svelte.ts and alerts.svelte.ts).
THEOREM LoadFindsWhatIsKept == Spec => []ReloadKeeps
<1>1. Init => KeptInv
  BY DEF Init, KeptInv, LoadedSettings, LoadedRules
<1>2. KeptInv => ReloadKeeps
  BY DEF KeptInv, ReloadKeeps
<1> QED
  BY <1>1, <1>2, NextKept, PTL DEF Spec

-----------------------------------------------------------------------------
(* Who fires. *)

alerts == <<rules, storedRules, firing, used, frames, history>>

AllIds == RuleIds \cup DOMAIN DefaultRules

\* The rules a load may find.
StoredKnown == storedRules = {} \/ \E r : storedRules = {r} /\ DOMAIN r \subseteq used

\* A rule that is added has an id nothing breached under, and a rule that
\* fires has its start among the frames so far.
FiringInv ==
    /\ frames \in Nat /\ history \in Seq(SUBSET AllIds) /\ Len(history) = frames
    /\ used \subseteq AllIds /\ DOMAIN rules \subseteq used
    /\ DOMAIN DefaultRules \subseteq used /\ StoredKnown
    /\ \A k \in 1 .. frames : history[k] \subseteq used
    /\ \A id \in DOMAIN firing : firing[id].since \in 1 .. frames
    /\ FiringIsTrue

LEMMA SameAlerts == ASSUME FiringInv, UNCHANGED alerts PROVE FiringInv'
  BY DEF FiringInv, alerts, StoredKnown, FiringIsTrue

\* Nothing fires, and nothing breached as far as the page knows.
LEMMA NothingFires ==
    ASSUME FiringInv, firing' = NoneFiring, history' = [i \in 1 .. frames |-> {}],
           DOMAIN rules' \subseteq used, UNCHANGED <<storedRules, used, frames>>
    PROVE  FiringInv'
<1>1. DOMAIN firing' = {}
  BY DEF NoneFiring
<1>2. /\ history' \in Seq(SUBSET AllIds) /\ Len(history') = frames
      /\ \A k \in 1 .. frames : history'[k] = {}
  BY DEF FiringInv
<1>3. FiringIsTrue'
  BY <1>1, <1>2 DEF FiringInv, FiringIsTrue
<1> QED
  BY <1>1, <1>2, <1>3 DEF FiringInv, StoredKnown

LEMMA InitFiring == Init => FiringInv
<1> SUFFICES ASSUME Init PROVE FiringInv
  OBVIOUS
<1>1. DOMAIN firing = {} /\ frames = 0 /\ history = <<>> /\ rules = DefaultRules
      /\ storedRules = {} /\ used = DOMAIN DefaultRules
  BY DEF Init, NoneFiring
<1> QED
  BY <1>1 DEF FiringInv, FiringIsTrue, AllIds, StoredKnown

LEMMA AddFiring == ASSUME FiringInv, NEW rule, Add(rule) PROVE FiringInv'
<1>1. PICK id \in RuleIds \ used :
        /\ Persist([i \in DOMAIN rules \cup {id} |-> IF i = id THEN rule ELSE rules[i]])
        /\ used' = used \cup {id} /\ UNCHANGED firing
  BY DEF Add, AddRule
<1>2. UNCHANGED <<frames, history>>
  BY DEF Add, OnAlerts
<1>3. DOMAIN rules' = DOMAIN rules \cup {id} /\ StoredKnown'
  <2>1. DOMAIN rules' = DOMAIN rules \cup {id} /\ (storedRules' = {rules'} \/ storedRules' = storedRules)
    BY <1>1 DEF Persist
  <2> QED
    BY <1>1, <2>1 DEF FiringInv, StoredKnown
<1>4. FiringIsTrue'
  <2>1. frames # 0 => id \notin history[frames]
    BY <1>1 DEF FiringInv
  <2>2. (IF frames = 0 THEN {} ELSE history[frames] \cap DOMAIN rules)
          = IF frames = 0 THEN {} ELSE history[frames] \cap DOMAIN rules'
    BY <1>3, <2>1
  <2>3. DOMAIN firing' = IF frames' = 0 THEN {} ELSE history'[frames'] \cap DOMAIN rules'
    BY <1>1, <1>2, <2>2 DEF FiringInv, FiringIsTrue
  <2> QED
    BY <1>1, <1>2, <2>3 DEF FiringInv, FiringIsTrue
<1> QED
  BY <1>1, <1>2, <1>3, <1>4 DEF FiringInv, AllIds

LEMMA RemoveFiring == ASSUME FiringInv, NEW id, Remove(id) PROVE FiringInv'
<1>1. /\ Persist([i \in DOMAIN rules \ {id} |-> rules[i]])
      /\ firing' = [i \in DOMAIN firing \ {id} |-> firing[i]]
      /\ UNCHANGED <<used, frames, history>>
  BY DEF Remove, RemoveRule, OnAlerts
<1>2. DOMAIN rules' = DOMAIN rules \ {id} /\ StoredKnown'
  <2>1. DOMAIN rules' = DOMAIN rules \ {id} /\ (storedRules' = {rules'} \/ storedRules' = storedRules)
    BY <1>1 DEF Persist
  <2> QED
    BY <1>1, <2>1 DEF FiringInv, StoredKnown
<1>3. FiringIsTrue'
  BY <1>1, <1>2 DEF FiringInv, FiringIsTrue
<1> QED
  BY <1>1, <1>2, <1>3 DEF FiringInv

LEMMA EditFiring == ASSUME FiringInv, NEW id, Toggle(id) \/ Update(id) PROVE FiringInv'
<1>1. /\ \E new : DOMAIN new = DOMAIN rules /\ Persist(new)
      /\ UNCHANGED <<firing, used, frames, history>>
  BY DEF Toggle, Update, ToggleRule, UpdateRule, OnAlerts
<1>2. DOMAIN rules' = DOMAIN rules /\ StoredKnown'
  <2>1. DOMAIN rules' = DOMAIN rules /\ (storedRules' = {rules'} \/ storedRules' = storedRules)
    BY <1>1 DEF Persist
  <2> QED
    BY <1>1, <2>1 DEF FiringInv, StoredKnown
<1> QED
  BY <1>1, <1>2 DEF FiringInv, FiringIsTrue

\* The one step at which rules start and stop.
LEMMA FrameFiring == ASSUME FiringInv, Frame PROVE FiringInv'
<1>1. frames' = frames + 1
  BY DEF Frame
<1>2. PICK f \in tour.frames[frames'] :
        Evaluate(Latest(f), frames') /\ history' = Append(history, Breaching(Latest(f)))
  BY DEF Frame
<1> DEFINE B == Breaching(Latest(f))
           next == [id \in B |->
                      [value |-> Latest(f)[rules[id].metric],
                       since |-> IF id \in DOMAIN firing THEN firing[id].since ELSE frames']]
<1>3. /\ firing' = IF DOMAIN firing = B THEN firing ELSE next
      /\ UNCHANGED <<rules, storedRules, used>>
  BY <1>2 DEF Evaluate, SameFiring
<1>4. B \subseteq DOMAIN rules /\ B \subseteq used /\ B \in SUBSET AllIds
  BY DEF Breaching, FiringInv
<1> HIDE DEF B
<1>5. /\ history' \in Seq(SUBSET AllIds) /\ Len(history') = frames'
      /\ \A k \in 1 .. frames : history'[k] = history[k]
      /\ history'[frames'] = B
  BY <1>1, <1>2, <1>4, AppendProperties DEF FiringInv, B
<1>6. DOMAIN firing' = B
  BY <1>3
<1>7. \A id \in B : firing'[id].since =
                      IF id \in DOMAIN firing THEN firing[id].since ELSE frames'
  BY <1>3
<1>8. ASSUME NEW id \in B
      PROVE  /\ firing'[id].since \in 1 .. frames'
             /\ \A k \in firing'[id].since .. frames' : id \in history'[k]
             /\ firing'[id].since > 1 => id \notin history'[firing'[id].since - 1]
  <2>1. CASE id \in DOMAIN firing
    <3>1. firing'[id].since = firing[id].since /\ firing[id].since \in 1 .. frames
      BY <1>7, <1>8, <2>1 DEF FiringInv
    <3>2. /\ \A k \in firing[id].since .. frames : id \in history[k]
          /\ firing[id].since > 1 => id \notin history[firing[id].since - 1]
      BY <2>1 DEF FiringInv, FiringIsTrue
    <3> QED
      BY <1>1, <1>5, <1>8, <3>1, <3>2 DEF FiringInv
  <2>2. CASE id \notin DOMAIN firing
    <3>1. firing'[id].since = frames'
      BY <1>7, <1>8, <2>2
    <3>2. frames # 0 => id \notin history[frames]
      BY <1>4, <1>8, <2>2 DEF FiringInv, FiringIsTrue
    <3> QED
      BY <1>1, <1>5, <1>8, <3>1, <3>2 DEF FiringInv
  <2> QED
    BY <2>1, <2>2
<1>9. FiringIsTrue'
  <2>1. DOMAIN firing' = IF frames' = 0 THEN {} ELSE history'[frames'] \cap DOMAIN rules'
    <3>1. frames' # 0
      BY <1>1 DEF FiringInv
    <3>2. B \cap DOMAIN rules' = B
      BY <1>3, <1>4
    <3> QED
      BY <1>5, <1>6, <3>1, <3>2
  <2> QED
    BY <1>6, <1>8, <2>1 DEF FiringIsTrue
<1>10. \A k \in 1 .. frames' : history'[k] \subseteq used'
  BY <1>1, <1>3, <1>4, <1>5 DEF FiringInv
<1> QED
  BY <1>1, <1>3, <1>5, <1>6, <1>8, <1>9, <1>10 DEF FiringInv, StoredKnown

LEMMA NextFiring == FiringInv /\ [Next]_vars => FiringInv'
<1> SUFFICES ASSUME FiringInv, [Next]_vars PROVE FiringInv'
  OBVIOUS
<1>1. ASSUME Start PROVE FiringInv'
  <2>1. /\ firing' = NoneFiring /\ history' = [i \in 1 .. frames |-> {}]
        /\ rules' = LoadedRules({}) \/ rules' = LoadedRules(storedRules)
        /\ UNCHANGED <<storedRules, used, frames>>
    BY <1>1 DEF Start
  <2>2. \A r : LoadedRules({r}) = r
    BY DEF LoadedRules
  <2>3. LoadedRules({}) = DefaultRules
    BY DEF LoadedRules
  <2>4. DOMAIN rules' \subseteq used
    BY <2>1, <2>2, <2>3 DEF FiringInv, StoredKnown
  <2> QED
    BY <2>1, <2>4, NothingFires
<1>2. ASSUME Leave PROVE FiringInv'
  BY <1>2, NothingFires DEF Leave, FiringInv
<1>3. ASSUME \/ \E p \in tour.paths : Navigate(p)
             \/ StayOn \/ Mount \/ MountSnapshots \/ TakeRange
             \/ \E w \in Ranges : SetWindow(w) \/ SetDefaultRange(w)
             \/ \E m \in Metrics : ToggleHeat(m)
             \/ \E e \in Endpoints : EditDraft(e)
             \/ \E a \in Accents : SetAccent(a)
             \/ ResetAll \/ OnList \/ Quiet \/ UNCHANGED vars
      PROVE  UNCHANGED alerts
  BY <1>3 DEF Navigate, StayOn, Mount, MountSnapshots, Remount, HashChange, TakeRange,
              SetWindow, SetDefaultRange, ToggleHeat, EditDraft, SetAccent, ResetAll,
              OnSettings, OnList, Quiet, vars, alertVars, alerts
<1> QED
  BY <1>1, <1>2, <1>3, SameAlerts, FrameFiring, AddFiring, RemoveFiring, EditFiring
  DEF Next, Load, LoadAtList, CloseTab, SaveEndpoints,
      PressOpen, PressCancel, PressEdit, PressRefused, PressSave, PressDelete,
      ServeOne, LoseOne, AnswerList, AnswerDelete, AnswerSaved, AnswerUnsaved

\* Theorem: whatever rules are added, removed, switched and edited between the
\* frames, a rule fires exactly if it breached in the last one, since the first
\* frame of its unbroken breach (evaluate in alerts.svelte.ts).
THEOREM BreachingFires == Spec => []FiringIsTrue
<1>1. FiringInv => FiringIsTrue
  BY DEF FiringInv
<1> QED
  BY <1>1, InitFiring, NextFiring, PTL DEF Spec

-----------------------------------------------------------------------------
(* What a snapshot holds. *)

dialog == <<server, requests, modal, frames>>

IsFirst(c, openedAt) == c.frame = openedAt + 1

\* A dialog that is open and has no frame was opened since the last one.
ModalInv ==
    /\ {"open", "captured", "openedAt"} \subseteq DOMAIN modal
    /\ ~modal.open => modal.captured = None
    /\ modal.open => IF modal.captured = None
                     THEN modal.openedAt = frames
                     ELSE IsFirst(modal.captured, modal.openedAt)

GoodSave(arg) == IsFirst(arg, arg.openedAt) /\ arg.data \subseteq arg.metrics

\* What is saved is what was in the dialog when the save was sent.
RequestsInv ==
    \A r \in requests :
        /\ {"kind", "arg", "no", "state", "answer"} \subseteq DOMAIN r
        /\ r.kind = "save" => GoodSave(r.arg)

CaptureInv == frames \in Nat /\ ModalInv /\ RequestsInv /\ CapturesFirstFrame

LEMMA SameDialog == ASSUME CaptureInv, UNCHANGED dialog PROVE CaptureInv'
  BY DEF CaptureInv, ModalInv, RequestsInv, CapturesFirstFrame, dialog

LEMMA ClosedModal ==
    ASSUME NEW saving, modal' = Closed(saving) PROVE ModalInv'
  BY DEF Closed, ModalInv

\* Only saves have to be good.
LEMMA Sent ==
    ASSUME NEW kind, NEW arg, NEW alone, Send(kind, arg, alone),
           RequestsInv, alone \subseteq requests, kind = "save" => GoodSave(arg)
    PROVE  RequestsInv'
<1> DEFINE new == [no |-> sent + 1, kind |-> kind, arg |-> arg,
                   from |-> instance', state |-> "sent", answer |-> {}]
<1>1. requests' = alone \cup {new}
  BY DEF Send
<1>2. /\ {"kind", "arg", "no", "state", "answer"} \subseteq DOMAIN new
      /\ new.kind = kind /\ new.arg = arg
  OBVIOUS
<1> HIDE DEF new
<1> QED
  BY <1>1, <1>2 DEF RequestsInv

LEMMA ListSent ==
    ASSUME NEW others, LoadSnapshots(others), RequestsInv, others \subseteq requests
    PROVE  RequestsInv'
<1>1. Send("list", None, others)
  BY DEF LoadSnapshots
<1> QED
  BY <1>1, Sent

LEMMA MountListCapture ==
    ASSUME CaptureInv, MountList, UNCHANGED frames PROVE CaptureInv'
<1>1. /\ modal' = Closed(FALSE) /\ LoadSnapshots(requests) /\ UNCHANGED server
  BY DEF MountList
<1> QED
  BY <1>1, ClosedModal, ListSent DEF CaptureInv, CapturesFirstFrame

\* The step that takes a frame: the first after the opening.
LEMMA FrameCapture == ASSUME CaptureInv, Frame PROVE CaptureInv'
<1>1. frames' = frames + 1 /\ UNCHANGED <<server, requests>>
  BY DEF Frame
<1>2. PICK f \in tour.frames[frames'] : modal' = Capture(frames', f)
  BY DEF Frame
<1> DEFINE c == [frame |-> frames', metrics |-> DOMAIN f]
<1>3. c # None /\ c.frame = frames'
  <2>1. "frame" \in DOMAIN c /\ "frame" \notin DOMAIN None
    BY DEF None
  <2> QED
    BY <2>1
<1> HIDE DEF c
<1>4. CASE modal.open /\ modal.captured = None
  <2>1. modal' = [modal EXCEPT !.captured = c]
    BY <1>2, <1>4 DEF Capture, c
  <2>2. /\ modal'.captured = c /\ modal'.open = modal.open
        /\ modal'.openedAt = modal.openedAt /\ DOMAIN modal' = DOMAIN modal
    BY <2>1 DEF CaptureInv, ModalInv
  <2>3. ModalInv'
    BY <1>1, <1>3, <1>4, <2>2 DEF CaptureInv, ModalInv, IsFirst
  <2> QED
    BY <1>1, <2>3 DEF CaptureInv, RequestsInv, CapturesFirstFrame
<1>5. CASE ~(modal.open /\ modal.captured = None)
  <2>1. modal' = modal
    BY <1>2, <1>5 DEF Capture
  <2>2. ModalInv'
    BY <1>5, <2>1 DEF CaptureInv, ModalInv
  <2> QED
    BY <1>1, <2>2 DEF CaptureInv, RequestsInv, CapturesFirstFrame
<1> QED
  BY <1>4, <1>5

\* The dialog's own buttons.
LEMMA ListCapture ==
    ASSUME CaptureInv,
           PressOpen \/ PressCancel \/ PressEdit \/ PressRefused \/ PressSave
             \/ \E id \in snapshots : PressDelete(id)
    PROVE  CaptureInv'
<1>1. UNCHANGED frames
  BY DEF PressOpen, PressCancel, PressEdit, PressRefused, PressSave, PressDelete, OnList
<1>2. CASE OpenModal(frames)
  <2>1. /\ ~modal.open /\ UNCHANGED <<server, requests>>
        /\ modal' = [modal EXCEPT !.open = TRUE, !.range = current.range, !.openedAt = frames]
    BY <1>2 DEF OpenModal
  <2>2. /\ modal'.captured = None /\ modal'.openedAt = frames
        /\ DOMAIN modal' = DOMAIN modal
    BY <2>1 DEF CaptureInv, ModalInv
  <2> QED
    BY <1>1, <2>1, <2>2 DEF CaptureInv, ModalInv, RequestsInv, CapturesFirstFrame
<1>3. CASE CloseModal
  BY <1>1, <1>3, ClosedModal DEF CloseModal, CaptureInv, RequestsInv, CapturesFirstFrame
<1>4. CASE EditModal \/ SaveRefused
  <2>1. /\ UNCHANGED <<server, requests>>
        /\ modal'.open = modal.open /\ modal'.captured = modal.captured
        /\ modal'.openedAt = modal.openedAt /\ DOMAIN modal' = DOMAIN modal
    BY <1>4 DEF EditModal, SaveRefused, CaptureInv, ModalInv
  <2> QED
    BY <1>1, <2>1 DEF CaptureInv, ModalInv, RequestsInv, CapturesFirstFrame
<1>5. CASE Save
  <2> DEFINE arg == [frame |-> modal.captured.frame, openedAt |-> modal.openedAt,
                     metrics |-> modal.selected, range |-> modal.range,
                     data |-> modal.selected \cap modal.captured.metrics]
  <2>1. /\ modal.open /\ modal.captured # None
        /\ modal' = [modal EXCEPT !.saving = TRUE, !.failed = FALSE]
        /\ Send("save", arg, requests) /\ UNCHANGED server
    BY <1>5 DEF Save, MayPressSave
  <2>2. GoodSave(arg)
    BY <2>1 DEF CaptureInv, ModalInv, IsFirst, GoodSave
  <2> HIDE DEF arg
  <2>3. RequestsInv'
    BY <2>1, <2>2, Sent DEF CaptureInv
  <2>4. /\ modal'.open = modal.open /\ modal'.captured = modal.captured
        /\ modal'.openedAt = modal.openedAt /\ DOMAIN modal' = DOMAIN modal
    BY <2>1 DEF CaptureInv, ModalInv
  <2> QED
    BY <1>1, <2>1, <2>3, <2>4 DEF CaptureInv, ModalInv, CapturesFirstFrame
<1>6. ASSUME NEW id, Delete(id) PROVE CaptureInv'
  <2>1. Send("delete", [id |-> id], requests) /\ UNCHANGED <<server, modal>>
    BY <1>6 DEF Delete
  <2>2. RequestsInv'
    BY <2>1, Sent DEF CaptureInv
  <2> QED
    BY <1>1, <2>1, <2>2 DEF CaptureInv, ModalInv, CapturesFirstFrame
<1> QED
  BY <1>2, <1>3, <1>4, <1>5, <1>6
  DEF PressOpen, PressCancel, PressEdit, PressRefused, PressSave, PressDelete

\* A request changes its state and answer only, and a save is stored as sent.
LEMMA ServeCapture ==
    ASSUME CaptureInv, NEW r \in requests, Serve(r) \/ Lose(r), UNCHANGED frames
    PROVE  CaptureInv'
<1>1. UNCHANGED modal
  BY DEF Serve, Lose
<1>2. /\ {"kind", "arg", "no", "state", "answer"} \subseteq DOMAIN r
      /\ r.kind = "save" => GoodSave(r.arg)
  BY DEF CaptureInv, RequestsInv
<1>3. \E new : /\ requests' = (requests \ {r}) \cup {new}
               /\ DOMAIN new = DOMAIN r /\ new.kind = r.kind /\ new.arg = r.arg
  <2> DEFINE Like(new) == DOMAIN new = DOMAIN r /\ new.kind = r.kind /\ new.arg = r.arg
  <2>1. \A st : Like([r EXCEPT !.state = st])
    OBVIOUS
  <2>2. \A st, an : Like([r EXCEPT !.state = st, !.answer = an])
    OBVIOUS
  <2>3. \/ \E st : With(r, [r EXCEPT !.state = st])
        \/ \E st, an : With(r, [r EXCEPT !.state = st, !.answer = an])
    BY DEF Serve, Lose
  <2>4. \E new : Like(new) /\ With(r, new)
    <3> HIDE DEF Like
    <3> QED
      BY <2>1, <2>2, <2>3
  <2> QED
    BY <2>4 DEF With
<1>4. RequestsInv'
  BY <1>2, <1>3 DEF CaptureInv, RequestsInv
<1>5. \A s \in server' \ server : r.kind = "save" /\ s = [id |-> r.no, saved |-> r.arg]
  BY DEF Serve, Lose
<1>6. CapturesFirstFrame'
  BY <1>2, <1>5 DEF CaptureInv, CapturesFirstFrame, GoodSave, IsFirst
<1> QED
  BY <1>1, <1>4, <1>6 DEF CaptureInv, ModalInv

LEMMA AnswerCapture ==
    ASSUME CaptureInv, NEW r \in requests, UNCHANGED frames,
           ListAnswered(r) \/ DeleteAnswered(r) \/ SaveDone(r) \/ SaveFailed(r)
    PROVE  CaptureInv'
<1>1. UNCHANGED server
  BY DEF ListAnswered, DeleteAnswered, SaveDone, SaveFailed
<1>2. RequestsInv'
  <2>1. CASE SaveDone(r)
    <3>1. LoadSnapshots(requests \ {r})
      BY <2>1 DEF SaveDone
    <3> QED
      BY <3>1, ListSent DEF CaptureInv
  <2>2. CASE ~SaveDone(r)
    BY <2>2 DEF ListAnswered, DeleteAnswered, SaveFailed, CaptureInv, RequestsInv
  <2> QED
    BY <2>1, <2>2
<1>3. \/ modal' = modal \/ modal' = Closed(FALSE)
      \/ modal' = [modal EXCEPT !.saving = FALSE, !.failed = TRUE]
  BY DEF ListAnswered, DeleteAnswered, SaveDone, SaveFailed
<1>4. ModalInv'
  <2>1. CASE modal' = Closed(FALSE)
    BY <2>1, ClosedModal
  <2>2. CASE modal' = [modal EXCEPT !.saving = FALSE, !.failed = TRUE]
    <3>1. /\ modal'.open = modal.open /\ modal'.captured = modal.captured
          /\ modal'.openedAt = modal.openedAt /\ DOMAIN modal' = DOMAIN modal
      BY <2>2 DEF CaptureInv, ModalInv
    <3> QED
      BY <3>1 DEF CaptureInv, ModalInv
  <2> QED
    BY <1>3, <2>1, <2>2 DEF CaptureInv, ModalInv
<1> QED
  BY <1>1, <1>2, <1>4 DEF CaptureInv, CapturesFirstFrame

LEMMA NextCapture == CaptureInv /\ [Next]_vars => CaptureInv'
<1> SUFFICES ASSUME CaptureInv, [Next]_vars PROVE CaptureInv'
  OBVIOUS
<1>1. ASSUME Leave PROVE CaptureInv'
  BY <1>1, ClosedModal DEF Leave, CaptureInv, RequestsInv, CapturesFirstFrame
<1>2. ASSUME Load PROVE UNCHANGED dialog
  BY <1>2 DEF Load, Start, listVars, dialog
<1>3. ASSUME LoadAtList \/ MountSnapshots PROVE CaptureInv'
  BY <1>3, MountListCapture DEF LoadAtList, Start, MountSnapshots, Remount, HashChange
<1>4. ASSUME Mount PROVE CaptureInv'
  BY <1>4, ClosedModal
  DEF Mount, Remount, HashChange, CaptureInv, RequestsInv, CapturesFirstFrame
<1>5. ASSUME \/ \E p \in tour.paths : Navigate(p)
             \/ StayOn \/ TakeRange
             \/ \E w \in Ranges : SetWindow(w) \/ SetDefaultRange(w)
             \/ \E m \in Metrics : ToggleHeat(m)
             \/ \E e \in Endpoints : EditDraft(e)
             \/ \E a \in Accents : SetAccent(a)
             \/ ResetAll \/ OnAlerts \/ UNCHANGED vars
      PROVE  UNCHANGED dialog
  BY <1>5 DEF Navigate, StayOn, HashChange, TakeRange, SetWindow, SetDefaultRange,
              ToggleHeat, EditDraft, SetAccent, ResetAll, OnSettings, OnAlerts, vars,
              listVars, dialog
<1>6. ASSUME NEW r \in requests,
             \/ ServeOne(r) \/ LoseOne(r) \/ AnswerList(r)
             \/ AnswerDelete(r) \/ AnswerSaved(r) \/ AnswerUnsaved(r)
      PROVE  CaptureInv'
  BY <1>6, ServeCapture, AnswerCapture
  DEF ServeOne, LoseOne, AnswerList, AnswerDelete, AnswerSaved, AnswerUnsaved, Quiet
<1> QED
  BY <1>1, <1>2, <1>3, <1>4, <1>5, <1>6, SameDialog, FrameCapture, ListCapture
  DEF Next, CloseTab, SaveEndpoints, Add, Remove, Toggle, Update

\* Theorem: however often the dialog is closed and opened again, and however
\* late a save is served, a snapshot holds the first frame after the opening
\* it was saved from (the effect of SnapshotModal with its frame handler).
THEOREM SavesFirstFrame == Spec => []CapturesFirstFrame
<1>1. Init => CaptureInv
  BY ClosedModal DEF Init, CaptureInv, ModalInv, RequestsInv, CapturesFirstFrame, Closed
<1>2. CaptureInv => CapturesFirstFrame
  BY DEF CaptureInv
<1> QED
  BY <1>1, <1>2, NextCapture, PTL DEF Spec

-----------------------------------------------------------------------------
(* The cards and the server. *)

listed == <<server, snapshots, requests, calm>>

\* What the answer of a request that is alone will make of the cards.
Settling(r) ==
    /\ r.kind \in {"list", "save", "delete"} /\ r.state \in {"sent", "served", "failed"}
    /\ r.kind = "list" => r.state = "sent" \/ (r.state = "served" /\ r.answer = IdsOf(server))
    /\ r.kind = "save" => r.state # "failed"
    /\ r.kind = "delete" => IF r.state = "served"
                            THEN snapshots \ {r.arg.id} = IdsOf(server)
                            ELSE snapshots = IdsOf(server)

\* In calm at most one request is under way.
CalmInv ==
    calm => /\ \A r, q \in requests : r = q
            /\ \A r \in requests : Settling(r)
            /\ requests = {} => snapshots = IdsOf(server)

LEMMA SameListed == ASSUME CalmInv, UNCHANGED listed PROVE CalmInv'
  BY DEF CalmInv, Settling, IdsOf, listed

LEMMA ListSentCalm ==
    ASSUME NEW others, LoadSnapshots(others) PROVE CalmInv'
<1> DEFINE new == [no |-> sent + 1, kind |-> "list", arg |-> None,
                   from |-> instance', state |-> "sent", answer |-> {}]
<1>1. requests' = others \cup {new} /\ calm' = (others = {})
  BY DEF LoadSnapshots, Send
<1>2. new.kind = "list" /\ new.state = "sent"
  OBVIOUS
<1> HIDE DEF new
<1>3. ASSUME calm' PROVE requests' = {new}
  BY <1>1, <1>3
<1>4. \A r : r = new => Settling(r)'
  BY <1>2 DEF Settling
<1> QED
  BY <1>3, <1>4 DEF CalmInv

LEMMA ChangeCalm ==
    ASSUME CalmInv, Save \/ \E id : Delete(id) PROVE CalmInv'
<1>1. calm' = (calm /\ requests = {}) /\ UNCHANGED <<server, snapshots>>
  BY DEF Save, Delete
<1>2. ASSUME calm' PROVE calm /\ requests = {} /\ snapshots = IdsOf(server)
  BY <1>1, <1>2 DEF CalmInv
<1>3. ASSUME NEW kind, NEW arg, kind \in {"save", "delete"}, Send(kind, arg, requests)
      PROVE  \E new : /\ new.kind \in {"save", "delete"} /\ new.state = "sent"
                      /\ requests' = requests \cup {new}
  <2> DEFINE n == [no |-> sent + 1, kind |-> kind, arg |-> arg,
                   from |-> instance', state |-> "sent", answer |-> {}]
  <2>1. n.kind \in {"save", "delete"} /\ n.state = "sent"
    BY <1>3
  <2>2. requests' = requests \cup {n}
    BY <1>3 DEF Send
  <2> HIDE DEF n
  <2> QED
    BY <2>1, <2>2
<1>4. PICK new : /\ new.kind \in {"save", "delete"} /\ new.state = "sent"
                 /\ requests' = requests \cup {new}
  <2>1. CASE Save
    BY <1>3, <2>1 DEF Save
  <2>2. CASE \E id : Delete(id)
    BY <1>3, <2>2 DEF Delete
  <2> QED
    BY <2>1, <2>2
<1>6. ASSUME calm' PROVE requests' = {new} /\ Settling(new)'
  <2>1. requests' = {new} /\ IdsOf(server)' = snapshots'
    BY <1>1, <1>2, <1>4, <1>6 DEF IdsOf
  <2> QED
    BY <1>4, <2>1 DEF Settling
<1> QED
  BY <1>6 DEF CalmInv

\* The server does its part of a request that is alone.
LEMMA ServeCalm ==
    ASSUME CalmInv, RequestsInv, NEW r \in requests, Serve(r) PROVE CalmInv'
<1> SUFFICES ASSUME calm' PROVE CalmInv'
  BY DEF CalmInv
<1>1. calm /\ UNCHANGED snapshots
  BY DEF Serve
<1>2. requests = {r} /\ Settling(r) /\ r.state = "sent"
  BY <1>1 DEF CalmInv, Serve
<1>3. {"kind", "arg", "no", "state", "answer"} \subseteq DOMAIN r
  BY DEF RequestsInv
<1> SUFFICES ASSUME NEW new, requests' = {new} PROVE Settling(new)'
  <2>1. \E new : requests' = (requests \ {r}) \cup {new}
    BY DEF Serve, With
  <2>2. \E new : requests' = {new}
    BY <1>2, <2>1
  <2> QED
    BY <2>2 DEF CalmInv
<1>4. CASE r.kind = "list"
  <2>1. new = [r EXCEPT !.state = "served", !.answer = IdsOf(server)] /\ UNCHANGED server
    BY <1>2, <1>4 DEF Serve, With
  <2>2. new.kind = "list" /\ new.state = "served" /\ new.answer = IdsOf(server)
    BY <1>3, <1>4, <2>1
  <2>3. IdsOf(server)' = IdsOf(server)
    <3>1. UNCHANGED server
      BY <2>1
    <3> QED
      BY <3>1 DEF IdsOf
  <2> QED
    BY <2>2, <2>3 DEF Settling
<1>5. CASE r.kind = "save"
  <2>1. new = [r EXCEPT !.state = "served"]
    BY <1>2, <1>5 DEF Serve, With
  <2>2. new.kind = "save" /\ new.state = "served"
    BY <1>3, <1>5, <2>1
  <2> QED
    BY <2>2 DEF Settling
<1>6. CASE r.kind = "delete"
  <2>1. /\ new = [r EXCEPT !.state = IF r.arg.id \in IdsOf(server) THEN "served" ELSE "failed"]
        /\ server' = {s \in server : s.id # r.arg.id}
    BY <1>2, <1>6 DEF Serve, With
  <2>2. /\ new.kind = "delete" /\ new.arg = r.arg
        /\ new.state = IF r.arg.id \in IdsOf(server) THEN "served" ELSE "failed"
    BY <1>3, <1>6, <2>1
  <2>3. IdsOf(server)' = IdsOf(server) \ {r.arg.id}
    <3>1. \A i : i \in IdsOf(server)' <=> \E s \in server' : s.id = i
      BY DEF IdsOf
    <3>2. \A i : i \in IdsOf(server) <=> \E s \in server : s.id = i
      BY DEF IdsOf
    <3>3. \A s : s \in server' <=> s \in server /\ s.id # r.arg.id
      BY <2>1
    <3> QED
      BY <3>1, <3>2, <3>3
  <2>4. snapshots' = IdsOf(server)
    BY <1>1, <1>2, <1>6 DEF Settling
  <2> QED
    BY <2>2, <2>3, <2>4 DEF Settling
<1> QED
  BY <1>2, <1>4, <1>5, <1>6 DEF Settling

LEMMA AnswerCalm ==
    ASSUME CalmInv, NEW r \in requests,
           ListAnswered(r) \/ DeleteAnswered(r) \/ SaveDone(r) \/ SaveFailed(r)
    PROVE  CalmInv'
<1>1. CASE SaveDone(r)
  BY <1>1, ListSentCalm DEF SaveDone
<1>2. CASE ~SaveDone(r)
  <2> SUFFICES ASSUME calm' PROVE CalmInv'
    BY DEF CalmInv
  <2>1. calm /\ requests' = requests \ {r} /\ UNCHANGED server
    BY <1>2 DEF ListAnswered, DeleteAnswered, SaveFailed
  <2>2. requests' = {} /\ Settling(r)
    BY <2>1 DEF CalmInv
  <2>3. snapshots' = IdsOf(server)
    <3>1. CASE ListAnswered(r)
      BY <2>2, <3>1 DEF ListAnswered, Settling
    <3>2. CASE DeleteAnswered(r)
      BY <2>2, <3>2 DEF DeleteAnswered, Settling
    <3>3. CASE SaveFailed(r)
      BY <2>2, <3>3 DEF SaveFailed, Settling
    <3> QED
      BY <1>2, <3>1, <3>2, <3>3
  <2> QED
    BY <2>1, <2>2, <2>3 DEF CalmInv, IdsOf
<1> QED
  BY <1>1, <1>2

LEMMA NextCalm == CaptureInv /\ CalmInv /\ [Next]_vars => CalmInv'
<1> SUFFICES ASSUME CaptureInv, CalmInv, [Next]_vars PROVE CalmInv'
  OBVIOUS
<1>1. ASSUME ~calm' PROVE CalmInv'
  BY <1>1 DEF CalmInv
<1>2. ASSUME Leave PROVE CalmInv'
  BY <1>1, <1>2 DEF Leave
<1>3. ASSUME Load \/ Mount PROVE UNCHANGED listed
  BY <1>3 DEF Load, Start, Mount, listVars, listed
<1>4. ASSUME LoadAtList \/ MountSnapshots PROVE CalmInv'
  BY <1>4, ListSentCalm DEF LoadAtList, MountSnapshots, MountList
<1>5. ASSUME \/ \E p \in tour.paths : Navigate(p)
             \/ StayOn \/ TakeRange
             \/ \E w \in Ranges : SetWindow(w) \/ SetDefaultRange(w)
             \/ \E m \in Metrics : ToggleHeat(m)
             \/ \E e \in Endpoints : EditDraft(e)
             \/ \E a \in Accents : SetAccent(a)
             \/ ResetAll \/ OnAlerts \/ UNCHANGED vars
      PROVE  UNCHANGED listed
  <2>1. UNCHANGED listVars
    <3>1. CASE \/ \E p \in tour.paths : Navigate(p)
               \/ StayOn \/ TakeRange \/ UNCHANGED vars
      BY <3>1 DEF Navigate, StayOn, TakeRange, vars
    <3>2. CASE \E w \in Ranges : SetWindow(w) \/ SetDefaultRange(w)
      BY <3>2 DEF SetWindow, SetDefaultRange, OnSettings
    <3>3. CASE \/ \E m \in Metrics : ToggleHeat(m)
               \/ \E e \in Endpoints : EditDraft(e)
      BY <3>3 DEF ToggleHeat, EditDraft, OnSettings
    <3>4. CASE \/ \E a \in Accents : SetAccent(a)
               \/ ResetAll \/ OnAlerts
      BY <3>4 DEF SetAccent, ResetAll, OnSettings, OnAlerts
    <3> QED
      BY <1>5, <3>1, <3>2, <3>3, <3>4
  <2> QED
    BY <2>1 DEF listVars, listed
<1>6. ASSUME Frame PROVE UNCHANGED listed
  BY <1>6 DEF Frame, listed
<1>7. ASSUME PressOpen \/ PressCancel \/ PressEdit \/ PressRefused PROVE UNCHANGED listed
  BY <1>7 DEF PressOpen, PressCancel, PressEdit, PressRefused, OpenModal, CloseModal,
              EditModal, SaveRefused, listed
<1>8. ASSUME NEW r \in requests, ServeOne(r) PROVE CalmInv'
  BY <1>8, ServeCalm DEF ServeOne, CaptureInv
<1>9. ASSUME NEW r \in requests, LoseOne(r) PROVE CalmInv'
  BY <1>1, <1>9 DEF LoseOne, Lose
<1>10. ASSUME NEW r \in requests, \/ AnswerList(r) \/ AnswerDelete(r)
                                  \/ AnswerSaved(r) \/ AnswerUnsaved(r)
       PROVE  CalmInv'
  BY <1>10, AnswerCalm DEF AnswerList, AnswerDelete, AnswerSaved, AnswerUnsaved
<1>11. ASSUME PressSave \/ \E id \in snapshots : PressDelete(id) PROVE CalmInv'
  BY <1>11, ChangeCalm DEF PressSave, PressDelete
<1> QED
  BY <1>2, <1>3, <1>4, <1>5, <1>6, <1>7, <1>8, <1>9, <1>10, <1>11, SameListed
  DEF Next, CloseTab, SaveEndpoints, Add, Remove, Toggle, Update

\* Theorem: with no request under way, and none lost or overlapped since a list
\* was asked for alone, the cards are the snapshots the server has: whatever
\* was saved and deleted, in whatever view (snapshots.svelte.ts).
THEOREM ListFollowsServer == Spec => []ListSettles
<1>1. Init => CaptureInv /\ CalmInv
  BY ClosedModal DEF Init, CaptureInv, ModalInv, RequestsInv, CapturesFirstFrame, Closed, CalmInv
<1>2. CalmInv => ListSettles
  BY DEF CalmInv, ListSettles
<1> QED
  BY <1>1, <1>2, NextCapture, NextCalm, PTL DEF Spec

-----------------------------------------------------------------------------
(* The heatmaps.                                                            *)

\* A sequence of integers, not empty, has a largest one.
LEMMA SomeLargest ==
    ASSUME NEW n \in Nat \ {0}, NEW v, \A i \in 1 .. n : v[i] \in Int
    PROVE  \E i \in 1 .. n : \A j \in 1 .. n : v[j] <= v[i]
<1> DEFINE Top(k) == \E i \in 1 .. k : \A j \in 1 .. k : v[j] <= v[i]
           Bad == {k \in Nat : k \in 1 .. n /\ ~Top(k)}
<1>1. Bad \subseteq Nat /\ (n \notin Bad => Top(n))
  OBVIOUS
<1>2. Top(1)
  OBVIOUS
<1>3. ASSUME NEW k \in Nat, k + 1 \in 1 .. n, k # 0, Top(k) PROVE Top(k + 1)
  <2>1. PICK i \in 1 .. k : \A j \in 1 .. k : v[j] <= v[i]
    BY <1>3
  <2>2. v[i] \in Int /\ v[k + 1] \in Int /\ k + 1 \in 1 .. k + 1 /\ i \in 1 .. k + 1
    BY <1>3
  <2>3. \A j \in 1 .. k + 1 : (j \in 1 .. k \/ j = k + 1) /\ v[j] \in Int
    BY <1>3
  <2>4. CASE v[k + 1] <= v[i]
    BY <2>1, <2>2, <2>3, <2>4
  <2>5. CASE v[i] < v[k + 1]
    <3>1. \A j \in 1 .. k + 1 : v[j] <= v[k + 1]
      BY <2>1, <2>2, <2>3, <2>5
    <3> QED
      BY <2>2, <3>1
  <2> QED
    BY <2>2, <2>4, <2>5
<1>4. \A k \in Bad : k \in 1 .. n /\ ~Top(k)
  OBVIOUS
<1>5. \A k \in 1 .. n : k \notin Bad => Top(k)
  OBVIOUS
<1> HIDE DEF Top, Bad
<1>6. ASSUME Bad # {} PROVE FALSE
  <2>1. IsWellFoundedOn(OpToRel(<, Nat), Nat)
    BY NatLessThanWellFounded, Zenon
  <2>2. PICK k \in Bad : \A u \in Bad : ~ (<<u, k>> \in OpToRel(<, Nat))
    BY <1>1, <1>6, <2>1, WFMin, Zenon
  <2>3. k \in 1 .. n /\ k # 1 /\ ~Top(k)
    BY <1>2, <1>4
  <2>4. PICK u \in Nat : u < k /\ u + 1 = k
    <3>1. k - 1 \in Nat /\ k - 1 < k /\ (k - 1) + 1 = k
      BY <2>3
    <3> QED
      BY <3>1
  <2>5. \A x, y \in Nat : x < y => <<x, y>> \in OpToRel(<, Nat)
    BY DEF OpToRel
  <2>6. <<u, k>> \in OpToRel(<, Nat)
    BY <1>1, <2>4, <2>5, Zenon
  <2>7. u \notin Bad
    BY <2>2, <2>6, Zenon
  <2>8. u \in 1 .. n /\ u # 0
    BY <2>3, <2>4
  <2>9. Top(u + 1)
    BY <1>3, <1>5, <2>3, <2>4, <2>7, <2>8
  <2> QED
    BY <2>3, <2>4, <2>9
<1> QED
  BY <1>1, <1>6 DEF Top

\* Where max and min stand in a finite set of integers, and what they are.
LEMMA MaxOf ==
    ASSUME NEW S \in SUBSET Int, NEW x \in S, \A y \in S : y <= x
    PROVE  Max(S) = x
<1>1. \E z \in S : \A y \in S : z >= y
  OBVIOUS
<1>2. Max(S) \in S /\ \A y \in S : Max(S) >= y
  BY <1>1, Zenon DEF Max
<1>3. Max(S) \in Int /\ x \in Int /\ x <= Max(S) /\ Max(S) <= x
  BY <1>2
<1> QED
  BY <1>3

LEMMA MinOf ==
    ASSUME NEW S \in SUBSET Int, NEW x \in S, \A y \in S : x <= y
    PROVE  Min(S) = x
<1>1. \E z \in S : \A y \in S : z <= y
  OBVIOUS
<1>2. Min(S) \in S /\ \A y \in S : Min(S) <= y
  BY <1>1, Zenon DEF Min
<1>3. Min(S) \in Int /\ x \in Int /\ x <= Min(S) /\ Min(S) <= x
  BY <1>2
<1> QED
  BY <1>3

\* A sample is in a cell of the grid, which it lies in or on an edge of.
LEMMA CellTouches ==
    ASSUME NEW x \in Int, NEW lo \in Int, NEW hi \in Int, lo < hi, NEW n \in Nat \ {0}
    PROVE  Cell(x, lo, hi, n) \in 0 .. n - 1 /\ Touches(x, Cell(x, lo, hi, n), lo, hi, n)
<1> DEFINE a == (x - lo) * n
           d == hi - lo
           e == Short(x, lo, hi, n)
           q == (a - e) \div d
           c == Cell(x, lo, hi, n)
<1>1. a \in Int /\ d \in Int /\ d > 0 /\ e \in {0, 1}
  BY DEF Short
<1>2. q \in Int
  <2> HIDE DEF a, d, e
  <2> QED
    BY <1>1
<1>3. q * d <= a - e /\ a - e < (q + 1) * d
  <2>1. PICK u \in Int : u = a - e
    BY <1>1
  <2>2. q = u \div d
    BY <2>1
  <2> HIDE DEF a, d, e, q
  <2>3. (u \div d) * d <= u
    BY <1>1
  <2>4. u < ((u \div d) + 1) * d
    BY <1>1
  <2> QED
    BY <2>1, <2>2, <2>3, <2>4
<1>4. c = Max({0, Min({n - 1, q})})
  BY DEF Cell
<1>5. \A k : Touches(x, k, lo, hi, n) <=> (k = 0 \/ a >= k * d) /\ (k = n - 1 \/ a <= (k + 1) * d)
  BY DEF Touches
<1> HIDE DEF a, d, e, q, c
<1>6. Min({n - 1, q}) = IF n - 1 <= q THEN n - 1 ELSE q
  BY <1>2, MinOf
<1>7. \A k \in Int : Max({0, k}) = IF k >= 0 THEN k ELSE 0
  BY MaxOf
<1>8. c = IF n - 1 <= q THEN n - 1 ELSE IF q >= 0 THEN q ELSE 0
  BY <1>2, <1>4, <1>6, <1>7
<1>9. c \in 0 .. n - 1
  BY <1>2, <1>8
<1>10. \A k, l \in Int : k <= l => k * d <= l * d
  <2> SUFFICES ASSUME NEW k \in Int, NEW l \in Int, k <= l PROVE k * d <= l * d
    OBVIOUS
  <2>1. (l - k) * d >= 0
    BY <1>1
  <2> QED
    BY <1>1, <2>1
<1>11. q * d \in Int /\ (q + 1) * d \in Int /\ c * d \in Int /\ (c + 1) * d \in Int
  BY <1>1, <1>2, <1>9
<1>12. a >= q * d /\ a <= (q + 1) * d
  BY <1>1, <1>3, <1>11
<1>13. c = 0 \/ a >= c * d
  <2>1. CASE c <= q
    <3>1. c * d <= q * d
      BY <1>2, <1>9, <1>10, <2>1
    <3> QED
      BY <1>1, <1>11, <1>12, <3>1
  <2>2. CASE q < c
    BY <1>2, <1>8, <2>2
  <2> QED
    BY <1>2, <1>9, <2>1, <2>2
<1>14. c = n - 1 \/ a <= (c + 1) * d
  <2>1. CASE q <= c
    <3>1. (q + 1) * d <= (c + 1) * d
      BY <1>2, <1>9, <1>10, <2>1
    <3> QED
      BY <1>1, <1>11, <1>12, <3>1
  <2>2. CASE c < q
    BY <1>2, <1>8, <2>2
  <2> QED
    BY <1>2, <1>9, <2>1, <2>2
<1>15. Touches(x, c, lo, hi, n)
  BY <1>5, <1>13, <1>14
<1> QED
  BY <1>9, <1>15 DEF c

Sample == [t : Int, v : Int]

LEMMA LeastOf ==
    ASSUME NEW S \in SUBSET Int, NEW x \in S, \A y \in S : x <= y
    PROVE  Min(S) \in S /\ \A y \in S : Min(S) <= y
  BY MinOf

\* A series is bounded by values of it.
LEMMA SeriesBounds ==
    ASSUME NEW s \in Seq(Sample), s # <<>>
    PROVE  \E i, j \in DOMAIN s : \A k \in DOMAIN s : s[i].v <= s[k].v /\ s[k].v <= s[j].v
<1> DEFINE n == Len(s)
<1>1. n \in Nat \ {0} /\ DOMAIN s = 1 .. n /\ \A k \in 1 .. n : s[k] \in Sample
  BY EmptySeq, LenProperties, ElementOfSeq
<1>2. \A k \in 1 .. n : s[k].v \in Int
  BY <1>1 DEF Sample
<1> DEFINE v == [k \in 1 .. n |-> s[k].v]
           w == [k \in 1 .. n |-> 0 - s[k].v]
<1>3. \A k \in 1 .. n : v[k] = s[k].v /\ v[k] \in Int /\ w[k] = 0 - s[k].v /\ w[k] \in Int
  BY <1>2
<1> HIDE DEF n, v, w
<1>4. PICK j \in 1 .. n : \A k \in 1 .. n : v[k] <= v[j]
  BY <1>1, <1>3, SomeLargest
<1>5. PICK i \in 1 .. n : \A k \in 1 .. n : w[k] <= w[i]
  BY <1>1, <1>3, SomeLargest
<1>6. ASSUME NEW k \in 1 .. n PROVE s[i].v <= s[k].v /\ s[k].v <= s[j].v
  <2>1. s[i].v \in Int /\ s[k].v \in Int /\ s[j].v \in Int
    BY <1>2
  <2>2. v[k] <= v[j] /\ w[k] <= w[i]
    BY <1>4, <1>5
  <2>3. 0 - s[k].v <= 0 - s[i].v /\ s[k].v <= s[j].v
    BY <1>3, <2>2
  <2>4. \A p, q \in Int : 0 - p <= 0 - q => q <= p
    OBVIOUS
  <2>5. s[i].v <= s[k].v
    BY <2>1, <2>3, <2>4, Zenon
  <2> QED
    BY <2>3, <2>5
<1> QED
  BY <1>1, <1>6

\* The span of a heatmap is never empty.
LEMMA BoundsApart ==
    ASSUME NEW s \in Seq(Sample), s # <<>>, NEW m \in Metrics
    PROVE  \E lo, hi \in Int : lo < hi /\ ValueBounds(s, YRange[m]) = <<lo, hi>>
<1> DEFINE A == YRange[m][1]
           B == YRange[m][2]
           values == {s[i].v : i \in DOMAIN s}
           scan == IF {} \in {A, B} THEN values ELSE {}
           lo == Min(scan \cup A)
           hi == Max(scan \cup B)
<1>1. /\ A \cup B \subseteq Int
      /\ A = {} \/ \E a \in A : A = {a}
      /\ B = {} \/ \E b \in B : B = {b}
      /\ \A a \in A, b \in B : a <= b
  BY DashboardAssumption DEF DashboardAssumption
<1>2. PICK i, j \in DOMAIN s : \A k \in DOMAIN s : s[i].v <= s[k].v /\ s[k].v <= s[j].v
  BY SeriesBounds
<1>3. \A k \in DOMAIN s : s[k].v \in Int
  <2>1. DOMAIN s = 1 .. Len(s) /\ \A k \in 1 .. Len(s) : s[k] \in Sample
    BY ElementOfSeq, LenProperties
  <2> QED
    BY <2>1 DEF Sample
<1>4. PICK x, y \in values : \A z \in values : x <= z /\ z <= y
  <2>1. s[i].v \in values /\ s[j].v \in values
    OBVIOUS
  <2>2. \A z \in values : s[i].v <= z /\ z <= s[j].v
    BY <1>2
  <2> QED
    BY <2>1, <2>2, Zenon
<1>5. values \subseteq Int
  BY <1>3
<1>6. ValueBounds(s, YRange[m]) = IF lo = hi THEN <<2 * lo - 1, 2 * hi + 1>> ELSE <<2 * lo, 2 * hi>>
  BY DEF ValueBounds
<1>7. scan = values \/ (scan = {} /\ A # {} /\ B # {})
  OBVIOUS
<1> HIDE DEF A, B, values, scan
<1>8. lo \in Int /\ hi \in Int /\ lo <= hi
  <2>1. CASE scan = values
    <3>1. lo \in Int /\ lo <= x
      <4>1. CASE A = {}
        BY <1>4, <1>5, <2>1, <4>1, MinOf
      <4>2. ASSUME NEW a \in A, A = {a} PROVE lo \in Int /\ lo <= x
        <5>1. scan \cup A \in SUBSET Int /\ a \in Int /\ x \in Int
          BY <1>1, <1>5, <2>1
        <5>2. CASE a <= x
          <6>1. ASSUME NEW z \in scan \cup A PROVE a <= z
            <7>1. z = a \/ (x <= z /\ z \in Int)
              BY <1>4, <1>5, <2>1, <4>2
            <7> QED
              BY <5>1, <5>2, <7>1
          <6>2. lo = a
            BY <4>2, <5>1, <6>1, MinOf
          <6> QED
            BY <5>1, <5>2, <6>2
        <5>3. CASE x <= a
          <6>1. \A z \in scan \cup A : x <= z
            BY <1>4, <2>1, <4>2, <5>3
          <6>2. lo = x
            BY <2>1, <5>1, <6>1, MinOf
          <6> QED
            BY <5>1, <6>2
        <5> QED
          BY <5>1, <5>2, <5>3
      <4> QED
        BY <1>1, <4>1, <4>2
    <3>2. hi \in Int /\ x <= hi
      <4>1. CASE B = {}
        BY <1>4, <1>5, <2>1, <4>1, MaxOf
      <4>2. ASSUME NEW b \in B, B = {b} PROVE hi \in Int /\ x <= hi
        <5>1. scan \cup B \in SUBSET Int /\ b \in Int /\ y \in Int /\ x \in Int /\ x <= y
          BY <1>1, <1>4, <1>5, <2>1
        <5>2. CASE y <= b
          <6>1. ASSUME NEW z \in scan \cup B PROVE z <= b
            <7>1. z = b \/ (z <= y /\ z \in Int)
              BY <1>4, <1>5, <2>1, <4>2
            <7> QED
              BY <5>1, <5>2, <7>1
          <6>2. hi = b
            BY <4>2, <5>1, <6>1, MaxOf
          <6> QED
            BY <5>1, <5>2, <6>2
        <5>3. CASE b <= y
          <6>1. \A z \in scan \cup B : z <= y
            BY <1>4, <2>1, <4>2, <5>3
          <6>2. hi = y
            BY <2>1, <5>1, <6>1, MaxOf
          <6> QED
            BY <5>1, <6>2
        <5> QED
          BY <5>1, <5>2, <5>3
      <4> QED
        BY <1>1, <4>1, <4>2
    <3> HIDE DEF lo, hi
    <3>3. x \in Int
      BY <1>5
    <3> QED
      BY <3>1, <3>2, <3>3
  <2>2. ASSUME scan = {}, NEW a \in A, NEW b \in B, A = {a}, B = {b}
        PROVE  lo \in Int /\ hi \in Int /\ lo <= hi
    <3>1. scan \cup A = {a} /\ scan \cup B = {b} /\ a \in Int /\ b \in Int
      BY <1>1, <2>2
    <3>2. \A z \in {a} : a <= z
      BY <3>1
    <3>3. \A z \in {b} : z <= b
      BY <3>1
    <3>4. Min({a}) = a
      BY <3>1, <3>2, MinOf
    <3>5. Max({b}) = b
      BY <3>1, <3>3, MaxOf
    <3>6. lo = a /\ hi = b
      BY <3>1, <3>4, <3>5
    <3> QED
      BY <1>1, <3>1, <3>6
  <2> QED
    BY <1>1, <1>7, <2>1, <2>2
<1> HIDE DEF lo, hi
<1>9. CASE lo = hi
  <2>1. 2 * lo - 1 \in Int /\ 2 * hi + 1 \in Int /\ 2 * lo - 1 < 2 * hi + 1
    BY <1>8
  <2> QED
    BY <1>6, <1>9, <2>1
<1>10. CASE lo # hi
  <2>1. 2 * lo \in Int /\ 2 * hi \in Int /\ 2 * lo < 2 * hi
    BY <1>8, <1>10
  <2> QED
    BY <1>6, <1>10, <2>1
<1> QED
  BY <1>9, <1>10

-----------------------------------------------------------------------------
\* The cells a grid of s between lo and hi counts its samples in, and the
\* samples it counts in one of them.
At(s, lo, hi) ==
    [i \in DOMAIN s |-> <<Cell(s[i].t, s[1].t, Last(s).t, Cols), Cell(2 * s[i].v, lo, hi, Buckets)>>]
Hits(s, lo, hi, c, b) ==
    {i \in DOMAIN s : /\ Cell(s[i].t, s[1].t, Last(s).t, Cols) = c
                      /\ Cell(2 * s[i].v, lo, hi, Buckets) = b}

\* The count of the fullest cell of a column.
Most(s, lo, hi, c) == Max({Cardinality(Hits(s, lo, hi, c, b)) : b \in 0 .. Buckets - 1})

\* What GridIsDensity says of one grid: of its counts, and of its densities.
Counted(g, at) ==
    /\ at \in [DOMAIN g.of -> (0 .. Cols - 1) \X (0 .. Buckets - 1)]
    /\ \A i \in DOMAIN g.of :
         /\ Touches(g.of[i].t, at[i][1], g.of[1].t, Last(g.of).t, Cols)
         /\ Touches(2 * g.of[i].v, at[i][2], g.bounds[1], g.bounds[2], Buckets)
    /\ \A c \in 0 .. Cols - 1, b \in 0 .. Buckets - 1 :
         g.density[c][b][1] = Cardinality({i \in DOMAIN g.of : at[i] = <<c, b>>})
Divided(column) ==
    /\ \A b \in 0 .. Buckets - 1 : column[b][2] > 0 /\ column[b][1] <= column[b][2]
    /\ \/ \A b \in 0 .. Buckets - 1 : column[b][1] = 0
       \/ \E b \in 0 .. Buckets - 1 : column[b][1] = column[b][2]
IsDensity(g) ==
    /\ \E at : Counted(g, at)
    /\ \A c \in 0 .. Cols - 1 : Divided(g.density[c])

LEMMA SamplesOf ==
    ASSUME NEW s \in Seq(Sample), s # <<>>
    PROVE  /\ DOMAIN s = 1 .. Len(s) /\ Len(s) \in Nat /\ 1 \in DOMAIN s /\ Len(s) \in DOMAIN s
           /\ \A i \in DOMAIN s : s[i].t \in Int /\ s[i].v \in Int
<1>1. Len(s) \in Nat \ {0} /\ DOMAIN s = 1 .. Len(s) /\ \A k \in 1 .. Len(s) : s[k] \in Sample
  BY EmptySeq, LenProperties, ElementOfSeq
<1> QED
  BY <1>1 DEF Sample

LEMMA BucketizeIs ==
    ASSUME NEW s, NEW lo, NEW hi, NEW c \in 0 .. Cols - 1, NEW b \in 0 .. Buckets - 1
    PROVE  Bucketize(s, lo, hi)[c][b] =
             IF Most(s, lo, hi, c) > 0
             THEN <<Cardinality(Hits(s, lo, hi, c, b)), Most(s, lo, hi, c)>>
             ELSE <<0, 1>>
  BY DEF Bucketize, Most, Hits

LEMMA HitsCount ==
    ASSUME NEW s \in Seq(Sample), s # <<>>, NEW lo, NEW hi, NEW c, NEW b
    PROVE  Cardinality(Hits(s, lo, hi, c, b)) \in Nat
<1>1. DOMAIN s = 1 .. Len(s) /\ Len(s) \in Nat
  BY SamplesOf
<1>2. IsFiniteSet(1 .. Len(s))
  BY <1>1, FS_Interval
<1>3. IsFiniteSet(Hits(s, lo, hi, c, b))
  BY <1>1, <1>2, FS_Subset DEF Hits
<1> QED
  BY <1>3, FS_CardinalityType

\* The fullest cell of a column is one of its cells.
LEMMA MostOf ==
    ASSUME NEW s \in Seq(Sample), s # <<>>, NEW lo, NEW hi, NEW c
    PROVE  /\ Most(s, lo, hi, c) \in Nat
           /\ \E b \in 0 .. Buckets - 1 : Cardinality(Hits(s, lo, hi, c, b)) = Most(s, lo, hi, c)
           /\ \A b \in 0 .. Buckets - 1 : Cardinality(Hits(s, lo, hi, c, b)) <= Most(s, lo, hi, c)
<1> DEFINE count(b) == Cardinality(Hits(s, lo, hi, c, b))
           counts == {count(b) : b \in 0 .. Buckets - 1}
           v == [k \in 1 .. Buckets |-> count(k - 1)]
<1>1. Buckets \in Nat \ {0}
  BY DashboardAssumption DEF DashboardAssumption
<1>2. \A b : count(b) \in Nat
  BY HitsCount
<1>3. Most(s, lo, hi, c) = Max(counts)
  BY DEF Most
<1> HIDE DEF count
<1>4. \A k \in 1 .. Buckets : v[k] = count(k - 1) /\ v[k] \in Int
  BY <1>2
<1>5. \A b \in 0 .. Buckets - 1 : b + 1 \in 1 .. Buckets /\ v[b + 1] = count(b)
  BY <1>1
<1> HIDE DEF v
<1>6. PICK k \in 1 .. Buckets : \A j \in 1 .. Buckets : v[j] <= v[k]
  BY <1>1, <1>4, SomeLargest
<1>7. k - 1 \in 0 .. Buckets - 1
  BY <1>1
<1>8. v[k] \in counts
  BY <1>4, <1>7
<1>9. \A b \in 0 .. Buckets - 1 : count(b) <= v[k]
  BY <1>5, <1>6
<1>10. \A y \in counts : y <= v[k]
  BY <1>9
<1>11. counts \in SUBSET Int
  BY <1>2
<1> HIDE DEF counts
<1>12. Max(counts) = v[k]
  BY <1>8, <1>10, <1>11, MaxOf
<1>13. v[k] = count(k - 1) /\ v[k] \in Nat
  BY <1>2, <1>4
<1> QED
  BY <1>3, <1>7, <1>9, <1>12, <1>13 DEF count

LEMMA BucketizeIsDensity ==
    ASSUME NEW s \in Seq(Sample), s # <<>>, s[1].t < Last(s).t,
           NEW lo \in Int, NEW hi \in Int, lo < hi,
           NEW g, g.of = s, g.bounds = <<lo, hi>>, g.density = Bucketize(s, lo, hi)
    PROVE  IsDensity(g)
<1> DEFINE at == At(s, lo, hi)
           count(c, b) == Cardinality(Hits(s, lo, hi, c, b))
           most(c) == Most(s, lo, hi, c)
<1>1. g.bounds[1] = lo /\ g.bounds[2] = hi
  OBVIOUS
<1>2. \A c \in 0 .. Cols - 1, b \in 0 .. Buckets - 1 :
        /\ most(c) > 0 => /\ g.density[c][b][1] = count(c, b)
                          /\ g.density[c][b][2] = most(c)
        /\ ~(most(c) > 0) => /\ g.density[c][b][1] = 0
                             /\ g.density[c][b][2] = 1
  <2> SUFFICES ASSUME NEW c \in 0 .. Cols - 1, NEW b \in 0 .. Buckets - 1
               PROVE  /\ most(c) > 0 => /\ g.density[c][b][1] = count(c, b)
                                        /\ g.density[c][b][2] = most(c)
                      /\ ~(most(c) > 0) => /\ g.density[c][b][1] = 0
                                           /\ g.density[c][b][2] = 1
    OBVIOUS
  <2>1. g.density[c][b] = IF most(c) > 0 THEN <<count(c, b), most(c)>> ELSE <<0, 1>>
    BY BucketizeIs
  <2> HIDE DEF count, most
  <2> QED
    BY <2>1
<1>3. \A c : /\ most(c) \in Nat
             /\ \E b \in 0 .. Buckets - 1 : count(c, b) = most(c)
             /\ \A b \in 0 .. Buckets - 1 : count(c, b) <= most(c)
  BY MostOf
<1>4. \A c, b : count(c, b) \in Nat
  BY HitsCount
<1>5. /\ at \in [DOMAIN s -> (0 .. Cols - 1) \X (0 .. Buckets - 1)]
      /\ \A i \in DOMAIN s : /\ Touches(s[i].t, at[i][1], s[1].t, Last(s).t, Cols)
                             /\ Touches(2 * s[i].v, at[i][2], lo, hi, Buckets)
  <2>1. s[1].t \in Int /\ Last(s).t \in Int
    BY SamplesOf DEF Last
  <2>2. Cols \in Nat \ {0} /\ Buckets \in Nat \ {0}
    BY DashboardAssumption DEF DashboardAssumption
  <2>3. ASSUME NEW i \in DOMAIN s
        PROVE  /\ at[i] \in (0 .. Cols - 1) \X (0 .. Buckets - 1)
               /\ Touches(s[i].t, at[i][1], s[1].t, Last(s).t, Cols)
               /\ Touches(2 * s[i].v, at[i][2], lo, hi, Buckets)
    <3>1. s[i].t \in Int /\ s[i].v \in Int
      BY SamplesOf
    <3>2. 2 * s[i].v \in Int
      BY <3>1
    <3>3. PICK c : c = Cell(s[i].t, s[1].t, Last(s).t, Cols)
      OBVIOUS
    <3>4. PICK b : b = Cell(2 * s[i].v, lo, hi, Buckets)
      OBVIOUS
    <3>5. c \in 0 .. Cols - 1 /\ Touches(s[i].t, c, s[1].t, Last(s).t, Cols)
      BY <2>1, <2>2, <3>1, <3>3, CellTouches
    <3>6. b \in 0 .. Buckets - 1 /\ Touches(2 * s[i].v, b, lo, hi, Buckets)
      BY <2>2, <3>2, <3>4, CellTouches
    <3>7. at[i] = <<c, b>>
      BY <3>3, <3>4 DEF At
    <3> QED
      BY <3>5, <3>6, <3>7
  <2>4. DOMAIN at = DOMAIN s /\ at = [i \in DOMAIN s |-> at[i]]
    BY DEF At
  <2> HIDE DEF at
  <2> QED
    BY <2>3, <2>4
<1>6. ASSUME NEW c \in 0 .. Cols - 1, NEW b \in 0 .. Buckets - 1
      PROVE  {i \in DOMAIN s : at[i] = <<c, b>>} = Hits(s, lo, hi, c, b)
  BY DEF At, Hits
<1> HIDE DEF at, count, most
<1>7. ASSUME NEW c \in 0 .. Cols - 1, NEW b \in 0 .. Buckets - 1
      PROVE  g.density[c][b][1] = count(c, b)
  <2>1. CASE most(c) > 0
    BY <1>2, <2>1
  <2>2. CASE ~(most(c) > 0)
    <3>1. g.density[c][b][1] = 0
      BY <1>2, <2>2
    <3>2. count(c, b) <= most(c) /\ count(c, b) \in Nat /\ most(c) \in Nat
      BY <1>3, <1>4
    <3> QED
      BY <2>2, <3>1, <3>2
  <2> QED
    BY <2>1, <2>2
<1>8. Counted(g, at)
  <2>1. \A c \in 0 .. Cols - 1, b \in 0 .. Buckets - 1 :
          g.density[c][b][1] = Cardinality({i \in DOMAIN s : at[i] = <<c, b>>})
    BY <1>6, <1>7 DEF count
  <2> QED
    BY <1>1, <1>5, <2>1 DEF Counted
<1>9. ASSUME NEW c \in 0 .. Cols - 1 PROVE Divided(g.density[c])
  <2>1. CASE most(c) > 0
    <3>1. \A b \in 0 .. Buckets - 1 :
            g.density[c][b][1] = count(c, b) /\ g.density[c][b][2] = most(c)
      BY <1>2, <2>1
    <3> QED
      BY <1>3, <2>1, <3>1 DEF Divided
  <2>2. CASE ~(most(c) > 0)
    <3>1. \A b \in 0 .. Buckets - 1 : g.density[c][b][1] = 0 /\ g.density[c][b][2] = 1
      BY <1>2, <2>2
    <3> QED
      BY <3>1 DEF Divided
  <2> QED
    BY <2>1, <2>2
<1> QED
  BY <1>8, <1>9 DEF IsDensity

\* A frame gives a density, or leaves what was drawn.
LEMMA HeatIsDensity ==
    ASSUME NEW f, DOMAIN f \subseteq Metrics, \A m \in DOMAIN f : f[m] \in Seq(Sample),
           NEW m, NEW old, old = None \/ IsDensity(old)
    PROVE  Heat(f, m, old) = None \/ IsDensity(Heat(f, m, old))
<1>1. CASE m \notin DOMAIN f \/ Len(f[m]) < 2 \/ Last(f[m]).t <= f[m][1].t
  BY <1>1 DEF Heat
<1>2. CASE ~ (m \notin DOMAIN f \/ Len(f[m]) < 2 \/ Last(f[m]).t <= f[m][1].t)
  <2> DEFINE s == f[m]
  <2>1. s \in Seq(Sample) /\ m \in Metrics /\ ~ (Len(s) < 2) /\ ~ (Last(s).t <= s[1].t)
    BY <1>2
  <2>2. Heat(f, m, old) = LET bounds == ValueBounds(s, YRange[m])
                          IN  [of |-> s, bounds |-> bounds,
                               density |-> Bucketize(s, bounds[1], bounds[2])]
    BY <1>2 DEF Heat
  <2> HIDE DEF s
  <2>3. s # <<>>
    <3>1. Len(<<>>) = 0
      BY EmptySeq
    <3> QED
      BY <2>1, <3>1
  <2>4. s[1].t < Last(s).t
    <3>1. s[1].t \in Int /\ Last(s).t \in Int
      BY <2>1, <2>3, SamplesOf DEF Last
    <3> QED
      BY <2>1, <3>1
  <2>5. PICK lo, hi \in Int : lo < hi /\ ValueBounds(s, YRange[m]) = <<lo, hi>>
    BY <2>1, <2>3, BoundsApart
  <2> DEFINE g == [of |-> s, bounds |-> <<lo, hi>>, density |-> Bucketize(s, lo, hi)]
  <2>6. Heat(f, m, old) = g
    BY <2>2, <2>5
  <2>7. g.of = s /\ g.bounds = <<lo, hi>> /\ g.density = Bucketize(s, lo, hi)
    OBVIOUS
  <2> HIDE DEF g
  <2>8. IsDensity(g)
    BY <2>1, <2>3, <2>4, <2>5, <2>7, BucketizeIsDensity
  <2> QED
    BY <2>6, <2>8
<1> QED
  BY <1>1, <1>2

-----------------------------------------------------------------------------
GridsOK(v) ==
    /\ "kind" \in DOMAIN v
    /\ v.kind = "heatmap" =>
         /\ "grids" \in DOMAIN v
         /\ \A m \in DOMAIN v.grids : v.grids[m] = None \/ IsDensity(v.grids[m])

LEMMA NewViewGrids == ASSUME NEW p, NEW s, NEW b PROVE GridsOK(NewView(p, s, b))
<1> DEFINE v == NewView(p, s, b)
<1>1. CASE p.at = "metrics"
  <2>1. v = [kind |-> "metrics", window |-> GridRange, untouched |-> b, charts |-> {}]
    BY <1>1 DEF NewView
  <2> QED
    BY <2>1 DEF GridsOK
<1>2. CASE p.at = "explore"
  <2>1. v = [kind |-> "explore", window |-> s.range, metric |-> MetricOf(p),
             latest |-> None, chart |-> None]
    BY <1>2 DEF NewView
  <2> QED
    BY <2>1 DEF GridsOK
<1>3. CASE p.at = "settings"
  <2>1. v = [kind |-> "settings", draft |-> s.endpoints]
    BY <1>3 DEF NewView
  <2> QED
    BY <2>1 DEF GridsOK
<1>4. CASE p.at = "heatmap"
  <2>1. v = [kind |-> "heatmap", grids |-> [m \in HeatmapFirst |-> None]]
    BY <1>4 DEF NewView
  <2> QED
    BY <2>1 DEF GridsOK
<1>5. CASE p.at \in {"/", "alerts"}
  <2>1. v = [kind |-> p.at, latest |-> <<>>]
    BY <1>5 DEF NewView
  <2> QED
    BY <1>5, <2>1 DEF GridsOK
<1>6. CASE p.at \notin {"metrics", "explore", "settings", "heatmap", "/", "alerts"}
  <2>1. v = [kind |-> p.at]
    BY <1>6 DEF NewView
  <2> QED
    BY <1>6, <2>1 DEF GridsOK
<1> QED
  BY <1>1, <1>2, <1>3, <1>4, <1>5, <1>6

LEMMA ShownGrids ==
    ASSUME NEW v, GridsOK(v), NEW f, DOMAIN f \subseteq Metrics,
           \A m \in DOMAIN f : f[m] \in Seq(Sample)
    PROVE  GridsOK(Shown(v, f))
<1>1. CASE v.kind = "metrics"
  <2>1. Shown(v, f) = [v EXCEPT !.charts = @ \cup DOMAIN f]
    BY <1>1 DEF Shown
  <2> QED
    BY <1>1, <2>1 DEF GridsOK
<1>2. CASE v.kind = "explore"
  <2>1. Shown(v, f) = IF v.metric \in DOMAIN f
                      THEN [v EXCEPT !.latest = v.metric, !.chart = v.metric]
                      ELSE [v EXCEPT !.latest = None]
    BY <1>2 DEF Shown
  <2> QED
    BY <1>2, <2>1 DEF GridsOK
<1>3. CASE v.kind = "heatmap"
  <2> DEFINE new == [m \in DOMAIN v.grids |-> Heat(f, m, v.grids[m])]
  <2>1. Shown(v, f) = [v EXCEPT !.grids = new]
    BY <1>3 DEF Shown
  <2>2. \A m \in DOMAIN new : new[m] = None \/ IsDensity(new[m])
    <3>1. \A m \in DOMAIN v.grids : v.grids[m] = None \/ IsDensity(v.grids[m])
      BY <1>3 DEF GridsOK
    <3> QED
      BY <3>1, HeatIsDensity
  <2> HIDE DEF new
  <2>3. /\ "kind" \in DOMAIN Shown(v, f) /\ "grids" \in DOMAIN Shown(v, f)
        /\ Shown(v, f).grids = new
    BY <1>3, <2>1 DEF GridsOK
  <2> QED
    BY <2>2, <2>3 DEF GridsOK
<1>4. CASE v.kind \in {"/", "alerts"}
  <2>1. Shown(v, f) = [v EXCEPT !.latest = Latest(f)]
    BY <1>4 DEF Shown
  <2> QED
    BY <1>4, <2>1 DEF GridsOK
<1>5. CASE v.kind \notin {"metrics", "explore", "heatmap", "/", "alerts"}
  BY <1>5 DEF Shown
<1> QED
  BY <1>1, <1>2, <1>3, <1>4, <1>5

LEMMA SwitchedGrids == ASSUME NEW v, GridsOK(v), NEW m PROVE GridsOK(Switched(v, m))
<1>1. CASE v.metric = m
  BY <1>1 DEF Switched
<1>2. CASE v.metric # m
  <2>1. Switched(v, m) = [v EXCEPT !.metric = m, !.chart = v.latest]
    BY <1>2 DEF Switched
  <2>2. /\ DOMAIN Switched(v, m) = DOMAIN v /\ Switched(v, m).kind = v.kind
        /\ "grids" \in DOMAIN v => Switched(v, m).grids = v.grids
    BY <2>1 DEF GridsOK
  <2> QED
    BY <2>2 DEF GridsOK
<1> QED
  BY <1>1, <1>2

LEMMA ToggleGrids == ASSUME GridsOK(view), NEW m, ToggleHeat(m) PROVE GridsOK(view')
<1>1. /\ "grids" \in DOMAIN view /\ "kind" \in DOMAIN view
      /\ \A k \in DOMAIN view.grids : view.grids[k] = None \/ IsDensity(view.grids[k])
  BY DEF ToggleHeat, Acts, GridsOK
<1>2. ASSUME NEW new, view' = [view EXCEPT !.grids = new],
             \A k \in DOMAIN new : new[k] = None \/ IsDensity(new[k])
      PROVE  GridsOK(view')
  <2>1. "kind" \in DOMAIN view' /\ "grids" \in DOMAIN view' /\ view'.grids = new
    BY <1>1, <1>2
  <2> QED
    BY <1>2, <2>1 DEF GridsOK
<1>3. CASE view' = [view EXCEPT !.grids = [k \in DOMAIN @ \ {m} |-> @[k]]]
  <2> DEFINE new == [k \in DOMAIN view.grids \ {m} |-> view.grids[k]]
  <2>1. \A k \in DOMAIN new : new[k] = None \/ IsDensity(new[k])
    BY <1>1
  <2>2. view' = [view EXCEPT !.grids = new]
    BY <1>3
  <2> HIDE DEF new
  <2> QED
    BY <1>2, <2>1, <2>2
<1>4. CASE view' = [view EXCEPT !.grids =
                      [k \in DOMAIN @ \cup {m} |-> IF k = m THEN None ELSE @[k]]]
  <2> DEFINE new == [k \in DOMAIN view.grids \cup {m} |->
                       IF k = m THEN None ELSE view.grids[k]]
  <2>1. \A k \in DOMAIN new : new[k] = None \/ IsDensity(new[k])
    BY <1>1
  <2>2. view' = [view EXCEPT !.grids = new]
    BY <1>4
  <2> HIDE DEF new
  <2> QED
    BY <1>2, <2>1, <2>2
<1> QED
  BY <1>3, <1>4 DEF ToggleHeat

LEMMA FrameGrids == ASSUME Inv, GridsOK(view), Frame PROVE GridsOK(view')
<1>1. PICK f \in tour.frames[frames'] : view' = Shown(view, f)
  BY DEF Frame
<1>2. tour \in Tours /\ frames' \in 1 .. Len(tour.frames)
  <2>1. frames \in Nat /\ tour \in Tours /\ frames < Len(tour.frames) /\ frames' = frames + 1
    BY DEF Frame, Inv, WindowInv
  <2> DEFINE n == Len(tour.frames)
  <2>2. n \in Int \/ n \notin Int
    OBVIOUS
  <2> QED
    BY <2>1
<1>3. DOMAIN f \subseteq Metrics /\ \A m \in DOMAIN f : f[m] \in Seq(Sample)
  BY <1>1, <1>2, DashboardAssumption DEF DashboardAssumption, Sample
<1> QED
  BY <1>1, <1>3, ShownGrids

\* Next leaves the grids alone, or is one of the actions above.
LEMMA NextGrids == Inv /\ GridsOK(view) /\ [Next]_vars => GridsOK(view)'
<1> SUFFICES ASSUME Inv, GridsOK(view), [Next]_vars PROVE GridsOK(view')
  OBVIOUS
<1>1. ASSUME Load \/ LoadAtList \/ Mount \/ MountSnapshots PROVE GridsOK(view')
  <2>1. ASSUME Start PROVE GridsOK(view')
    <3>1. PICK st : view' = NewView(hash, st, TRUE)
      BY <2>1 DEF Start
    <3>2. GridsOK(NewView(hash, st, TRUE))
      BY NewViewGrids, Zenon
    <3> QED
      BY <3>1, <3>2, Zenon
  <2>2. ASSUME Remount PROVE GridsOK(view')
    BY <2>2, NewViewGrids DEF Remount
  <2> QED
    BY <1>1, <2>1, <2>2 DEF Load, LoadAtList, Mount, MountSnapshots
<1>2. ASSUME CloseTab \/ SaveEndpoints PROVE GridsOK(view')
  <2>1. view' = [kind |-> "none"]
    BY <1>2 DEF CloseTab, SaveEndpoints, Leave, Gone
  <2> QED
    BY <2>1 DEF GridsOK
<1>3. ASSUME StayOn PROVE GridsOK(view')
  <2>1. view' = view \/ \E m : view' = Switched(view, m)
    BY <1>3 DEF StayOn
  <2> QED
    BY <2>1, SwitchedGrids
<1>4. ASSUME NEW w, SetWindow(w) PROVE GridsOK(view')
  <2>1. /\ view.kind \in {"metrics", "explore"} /\ "kind" \in DOMAIN view
        /\ \/ view' = [view EXCEPT !.window = w, !.untouched = FALSE]
           \/ view' = [view EXCEPT !.window = w]
    BY <1>4 DEF SetWindow, Acts, GridsOK
  <2>2. "kind" \in DOMAIN view' /\ view'.kind \in {"metrics", "explore"}
    BY <2>1
  <2> QED
    BY <2>2 DEF GridsOK
<1>5. ASSUME NEW e, EditDraft(e) PROVE GridsOK(view')
  <2>1. view.kind = "settings" /\ "kind" \in DOMAIN view /\ view' = [view EXCEPT !.draft = e]
    BY <1>5 DEF EditDraft, OnSettings, Acts, GridsOK
  <2>2. "kind" \in DOMAIN view' /\ view'.kind = "settings"
    BY <2>1
  <2> QED
    BY <2>2 DEF GridsOK
<1>6. ASSUME ResetAll PROVE GridsOK(view')
  <2>1. /\ view.kind = "settings" /\ "kind" \in DOMAIN view
        /\ view' = [view EXCEPT !.draft = EnvDefaults.endpoints]
    BY <1>6 DEF ResetAll, OnSettings, Acts, GridsOK
  <2>2. "kind" \in DOMAIN view' /\ view'.kind = "settings"
    BY <2>1
  <2> QED
    BY <2>2 DEF GridsOK
<1>7. ASSUME \/ \E p \in tour.paths : Navigate(p)
             \/ TakeRange \/ UNCHANGED vars
             \/ \E w \in Ranges : SetDefaultRange(w)
             \/ \E a \in Accents : SetAccent(a)
      PROVE  UNCHANGED view
  BY <1>7 DEF Navigate, TakeRange, SetDefaultRange, SetAccent, vars, pageVars
<1>8. ASSUME OnAlerts \/ OnList \/ Quiet PROVE UNCHANGED view
  BY <1>8 DEF OnAlerts, OnList, Quiet, pageVars
<1> QED
  BY <1>1, <1>2, <1>3, <1>4, <1>5, <1>6, <1>7, <1>8, FrameGrids, ToggleGrids
  DEF Next, Add, Remove, Toggle, Update, PressOpen, PressCancel, PressEdit, PressRefused,
      PressSave, PressDelete, ServeOne, LoseOne, AnswerList, AnswerDelete, AnswerSaved,
      AnswerUnsaved

\* Theorem: whatever the series of whole numbers and the axis, whichever edges
\* the rounded scale places lower, however often the heatmap is mounted, toggled
\* and painted, a grid counts every sample of its series once, in a cell it lies
\* in, and a column has a cell of density 1 or density 0 everywhere (bucketize
\* and valueBounds of heatmap.ts).
THEOREM HeatmapsCountRight == Spec => []GridIsDensity
<1>1. Init => GridsOK(view)
  BY DEF Init, Gone, GridsOK
<1>2. GridsOK(view) => GridIsDensity
  BY DEF GridsOK, GridIsDensity, IsDensity, Counted, Divided
<1> QED
  BY <1>1, <1>2, InitInv, NextInv, NextGrids, PTL DEF Spec
=============================================================================
