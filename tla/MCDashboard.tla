----------------------------- MODULE MCDashboard -----------------------------
(* Tours of a dashboard with two metrics.  All moves and frames of a tour    *)
(* interleave freely with each other and with the events and requests.       *)
EXTENDS Dashboard, TLC

P(at) == [at |-> at, arg |-> ""]
X(m) == [at |-> "explore", arg |-> m]

MCMetrics == {"cpu", "errors"}
MCYRange == [m \in MCMetrics |-> IF m = "cpu" THEN <<{0}, {98}>> ELSE <<{0}, {}>>]
R(m, c, t) == [metric |-> m, comparator |-> c, threshold |-> t, enabled |-> TRUE]
MCDefaultRules == [id \in {"r1", "r2"} |-> IF id = "r1" THEN R("cpu", ">", 2) ELSE R("errors", ">", 1)]
MCEnvDefaults == [endpoints |-> "e1", range |-> "5m", accent |-> "sky"]

\* A frame with one sample of each metric, or with none of the second.
One(a, b) == ("cpu" :> <<[t |-> 1, v |-> a]>>) @@ ("errors" :> <<[t |-> 1, v |-> b]>>)
Only(a) == "cpu" :> <<[t |-> 1, v |-> a]>>
Values == {One(2, 1), One(3, 1), One(3, 2), Only(3)}

\* Every series of two or three samples in order of time, some on edges that
\* doubles place lower, some beyond 0 and 98.
Series == {s \in UNION {[1 .. n -> [t : {0, 49, 98, 147}, v : {0, 49, 98, 120}]] : n \in {2, 3}} :
             \A i \in 2 .. Len(s) : s[i - 1].t <= s[i].t}
Heats == {m :> s : m \in MCMetrics, s \in Series}

\* Those of the edges above that 3 / 147 and 2 / 196 fall short of.
MCLowEdges == {<<49, 147, 3>>, <<98, 147, 3>>, <<98, 196, 2>>}

\* Two tours in which localStorage may refuse; in the others it never does.
Refused == {
    [start |-> P("alerts"), paths |-> {P("/")}, moves |-> 4, frames |-> <<>>],
    [start |-> P("settings"), paths |-> {P("metrics")}, moves |-> 4, frames |-> <<>>] }

MCTours == Refused \cup {
    [start |-> P("alerts"), paths |-> {P("/")}, moves |-> 3, frames |-> <<Values, Values, Values>>],
    [start |-> P("metrics"), paths |-> {P("/"), P("metrics"), X("cpu"), X("errors"), P("settings")},
     moves |-> 5, frames |-> <<{One(2, 1)}, {Only(2)}>>],
    [start |-> P("settings"), paths |-> {P("settings"), P("metrics"), P("explore")},
     moves |-> 6, frames |-> <<>>],
    [start |-> P("heatmap"), paths |-> {}, moves |-> 1, frames |-> <<Heats>>],
    [start |-> P("snapshots"), paths |-> {P("snapshots"), P("/")},
     moves |-> 6, frames |-> <<{One(2, 1)}, {Only(3)}>>] }

BoundedNext == Next /\ (tour \in Refused \/ (rulesKept' /\ settingsKept'))
BoundedSpec == Init /\ [][BoundedNext]_vars
=============================================================================
