----------------------------- MODULE AlertStore -----------------------------
(***************************************************************************)
(* The alert rules of the dashboard (lib/alerts.svelte.ts): the rules, kept *)
(* in localStorage, and the rules that are firing, evaluated once a frame.  *)
(* A page loads the rules when it opens.  The order of the rules and the    *)
(* wording of an id are left out; the clock is the number of the frame.     *)
(***************************************************************************)
EXTENDS Integers, Sequences, FiniteSets

CONSTANTS
    Metrics,       \* METRICS
    RuleIds,       \* what rid() returns, never twice the same
    DefaultRules,  \* defaultRules(): a function from some ids to rules
    Comparators,   \* those a user picks from
    Thresholds     \* those a user types

VARIABLES
    rules,         \* a function from ids to rules
    firing,        \* a function from ids to [value, since]
    storedRules,   \* localStorage: {}, or {the rules} once they were stored
    rulesKept,     \* history: localStorage took the last change, or was read since
    used           \* the ids rid() has returned

alertVars == <<rules, firing, storedRules, rulesKept, used>>

Rule == [metric : Metrics, comparator : Comparators, threshold : Thresholds,
         enabled : BOOLEAN]

NoneFiring == <<>>

\* load
LoadedRules(s) == IF s = {} THEN DefaultRules ELSE CHOOSE r \in s : TRUE

\* compare
Compare(v, cmp, thr) ==
    CASE cmp = ">" -> v > thr
      [] cmp = ">=" -> v >= thr
      [] cmp = "<" -> v < thr
      [] cmp = "<=" -> v <= thr

\* Every edit stores the rules it leaves, all of them; that localStorage may
\* refuse is ignored.
Persist(new) ==
    /\ rules' = new
    /\ \/ storedRules' = {new} /\ rulesKept' = TRUE
       \/ UNCHANGED storedRules /\ rulesKept' = FALSE

AddRule(rule) == \E id \in RuleIds \ used :
    /\ Persist([i \in DOMAIN rules \cup {id} |-> IF i = id THEN rule ELSE rules[i]])
    /\ used' = used \cup {id}
    /\ UNCHANGED firing

RemoveRule(id) ==
    /\ Persist([i \in DOMAIN rules \ {id} |-> rules[i]])
    /\ firing' = [i \in DOMAIN firing \ {id} |-> firing[i]]
    /\ UNCHANGED used

\* A rule that is switched off, or changed, fires on until the next frame.
ToggleRule(id) ==
    /\ Persist([rules EXCEPT ![id].enabled = ~@])
    /\ UNCHANGED <<firing, used>>

UpdateRule(id, field, value) ==
    /\ Persist([rules EXCEPT ![id][field] = value])
    /\ UNCHANGED <<firing, used>>

\* The rules that breach, given the latest value of the metrics that have one.
Breaching(latest) ==
    {id \in DOMAIN rules :
        /\ rules[id].enabled
        /\ rules[id].metric \in DOMAIN latest
        /\ Compare(latest[rules[id].metric], rules[id].comparator, rules[id].threshold)}

\* sameFiring: the same rules, whatever their values.
SameFiring(a, b) == DOMAIN a = DOMAIN b

\* Mutant: a rule that goes on firing is given a new start.
Evaluate_NewSince(latest, now) ==
    LET next == [id \in Breaching(latest) |->
                   [value |-> latest[rules[id].metric], since |-> now]]
    IN  /\ firing' = IF SameFiring(firing, next) THEN firing ELSE next
        /\ UNCHANGED <<rules, storedRules, rulesKept, used>>

\* evaluate: a rule that goes on firing keeps its start, and nothing is
\* assigned while the same rules fire, their new values included.
Evaluate(latest, now) ==
    LET next == [id \in Breaching(latest) |->
                   [value |-> latest[rules[id].metric],
                    since |-> IF id \in DOMAIN firing THEN firing[id].since ELSE now]]
    IN  /\ firing' = IF SameFiring(firing, next) THEN firing ELSE next
        /\ UNCHANGED <<rules, storedRules, rulesKept, used>>
=============================================================================
