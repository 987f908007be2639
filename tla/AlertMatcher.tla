---------------------------- MODULE AlertMatcher ----------------------------
(***************************************************************************)
(* How the component health finds the alerts of a component                *)
(* (pkg/health/alert_matcher.go): for each selector, Alertmanager is asked *)
(* for the alerts with one of the values of a first label, in one call per *)
(* value, and the answer is narrowed down by the other labels.  The labels *)
(* are a Go map, so any of them may come first, and it may be another one  *)
(* at each evaluation.  The alerts may change between the calls, and a     *)
(* call may fail.                                                          *)
(***************************************************************************)
EXTENDS Integers, Sequences, FiniteSets, TLC

CONSTANTS
    Alerts,     \* the alerts, functions from label names to values
    Selectors   \* the selector lists of components: sequences of functions
                \* from label names to sequences of values

Elems(seq) == {seq[i] : i \in DOMAIN seq}

\* A selector names a label, and no value is empty: Alertmanager would take an
\* empty one for a label that is not there.
ASSUME SelectorsAssumption ==
    \A list \in Selectors :
        /\ Len(list) \in Nat /\ DOMAIN list = 1..Len(list)
        /\ \A i \in DOMAIN list :
              /\ DOMAIN list[i] # {}
              /\ \A k \in DOMAIN list[i] :
                    list[i][k] \in Seq(STRING) /\ "" \notin Elems(list[i][k])

VARIABLES
    active,     \* the alerts active in Alertmanager
    throughout, \* those active since the evaluation began
    ever,       \* those active at some time since then
    selectors,  \* the selectors of the component
    current,    \* the index of the one being evaluated
    keys,       \* the labels of the current one not yet looked at
    key,        \* the label being queried ...
    values,     \* ... and its values not yet asked for
    matchFound, \* whether one of them has brought an alert
    matching,   \* the alerts that match the labels looked at
    labels,     \* labelsMatched: the value that matched, by label
    cleaned,    \* the alerts found, with the labels they are exported under
    pc          \* "idle", "key", "query", "done", "failed"

queryVars == <<keys, key, values, matchFound, matching, labels>>
vars == <<active, throughout, ever, selectors, current, queryVars, cleaned, pc>>

Label(a, k) == IF k \in DOMAIN a THEN a[k] ELSE ""

---------------------------------------------------------------------------
\* Alerts start and end at any time while the evaluation is going on.
AlertsChange ==
    /\ pc \in {"key", "query"}
    /\ active' \in SUBSET Alerts
    /\ throughout' = throughout \cap active'
    /\ ever' = ever \cup active'
    /\ UNCHANGED <<selectors, current, queryVars, cleaned, pc>>

Selector == selectors[current]

\* evaluateAlerts takes up the selector at i of the list, if there is one ...
Begin(list, i) ==
    /\ current' = i
    /\ keys' = IF i > Len(list) THEN {} ELSE DOMAIN list[i]
    /\ key' = "" /\ values' = <<>> /\ matchFound' = FALSE
    /\ matching' = {} /\ labels' = <<>>
    /\ pc' = IF i > Len(list) THEN "done" ELSE "key"

BeginNext == Begin(selectors, current + 1)

EvaluateAlerts ==
    /\ pc = "idle"
    /\ selectors' \in Selectors
    /\ Begin(selectors', 1)
    /\ cleaned' = {}
    /\ throughout' = active
    /\ ever' = active
    /\ UNCHANGED active

\* An alert as it is exported: its name, namespace and severity are its own,
\* the other labels those that matched.
Clean(a) ==
    LET own == {"alertname", "severity", "namespace"}
    IN  [alert |-> a,
         labels |-> [k \in DOMAIN labels \cup own |-> IF k \in own THEN Label(a, k) ELSE labels[k]]]

\* ... when the one before is through.
EndSelector ==
    /\ pc = "key"
    /\ keys = {}
    /\ cleaned' = cleaned \cup {Clean(a) : a \in matching}
    /\ BeginNext
    /\ UNCHANGED <<active, throughout, ever, selectors>>

\* A label without a match: the selector matches nothing.
NoMatch == UNCHANGED cleaned /\ BeginNext

---------------------------------------------------------------------------
(* matchingAlertFound *)

\* Nothing has matched so far: the alerts have to be queried.
FirstKey ==
    /\ pc = "key"
    /\ matching = {}
    /\ \E k \in keys :
         /\ keys' = keys \ {k}
         /\ key' = k
         /\ values' = Selector[k]
    /\ matchFound' = FALSE
    /\ pc' = "query"
    /\ UNCHANGED <<active, throughout, ever, selectors, current, matching, labels, cleaned>>

\* Mutant of Accepted: only the first value is compared.
AcceptedFirst(k) == {Head(Selector[k])}

\* The values a label may have
Accepted(k) == Elems(Selector[k])

\* The alerts found are narrowed down by another label; the value of the last
\* one that matches is noted.
FilterKey ==
    /\ pc = "key"
    /\ matching # {}
    /\ \E k \in keys :
         LET filtered == {a \in matching : k \in DOMAIN a /\ a[k] \in Accepted(k)}
         IN  IF filtered = {} THEN NoMatch
             ELSE /\ matching' = filtered
                  /\ \E a \in filtered : labels' = (k :> a[k]) @@ labels
                  /\ keys' = keys \ {k}
                  /\ UNCHANGED <<current, key, values, matchFound, cleaned, pc>>
    /\ UNCHANGED <<active, throughout, ever, selectors>>

\* ActiveAlertsWithLabels for one value
QueryValue ==
    /\ pc = "query"
    /\ values # <<>>
    /\ LET v == Head(values)
           alerts == {a \in active : Label(a, key) = v}
       IN  /\ matching' = matching \cup alerts
           /\ matchFound' = (matchFound \/ alerts # {})
           /\ labels' = IF alerts = {} THEN labels ELSE (key :> v) @@ labels
    /\ values' = Tail(values)
    /\ UNCHANGED <<active, throughout, ever, selectors, current, keys, key, cleaned, pc>>

\* One failed call fails the evaluation: what was found before is dropped.
QueryError ==
    /\ pc = "query"
    /\ values # <<>>
    /\ pc' = "failed"
    /\ cleaned' = {}
    /\ UNCHANGED <<active, throughout, ever, selectors, current, queryVars>>

EndQuery ==
    /\ pc = "query"
    /\ values = <<>>
    /\ IF matchFound
         THEN pc' = "key" /\ UNCHANGED <<current, queryVars, cleaned>>
         ELSE NoMatch
    /\ UNCHANGED <<active, throughout, ever, selectors>>

Return == pc \in {"done", "failed"} /\ UNCHANGED vars

---------------------------------------------------------------------------
Init ==
    /\ active \in SUBSET Alerts
    /\ throughout = {} /\ ever = {}
    /\ selectors = <<>> /\ current = 1 /\ keys = {} /\ key = "" /\ values = <<>>
    /\ matchFound = FALSE /\ matching = {} /\ labels = <<>>
    /\ cleaned = {}
    /\ pc = "idle"

Next ==
    \/ AlertsChange
    \/ EvaluateAlerts \/ EndSelector
    \/ FirstKey \/ FilterKey
    \/ QueryValue \/ QueryError \/ EndQuery
    \/ Return

Spec == Init /\ [][Next]_vars

---------------------------------------------------------------------------
\* What the comment of matchingAlertFound says a selector means: the values of
\* a label are joined by OR, the labels by AND.
Selects(s, a) == \A k \in DOMAIN s : k \in DOMAIN a /\ a[k] \in Elems(s[k])

\* Whatever label comes first and whatever starts or ends between the calls: an
\* alert that is active all the time and satisfies a selector is found, and
\* one that is found satisfies a selector and was active at some time.
FindsSelected ==
    pc = "done" =>
        LET selected == {a \in Alerts : \E i \in DOMAIN selectors : Selects(selectors[i], a)}
            found == {c.alert : c \in cleaned}
        IN  throughout \cap selected \subseteq found /\ found \subseteq ever \cap selected

\* TestEvaluateAlerts, "Multiple labels (AND) and all matches one alert": an
\* alert found by one of several values of part_of is exported with its own
\* value.  Here for every label: what an alert is exported with is its own.
ExportedLabelsAreOwn ==
    pc = "done" => \A c \in cleaned : \A k \in DOMAIN c.labels : c.labels[k] = Label(c.alert, k)
=============================================================================
