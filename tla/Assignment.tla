----------------------------- MODULE Assignment -----------------------------
(***************************************************************************)
(* What the grouping engine promises to the readers of group_id            *)
(* (pkg/processor/incidents.go), without groups, matchers and time         *)
(* windows: every alert a query returns is given one incident, either one  *)
(* that is still open or a new one, and the alerts of a query are exported *)
(* together or not at all.  An incident opened for a query is kept for the *)
(* next one.  Only a restart brings back an incident that was forgotten.   *)
(* Incidents is shown to implement this specification.                     *)
(***************************************************************************)
EXTENDS Integers

CONSTANTS
    Alerts,    \* the alerts that may fire
    PrevUUIDs  \* 1..PrevUUIDs are the ids of the previous process

VARIABLES
    time,       \* the time of the last query
    serving,    \* the start-up is over
    issued,     \* 1..issued are the ids handed out so far
    open,       \* the ids of the incidents an alert may join
    new,        \* those of them opened for the batch, and not yet kept for others
    batch,      \* the alerts of the query that is worked off
    assigned,   \* the incidents they have been given: [metric, id]
    published   \* for each alert, the last [metric, id, at] exported

vars == <<time, serving, issued, open, new, batch, assigned, published>>

Metrics(S) == {p.metric : p \in S}

Init ==
    /\ time \in Nat
    /\ serving = FALSE
    /\ issued = PrevUUIDs
    /\ open = {} /\ new = {} /\ batch = {} /\ assigned = {} /\ published = {}

\* While the history is replayed incidents are opened, at most one at a time.
Replay ==
    /\ ~serving
    /\ issued' \in {issued, issued + 1}
    /\ open' \subseteq open \cup {issued'}
    /\ UNCHANGED <<time, serving, new, batch, assigned, published>>

\* The replayed incidents take the ids of those of the previous process.
Adopt ==
    /\ ~serving
    /\ serving' = TRUE
    /\ open' \subseteq open \cup 1..issued
    /\ UNCHANGED <<time, issued, new, batch, assigned, published>>

\* The process is replaced by a new one, which replays what was recorded.
Restart ==
    /\ time' > time
    /\ serving' = FALSE
    /\ open' = {} /\ new' = {} /\ batch' = {} /\ assigned' = {} /\ published' = {}
    /\ UNCHANGED issued

Query ==
    /\ serving
    /\ batch = {}
    /\ batch' \subseteq Alerts
    /\ time' > time
    /\ UNCHANGED <<serving, issued, open, new, assigned, published>>

\* An incident for the alerts of the batch that will have no other
OpenIncident ==
    /\ batch # {}
    /\ issued' = issued + 1
    /\ open' = open \cup {issued'} /\ new' = new \cup {issued'}
    /\ UNCHANGED <<time, serving, batch, assigned, published>>

Assign ==
    \E a \in batch \ Metrics(assigned), id \in open \cup {issued + 1} :
        /\ assigned' = assigned \cup {[metric |-> a, id |-> id]}
        /\ open' = open \cup {id}
        /\ \/ id = issued + 1 /\ issued' = id /\ new' = new \cup {id}
           \/ id # issued + 1 /\ UNCHANGED <<issued, new>>
        /\ UNCHANGED <<time, serving, batch, published>>

\* Old incidents are forgotten once every alert of the batch has its own, but
\* none that was opened for the batch.
Forget ==
    /\ serving
    /\ batch = Metrics(assigned)
    /\ open' \subseteq open
    /\ new \subseteq open' /\ new' = {}
    /\ UNCHANGED <<time, serving, issued, batch, assigned, published>>

\* What is exported is open to the alerts of the next query.
Publish ==
    /\ batch = Metrics(assigned)
    /\ new = {}
    /\ published' = {p \in published : p.metric \notin batch}
                      \cup {[metric |-> p.metric, id |-> p.id, at |-> time] : p \in assigned}
    /\ batch' = {} /\ assigned' = {}
    /\ UNCHANGED <<time, serving, issued, open, new>>

Abandon ==
    /\ new = {}
    /\ batch' = {} /\ assigned' = {}
    /\ UNCHANGED <<time, serving, issued, open, new, published>>

Next ==
    \/ Replay \/ Adopt \/ Restart
    \/ Query \/ OpenIncident \/ Assign \/ Forget \/ Publish \/ Abandon

Spec == Init /\ [][Next]_vars
=============================================================================
