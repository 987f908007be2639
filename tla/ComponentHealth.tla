-------------------------- MODULE ComponentHealth --------------------------
(***************************************************************************)
(* The component health processor (pkg/health/health_processor.go): at     *)
(* every tick the tree of components is evaluated, children first.  Each   *)
(* component asks the Kubernetes API for the health of its objects and     *)
(* Alertmanager for its alerts, either of which may fail, while both go on *)
(* changing; its status is computed from its children and from these, and  *)
(* the three metric sets are updated one after the other.                  *)
(*                                                                         *)
(* Which alerts a component selects is in AlertMatcher.  Here they are     *)
(* seen as the health values of their severities.                          *)
(***************************************************************************)
EXTENDS Integers, SequencesExt

CONSTANTS
    Configured,    \* the components of the configuration, each the path of
                   \* names that leads to it
    Operators,     \* the names of the cluster operators at start-up
    AlertSources,  \* the components with alert selectors
    Queries,       \* the queries each configured component makes, in order:
                   \* one for each label expression or object, with the name
                   \* that is configured and the objects that match
    AlertValues,   \* the sets of health values the alerts of one may have
    ObjectValues,  \* the statuses each object may have
    None

\* HealthStatus
OK == 0
Warning == 1
Error == 2
Unknown == -1
Statuses == Unknown..Error

Objects == DOMAIN ObjectValues

ASSUME TreeAssumption ==
    /\ \A c \in Configured : c \in Seq(STRING) /\ c # <<>>
    /\ \A c \in Configured : \A k \in 1..Len(c) : SubSeq(c, 1, k) \in Configured
    /\ AlertSources \subseteq Configured
    /\ DOMAIN Queries = Configured
    /\ \A c \in Configured : Queries[c] \in Seq([name : STRING, matches : SUBSET Objects])
    /\ Operators \subseteq Objects \cap STRING
    /\ AlertValues \subseteq SUBSET (OK..Error)
    /\ \A o \in Objects : ObjectValues[o] \subseteq Statuses

VARIABLES
    alertWorld,   \* the severities of the alerts each source selects
    objectWorld,  \* the statuses of the objects
    outage,       \* calls to the two may fail
    queries,      \* the components to evaluate, with their object queries
    done,         \* the components evaluated in this evaluation
    objects,      \* what the evaluation has found: objects with their status,
    alerts,       \* alerts,
    alertsErr,    \* whether Alertmanager failed to answer,
    status,       \* and the status computed
    at,           \* the component being evaluated, and
    todo,         \* its queries that have not been answered
    alertMetrics, objectMetrics, componentMetrics,
    cancelled,    \* the context is done
    pc            \* "finalize", "evaluate", "objects", "publish...", "select", "stopped"

world == <<alertWorld, objectWorld, outage>>
metrics == <<alertMetrics, objectMetrics, componentMetrics>>
found == <<objects, alerts, alertsErr, status>>
local == <<queries, done, found, at, todo>>
vars == <<world, local, metrics, cancelled, pc>>

Components == DOMAIN queries

Children(c) == {d \in Components : Len(d) > 1 /\ Front(d) = c}

\* The map m with v at k
Put(m, k, v) == [x \in DOMAIN m \cup {k} |-> IF x = k THEN v ELSE m[x]]

---------------------------------------------------------------------------
AlertsChange ==
    /\ \E s \in AlertSources, v \in AlertValues : alertWorld' = [alertWorld EXCEPT ![s] = v]
    /\ UNCHANGED <<objectWorld, outage, local, metrics, cancelled, pc>>

ObjectsChange ==
    /\ \E o \in Objects : \E v \in ObjectValues[o] : objectWorld' = [objectWorld EXCEPT ![o] = v]
    /\ UNCHANGED <<alertWorld, outage, local, metrics, cancelled, pc>>

OutageChange ==
    /\ outage' = ~outage
    /\ UNCHANGED <<alertWorld, objectWorld, local, metrics, cancelled, pc>>

Cancel ==
    /\ ~cancelled
    /\ cancelled' = TRUE
    /\ UNCHANGED <<world, local, metrics, pc>>

---------------------------------------------------------------------------
(* finalizeComponentTree *)

ControlPlaneOperators == <<"control-plane", "operators">>

OperatorComponent(name) == Append(ControlPlaneOperators, name)

OperatorObject(name) == [name |-> name, matches |-> {name}]

\* Mutant of OperatorQueries: a configured component stays as it is.
OperatorQueriesNew(c) == IF c \in Configured THEN Queries[c] ELSE <<OperatorObject(Last(c))>>

\* The object of the operator is added to a component that is configured.
OperatorQueries(c) ==
    IF c \in Configured THEN Append(Queries[c], OperatorObject(Last(c)))
    ELSE <<OperatorObject(Last(c))>>

\* Every cluster operator becomes a child of control-plane.operators, if the
\* configuration has that.
FinalizeComponentTree ==
    LET added == IF ControlPlaneOperators \in Configured
                   THEN {OperatorComponent(n) : n \in Operators} ELSE {}
    IN  /\ pc = "finalize"
        /\ queries' = [c \in Configured \cup added |->
                         IF c \in added THEN OperatorQueries(c) ELSE Queries[c]]
        /\ pc' = "evaluate"
        /\ UNCHANGED <<world, done, found, at, todo, metrics, cancelled>>

---------------------------------------------------------------------------
(* evaluateComponent: the children first, in a fixed order *)

Ready == {c \in Components \ done : Children(c) \subseteq done}

BeginComponent ==
    /\ pc = "evaluate"
    /\ Ready # {}
    /\ at' = CHOOSE c \in Ready : TRUE
    /\ todo' = queries[at']
    /\ objects' = Put(objects, at', {})
    /\ pc' = "objects"
    /\ UNCHANGED <<world, queries, done, alerts, alertsErr, status, metrics, cancelled>>

Found(o, s) == [object |-> o, status |-> s, answered |-> TRUE]

\* k8sObjectToUnknwonObjectStatus
NotFound(name) == [object |-> name, status |-> Unknown, answered |-> FALSE]

\* Mutant of Aggregated: an object found before is not skipped.
AggregatedAll(known, new) == known \cup new

\* aggregateObjectStatuses: what an earlier query has found stays.
Aggregated(known, new) ==
    known \cup {f \in new : \A k \in known : k.answered => k.object # f.object}

\* A query that fails leaves an object with the configured name that is
\* Unknown; it may also fail because the context is done.
EvalResource ==
    /\ pc = "objects"
    /\ todo # <<>>
    /\ \/ objects' = [objects EXCEPT ![at] =
            Aggregated(@, {Found(o, objectWorld[o]) : o \in Head(todo).matches})]
       \/ (outage \/ cancelled) /\ objects' = [objects EXCEPT ![at] = @ \cup {NotFound(Head(todo).name)}]
    /\ todo' = Tail(todo)
    /\ UNCHANGED <<world, queries, done, alerts, alertsErr, status, at, metrics, cancelled, pc>>

\* Mutant of ChildrenStatus: a warning of a child is not passed on.
ErrorOfChildren(worst, own) == IF worst = Error THEN Error ELSE own

\* The worst child wins if it is worse than OK.
ChildrenStatus(worst, own) ==
    IF worst = Error THEN Error
    ELSE IF worst = Warning THEN Warning
    ELSE own

\* Nothing worse than OK counts as OK, so Unknown does.
Worst(S) == Max({OK} \cup S)

CalculateHealthStatus(c, as, err) ==
    ChildrenStatus(Worst({status[d] : d \in Children(c)}),
                   IF err THEN Unknown ELSE Worst(as \cup {f.status : f \in objects[c]}))

\* evaluateAlerts answers or fails; with the status the component is done.
EvaluateAlerts ==
    /\ pc = "objects"
    /\ todo = <<>>
    /\ \E err \in {FALSE, outage /\ at \in AlertSources} :
         LET as == IF err \/ at \notin AlertSources THEN {} ELSE alertWorld[at]
         IN  /\ alerts' = Put(alerts, at, as)
             /\ alertsErr' = Put(alertsErr, at, err)
             /\ status' = Put(status, at, CalculateHealthStatus(at, as, err))
    /\ done' = done \cup {at}
    /\ pc' = IF done' = Components THEN "publishAlerts" ELSE "evaluate"
    /\ UNCHANGED <<world, queries, objects, at, todo, metrics, cancelled>>

---------------------------------------------------------------------------
(* createHealthMetrics and updateAllMetrics *)

HasChildren(c) == Children(c) # {}

\* The alerts of components without children, each with the status of the
\* component; a failed query shows as a metric without an alert.
AlertMetrics ==
    UNION {{[component |-> c, status |-> status[c], alert |-> v] : v \in alerts[c]}
           \cup (IF alertsErr[c] THEN {[component |-> c, status |-> status[c], alert |-> None]} ELSE {})
           : c \in {d \in Components : ~HasChildren(d)}}

ObjectMetrics ==
    UNION {{[component |-> c, object |-> f.object, status |-> f.status] : f \in objects[c]}
           : c \in {d \in Components : ~HasChildren(d)}}

ComponentMetrics ==
    {[component |-> c, status |-> status[c]] : c \in {d \in Components : HasChildren(d)}}

UpdateAlertMetrics ==
    /\ pc = "publishAlerts"
    /\ alertMetrics' = AlertMetrics
    /\ pc' = "publishObjects"
    /\ UNCHANGED <<world, local, objectMetrics, componentMetrics, cancelled>>

UpdateObjectMetrics ==
    /\ pc = "publishObjects"
    /\ objectMetrics' = ObjectMetrics
    /\ pc' = "publishComponents"
    /\ UNCHANGED <<world, local, alertMetrics, componentMetrics, cancelled>>

UpdateComponentMetrics ==
    /\ pc = "publishComponents"
    /\ componentMetrics' = ComponentMetrics
    /\ pc' = "select"
    /\ UNCHANGED <<world, local, alertMetrics, objectMetrics, cancelled>>

---------------------------------------------------------------------------
(* Run *)

\* Mutant of Unevaluated: the statuses of the last evaluation are kept.
KeepEvaluated == Components

\* A new evaluation starts from nothing.
Unevaluated == {}

Tick ==
    /\ pc = "select"
    /\ done' = Unevaluated
    /\ IF done' = Components
         THEN pc' = "publishAlerts" /\ UNCHANGED found
         ELSE /\ pc' = "evaluate"
              /\ objects' = <<>> /\ alerts' = <<>> /\ alertsErr' = <<>> /\ status' = <<>>
    /\ at' = None
    /\ UNCHANGED <<world, queries, todo, metrics, cancelled>>

Stop ==
    /\ pc = "select"
    /\ cancelled
    /\ pc' = "stopped"
    /\ UNCHANGED <<world, local, metrics, cancelled>>

Init ==
    /\ alertWorld \in [AlertSources -> AlertValues]
    /\ objectWorld \in {w \in [Objects -> Statuses] : \A o \in Objects : w[o] \in ObjectValues[o]}
    /\ outage \in BOOLEAN
    /\ queries = <<>> /\ done = {}
    /\ objects = <<>> /\ alerts = <<>> /\ alertsErr = <<>> /\ status = <<>>
    /\ at = None /\ todo = <<>>
    /\ alertMetrics = {} /\ objectMetrics = {} /\ componentMetrics = {}
    /\ cancelled = FALSE
    /\ pc = "finalize"

Evaluation ==
    \/ FinalizeComponentTree
    \/ BeginComponent \/ EvalResource \/ EvaluateAlerts
    \/ UpdateAlertMetrics \/ UpdateObjectMetrics \/ UpdateComponentMetrics
    \/ Tick

Next ==
    \/ AlertsChange \/ ObjectsChange \/ OutageChange \/ Cancel
    \/ Evaluation
    \/ Stop

\* The ticker ticks and every call returns.
Spec == Init /\ [][Next]_vars /\ WF_vars(Evaluation)

---------------------------------------------------------------------------
\* c and everything below it
Subtree(c) == {d \in Components : IsPrefix(c, d)}

Leaf(c) == Children(c) = {}

\* What is known of a component when its status is computed; nothing if its
\* alerts are not.
Known(c) == IF alertsErr[c] THEN {} ELSE alerts[c] \cup {f.status : f \in objects[c]}

KnownIn(S) == UNION {Known(c) : c \in S}

\* Every exported component is at least as bad as what is known of the leaves
\* below it, however deep, and no worse than the worst that is known of it and
\* all below it: no problem is lost on its way up, and none is made up.
RollUp ==
    pc = "select" => \A m \in componentMetrics :
        /\ Worst(KnownIn({c \in Subtree(m.component) : Leaf(c)})) <= Worst({m.status})
        /\ m.status <= Worst(KnownIn(Subtree(m.component)))

\* A component exports an object with one status, although several queries
\* match it and it changes between them.  (Beside it there may be an unknown
\* one of the same name, of a query that has failed.)
ObjectsOnce ==
    \A m, n \in objectMetrics :
        m.component = n.component /\ m.object = n.object /\ Unknown \notin {m.status, n.status}
            => m.status = n.status

\* Every cluster operator is watched: with a component for the operators, the
\* object of each is exported for its component, configured or not, with its
\* status or as unknown.  (Unless its component has been given children.)
OperatorsAreWatched ==
    pc = "select" /\ ControlPlaneOperators \in Configured =>
        \A n \in Operators : Leaf(OperatorComponent(n)) =>
            \E m \in objectMetrics : m.component = OperatorComponent(n) /\ m.object = n

ObjectsOf(c) == UNION {queries[c][i].matches : i \in DOMAIN queries[c]}

\* Alerts, objects and components as they are when A and O hold
Settled(A, O) ==
    /\ \A c \in AlertSources : Leaf(c) =>
          {m.alert : m \in {n \in alertMetrics : n.component = c}} = A[c]
    /\ objectMetrics = UNION {{[component |-> c, object |-> o, status |-> O[o]] : o \in ObjectsOf(c)}
                               : c \in {d \in Components : Leaf(d)}}
    /\ \A m \in componentMetrics :
          m.status = Worst(UNION {A[c] : c \in Subtree(m.component) \cap AlertSources}
                           \cup UNION {{O[o] : o \in ObjectsOf(c)} : c \in Subtree(m.component)})

\* Once alerts and objects stay as they are and the calls succeed, the metrics
\* follow and stay so: an outage leaves nothing behind.  (For trees with alerts
\* and objects at the leaves only.)
Converges ==
    \A A \in [AlertSources -> AlertValues], O \in [Objects -> Statuses] :
        (\A o \in Objects : O[o] \in ObjectValues[o]) =>
        (<>[](alertWorld = A /\ objectWorld = O /\ ~outage /\ ~cancelled) => <>[]Settled(A, O))
=============================================================================
