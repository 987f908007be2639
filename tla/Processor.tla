----------------------------- MODULE Processor -----------------------------
(***************************************************************************)
(* The incident processor as it runs in the server:                        *)
(* pkg/server/server.go starts it, after the component health processor,   *)
(* pkg/processor/processor.go loads alerts and silences in a loop with     *)
(* back-off and exports the results, and the scrapes of /metrics read the  *)
(* three metric sets (pkg/prom/collector.go) at the same time.             *)
(*                                                                         *)
(* Prometheus and Alertmanager are seen as the alerts that fire and those  *)
(* that are silenced; both change at any time, and any call to them may    *)
(* fail.  What grouping does to the alerts is in Incidents: here, an       *)
(* exported alert is the alert and whether it is silenced.  What the       *)
(* component health processor does while it runs is in ComponentHealth.    *)
(***************************************************************************)
EXTENDS Integers, FiniteSets

CONSTANTS
    Alerts,    \* the alerts that may fire
    Scrapers,  \* the Collect calls that may run at the same time
    Steps,     \* the attempts of one iteration: wait.Backoff.Steps
    None

ASSUME StepsAssumption == Steps \in Nat \ {0}

\* The metric sets the processor updates, in this order
Sets == {"map", "counts", "components"}

VARIABLES
    firing,    \* the alerts Prometheus returns
    silenced,  \* the alerts Alertmanager returns as silenced
    options,   \* which of the two processors the options leave enabled
    main,      \* StartServer: "health", "alerts", "healthMap", "serving", "returned"
    health,    \* the goroutine of component health: "off", "running", "stopped"
    pc,        \* the goroutine of Run, see TypeOK
    attempt,   \* the attempts of the iteration, this one included
    alerts,    \* the result of LoadQuery
    healthMap, \* the result of MapAlerts, the silences evaluated
    metrics,   \* what each metric set holds
    reading,   \* the set each Collect call holds the read lock of, or None
    seen       \* what that call found in it

env == <<firing, silenced, options>>
server == <<main, health>>
scrapes == <<reading, seen>>
vars == <<env, server, pc, attempt, alerts, healthMap, metrics, scrapes>>

\* The alerts as they are exported
Entry(a, sil) == [alert |-> a, silenced |-> a \in sil]
Mapped(as, sil) == {Entry(a, sil) : a \in as}

Exports == SUBSET [alert : Alerts, silenced : BOOLEAN]

\* BuildComponentRanks: the same table every time
Ranks == {"compute", "core", "workload"}

---------------------------------------------------------------------------
(* The cluster *)

AlertsChange ==
    /\ firing' \in SUBSET Alerts
    /\ UNCHANGED <<silenced, options, server, pc, attempt, alerts, healthMap, metrics, scrapes>>

SilencesChange ==
    /\ silenced' \in SUBSET Alerts
    /\ UNCHANGED <<firing, options, server, pc, attempt, alerts, healthMap, metrics, scrapes>>

---------------------------------------------------------------------------
(* StartServer *)

\* Component health comes first: its configuration is loaded, its processor is
\* created and started, unless one of the two fails or it is disabled.
StartComponentHealth ==
    /\ main = "health"
    /\ \/ /\ main' = IF options.incidents THEN "alerts" ELSE "serving"
          /\ health' = IF options.health THEN "running" ELSE "off"
       \/ options.health /\ main' = "returned" /\ UNCHANGED health
    /\ UNCHANGED <<env, pc, attempt, alerts, healthMap, metrics, scrapes>>

\* InitGroupsCollection makes two range queries; if either fails, or the
\* processor cannot be created, StartServer returns, and its deferred cancel
\* ends the context of the goroutines.
LoadAlertsRange ==
    /\ main = "alerts"
    /\ main' \in {"healthMap", "returned"}
    /\ UNCHANGED <<env, health, pc, attempt, alerts, healthMap, metrics, scrapes>>

\* Mutant of LoadHealthMapRange: a failure is logged and the rest is served.
LoadHealthMapRangeLogged ==
    /\ main = "healthMap"
    /\ main' = "serving"
    /\ pc' \in {pc, "start"}
    /\ UNCHANGED <<env, health, attempt, alerts, healthMap, metrics, scrapes>>

\* Only then is the processor started, and the metrics served.
LoadHealthMapRange ==
    /\ main = "healthMap"
    /\ \/ main' = "serving" /\ pc' = "start"
       \/ main' = "returned" /\ UNCHANGED pc
    /\ UNCHANGED <<env, health, attempt, alerts, healthMap, metrics, scrapes>>

ServerStops ==
    /\ main = "serving"
    /\ main' = "returned"
    /\ UNCHANGED <<env, health, pc, attempt, alerts, healthMap, metrics, scrapes>>

\* Mutant of Cancelled: the context is never cancelled.
NeverCancelled == FALSE

Cancelled == main = "returned"

\* The ticker loop of component health ends with the context.
StopComponentHealth ==
    /\ health = "running"
    /\ Cancelled
    /\ health' = "stopped"
    /\ UNCHANGED <<env, main, pc, attempt, alerts, healthMap, metrics, scrapes>>

---------------------------------------------------------------------------
(* Run: wait.Until around wait.ExponentialBackoffWithContext *)

\* wait.Until looks at the context before an iteration starts.
StartIteration ==
    /\ pc = "start"
    /\ pc' = IF Cancelled THEN "stopped" ELSE "query"
    /\ attempt' = IF Cancelled THEN attempt ELSE 1
    /\ UNCHANGED <<env, server, alerts, healthMap, metrics, scrapes>>

\* Mutant of MayRetry: one attempt too many
MayRetryOneMore == attempt <= Steps

\* Attempts left in this iteration
MayRetry == attempt < Steps

\* An attempt has failed.  While attempts are left the next one follows the
\* back-off; then wait.Until sleeps for the interval.
Fail == pc' = IF MayRetry THEN "backoff" ELSE "sleep"

Retry ==
    /\ pc = "backoff"
    /\ IF Cancelled
         THEN pc' = "sleep" /\ UNCHANGED attempt
         ELSE pc' = "query" /\ attempt' = attempt + 1
    /\ UNCHANGED <<env, server, alerts, healthMap, metrics, scrapes>>

\* The interval is over, or the context is done: both end in wait.Until
\* looking at the context again.
Wake ==
    /\ pc = "sleep"
    /\ pc' = "start"
    /\ UNCHANGED <<env, server, attempt, alerts, healthMap, metrics, scrapes>>

---------------------------------------------------------------------------
(* Process *)

\* loadAlerts: the query for the firing alerts ...
LoadQuery ==
    /\ pc = "query"
    /\ alerts' = firing
    /\ pc' = "silences"
    /\ UNCHANGED <<env, server, attempt, healthMap, metrics, scrapes>>

LoadQueryError ==
    /\ pc = "query"
    /\ Fail
    /\ UNCHANGED <<env, server, attempt, alerts, healthMap, metrics, scrapes>>

\* ... then the silences, read from Alertmanager a moment later
EvaluateSilences ==
    /\ pc = "silences"
    /\ healthMap' = Mapped(alerts, silenced)
    /\ pc' = "map"
    /\ UNCHANGED <<env, server, attempt, alerts, metrics, scrapes>>

SilencedAlertsError ==
    /\ pc = "silences"
    /\ Fail
    /\ UNCHANGED <<env, server, attempt, alerts, healthMap, metrics, scrapes>>

\* Mutant of Unlocked: writers do not wait for the readers.
UnlockedAlways(s) == TRUE

\* No Collect call holds the read lock of the set.
Unlocked(s) == \A c \in Scrapers : reading[c] # s

\* metricSet.Update: the whole set is replaced under the write lock.
Update(s, new) ==
    /\ pc = s
    /\ Unlocked(s)
    /\ metrics' = [metrics EXCEPT ![s] = new]

UpdateHealthMap ==
    /\ Update("map", healthMap)
    /\ pc' = "counts"
    /\ UNCHANGED <<env, server, attempt, alerts, healthMap, scrapes>>

\* Mutant of Counted: the silenced alerts are left out.
CountedActive(hm) == {e \in hm : ~e.silenced}

\* computeSeverityCountMetrics: what is counted, silenced or not
Counted(hm) == hm

UpdateSeverityCounts ==
    /\ Update("counts", Counted(healthMap))
    /\ pc' = "components"
    /\ UNCHANGED <<env, server, attempt, alerts, healthMap, scrapes>>

\* updateComponentsMetrics: a constant table, and the iteration is over
UpdateComponents ==
    /\ Update("components", Ranks)
    /\ pc' = "sleep"
    /\ UNCHANGED <<env, server, attempt, alerts, healthMap, scrapes>>

---------------------------------------------------------------------------
(* metricSet.Collect *)

\* Mutant of MayRead: readers do not let a waiting writer go first.
MayReadAlways(s) == TRUE

\* sync.RWMutex: a writer that waits keeps new readers out.
MayRead(s) == pc # s

\* A scrape is served once the server is started: the read lock is taken and
\* the metrics are sent one by one.
BeginCollect(c, s) ==
    /\ main = "serving"
    /\ reading[c] = None
    /\ MayRead(s)
    /\ reading' = [reading EXCEPT ![c] = s]
    /\ seen' = [seen EXCEPT ![c] = metrics[s]]
    /\ UNCHANGED <<env, server, pc, attempt, alerts, healthMap, metrics>>

EndCollect(c) ==
    /\ reading[c] # None
    /\ reading' = [reading EXCEPT ![c] = None]
    /\ seen' = [seen EXCEPT ![c] = {}]
    /\ UNCHANGED <<env, server, pc, attempt, alerts, healthMap, metrics>>

---------------------------------------------------------------------------
Init ==
    /\ firing \in SUBSET Alerts
    /\ silenced \in SUBSET Alerts
    /\ options \in [incidents : BOOLEAN, health : BOOLEAN]
    /\ main = "health" /\ health = "off"
    /\ pc = "off"
    /\ attempt = 1
    /\ alerts = {} /\ healthMap = {}
    /\ metrics = [s \in Sets |-> {}]
    /\ reading = [c \in Scrapers |-> None]
    /\ seen = [c \in Scrapers |-> {}]

\* The steps of the goroutine that need no answer from another program
RunStep ==
    \/ StartIteration \/ Retry \/ Wake
    \/ UpdateHealthMap \/ UpdateSeverityCounts \/ UpdateComponents

Next ==
    \/ AlertsChange \/ SilencesChange
    \/ StartComponentHealth \/ LoadAlertsRange \/ LoadHealthMapRange \/ ServerStops
    \/ StopComponentHealth
    \/ RunStep
    \/ LoadQuery \/ LoadQueryError
    \/ EvaluateSilences \/ SilencedAlertsError
    \/ \E c \in Scrapers, s \in Sets : BeginCollect(c, s)
    \/ \E c \in Scrapers : EndCollect(c)

\* The goroutines are scheduled, every call returns (with an answer or an error),
\* a Collect call that holds a lock sends its metrics and ends, and calls that
\* are repeated do not fail for ever.
Fairness ==
    /\ WF_vars(RunStep)
    /\ WF_vars(StopComponentHealth)
    /\ WF_vars(LoadQuery \/ LoadQueryError) /\ SF_vars(LoadQuery)
    /\ WF_vars(EvaluateSilences \/ SilencedAlertsError) /\ SF_vars(EvaluateSilences)
    /\ \A c \in Scrapers : WF_vars(EndCollect(c))

Spec == Init /\ [][Next]_vars /\ Fairness

---------------------------------------------------------------------------
TypeOK ==
    /\ firing \subseteq Alerts
    /\ silenced \subseteq Alerts
    /\ options \in [incidents : BOOLEAN, health : BOOLEAN]
    /\ health \in {"off", "running", "stopped"}
    /\ main \in {"health", "alerts", "healthMap", "serving", "returned"}
    /\ pc \in {"off", "start", "query", "silences", "backoff", "sleep", "stopped"} \cup Sets
    /\ attempt \in 1..Steps
    /\ alerts \subseteq Alerts
    /\ healthMap \in Exports
    /\ metrics["map"] \in Exports
    /\ metrics["counts"] \in Exports
    /\ metrics["components"] \in {{}, Ranks}
    /\ reading \in [Scrapers -> Sets \cup {None}]
    /\ \A c \in Scrapers : reading[c] \in {"map", "counts"} => seen[c] \in Exports

\* The counts are those of the exported health map, except between the two
\* updates of one iteration: no failed call, retry or cancellation leaves one
\* of the sets behind the other.
CountsMatchMap == pc # "counts" => metrics["counts"] = metrics["map"]

\* A Collect call sends metrics of one update only: the set does not change
\* while it is sent.
CollectIsAtomic ==
    \A c \in Scrapers : reading[c] # None => seen[c] = metrics[reading[c]]

\* While /metrics is served, every processor that is enabled runs: a start-up
\* that fails half-way leaves no server behind whose metrics stay empty.
ServedIsFed ==
    main = "serving" =>
        /\ options.incidents => pc \notin {"off", "stopped"}
        /\ options.health => health = "running"

\* When StartServer returns, be it that start-up failed after component health
\* was started, both goroutines end, whatever they are doing or waiting for.
StopsWithServer ==
    main = "returned" ~> pc \in {"off", "stopped"} /\ health # "running"

\* Once nothing changes any more, the exported map and counts are, for good,
\* those of the alerts that fire and of their silences: failures, retries and
\* a never-ending stream of scrapes do not keep a change from being exported.
Converges ==
    \A F, S \in SUBSET Alerts :
        <>[](main = "serving" /\ options.incidents /\ firing = F /\ silenced = S)
            => <>[](metrics["map"] = Mapped(F, S) /\ metrics["counts"] = Mapped(F, S))
=============================================================================
