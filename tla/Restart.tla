------------------------------ MODULE Restart ------------------------------
(***************************************************************************)
(* Two processes, one after the other.  The process ends at any moment;    *)
(* all that is left of it is what Prometheus recorded: the ALERTS series   *)
(* and the samples it scraped of cluster_health_components_map.  The next  *)
(* process finds both in its range queries (pkg/server/server.go,          *)
(* pkg/processor/processor.go), cuts them into intervals and starts from   *)
(* them, as Incidents has it.                                              *)
(*                                                                         *)
(* Alerts begin and end at iterations only, so an alert fires between two  *)
(* iterations that both see it.  A scrape is taken between two iterations  *)
(* and may be lost; after an abandoned iteration it is of the old metrics. *)
(***************************************************************************)
EXTENDS Incidents

CONSTANTS
    QueryStep,  \* the step of the range queries: one minute
    Lookback,   \* historyLookback, how far they reach back: four days
    Scenarios   \* what is explored: the alerts that may fire, the histories and
                \* previous incidents the first process may find, how often it is
                \* restarted, how many scrapes and calls of Alertmanager fail,
                \* the gaps between iterations, and until when

ASSUME ScenariosAssumption ==
    /\ QueryStep \in Nat \ {0} /\ Lookback \in Nat /\ Tolerance <= Lookback
    /\ \A s \in Scenarios :
          /\ s.alerts \subseteq Alerts /\ s.histories \subseteq Histories
          /\ s.previous \subseteq HealthMaps
          /\ s.restarts \in Nat /\ s.faults \in Nat /\ s.gaps \subseteq Gaps /\ s.until <= MaxTime

VARIABLES
    scenario,  \* the scenario of this behaviour
    restarts,  \* how many restarts are still to come
    faults,    \* how many failures are still to come
    alerting,  \* the samples of ALERTS: [metric, at]
    exported,  \* what the metric set of the health map holds: [metric, id]
    scraped    \* the samples of the health map: [metric, id, at]

recorded == <<scenario, restarts, faults, alerting, exported, scraped>>

\* MetricsIntervals of one series: the maximal runs of samples
Runs(times) ==
    {r \in times \X times :
        /\ r[1] <= r[2]
        /\ \A t \in times : ~(r[1] - QueryStep <= t /\ t < r[1])
        /\ \A t \in times : ~(r[2] < t /\ t <= r[2] + QueryStep)
        /\ \A t \in times : r[1] <= t /\ t < r[2] =>
              \E u \in times : t < u /\ u <= t + QueryStep}

\* What a range query made at t finds of the samples
Since(samples, t) == {s \in samples : t - Lookback <= s.at}

AlertIntervals(samples) ==
    UNION {{[metric |-> a, start |-> r[1], end |-> r[2]] :
              r \in Runs({s.at : s \in {q \in samples : q.metric = a}})} :
           a \in {s.metric : s \in samples}}

\* common.SrcLabels: the labels of the alert that its row is exported with.
\* Those that tell components apart are left out, as in the alerts.
SrcLabels(a) == Project(a, {"alertname", "namespace", "severity"})

\* The samples of the exported rows found: alerts that share a row are one
\* series.  Whether a row is silenced is left out.
FoundRows ==
    {[labels |-> SrcLabels(s.metric), uuid |-> s.id, at |-> s.at] : s \in Since(scraped, now)}

\* newPreviousIncidentsMatcher
RecordedIncidents ==
    UNION {{[labels |-> q.labels, uuid |-> q.uuid, start |-> r[1], end |-> r[2]] :
              r \in Runs({p.at : p \in {o \in FoundRows : o.labels = q.labels /\ o.uuid = q.uuid}})} :
           q \in FoundRows}

---------------------------------------------------------------------------
\* Prometheus scrapes the metrics as the last iteration left them, or fails to.
\* What no later process will read is not recorded.
Scrape ==
    \/ /\ scraped' = scraped \cup
            {[metric |-> e.metric, id |-> e.id, at |-> now] : e \in IF restarts > 0 THEN exported ELSE {}}
       /\ UNCHANGED faults
    \/ /\ restarts > 0 /\ faults > 0
       /\ faults' = faults - 1
       /\ UNCHANGED scraped

\* The steps that nothing outside the process takes notice of
Internal ==
    \/ NextChange
    \/ EndChange
    \/ \E i \in todo : TryMatchInterval(i)
    \/ BeginUnmatched
    \/ \E i \in todo : AddInterval(i)
    \/ AssignAlertsToGroups
    \/ Stopped

Work == Internal /\ UNCHANGED recorded

Iterate(alerts, gap) ==
    /\ now + gap <= scenario.until
    /\ ProcessAlertsBatch(alerts, gap)
    /\ alerting' = alerting \cup {[metric |-> a, at |-> now'] : a \in IF restarts > 0 THEN alerts ELSE {}}
    /\ Scrape
    /\ UNCHANGED <<scenario, restarts, exported>>

Export ==
    /\ UpdateHealthMap
    /\ exported' = grouped
    /\ UNCHANGED <<scenario, restarts, faults, alerting, scraped>>

Abandon ==
    /\ faults > 0
    /\ faults' = faults - 1
    /\ SilencedAlertsError
    /\ UNCHANGED <<scenario, restarts, alerting, exported, scraped>>

\* What the range query of the health map holds for the process that starts
PreviousFound == IF now = StartTime THEN scenario.previous ELSE {RecordedIncidents}

Update ==
    /\ \E prev \in PreviousFound : UpdateFrom(prev)
    /\ UNCHANGED recorded

\* The process ends, with whatever it was doing, and the next one finds alerts
\* firing.
Crash(alerts, gap) ==
    /\ ready
    /\ restarts > 0
    /\ restarts' = restarts - 1
    /\ now + gap <= scenario.until
    /\ now' = now + gap
    /\ alerting' = alerting \cup {[metric |-> a, at |-> now'] : a \in alerts}
    /\ Scrape
    /\ history' = AlertIntervals(Since(alerting', now'))
    /\ changes' = history'
    /\ pc' = "history"
    /\ groups' = {} /\ fresh' = {} /\ shared' = {} /\ todo' = {} /\ unmatched' = {}
    /\ grouped' = {} /\ health' = {} /\ published' = {} /\ exported' = {}
    /\ ready' = FALSE
    /\ UNCHANGED <<scenario, nextID>>

RestartInit ==
    /\ Init
    /\ scenario \in Scenarios
    /\ history \in scenario.histories
    /\ restarts = scenario.restarts
    /\ faults = scenario.faults
    /\ alerting = {} /\ exported = {} /\ scraped = {}

RestartNext ==
    \/ Work
    \/ \E alerts \in SUBSET scenario.alerts, gap \in scenario.gaps : Iterate(alerts, gap)
    \/ Export
    \/ Abandon
    \/ Update
    \/ Shutdown /\ UNCHANGED recorded
    \/ \E alerts \in SUBSET scenario.alerts, gap \in scenario.gaps : Crash(alerts, gap)

RestartSpec == RestartInit /\ [][RestartNext]_<<vars, recorded>>

---------------------------------------------------------------------------
(* Identity *)

\* The ids of the recorded incidents that were there, within the tolerance, at
\* the end of a group of root r that matches them
Offered(prev, r) ==
    {p.uuid : p \in {q \in prev : \E g \in groups :
                        /\ g.root = r
                        /\ q.start - Tolerance < g.end /\ g.end < q.end + Tolerance
                        /\ \E m \in g.matchers : q.labels \subseteq m}}

\* docs/health-analysis-engine.md: ids are reassigned "so incidents keep their
\* identity".  Take a distinctive alert (see StableGroupID) that fires until
\* the restart and was scraped under an id within the tolerance.  After the
\* replay it has that id again; or, if the replay has put alerts of several
\* recorded incidents under its root, the id of one of them, its own being one
\* of those that were to be had.  It never has a new id, and never that of an
\* incident it was not put together with.
IncidentsKeepIdentity ==
    [][Update => \A i \in history, s \in scraped :
          /\ Distinctive(i.metric)
          /\ i.end = now
          /\ s.metric = i.metric
          /\ now - s.at < Tolerance
          /\ i.start <= s.at
          => \A g \in BestMatches(groups, [i EXCEPT !.start = now]) :
                \A h \in BestMatches(groups', [i EXCEPT !.start = now]) :
                    {s.id, h.root} \subseteq Offered(RecordedIncidents, g.root)]_<<vars, recorded>>
=============================================================================
