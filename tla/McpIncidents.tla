---------------------------- MODULE McpIncidents ----------------------------
(***************************************************************************)
(* One call of the get_incidents tool (pkg/mcp/incidents_tool.go): the     *)
(* series of the exported health map are folded into incidents, the series *)
(* of the alerts are joined to them, and incidents below the requested     *)
(* severity are left out.                                                  *)
(*                                                                         *)
(* Prometheus and Go maps return things in any order, so each loop takes   *)
(* any element next.  Times are those of samples in hours, an empty end    *)
(* time is None.  In a fleet the series and the alerts of all clusters     *)
(* are in one Prometheus and carry the id of their cluster.                *)
(***************************************************************************)
EXTENDS Integers, FiniteSetsExt

CONSTANTS
    Series,         \* the possible series of the health map: [groupId,
                    \* clusterID, srcLabels, component, health, first, last]
    AlertSeries,    \* the possible series of ALERTS: [labels, first, last]
    Requests,       \* the parameters of a call: [timeRange, minSeverity]
    Silences,       \* the possible answers of Alertmanager, sets of label sets
    Consoles,       \* the possible answers to console_url: sequences of
                    \* [clusterID, url], <<>> also for a failed query
    Now,            \* the end ...
    QueryStep,      \* ... and the step of the range queries
    DefaultTimeRange,
    ToLower(_),     \* a string in lower case
    None

ASSUME ClusterAssumption ==
    \* a group id is a UUID: no two clusters use the same
    \A s, t \in Series : s.groupId = t.groupId => s.clusterID = t.clusterID

ASSUME SeriesAssumption ==
    /\ \A s \in Series :
          /\ DOMAIN s = {"groupId", "clusterID", "srcLabels", "component", "health", "first", "last"}
          /\ s.health \in 0..2 /\ s.first \in Int /\ s.last \in Int
    /\ {Now, QueryStep, DefaultTimeRange} \subseteq Int /\ None \notin Int
    /\ \A r \in Requests : r.timeRange \in Int

ASSUME LowerAssumption == \A n \in {"info", "warning", "critical"} : ToLower(n) = n

VARIABLES
    params,       \* the parameters of the call
    console,      \* clusterIDconsoleURL: the console of each cluster, or None
    dataVec,      \* the series of the health map not yet folded
    silences,     \* the label sets of the silenced alerts
    incidents,    \* the incidents by group id
    alertData,    \* the series of ALERTS
    inc,          \* the incident whose alerts are being joined
    pairs,        \* its label sets and the alerts not yet compared
    updated,      \* updatedAlertsMap: the rows of the incident, by triple
    listed,       \* the incidents joined, with their rows
    answer,       \* the answer of the tool, None before
    asked,        \* the series of the health map there were, for the properties
    pc            \* "start", "query", "silences", "console", "fold", "alerts",
                  \* "join", "done", "error"

input == <<params, silences, console, asked>>
vars == <<input, dataVec, incidents, alertData, inc, pairs, updated, listed, answer, pc>>

\* The map m with v at k
Put(m, k, v) == [x \in DOMAIN m \cup {k} |-> IF x = k THEN v ELSE m[x]]

Label(a, k) == IF k \in DOMAIN a THEN a[k] ELSE ""

SubsetMatches(s, a) == \A k \in DOMAIN s : k \in DOMAIN a /\ a[k] = s[k]

IntersectionMatches(s, a) ==
    LET common == DOMAIN s \cap DOMAIN a
    IN  common # {} /\ \A k \in common : s[k] = a[k]

\* processSampleTime: what has a sample within the last step goes on.
EndTime(s) == IF Now - s.last > QueryStep THEN s.last ELSE None

Status(end) == IF end = None THEN "firing" ELSE "resolved"

Severities == <<"info", "warning", "critical">>

\* Severities are read in either case; what is none of the three is a warning.
ParseHealthValue(name) ==
    CASE ToLower(name) = "info" -> 0 [] ToLower(name) = "critical" -> 2 [] OTHER -> 1

HealthName(h) == IF h \in 0..2 THEN Severities[h + 1] ELSE "none"

---------------------------------------------------------------------------
(* IncidentsHandler *)

\* No token, or a client that cannot be built, and the call fails.
GetLoaders ==
    /\ pc = "start"
    /\ pc' \in {"query", "error"}
    /\ UNCHANGED <<input, dataVec, incidents, alertData, inc, pairs, updated, listed, answer>>

QueryStart == Now - (IF params.timeRange > 0 THEN params.timeRange ELSE DefaultTimeRange)

\* What a range query returns of the series S
InRange(S) == {[s EXCEPT !.first = Max({@, QueryStart})] : s \in {t \in S : t.last >= QueryStart}}

LoadVectorRange ==
    /\ pc = "query"
    /\ \E S \in SUBSET Series : dataVec' = InRange(S)
    /\ asked' = dataVec'
    /\ pc' = "silences"
    /\ UNCHANGED <<params, silences, console, incidents, alertData, inc, pairs, updated, listed, answer>>

SilencedAlerts ==
    /\ pc = "silences"
    /\ silences' \in Silences
    /\ pc' = "console"
    /\ UNCHANGED <<params, console, asked, dataVec, incidents, alertData, inc, pairs, updated, listed, answer>>

\* Without the health map or the silences there is no answer.
QueryError ==
    /\ pc \in {"query", "silences"}
    /\ pc' = "error"
    /\ UNCHANGED <<input, dataVec, incidents, alertData, inc, pairs, updated, listed, answer>>

\* The first series tells whether the consoles are those of a fleet.
ConsoleURLs(val) ==
    IF val = <<>> THEN None
    ELSE IF val[1].clusterID = "" THEN [default |-> val[1].url]
    ELSE [c \in {val[n].clusterID : n \in DOMAIN val} |->
            val[Max({n \in DOMAIN val : val[n].clusterID = c})].url]

\* Without consoles the answer has no links.
GetConsoleURL ==
    /\ pc = "console"
    /\ \E val \in Consoles : console' = ConsoleURLs(val)
    /\ pc' = "fold"
    /\ UNCHANGED <<params, silences, asked, dataVec, incidents, alertData, inc, pairs, updated, listed, answer>>

---------------------------------------------------------------------------
(* transformPromValueToIncident *)

\* The entry of console a cluster has, if any; outside a fleet the default
ConsoleKey(cluster) == IF cluster # "" THEN cluster ELSE "default"

\* With consoles but none for this cluster the link has an empty host.
URL(s) ==
    IF console = None THEN None
    ELSE [host |-> Label(console, ConsoleKey(s.clusterID)), groupId |-> s.groupId]

NewIncident(s) ==
    [clusterID |-> s.clusterID, severity |-> HealthName(s.health), start |-> s.first,
     end |-> EndTime(s), status |-> Status(EndTime(s)), url |-> URL(s),
     components |-> {s.component}, alerts |-> {s.srcLabels}]

\* Mutant of UpdateEndTime: a series without an end changes nothing.
UpdateEndTimeKept(old, new) ==
    IF new = None THEN old ELSE IF old = None THEN None ELSE Max({old, new})

\* An incident with a series that goes on has no end.
UpdateEndTime(old, new) == IF None \in {old, new} THEN None ELSE Max({old, new})

UpdatedIncident(i, s) ==
    LET end == UpdateEndTime(i.end, EndTime(s)) IN
    [i EXCEPT !.severity = IF s.health > ParseHealthValue(@) THEN HealthName(s.health) ELSE @,
              !.start = Min({@, s.first}), !.end = end, !.status = Status(end),
              !.components = @ \cup {s.component}, !.alerts = @ \cup {s.srcLabels}]

FoldSeries ==
    /\ pc = "fold"
    /\ \E s \in dataVec :
         /\ dataVec' = dataVec \ {s}
         /\ incidents' =
              IF Label(s.srcLabels, "severity") = "none" THEN incidents
              ELSE Put(incidents, s.groupId,
                       IF s.groupId \in DOMAIN incidents
                         THEN UpdatedIncident(incidents[s.groupId], s) ELSE NewIncident(s))
    /\ UNCHANGED <<input, alertData, inc, pairs, updated, listed, answer, pc>>

---------------------------------------------------------------------------
(* getAlertDataForIncidents *)

LoadAlerts ==
    /\ pc = "fold"
    /\ dataVec = {}
    /\ \E S \in SUBSET AlertSeries : alertData' = InRange(S)
    /\ pc' = "alerts"
    /\ UNCHANGED <<input, dataVec, incidents, inc, pairs, updated, listed, answer>>

\* A failed query of the alerts is no error: the answer has no incidents.
LoadAlertsError ==
    /\ pc = "fold"
    /\ dataVec = {}
    /\ answer' = <<>>
    /\ pc' = "done"
    /\ UNCHANGED <<input, dataVec, incidents, alertData, inc, pairs, updated, listed>>

NextIncident ==
    /\ pc = "alerts"
    /\ \E g \in DOMAIN incidents \ DOMAIN listed :
         /\ inc' = g
         /\ pairs' = incidents[g].alerts \X alertData
    /\ updated' = <<>>
    /\ pc' = "join"
    /\ UNCHANGED <<input, dataVec, incidents, alertData, listed, answer>>

Triple(a) == <<Label(a, "alertname"), Label(a, "namespace"), Label(a, "severity")>>

IsAlertSilenced(a) ==
    \E s \in silences : Label(s, "alertname") = Label(a, "alertname") /\ IntersectionMatches(s, a)

\* Mutant of StillSilenced: the alert at hand decides.
StillSilencedLast(key, sil) == sil

\* Silenced, and so is everything before it in this row
StillSilenced(key, sil) == sil /\ (key \in DOMAIN updated => updated[key].silenced)

\* Mutant of SameCluster: as if there were no fleets.
SameClusterAny(cluster, a) == TRUE

\* Outside a fleet an incident has no cluster, and its alerts need none.
SameCluster(cluster, a) == cluster = "" \/ Label(a, "clusterID") = cluster

\* What a row shows of its alert, beside the labels
Row(s) == [start |-> s.first, end |-> EndTime(s), status |-> Status(EndTime(s))]

\* The row of the triple is replaced by the alert at hand.
JoinAlert ==
    /\ pc = "join"
    /\ \E p \in pairs :
         LET a == p[2].labels
             key == Triple(a)
             silenced == StillSilenced(key, IsAlertSilenced(a))
         IN  /\ pairs' = pairs \ {p}
             /\ updated' =
                  IF SameCluster(incidents[inc].clusterID, a) /\ SubsetMatches(p[1], a)
                    THEN Put(updated, key, [row |-> Row(p[2]), silenced |-> silenced])
                    ELSE updated
    /\ UNCHANGED <<input, dataVec, incidents, alertData, inc, listed, answer, pc>>

EndIncident ==
    /\ pc = "join"
    /\ pairs = {}
    /\ listed' = Put(listed, inc, [incident |-> incidents[inc], rows |-> updated])
    /\ pc' = "alerts"
    /\ UNCHANGED <<input, dataVec, incidents, alertData, inc, pairs, updated, answer>>

\* filterIncidentsBySeverity
Filtered ==
    {g \in DOMAIN listed :
        ParseHealthValue(listed[g].incident.severity) >= ParseHealthValue(params.minSeverity)}

Answer ==
    /\ pc = "alerts"
    /\ DOMAIN listed = DOMAIN incidents
    /\ answer' = [g \in Filtered |-> listed[g]]
    /\ pc' = "done"
    /\ UNCHANGED <<input, dataVec, incidents, alertData, inc, pairs, updated, listed>>

Return == pc \in {"done", "error"} /\ UNCHANGED vars

---------------------------------------------------------------------------
Init ==
    /\ params \in Requests
    /\ silences = {} /\ console = None /\ asked = {}
    /\ dataVec = {} /\ incidents = <<>>
    /\ alertData = {} /\ inc = None /\ pairs = {} /\ updated = <<>> /\ listed = <<>>
    /\ answer = None
    /\ pc = "start"

Next ==
    \/ GetLoaders \/ LoadVectorRange \/ SilencedAlerts \/ QueryError \/ GetConsoleURL
    \/ FoldSeries
    \/ LoadAlerts \/ LoadAlertsError
    \/ NextIncident \/ JoinAlert \/ EndIncident
    \/ Answer
    \/ Return

Spec == Init /\ [][Next]_vars

---------------------------------------------------------------------------
SeriesOf(g) == {s \in asked : s.groupId = g /\ Label(s.srcLabels, "severity") # "none"}

\* The alerts of an incident: those of its cluster that have all the labels
\* of one of its series
AlertsOf(g) ==
    {a \in alertData : \E s \in SeriesOf(g) :
        SubsetMatches(s.srcLabels, a.labels) /\ s.clusterID \in {"", Label(a.labels, "clusterID")}}

RowAlerts(g, key) == {a \in AlertsOf(g) : Triple(a.labels) = key}

\* The severity asked for, in either case, or a worse one; what is none of the
\* three asks for warnings.
Asked(s) ==
    \/ ToLower(params.minSeverity) = "info"
    \/ s.health = 1 /\ ToLower(params.minSeverity) # "critical"
    \/ s.health = 2

\* The query of the alerts has not failed.
Complete == pc = "done" /\ DOMAIN listed = DOMAIN incidents

\* Whatever order the series come in: an answer has the incidents of the asked
\* severity; each starts with its first series and has its worst severity and
\* all its components; it is firing if and only if one of its series goes on,
\* and else has ended with the last of them.
IncidentsSummarise ==
    Complete =>
        /\ DOMAIN answer = {g \in {s.groupId : s \in asked} : \E s \in SeriesOf(g) : Asked(s)}
        /\ \A g \in DOMAIN answer :
              LET i == answer[g].incident IN
              /\ i.start = Min({s.first : s \in SeriesOf(g)})
              /\ i.severity = Severities[Max({s.health : s \in SeriesOf(g)}) + 1]
              /\ i.components = {s.component : s \in SeriesOf(g)}
              /\ i.status = "firing" <=> \E s \in SeriesOf(g) : EndTime(s) = None
              /\ i.status = "resolved" => i.end = Max({s.last : s \in SeriesOf(g)})

\* Alerts with the same name, namespace and severity share a row of an
\* incident, which is silenced if and only if all of them are, whatever order
\* they come in and however many of the incident's labels they match.
RowsAreSilencedTogether ==
    Complete => \A g \in DOMAIN answer : \A key \in DOMAIN answer[g].rows :
        answer[g].rows[key].silenced <=>
            \A a \in RowAlerts(g, key) : IsAlertSilenced(a.labels)

\* The rows of an incident are its alerts, all of them and no other: every
\* alert of its cluster that matches one of its series has a row, and every row
\* shows one of the alerts that share it; which one, no document says.  And an
\* answer that had consoles links every incident, by its own id, to the console
\* of its own cluster, or to no host when that is not among them: never to the
\* console of another cluster.
RowsAreTheAlerts ==
    Complete => \A g \in DOMAIN answer :
        LET rows == answer[g].rows
            cluster == (CHOOSE s \in SeriesOf(g) : TRUE).clusterID
        IN  /\ DOMAIN rows = {Triple(a.labels) : a \in AlertsOf(g)}
            /\ \A key \in DOMAIN rows : rows[key].row \in {Row(a) : a \in RowAlerts(g, key)}
            /\ answer[g].incident.url =
                  IF console = None THEN None
                  ELSE [host |-> Label(console, ConsoleKey(cluster)), groupId |-> g]
=============================================================================
