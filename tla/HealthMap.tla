----------------------------- MODULE HealthMap -----------------------------
(***************************************************************************)
(* What becomes of the loaded alerts in one iteration of the processor:    *)
(* their silences are evaluated (evaluateSilences in                       *)
(* pkg/processor/processor.go), they are mapped to components (alerts.go,  *)
(* types.go), the health maps are deduplicated and exported, and the       *)
(* incidents are counted by severity.                                      *)
(*                                                                         *)
(* An alert is its label set, a function from label names to values; the   *)
(* group_id that grouping has added to it is kept beside it.               *)
(***************************************************************************)
EXTENDS Integers, Sequences, Bags, FiniteSetsExt

CONSTANTS
    Alerts,           \* the alerts that may fire
    Incidents,        \* the group ids they may carry
    CvoAlerts,        \* the tables of mappings.go and alerts.go
    NodeAlerts,
    CoreMatchers,     \* sequences of [component, matchers], each matcher a
    WorkloadMatchers, \* label key with the values it accepts
    ToLower(_)        \* a string in lower case

ASSUME AlertsAssumption ==
    \A a \in Alerts : a = [k \in DOMAIN a |-> a[k]] /\ "alertname" \in DOMAIN a

VARIABLES
    group,      \* the alerts of the iteration, with their group ids
    silenced,   \* the silenced alerts Alertmanager has returned
    unevaluated,\* the evaluation groups still to be looked at
    mark,       \* the "silenced" labels written so far
    unmapped,   \* the alerts whose health map is not yet deduplicated
    exported,   \* the health maps left by the deduplication, a bag
    uncounted,  \* those not yet counted
    worst,      \* the worst health of each incident counted
    counts,     \* the incidents of each severity
    pc          \* "load", "silences", "evaluate", "map", "count"

vars == <<group, silenced, unevaluated, mark, unmapped, exported, uncounted, worst, counts, pc>>

---------------------------------------------------------------------------
(* Labels *)

\* A label that is missing reads as the empty string.
Label(a, k) == IF k \in DOMAIN a THEN a[k] ELSE ""

SubsetMatches(s, a) == \A k \in DOMAIN s : k \in DOMAIN a /\ a[k] = s[k]

\* The labels both have are equal, and there is one.
IntersectionMatches(s, a) ==
    LET common == DOMAIN s \cap DOMAIN a
    IN  common # {} /\ \A k \in common : s[k] = a[k]

---------------------------------------------------------------------------
(* The component of an alert *)

\* Severities are read in either case; what is none of the three is a warning.
ParseHealthValue(s) ==
    CASE ToLower(s) = "info" -> 0 [] ToLower(s) = "critical" -> 2 [] OTHER -> 1

Severity == [h \in 0..2 |-> <<"info", "warning", "critical">>[h + 1]]

Mapping(layer, component, keys) == [layer |-> layer, component |-> component, keys |-> keys]

\* The matchers of one component that accept the alert
Accepting(m, a) == {i \in DOMAIN m.matchers : Label(a, m.matchers[i].key) \in m.matchers[i].values}

\* Mutant of MatchedKeys: the key is not returned.
MatchedKeysNone(m, a) == {}

\* The key of the first of them
MatchedKeys(m, a) == {m.matchers[Min(Accepting(m, a))].key}

\* The first component with a matcher that accepts, and that matcher's key
FindComponent(layer, table, a) ==
    LET m == table[Min({j \in DOMAIN table : Accepting(table[j], a) # {}})]
    IN  Mapping(layer, m.component, MatchedKeys(m, a))

InTable(table, a) == \E i \in DOMAIN table : Accepting(table[i], a) # {}

CvoComponent(a) == IF Label(a, "name") = "" THEN "version" ELSE a["name"]

\* The matchers are tried in this order.
DetermineComponent(a) ==
    IF Label(a, "alertname") \in CvoAlerts THEN Mapping("core", CvoComponent(a), {})
    ELSE IF Label(a, "alertname") \in NodeAlerts THEN Mapping("compute", "compute", {})
    ELSE IF InTable(CoreMatchers, a) THEN FindComponent("core", CoreMatchers, a)
    ELSE IF InTable(WorkloadMatchers, a) THEN FindComponent("workload", WorkloadMatchers, a)
    ELSE Mapping("Others", "Others", {})

Mapped == [a \in Alerts |-> DetermineComponent(a)]

\* The labels that identify the source
SrcLabels(a) ==
    [k \in DOMAIN a \cap ({"namespace", "alertname", "severity"} \cup Mapped[a].keys) |-> a[k]]

\* getAlertHealthMap: a is mapped once it is marked.
ComponentHealthMap(a) ==
    [layer |-> Mapped[a].layer, component |-> Mapped[a].component,
     srcLabels |-> SrcLabels(a), groupId |-> group[a], silenced |-> mark[a],
     health |-> ParseHealthValue(Label(a, "severity"))]

\* The exported labels: all of it but the value
Labels(hm) == [f \in DOMAIN hm \ {"health"} |-> hm[f]]

---------------------------------------------------------------------------
(* BuildComponentRanks *)

\* The components of a table
Listed(table) == {table[i].component : i \in DOMAIN table}

Rank(layer, rank) == [layer |-> layer, rank |-> rank]

\* The rank of a component of a table whose first component has rank base
RankIn(layer, table, base, c) ==
    Rank(layer, base + 5 * ((CHOOSE i \in DOMAIN table : table[i].component = c) - 1))

\* Mutant of WorkloadBase: the workloads start among the core components.
WorkloadBaseLow == 100

WorkloadBase == 1000

\* A later entry of the map replaces an earlier one.
ComponentRanks ==
    [c \in {"compute"} \cup Listed(CoreMatchers) \cup Listed(WorkloadMatchers) |->
        IF c \in Listed(WorkloadMatchers) THEN RankIn("workload", WorkloadMatchers, WorkloadBase, c)
        ELSE IF c \in Listed(CoreMatchers) THEN RankIn("core", CoreMatchers, 10, c)
        ELSE Rank("compute", 1)]

Tables == Seq([component : STRING,
               matchers  : Seq([key : STRING, values : SUBSET (STRING \ {""})])])

\* The tables of mappings.go: no component is listed twice or has the name of
\* one of the other layers, the ranks from 10 by 5 end before 1000, and no
\* matcher accepts the empty string, as which a missing label reads.
ASSUME TablesAssumption ==
    /\ CoreMatchers \in Tables /\ WorkloadMatchers \in Tables
    /\ \A t \in {CoreMatchers, WorkloadMatchers} :
          /\ \A i, j \in DOMAIN t : t[i].component = t[j].component => i = j
          /\ {"compute", "Others"} \cap Listed(t) = {}
    /\ Listed(CoreMatchers) \cap Listed(WorkloadMatchers) = {}
    /\ Len(CoreMatchers) < 199

\* No cluster operator has the name of a component of another layer.
ASSUME OperatorsAssumption ==
    \A a \in Alerts : Label(a, "alertname") \in CvoAlerts =>
        CvoComponent(a) \notin {"compute"} \cup Listed(WorkloadMatchers)

---------------------------------------------------------------------------
(* Loading, and the silences *)

\* LoadQuery and the grouping of what it returns.
LoadAlerts ==
    /\ pc = "load"
    /\ \E F \in SUBSET Alerts : group' \in [F -> Incidents]
    /\ silenced' = {} /\ unevaluated' = {} /\ mark' = <<>>
    /\ unmapped' = {} /\ exported' = EmptyBag
    /\ uncounted' = {} /\ worst' = <<>> /\ counts' = <<>>
    /\ pc' = "silences"

\* Mutant of EvalKey: each alert on its own.
EvalKeyOfOne(a) == a

\* What an evaluation group has in common
EvalKey(a) == <<group[a], Label(a, "alertname"), Label(a, "namespace"), Label(a, "severity")>>

SilencedAlerts ==
    /\ pc = "silences"
    /\ silenced' \in SUBSET Alerts
    /\ unevaluated' = {{b \in DOMAIN group : EvalKey(b) = EvalKey(a)} : a \in DOMAIN group}
    /\ pc' = "evaluate"
    /\ UNCHANGED <<group, mark, unmapped, exported, uncounted, worst, counts>>

IsAlertSilenced(a) ==
    \E s \in silenced : Label(s, "alertname") = Label(a, "alertname") /\ IntersectionMatches(s, a)

\* Mutant of AllSilenced: one silenced alert is enough.
AnySilenced(g) == \E a \in g : IsAlertSilenced(a)

AllSilenced(g) == \A a \in g : IsAlertSilenced(a)

\* The groups come in no particular order, as the map does.
EvaluateGroup ==
    /\ pc = "evaluate"
    /\ \E g \in unevaluated :
         /\ unevaluated' = unevaluated \ {g}
         /\ mark' = [a \in DOMAIN mark \cup g |-> IF a \in g THEN AllSilenced(g) ELSE mark[a]]
    /\ UNCHANGED <<group, silenced, unmapped, exported, uncounted, worst, counts, pc>>

MapAlerts ==
    /\ pc = "evaluate"
    /\ unevaluated = {}
    /\ unmapped' = DOMAIN group
    /\ pc' = "map"
    /\ UNCHANGED <<group, silenced, unevaluated, mark, exported, uncounted, worst, counts>>

---------------------------------------------------------------------------
(* dedupHealthMaps and countSeverities *)

\* Mutant of Duplicate: the incident makes no difference.
DuplicateOfSource(hm) == \E e \in BagToSet(exported) : e.srcLabels = hm.srcLabels

\* The labels have been seen.  (The code means to keep the worse health of the
\* two, but changes a copy: the first one stays.)
Duplicate(hm) == \E e \in BagToSet(exported) : Labels(e) = Labels(hm)

DedupHealthMap ==
    /\ pc = "map"
    /\ \E a \in unmapped :
         /\ unmapped' = unmapped \ {a}
         /\ exported' = IF Duplicate(ComponentHealthMap(a)) THEN exported
                        ELSE exported (+) SetToBag({ComponentHealthMap(a)})
    /\ UNCHANGED <<group, silenced, unevaluated, mark, uncounted, worst, counts, pc>>

Export ==
    /\ pc = "map"
    /\ unmapped = {}
    /\ uncounted' = BagToSet(exported)
    /\ pc' = "count"
    /\ UNCHANGED <<group, silenced, unevaluated, mark, unmapped, exported, worst, counts>>

\* Mutant of WorstOf: the last one counted wins.
LastOf(old, new) == new

WorstOf(old, new) == Max({old, new})

\* getCurrentMaxHealthValues: an incident starts at 0.
CountHealthMap ==
    /\ pc = "count"
    /\ \E hm \in uncounted :
         LET old == IF hm.groupId \in DOMAIN worst THEN worst[hm.groupId] ELSE 0
         IN  /\ uncounted' = uncounted \ {hm}
             /\ worst' = [i \in DOMAIN worst \cup {hm.groupId} |->
                            IF i = hm.groupId THEN WorstOf(old, hm.health) ELSE worst[i]]
    /\ UNCHANGED <<group, silenced, unevaluated, mark, unmapped, exported, counts, pc>>

CountSeverities ==
    /\ pc = "count"
    /\ uncounted = {}
    /\ counts' = [s \in {Severity[worst[i]] : i \in DOMAIN worst} |->
                    Cardinality({i \in DOMAIN worst : Severity[worst[i]] = s})]
    /\ pc' = "load"
    /\ UNCHANGED <<group, silenced, unevaluated, mark, unmapped, exported, uncounted, worst>>

---------------------------------------------------------------------------
Init ==
    /\ group = <<>> /\ silenced = {} /\ unevaluated = {} /\ mark = <<>>
    /\ unmapped = {} /\ exported = EmptyBag
    /\ uncounted = {} /\ worst = <<>> /\ counts = <<>>
    /\ pc = "load"

Next ==
    \/ LoadAlerts \/ SilencedAlerts
    \/ EvaluateGroup \/ MapAlerts
    \/ DedupHealthMap \/ Export
    \/ CountHealthMap \/ CountSeverities

Spec == Init /\ [][Next]_vars

---------------------------------------------------------------------------
Exported == pc \in {"count", "load"}

Rows == BagToSet(exported)

\* Two exported rows never say of the same source in the same incident that it
\* is silenced and that it is not, in whatever order alerts and groups are
\* worked off, and although rows carry labels the silences are not grouped by.
RowsAgreeOnSilence ==
    Exported => \A r, s \in Rows :
        /\ r.groupId = s.groupId
        /\ \A k \in {"namespace", "alertname", "severity"} :
              Label(r.srcLabels, k) = Label(s.srcLabels, k)
        => r.silenced = s.silenced

\* The alerts of one name have the same label names (they come from one rule).
OneRule(a) ==
    \A b \in Alerts : Label(a, "alertname") = Label(b, "alertname") => DOMAIN a = DOMAIN b

\* The alerts silences are evaluated with for a row: those it stands for, and
\* those that differ in the other labels that told their component
Alike(r) ==
    {a \in DOMAIN group : group[a] = r.groupId /\ \A k \in {"alertname", "namespace", "severity"} :
                                Label(a, k) = Label(r.srcLabels, k)}

\* A row is marked silenced exactly when Alertmanager has silenced every alert
\* of its incident with its name, namespace and severity, which are all alerts
\* it stands for: an alert that nobody has silenced is never hidden by the
\* silence of one that looks like it.
SilencedRowsAreSilenced ==
    Exported => \A r \in Rows :
        (\A a \in Alike(r) : OneRule(a)) => (r.silenced <=> Alike(r) \subseteq silenced)

\* The severity an alert is labelled with, a warning when it is none
SeverityOf(a) ==
    LET s == ToLower(Label(a, "severity")) IN IF s \in {"info", "critical"} THEN s ELSE "warning"

IsRowOf(r, a) ==
    /\ r.groupId = group[a] /\ r.srcLabels = SrcLabels(a)
    /\ r.layer = Mapped[a].layer /\ r.component = Mapped[a].component
    /\ Severity[r.health] = SeverityOf(a)

\* Every alert is exported in one row and in one only, with its component, its
\* incident and its severity: nothing is lost with the duplicates, and no two
\* rows have the same labels (a scrape of those would fail as a whole).
EveryAlertHasOneRow ==
    Exported =>
        /\ \A a \in DOMAIN group :
              \E r \in Rows : IsRowOf(r, a) /\ \A s \in Rows : IsRowOf(s, a) => s = r
        /\ \A r \in Rows : exported[r] = 1
        /\ \A r, s \in Rows : Labels(r) = Labels(s) => r = s

\* The layer and the component the source labels of an alert lead to
Told ==
    [s \in {SrcLabels(a) : a \in Alerts} |->
        <<DetermineComponent(s).layer, DetermineComponent(s).component>>]

\* A row is mapped by what it exports: its source labels alone lead to its
\* component, whatever other labels the alert had and whichever of its labels
\* decided, so that all alerts a row stands for have its mapping.  (Not the
\* alerts of the version operator, whose component is in a label of its own.)
SourceLabelsTellComponent ==
    Exported => \A r \in Rows : r.srcLabels["alertname"] \notin CvoAlerts =>
        <<r.layer, r.component>> = Told[r.srcLabels]

LayerOf == [c \in DOMAIN ComponentRanks |-> ComponentRanks[c].layer]

RankOf == [c \in DOMAIN ComponentRanks |-> ComponentRanks[c].rank]

\* The rows of a listed component are in the layer it is ranked in, and the
\* ranks put the rows in order: nodes before core components before workloads,
\* and different components at different ranks.
RanksFollowLayers ==
    LET above == {<<"compute", "core">>, <<"compute", "workload">>, <<"core", "workload">>}
    IN  Exported => \A r, s \in {t \in Rows : t.component \in DOMAIN RankOf} :
            /\ LayerOf[r.component] = r.layer
            /\ <<r.layer, s.layer>> \in above => RankOf[r.component] < RankOf[s.component]
            /\ r.component # s.component => RankOf[r.component] # RankOf[s.component]

\* The severities of the alerts of an incident
SeveritiesOf(i) == {SeverityOf(a) : a \in {b \in DOMAIN group : group[b] = i}}

Worse == [info |-> {"warning", "critical"}, warning |-> {"critical"}, critical |-> {}]

\* The number of incidents with an alert of severity s and none that is worse
IncidentsOf(s) ==
    Cardinality({i \in Incidents : s \in SeveritiesOf(i) /\ SeveritiesOf(i) \cap Worse[s] = {}})

\* The counts are those of the alerts that were loaded, each incident counted
\* once, under its worst severity, whether it is silenced or not.
CountsAreIncidents ==
    pc = "load" => \A s \in {"info", "warning", "critical"} :
        (IF s \in DOMAIN counts THEN counts[s] ELSE 0) = IncidentsOf(s)
=============================================================================
