----------------------------- MODULE Incidents -----------------------------
(***************************************************************************)
(* The grouping engine of the cluster health analyzer                      *)
(* (pkg/processor/incidents.go), with the part of the processor that       *)
(* drives it (pkg/processor/processor.go): at start-up it replays the      *)
(* alert history, takes over the incident ids the previous process had     *)
(* published, and then, iteration after iteration, gives every firing      *)
(* alert the id of an incident.                                            *)
(*                                                                         *)
(* A label set is a set of <<name, value>> pairs, so a LabelsSubsetMatcher *)
(* matches when its pairs are a subset of the alert's.  The collection is  *)
(* a set of groups: the order of gc.Groups only decides ties, which        *)
(* sort.Slice (not stable) breaks arbitrarily, and a tie is a              *)
(* nondeterministic choice here.  The field "by" of a group (the alert it  *)
(* was created for) tells apart two group objects with equal fields.       *)
(***************************************************************************)
EXTENDS Integers

CONSTANTS
    Alerts,      \* the label sets of the alerts that may fire
    Histories,   \* the sets of intervals the range query may return at start-up
    HealthMaps,  \* the sets of previous incidents the range query may return
    TimeDelta,   \* timeMatchTimeDelta: 15 minutes
    FuzzyDelta,  \* fuzzyMatchTimeDelta: 24 hours
    LongDelta,   \* directMatchLongTimeDelta: 5 days
    Tolerance,   \* previousIncidentsTolerance: 10 minutes
    StartTime,   \* the time at which the process starts
    MaxTime,     \* bound: no iteration starts after MaxTime
    Gaps,        \* the time that may pass between two iterations
    PrevUUIDs    \* 1..PrevUUIDs are the ids of the previous process

Intervals == [metric : Alerts, start : Nat, end : Nat]

PreviousIncidents ==
    [labels : SUBSET UNION Alerts, uuid : 1..PrevUUIDs, start : Nat, end : Nat]

ASSUME DeltasAssumption ==
    /\ TimeDelta \in Nat /\ FuzzyDelta \in Nat /\ LongDelta \in Nat
    /\ TimeDelta <= FuzzyDelta /\ FuzzyDelta <= LongDelta
    /\ Tolerance \in Nat \ {0}

ASSUME ClockAssumption ==
    /\ StartTime \in Nat /\ LongDelta < StartTime /\ MaxTime \in Nat
    /\ Gaps \subseteq Nat \ {0}
    /\ PrevUUIDs \in Nat

\* An interval of the range query ends by the time of the query, and those of
\* one series are apart.  The times are Unix times: 0, the Modified time of an
\* inactive group, is further away than any of the deltas.
ASSUME RangesAssumption ==
    /\ \A h \in Histories : h \subseteq Intervals
    /\ \A h \in Histories : \A i \in h :
          LongDelta < i.start /\ i.start <= i.end /\ i.end <= StartTime
    /\ \A h \in Histories : \A i, j \in h : i.metric = j.metric /\ i.start = j.start => i = j
    /\ \A h \in HealthMaps : h \subseteq PreviousIncidents

VARIABLES
    now,        \* the time of the current (or last) iteration
    groups,     \* gc.Groups
    nextID,     \* the next result of uuid.New()
    pc,         \* where the processor is, see TypeOK
    todo,       \* the intervals of the loop at hand not yet reached
    unmatched,  \* the intervals tryMatchIntervals could not match
    fresh,      \* newGc.Groups
    shared,     \* the root group the unmatched intervals share, if any
    grouped,    \* the result of the batch: [metric, id]
    changes,    \* the intervals of the changes not yet replayed
    history,    \* the alert history found at start-up
    health,     \* the previous incidents, read once the history is replayed
    ready,      \* InitGroupsCollection has returned
    published   \* for each alert, the last [metric, id, at] exported

boot == <<changes, history, health, ready>>

vars == <<now, groups, nextID, pc, todo, unmatched, fresh, shared, grouped,
          changes, history, health, ready, published>>

---------------------------------------------------------------------------
(* Labels and matchers *)

\* The distances of the matchers; Root stands for math.Inf(1).
Exact == 0
Main  == 1
Fuzzy == 2
Root  == 3

MainKeys == {"namespace", "alertname", "service", "job", "container"}

\* getMapSubset
Project(labels, keys) == {p \in labels : p[1] \in keys}

Watchdog == {<<"alertname", "Watchdog">>, <<"namespace", "openshift-monitoring">>}

NoReceivers == {<<"alertname", "AlertmanagerReceiversNotConfigured">>,
                <<"namespace", "openshift-monitoring">>}

IsWatchdog(a) == Watchdog \subseteq a

\* alertFuzzyLabels
FuzzyLabels(a) ==
    IF Watchdog \subseteq a \/ NoReceivers \subseteq a
      THEN {}
      ELSE Project(a, {"alertname", "namespace"})

\* Every alert has a name, and none the label the analyzer itself adds (Stamp);
\* and the two alerts without fuzzy labels have no other alert's main labels.
ASSUME NamesAssumption ==
    \A a \in Alerts :
        /\ \E p \in a : p[1] = "alertname"
        /\ \A p \in a : p[1] # "group_id"
        /\ FuzzyLabels(a) = {} => \A b \in Alerts \ {a} : ~(Project(b, MainKeys) \subseteq a)

Group(root, i, modified, distance, matchers, by) ==
    [root |-> root, start |-> i.start, modified |-> modified, end |-> i.end,
     distance |-> distance, matchers |-> matchers, by |-> by]

\* Mutants of RootGroup: the id of the next root; inactive roots left active
RootGroupNextID(root, i, modified) == Group(root + 1, i, modified, Root, {}, {})
RootGroupActive(root, i, modified) == Group(root, i, i.start, Root, {}, {})

\* newRootGroup: no matchers, and never modified when it is inactive
RootGroup(root, i, modified) == Group(root, i, modified, Root, {}, {})

MatcherGroup(root, i, distance, m) ==
    Group(root, i, i.start, distance, {m}, i.metric)

\* alertGroupMatchers: the groups an alert can be matched by
AlertGroups(root, i) ==
    {MatcherGroup(root, i, Exact, i.metric),
     MatcherGroup(root, i, Main, Project(i.metric, MainKeys))}
    \cup {MatcherGroup(root, i, Fuzzy, {p}) : p \in FuzzyLabels(i.metric)}

---------------------------------------------------------------------------
(* matches and bestMatch *)

\* An exact group ages from the end of its last match, any other group from
\* its last modification.
TimeDist(g, i) == i.start - (IF g.distance = Exact THEN g.end ELSE g.modified)

\* The labels a group's matchers are compared with
LabelsFor(g, i) == IF g.distance >= Fuzzy THEN FuzzyLabels(i.metric) ELSE i.metric

Matching(g, i) ==
    /\ g.start <= i.start
    /\ \/ g.distance = Root /\ TimeDist(g, i) <= TimeDelta
       \/ \E m \in g.matchers : m \subseteq LabelsFor(g, i)

\* Mutant of ShortCandidates: the bound itself is excluded
ShortCandidatesStrict(gs, i) ==
    {g \in gs : Matching(g, i) /\ TimeDist(g, i) < FuzzyDelta}

\* The matches close in time
ShortCandidates(gs, i) ==
    {g \in gs : Matching(g, i) /\ TimeDist(g, i) <= FuzzyDelta}

\* The exact matches deeper in the past
LongCandidates(gs, i) ==
    {g \in gs : Matching(g, i) /\ g.distance = Exact /\ TimeDist(g, i) <= LongDelta}

\* Mutant of Closest: the closest in time first
ClosestInTime(gs, i) ==
    LET near == {g \in gs : \A h \in gs : TimeDist(g, i) <= TimeDist(h, i)}
    IN  {g \in near : \A h \in near : g.distance <= h.distance}

\* Smallest distance first, then the closest in time
Closest(gs, i) ==
    LET near == {g \in gs : \A h \in gs : g.distance <= h.distance}
    IN  {g \in near : \A h \in near : TimeDist(g, i) <= TimeDist(h, i)}

\* bestMatch: the groups it may return, {} for nil
BestMatches(gs, i) ==
    IF ShortCandidates(gs, i) # {}
      THEN Closest(ShortCandidates(gs, i), i)
      ELSE Closest(LongCandidates(gs, i), i)

---------------------------------------------------------------------------
(* Joining a group *)

Later(s, t) == IF s < t THEN t ELSE s

\* A match extends the group; an exact match leaves its modified time alone.
Touch(g, i) ==
    [g EXCEPT !.modified = IF g.distance > Exact THEN i.start ELSE @,
              !.end = Later(@, i.end)]

\* Mutant of Covers: the distances alone are compared
CoversDistance(c, g) == c.distance = g.distance

\* isSubsetOf
Covers(c, g) == c.distance = g.distance /\ g.matchers \subseteq c.matchers

\* The matcher groups an interval adds when it joins group g ...
AddedGroups(g, i) ==
    IF g.distance = Exact THEN {} ELSE {c \in AlertGroups(g.root, i) : ~Covers(c, g)}

\* ... and g itself once it has taken in the others (expandMatchers)
Absorb(g, i) ==
    LET covered == {c \in AlertGroups(g.root, i) : Covers(c, g)}
    IN  IF g.distance = Exact \/ covered = {}
          THEN g
          ELSE [Touch(g, i) EXCEPT !.matchers = @ \cup UNION {c.matchers : c \in covered}]

\* The collection gs after interval i has joined its group g
Join(gs, g, i) == (gs \ {g}) \cup {Absorb(g, i)} \cup AddedGroups(g, i)

Grouped(i, g) == [metric |-> i.metric, id |-> g.root]

---------------------------------------------------------------------------
(* ProcessIntervalsBatch *)

\* The iteration of tryMatchIntervals for interval i.  The groups it adds are
\* seen by the intervals that follow.
TryMatchInterval(i) ==
    /\ pc = "match"
    /\ i \in todo
    /\ todo' = todo \ {i}
    /\ \/ /\ BestMatches(groups, i) = {}
          /\ unmatched' = unmatched \cup {i}
          /\ UNCHANGED <<groups, grouped>>
       \/ \E g \in BestMatches(groups, i) :
            /\ groups' = Join((groups \ {g}) \cup {Touch(g, i)}, Touch(g, i), i)
            /\ grouped' = grouped \cup {Grouped(i, g)}
            /\ UNCHANGED unmatched
    /\ UNCHANGED <<now, nextID, pc, fresh, shared, boot, published>>

\* addIntervalsGroups(unmatched, nil) as it starts: one root group for all the
\* unmatched intervals, unless a Watchdog is among them.  The root takes its
\* times from intervals[0], any of them.
BeginUnmatched ==
    /\ pc = "match"
    /\ todo = {}
    /\ unmatched # {}
    /\ IF \E i \in unmatched : IsWatchdog(i.metric)
         THEN UNCHANGED <<fresh, shared, nextID>>
         ELSE \E i \in unmatched :
                /\ shared' = {RootGroup(nextID, i, i.start)}
                /\ fresh' = shared'
                /\ nextID' = nextID + 1
    /\ todo' = unmatched
    /\ unmatched' = {}
    /\ pc' = "group"
    /\ UNCHANGED <<now, groups, grouped, boot, published>>

\* The group an unmatched interval joins, and what it brings to newGc: the
\* shared root, a match among the groups of this batch, or an inactive root.
Candidates(i) == IF shared # {} THEN shared ELSE BestMatches(fresh, i)

\* The iteration of addIntervalsGroups for interval i
AddInterval(i) ==
    /\ pc = "group"
    /\ i \in todo
    /\ todo' = todo \ {i}
    /\ \/ \E g \in Candidates(i) :
            /\ fresh' = Join(fresh, g, i)
            /\ grouped' = grouped \cup {Grouped(i, g)}
            /\ UNCHANGED nextID
       \/ /\ Candidates(i) = {}
          /\ LET g == RootGroup(nextID, i, 0)
             IN  /\ fresh' = Join(fresh, g, i)
                 /\ grouped' = grouped \cup {Grouped(i, g)}
          /\ nextID' = nextID + 1
    /\ UNCHANGED <<now, groups, pc, unmatched, shared, boot, published>>

\* Mutant of BatchDone: addIntervalsGroups is not called.
BatchDoneEarly ==
    /\ todo = {}
    /\ pc \in {"match", "group"}

BatchDone ==
    /\ todo = {}
    /\ unmatched = {}
    /\ pc \in {"match", "group"}

---------------------------------------------------------------------------
(* InitGroupsCollection *)

\* processHistoricalAlerts, next change: the intervals that start together
NextChange ==
    /\ pc = "history"
    /\ changes # {}
    /\ todo' = {i \in changes : \A j \in changes : i.start <= j.start}
    /\ changes' = changes \ todo'
    /\ pc' = "match"
    /\ UNCHANGED <<now, groups, nextID, unmatched, fresh, shared, grouped,
                   history, health, ready, published>>

EndChange ==
    /\ BatchDone
    /\ ~ready
    /\ groups' = groups \cup fresh
    /\ pc' = "history"
    /\ fresh' = {} /\ shared' = {} /\ grouped' = {}
    /\ UNCHANGED <<now, nextID, todo, unmatched, boot, published>>

\* Mutant of AtTime: the previous incident must have started about then
AtTimeStarted(prev, t) ==
    {p \in prev : p.start < t + Tolerance /\ t - Tolerance < p.start}

\* atTime and match: the previous incidents a group can take the id of
AtTime(prev, t) ==
    {p \in prev : p.start < t + Tolerance /\ t - Tolerance < p.end}

Claims(prev, g) ==
    LET ps == {p \in AtTime(prev, g.end) : \E m \in g.matchers : p.labels \subseteq m}
    IN  {p \in ps : \A q \in ps : p.start <= q.start}

\* The order of gc.Groups: changes come in order, and the groups of one interval
\* from the exact one on.
Before(g, h) ==
    \/ g.start < h.start
    \/ g.start = h.start /\ g.by = h.by /\ g.distance < h.distance

\* The ids UpdateGroupUUIDs may give to the groups of root r: the first of
\* them with a claim decides for all.
UUIDs(prev, r) ==
    LET claimants == {g \in groups : g.root = r /\ Claims(prev, g) # {}}
        first == {g \in claimants : \A h \in claimants : ~Before(h, g)}
    IN  IF claimants = {} THEN {r} ELSE {p.uuid : p \in UNION {Claims(prev, g) : g \in first}}

\* UpdateGroupUUIDs(healthMapRV), with the previous incidents found in it
UpdateFrom(prev) ==
    LET roots == {g.root : g \in groups}
    IN  /\ pc = "history"
        /\ changes = {}
        /\ health' = prev
        /\ \E new \in [roots -> roots \cup {p.uuid : p \in prev}] :
             /\ \A r \in roots : new[r] \in UUIDs(prev, r)
             /\ groups' = {[g EXCEPT !.root = new[g.root]] : g \in groups}
        /\ pc' = "idle"
        /\ ready' = TRUE
        /\ UNCHANGED <<now, nextID, todo, unmatched, fresh, shared, grouped, changes,
                       history, published>>

UpdateGroupUUIDs == \E prev \in HealthMaps : UpdateFrom(prev)

---------------------------------------------------------------------------
(* The iterations: loadAlerts and assignAlertsToGroups *)

\* The query returns the alerts that fire gap later.
ProcessAlertsBatch(alerts, gap) ==
    /\ pc = "idle"
    /\ now + gap <= MaxTime
    /\ now' = now + gap
    /\ todo' = {[metric |-> a, start |-> now', end |-> now'] : a \in alerts}
    /\ pc' = "match"
    /\ UNCHANGED <<groups, nextID, unmatched, fresh, shared, grouped, boot, published>>

\* alert["group_id"] = ... writes into the map the exact group of this
\* iteration holds as its matcher: newGroupMatcherExact does not copy it.
Stamp(g) ==
    IF g.distance = Exact /\ g.start = now
      THEN [g EXCEPT !.matchers = {m \cup {<<"group_id", g.root>>} : m \in @}]
      ELSE g

\* PruneGroups: what is kept
Kept(g) == g.modified >= now - (IF g.distance = Exact THEN LongDelta ELSE FuzzyDelta)

\* Mutant of AssignAlertsToGroups: the new groups are not added to the others.
AssignAlertsToGroupsApart ==
    /\ BatchDone
    /\ ready
    /\ groups' = {g \in {Stamp(h) : h \in groups} : Kept(g)}
    /\ pc' = "silences"
    /\ fresh' = {} /\ shared' = {}
    /\ UNCHANGED <<now, nextID, todo, unmatched, grouped, boot, published>>

AssignAlertsToGroups ==
    /\ BatchDone
    /\ ready
    /\ groups' = {g \in {Stamp(h) : h \in groups \cup fresh} : Kept(g)}
    /\ pc' = "silences"
    /\ fresh' = {} /\ shared' = {}
    /\ UNCHANGED <<now, nextID, todo, unmatched, grouped, boot, published>>

\* evaluateSilences succeeds and updateHealthMap exports the alerts ...
UpdateHealthMap ==
    /\ pc = "silences"
    /\ published' = {p \in published : \A q \in grouped : q.metric # p.metric}
                      \cup {[metric |-> q.metric, id |-> q.id, at |-> now] : q \in grouped}
    /\ grouped' = {}
    /\ pc' = "idle"
    /\ UNCHANGED <<now, groups, nextID, todo, unmatched, fresh, shared, boot>>

\* ... or Alertmanager cannot be reached and the iteration is abandoned, the
\* groups already changed; a retry is a new iteration with a new query.
SilencedAlertsError ==
    /\ pc = "silences"
    /\ grouped' = {}
    /\ pc' = "idle"
    /\ UNCHANGED <<now, groups, nextID, todo, unmatched, fresh, shared, boot, published>>

Shutdown ==
    /\ pc = "idle"
    /\ pc' = "stopped"
    /\ UNCHANGED <<now, groups, nextID, todo, unmatched, fresh, shared, grouped, boot, published>>

Stopped == pc = "stopped" /\ UNCHANGED vars

---------------------------------------------------------------------------
Init ==
    /\ now = StartTime
    /\ groups = {}
    /\ nextID = PrevUUIDs + 1
    /\ pc = "history"
    /\ todo = {} /\ unmatched = {} /\ fresh = {} /\ shared = {} /\ grouped = {}
    /\ history \in Histories
    /\ changes = history
    /\ published = {}
    /\ health = {}
    /\ ready = FALSE

Next ==
    \/ NextChange
    \/ EndChange
    \/ UpdateGroupUUIDs
    \/ \E i \in todo : TryMatchInterval(i)
    \/ BeginUnmatched
    \/ \E i \in todo : AddInterval(i)
    \/ \E alerts \in SUBSET Alerts, gap \in Gaps : ProcessAlertsBatch(alerts, gap)
    \/ AssignAlertsToGroups
    \/ UpdateHealthMap
    \/ SilencedAlertsError
    \/ Shutdown
    \/ Stopped

Spec == Init /\ [][Next]_vars

---------------------------------------------------------------------------
(* What the engine promises *)

\* The labels of a matcher: those of an alert, and the group_id the code
\* writes into them
MatcherLabels == SUBSET ((UNION Alerts) \cup ({"group_id"} \X Nat))

GroupsBelow(n) ==
    [root : 1..(n - 1), start : Nat, modified : Nat, end : Nat,
     distance : {Exact, Main, Fuzzy, Root}, matchers : SUBSET MatcherLabels,
     by : Alerts \cup {{}}]

\* The types, whatever the process found at start-up
EngineTypeOK ==
    /\ now \in Nat
    /\ nextID \in Nat \ {0}
    /\ pc \in {"history", "match", "group", "idle", "silences", "stopped"}
    /\ groups \subseteq GroupsBelow(nextID)
    /\ fresh \subseteq GroupsBelow(nextID)
    /\ shared \subseteq GroupsBelow(nextID)
    /\ todo \subseteq Intervals
    /\ unmatched \subseteq Intervals
    /\ grouped \subseteq [metric : Alerts, id : 1..(nextID - 1)]
    /\ published \subseteq [metric : Alerts, id : 1..(nextID - 1), at : Nat]
    /\ history \subseteq Intervals
    /\ changes \subseteq history
    /\ ready \in BOOLEAN

\* Type invariant.  Every group, and every export, carries an id that was
\* handed out before.
TypeOK ==
    /\ EngineTypeOK
    /\ history \in Histories
    /\ health \subseteq PreviousIncidents

\* A root group matches by time alone and every other group by exactly one
\* label set, although expandMatchers is written to collect several: what it
\* is given is there already (incidents.go:176, called at 416).
OneMatcher(g) ==
    IF g.distance = Root THEN g.matchers = {} ELSE \E m \in g.matchers : g.matchers = {m}

OneMatcherPerGroup == \A g \in groups \cup fresh : OneMatcher(g)

\* No other alert can be taken for a: neither their exact nor their main label
\* set is found in a's labels.
Distinctive(a) == \A b \in Alerts \ {a} : ~(Project(b, MainKeys) \subseteq a)

\* The exact group the history left for the alert is not old enough to be pruned.
HistoryIsRecent(a) == \A i \in history : i.metric = a => now - i.start <= LongDelta

\* An alert that keeps firing, or is back within FuzzyDelta, whatever fires
\* beside it, in whatever order a batch is worked off, and however many
\* iterations were abandoned in between, keeps its group_id.
StableGroupID ==
    [][\A p \in published, q \in published' :
          /\ p.metric = q.metric
          /\ q.at - p.at <= FuzzyDelta
          /\ Distinctive(p.metric)
          /\ HistoryIsRecent(p.metric)
          => p.id = q.id]_vars

\* In a batch with a Watchdog alert (a restart or a data outage), two alerts
\* that no older group matches are put together only on account of a label:
\* each shares its name or its namespace with another alert of the incident.
\* The Watchdog itself, which has no fuzzy labels, is never put with them.
WatchdogBatchLinked ==
    pc = "group" /\ shared = {} =>
        \A p, q \in grouped :
            /\ p # q
            /\ p.id = q.id
            /\ p.id \notin {g.root : g \in groups}
            => \E r \in grouped :
                  /\ r # p
                  /\ r.id = p.id
                  /\ FuzzyLabels(p.metric) \cap FuzzyLabels(r.metric) # {}

\* Once UpdateGroupUUIDs is done, an alert that still fires and that a
\* previous incident covers at that moment is re-identified under an id of the
\* previous process, not under a new one.
OngoingIncidentKeepsUUID ==
    ready /\ now = StartTime =>
        \A i \in history :
            /\ i.end = StartTime
            /\ Distinctive(i.metric)
            /\ \E p \in health : /\ p.labels \subseteq i.metric
                                 /\ p.start <= i.end /\ i.end <= p.end
            => \A g \in BestMatches(groups, [i EXCEPT !.start = StartTime]) :
                  g.root <= PrevUUIDs

\* docs/health-analysis-engine.md: an exact match is a "direct
\* re-identification of the same alert across processing iterations".  An
\* alert exported by one iteration and firing in the next, soon after, is
\* matched by an exact group.
DirectReidentification ==
    [][\A i \in todo :
          (TryMatchInterval(i) /\ ready /\ \E p \in published :
              p.metric = i.metric /\ now - p.at <= TimeDelta)
          => \A g \in BestMatches(groups, i) : g.distance = Exact]_vars

\* docs/health-analysis-engine.md: Watchdog alerts "always get their own
\* isolated group".  No other alert of the batch has the id of the Watchdog.
WatchdogAlone ==
    pc = "silences" =>
        \A p, q \in grouped : IsWatchdog(p.metric) /\ p.id = q.id => p.metric = q.metric

\* The ids of the incidents that have groups
Roots(gs) == {g.root : g \in gs}

A == INSTANCE Assignment WITH
        time <- now,
        serving <- ready,
        issued <- nextID - 1,
        open <- Roots(groups \cup fresh),
        new <- IF ready THEN Roots(fresh) ELSE {},
        batch <- IF ready THEN {i.metric : i \in todo \cup unmatched \cup grouped} ELSE {},
        assigned <- IF ready THEN grouped ELSE {}

\* The engine implements Assignment: the two loops, the unmatched intervals
\* that wait for their turn, failing calls and pruning neither lose an alert nor
\* give it two incidents; the groups of an incident that is opened for a batch
\* outlast it, so no alert is exported with the id of a group that was never
\* kept; and no incident comes back once its groups are gone.
ImplementsAssignment == A!Spec

\* The comment of PruneGroups: it "removes groups that can't be matched
\* anymore".  A pruned group is too old to be matched by an alert that fires
\* right now.
PruneOnlyUnmatchable ==
    [][AssignAlertsToGroups =>
          \A g \in groups \cup fresh : ~Kept(g) =>
              TimeDist(g, [start |-> now])
                  > (IF g.distance = Exact THEN LongDelta ELSE FuzzyDelta)]_vars
=============================================================================
