# A verification project for the cluster health analyzer

The cluster health analyzer is a Go service that runs beside Prometheus,
Alertmanager and the Kubernetes API server of a cluster.  It groups firing
alerts into incidents, maps them to components, computes the health of a
configured tree of components, exports the results as Prometheus metrics, and
answers questions about them through an MCP server.  This directory holds TLA+
models of it, the TLC configurations that check them on small instances, and
TLAPS proofs.

## 1. Inventory

| Component | State | Operations | Talks to |
|---|---|---|---|
| Incident grouping, `pkg/processor/incidents.go` | `GroupsCollection.Groups`: groups of matchers with a root id, start, modified and end times and a distance | replay of the history, take-over of previous ids, `ProcessAlertsBatch`, `PruneGroups` | called by the processor only, from one goroutine |
| Intervals and changes, `MetricsIntervals`, `MetricsChanges` in the same file | none (pure) | cut a range vector into intervals, sort them, gather them by start time | the two start-up queries |
| Processor, `pkg/processor/processor.go` | the groups collection, three metric sets | `InitGroupsCollection`, `Run` (periodic, with back-off), `Process` | Prometheus and Alertmanager loaders; metric sets shared with the HTTP handlers |
| Alert mapping, `types.go`, `alerts.go`, `mappings.go` | tables | `MapAlerts`, `determineComponent`, `dedupHealthMaps`, severity counts | called by the processor |
| Silences, `evaluateSilences`, `isAlertSilenced`, `LabelsIntersectionMatcher` | none; writes the `silenced` label of the alerts | one evaluation per iteration | Alertmanager loader |
| Metric sets, `pkg/prom/collector.go` | the metrics of one set, behind a read-write lock | `Update`, `Reset`, `Collect` | processors write, scrapes read |
| Start-up, `pkg/server/server.go` | the six metric sets | `StartServer` | starts component health, then the incident processor, then the HTTP server |
| Component health, `pkg/health` | the component tree, three metric sets | `evaluateComponentsHealth`, `calculateHealthStatus`, `evaluateAlerts`, `dedupMetrics`, `finalizeComponentTree` | Alertmanager, the Kubernetes API |
| MCP incidents tool, `pkg/mcp` | none between calls | `IncidentsHandler`: two range queries and an Alertmanager call, joined into incidents | Prometheus, Alertmanager |
| Loaders, `pkg/prom/loader.go`, `pkg/alertmanager/loader.go` | clients | queries | the network |
| Simulator, `pkg/simulate`, `cmd/simulate` | none | writes test data with the functions of the processor | files |
| Commands, authentication, manifests, integration tests | - | wiring | - |


### Interactions

- `StartServer` registers six metric sets and starts, as far as they are enabled,
  the component health processor first and then the incident processor. Before the
  second is started, `InitGroupsCollection` makes two range queries; if one fails
  the server returns, and its deferred `cancel` ends the processor that runs
  already.
- The incident processor is one goroutine. An iteration queries the firing
  alerts, groups them (`ProcessAlertsBatch`), prunes the groups, reads the
  silences from Alertmanager, maps the alerts to components, and replaces its
  three metric sets one after the other.
- The component health processor is another goroutine. It shares with the first
  one only the registry; at each tick it walks its component tree, children
  first, with calls to Kubernetes and Alertmanager at every component.
- Scrapes run in goroutines of the HTTP server and read each metric set under its
  read lock.
- The next process, after a restart, reads what Prometheus recorded of the metrics
  of the previous one: the exported incidents are the only state that survives.
- The MCP server is another program. It reads the exported metrics through
  Prometheus and joins them with the alerts again.

### What is hard, and what makes each part correct

- **Grouping.** The id an alert gets depends on everything seen before: on the
  order of the alerts in a batch, on the order of an unstable sort, on windows with
  inclusive and exclusive ends, on in-place writes to shared maps, on iterations
  abandoned half way. Correct: the same alert keeps its incident while it fires;
  ids survive a restart; alerts that start together with the Watchdog are put
  together only for a reason.
- **Intervals.** Correct: the intervals are the maximal runs of samples, and the
  changes hold each of them once, in order.
- **Processor and metric sets.** Calls fail, are retried and are cancelled, while
  scrapes hold locks. Correct: map and counts belong together; a scrape of a set
  is of one update; a change is exported in the end.
- **Mapping and silences.** Map order, rows that merge alerts, silences matched by
  the labels both sides have. Correct: no alert is lost or hidden, no two rows
  clash, no row contradicts another, each incident is counted once.
- **Component health.** The cluster changes between the calls, calls fail, labels
  come in map order. Correct: a selector finds what it means; problems reach the
  top of the tree; an outage leaves nothing behind.
- **MCP tool.** Series come in any order and rows overwrite one another. Correct:
  an incident is the summary of its series, a row is silenced if all its alerts
  are.

The hazards, each at its line, are listed in `PROJECT.json`.

## 2. The modules

| Module | Models | Instance | Proofs |
|---|---|---|---|
| `Incidents` | grouping, its replay, restart and pruning | `MCIncidents` | `IncidentsProofs`, `StabilityProofs` |
| `Assignment` | what grouping promises, abstractly; `Incidents` implements it | - | `IncidentsProofs`, `StabilityProofs` |
| `Restart` | two processes, with what Prometheus records between them; extends `Incidents` | `MCRestart` | `StabilityProofs` |
| `Changes` | `MetricsIntervals`, `MetricsChanges` | `MCChanges` | `ChangesProofs` |
| `Processor` | start-up and shutdown, the loop with its back-off, the metric sets and their locks, scrapes | itself | `ProcessorProofs` |
| `HealthMap` | silences, mapping, deduplication, counts, ranks | `MCHealthMap` | `HealthMapProofs` |
| `Mappings` | the tables of components | `MCHealthMap` | - |
| `AlertMatcher` | `evaluateAlerts`, `matchingAlertFound` | `MCAlertMatcher` | `AlertMatcherProofs` |
| `ComponentHealth` | the tree of components, its evaluation and its metrics | `MCComponentHealth` | `ComponentHealthProofs` |
| `McpIncidents` | one call of `get_incidents` | `MCMcpIncidents` | `McpProofs` |

`Restart` runs `Incidents` with an environment; `MCHealthMap` puts the tables of
`Mappings` into `HealthMap`. The other modules share no state: what one part of the
program hands to the next is, in the model of the next, any value the first may
produce. Each has one action per step the code takes between two points where
something else may happen, or where a loop may pick an element in more than one
order.

### Incidents

`groups` is `gc.Groups`; `fresh` is `newGc.Groups` while a batch is worked off;
`shared` is the root group that `addIntervalsGroups` makes for all unmatched
intervals when no Watchdog is among them. `pc` is where the processor is:
`"history"` between two changes of the replay, `"match"` in `tryMatchIntervals`,
`"group"` in `addIntervalsGroups`, `"silences"` between grouping and the export,
`"idle"` between iterations.

| Action | Code |
|---|---|
| `NextChange`, `EndChange` | a turn of `processHistoricalAlerts` |
| `UpdateGroupUUIDs` | the function of that name |
| `ProcessAlertsBatch(alerts, gap)` | the query of the next iteration and the start of the batch |
| `TryMatchInterval(i)`, `AddInterval(i)` | one turn of each of the two loops |
| `BeginUnmatched` | the start of `addIntervalsGroups` |
| `AssignAlertsToGroups` | the write of `group_id` into the alerts, and `PruneGroups` |
| `UpdateHealthMap`, `SilencedAlertsError` | the end of the iteration, with and without the export |

Abstractions, each of which allows at least what the code does:

- A label set is a set of pairs, so the subset matcher is `\subseteq`. The lists
  of fuzzy matchers are sets. Labels that only the exact
  matcher looks at (`pod`) are kept: they decide exact matches.
- `gc.Groups` is a set. Its order decides only ties, which `sort.Slice` breaks
  arbitrarily; a tie is a choice. The field `by`, which the code does not have,
  keeps apart two group objects that would otherwise be equal.
- The alerts of a batch are taken in any order; so are the intervals of a change.
- `intervals[0]`, from which the shared root takes its times, is any of them.
- Where several previous incidents fit a group, the code takes the one that comes
  first in the changes: the earliest start, ties open.
- The clock advances between iterations (`Gaps` holds no 0): the sleep between
  two iterations and the back-off between two attempts are both positive.
- `uuid.New()` is a counter: what matters is that ids are new.

### Assignment

What a reader of `group_id` may rely on, without groups, matchers and windows:
every alert a query returns gets one incident, which is `open` or new; the alerts
of a query are exported together (`Publish`) or not at all (`Abandon`); an incident
opened for a query (`new`) is kept for the next one; ids once out of use are not handed out again, except that a restart may `Adopt` those of
the previous process. `Incidents` maps its groups to `open` (the roots of all
groups, old and new), the roots of `fresh` to `new`, its counter to `issued`, and
the alerts between the query and the export to `batch`. A turn of the loops that gives an alert its group is an
`Assign` or a stutter, the root made for all unmatched alerts is `OpenIncident`,
pruning is `Forget`, which must leave what is `new`: no alert is exported with the
id of a group that was never kept.

### Restart

The process of `Incidents`, what it leaves behind, and the next one. `alerting` and
`scraped` are the samples Prometheus has of `ALERTS` and of the health map,
`exported` is what the metric set holds. The process may `Crash` at any moment
after start-up, half-way through a batch included; a scrape may be lost, an
iteration be abandoned (then the scrape is of the old metrics). The next process
cuts the samples into intervals (`Runs`, the result of `MetricsIntervals` as
`Changes` proves it) and takes over the ids of the recorded rows
(`RecordedIncidents`), which carry the source labels only and not the
labels of the alert: alerts that share a row are one series there. Both queries
reach back `Lookback` from the restart; what is older is not found. The labels of
a row that tell components apart, and whether it is silenced, are left out: they
do not say which alerts a row matches. `Scenarios` says which alerts, faults and histories are combined.

### Changes

The two loops, a sample and an interval at a time. A series is the set of the
times of its samples. One query has one step, so `Step` is a constant.

### Processor

`pc` is the goroutine of `Run`, `main` is `StartServer`, `health` is the goroutine
of the component health processor. `options` says which of the two are enabled.
`main` passes through the stages of start-up, `"health"`, `"alerts"` and
`"healthMap"`, each of which may fail, to `"serving"` and `"returned"`; the
deferred `cancel` makes the context done just when `main = "returned"`. A call to
Prometheus or Alertmanager is two actions, one for each outcome; between the two
calls of an iteration the cluster may change. `Update` waits until no scrape reads
the set (the write lock); `BeginCollect` waits while the processor is at that update
(`sync.RWMutex` lets no new reader pass a waiting writer). What `Collect` sends
is seen as the content of the set when the lock is taken, which is what
`CollectIsAtomic` then compares with the set until the lock is released.

`pc = s` for a set `s` means that the writer has called `Lock`. A reader that
would have slipped in just before that call is the interleaving where it starts
one step earlier.

### HealthMap and Mappings

One iteration after the grouping, with any group ids: `SilencedAlerts` reads the
silences and forms the evaluation groups, `EvaluateGroup` marks one of them,
`DedupHealthMap` maps one alert and keeps or drops its row, `CountHealthMap` and
`CountSeverities` count. `ComponentRanks` are the ranks `BuildComponentRanks` derives from the order of
the tables. The matcher tables are constants of `HealthMap`, so that what is proved
holds of any that `TablesAssumption` allows. `exported` is a bag, so that two equal
rows would show. `ParseHealthValue` reads a severity in lower case (`ToLower` is a
parameter, and the instance has an alert of severity `Info`); the properties state
the severities in terms of their own (`SeverityOf`). The 64-bit hash that `dedupHealthMaps` compares is seen as the
labels hashed: collisions are left out.

`Mappings` holds the tables as the code has them, 31 core components, 10
workloads and 26 node alerts (docs/health-analysis-engine.md speaks of 28 core
matchers). Its assumption `NothingListedTwice`, which TLC evaluates, says that no two
components claim the same value of a label; with `TablesAssumption` TLC checks that
these tables are of those the theorems are about.

### AlertMatcher

One evaluation of a component's selectors, one call to Alertmanager per
`QueryValue`. The labels of a selector are a Go map: `FirstKey` and `FilterKey`
take any of them. Between two calls the active alerts may change to any others.
`ever` and `throughout` are history variables: they only serve `FindsSelected`.

### ComponentHealth

A component is the path of names that leads to it, so that siblings have
different names. `FinalizeComponentTree` adds the cluster operators once, at
the start: a child of `control-plane.operators` for each, or one more query for a
child that is configured. An evaluation takes the components children first
(`BeginComponent`), makes their queries one after the other (`EvalResource`),
asks for the alerts and computes the status (`EvaluateAlerts`), and replaces the
three metric sets; `Tick`, `Cancel` and `Stop` are the `select` of `Run`. The order
among siblings is fixed, as in the code; it decides nothing, since the world may
change between any two steps.

A query is a label expression or the name of an object; both are seen as the
set of objects they match. One that fails, in an outage or because the context is
done, leaves a `NotFound` status with the configured name, which does not keep
a later query from adding the object of that name (`aggregateObjectStatuses`
looks only at objects that were found). Metrics are sets: `dedupMetrics` drops
equal ones.

### McpIncidents

One call of the tool, from its parameters to the answer: the loaders, the query of
the health map, the silences, the consoles of the clusters of a fleet, the fold of
the series into incidents, the join with the alerts, the filter by severity. Each
loop over a Prometheus vector or a Go map takes any element next. Any of the
queries may fail, with what the code makes of it: an error, or an answer without
what was asked. The severity asked for is read in lower case. The link of an incident is a host and an id; when
there are consoles but none for its cluster the host is empty, as in the code,
which is not the same as no link at all. The labels shown in a row are left out:
a row is its times, its status and whether it is silenced.

## 3. The runs

| Run | States | Bounds | Shows |
|---|---|---|---|
| `grouping` | 299,358 | no history or a short one; 3 alerts, two of one namespace; windows 1, 2, 4; gaps 1 to 3; 4 time units | type correctness, `OneMatcherPerGroup`, `StableGroupID` and `ImplementsAssignment` in live operation |
| `restart` | 1,285,436 | one process that finds any of 35 histories and 4 health maps, 2 failures, 2 time units of live operation; two processes, 2 alerts, 1 failure, 5 time units, look-back 3 | `OngoingIncidentKeepsUUID`, `WatchdogBatchLinked`, `StableGroupID`, `ImplementsAssignment` across the replay, `IncidentsKeepIdentity` across the restart |
| `changes` | 126,100 | 2 series, all subsets of the sample times | `IntervalsAreRuns`, `ChangesAreOrdered` |
| `processor` | 89,844 | 1 alert, 2 concurrent scrapes, the 4 attempts of the code, all options | `CountsMatchMap`, `CollectIsAtomic`, `ServedIsFed`, `StopsWithServer`, `Converges` |
| `healthmap` | 1,240,173 | 6 alerts, 2 incidents (symmetric), any silences, the whole tables; two alerts share a row, two their source only, two their component only | `RowsAgreeOnSilence`, `SilencedRowsAreSilenced`, `EveryAlertHasOneRow`, `CountsAreIncidents`, `SourceLabelsTellComponent`, `RanksFollowLayers` |
| `alertmatcher` | 4,434 | 3 alerts, 3 selector lists | `FindsSelected` |
| `health` | 233,728 | 4 components on three levels, one of them not configured, two cluster operators, one with alerts and selected twice | `RollUp`, `ObjectsOnce`, `OperatorsAreWatched`, `Converges` |
| `mcp` | 329,751 | 5 series of the health map, 3 of the alerts, two clusters; silences, consoles, time ranges and severities | `IncidentsSummarise`, `RowsAreTheAlerts`, `RowsAreSilencedTogether` |

Four more runs each check one statement of the repository and find it violated;
see section 6.

**Time in Incidents.** The three windows of the code are 15 minutes, 24 hours and
5 days. Only their order and the fact that a time can lie inside, on the edge of
and outside each of them decides what happens, so they are 1, 2 and 4 (5 in
`restart`, where the history must fit between). With gaps of 1 to 3 an alert comes
back inside, on the edge of and beyond the fuzzy window. Times are Unix times in the
code, so every time of the model is above the long window: the zero of an inactive
root must be out of reach. In `restart` the history lies inside the long window and
partly beyond the fuzzy one, and the previous incidents end on either side of the
tolerance.
Three alerts are enough for the two ways they interact: by a shared fuzzy label
and by nothing but time. A fourth, the Watchdog, has its own rule.

**Two processes.** The second scenario of `restart` starts with nothing recorded
and ends the first process at any step of the first iterations; two alerts that
only time can link are what the replay may put together although the process
before had kept them apart. One failure is a lost scrape or an abandoned iteration,
so that what was exported and what was recorded differ. The look-back is longer
than the fuzzy window and shorter than a run, so that samples and the beginnings of
intervals fall out of it.

**The others.** Two readers are enough for the lock: one may always be in while
another comes. Two samples around a gap, and one in the middle of a run, are
enough for the interval loop; all subsets of the sample times include gaps of one
below, exactly and one above the step. Three levels are enough for the tree:
something below, something between, something above. Two clusters are
enough for an alert that would be joined to the incident of the wrong one.

`CHECK_DEADLOCK` is left on everywhere: where a program ends the model has an
explicit stutter (`Stopped`, `Done`, `Return`).

### Properties

- `StableGroupID`: an alert exported twice within the fuzzy window has the same id
  both times. It has two conditions. `Distinctive`: no other alert's exact or main
  label set is contained in its labels (the code takes a subset for a match, and
  no document says what nested label sets should do). `HistoryIsRecent`: the alert
  did not start in the history more than 5 days ago; what happens then is the
  finding of the run `prune`.
- `WatchdogBatchLinked`: in a batch with a Watchdog, alerts without an older
  match share an id only if a fuzzy label links each to another of them.
- `OngoingIncidentKeepsUUID`: an alert that fires at the restart and is covered by
  a previous incident at that time is found under an id of the previous process.
- `IncidentsKeepIdentity`: a distinctive alert that fires through the restart, and was
  scraped within the tolerance before it, has after the replay an id that was
  recorded for an incident under its root, and the id it was scraped with is among
  those. So it has its own id again, unless the replay has put alerts of several
  recorded incidents together; then it goes on under the id of one of these, never
  under a new one and never under that of an incident it was not put together with.
  That every merged alert keeps its own id is not so, and TLC shows it: an alert that
  comes back after more than the fuzzy window is a new incident to the running process,
  but the replay of the same samples may bring the two under one root, which can have
  one id only.
  Without `Distinctive` it does not hold: an alert whose labels contain all of
  another's may have extended the other's exact group and have none of its own.
- `ImplementsAssignment`: the promise of `Assignment`, as an action property: no
  alert lost between the two loops, none with two incidents, none exported with an
  id whose groups were not kept, no id handed out again. (The
  refinement is of the safety part, `Init` and the steps.)
- `OneMatcherPerGroup`: `expandMatchers` is written to give a group several
  matchers. It never does; this is what makes the proofs about matching feasible
  and tells a maintainer that the code is dead.
- `CountsMatchMap`, `CollectIsAtomic`, `Converges` (Processor): the two exported
  sets belong to one iteration whatever fails; a scrape never mixes two updates;
  and an unchanging cluster is eventually exported, for good.
- `ServedIsFed`, `StopsWithServer`: no server whose enabled processors do not
  run, and no processor that outlives its server, wherever start-up fails.
- `RowsAgreeOnSilence`, `SilencedRowsAreSilenced`: silences are decided per
  evaluation group, rows are made from other labels; the two fit together. The
  second needs that alerts of one name have the same label names, as those of one
  rule do: the intersection matcher ignores labels only one side has.
- `EveryAlertHasOneRow`, `CountsAreIncidents`: nothing is lost in the
  deduplication, no two rows clash, incidents are counted once.
- `SourceLabelsTellComponent`: docs/design.md:102-104 allows several alerts to
  satisfy the source labels of a row as long as they have the same mapping; so what
  a row exports leads to its component. The rows of `ClusterOperatorDown` and
  `ClusterOperatorDegraded` are excepted: their component is in the label `name`,
  which is not exported, so that two operators have rows a reader can tell apart
  by their component only.
- `RanksFollowLayers`: the ranks are computed from the same tables by another
  function; they agree with the layers of the rows and order them.
- `FindsSelected`: whatever label comes first, an alert active throughout that a
  selector means is found; what is found is meant and was active.
- `RollUp`, `Converges` (ComponentHealth): every inner component is at least as bad
  as what is known of the leaves below it, and no worse than anything known; after
  an outage the metrics are again those of the cluster. Components whose
  Alertmanager call failed are unknown and count as nothing above, as the code has it.
- `ObjectsOnce`, `OperatorsAreWatched`: an object that two queries match, before
  and after it changes, has one status; every cluster operator has a row, configured
  or not, its query answered or not.
- `IncidentsSummarise`, `RowsAreTheAlerts`, `RowsAreSilencedTogether`: an incident
  of the answer is the summary of its series; it lists exactly the alerts of its
  own cluster that match one of them, each row with the status of one alert that
  shares it, and links to its own console or to no host; a row is silenced if and only if all
  alerts that share it are.

Each property has a mutant, a plausible slip in the code (an exclusive bound, a
forgotten reset, a swapped order), under which TLC finds it violated.

## 4. Fairness

`Incidents`, `Restart`, `Changes`, `HealthMap`, `AlertMatcher` and `McpIncidents`
state safety only and need none.

`Processor`: weak fairness of the goroutine's own steps (Go schedules it, timers
fire, and a blocked `Lock` is eventually granted, since a waiting writer keeps new
readers out), of `StopComponentHealth` (its `select` sees the context that stays
done) and of every call's having an outcome (clients have timeouts); strong
fairness of the success of the two calls, because the code repeats them for
ever and `Converges` is about a cluster whose services do not stay down; weak
fairness of `EndCollect`, because `Collect` only sends to a channel the registry
drains. No fairness of start-up, `ServerStops`, `BeginCollect`, `AlertsChange` or
`SilencesChange`.

`ComponentHealth`: weak fairness of the evaluation (the ticker ticks, calls
return). A call may fail only during an outage or after `Cancel`, and `Converges`
is about outages that end.

## 5. Proofs

TLAPS checks these for every value of the constants that satisfies the named
assumptions.

| Theorem | Says |
|---|---|
| `IncidentsProofs!TypeCorrect` | `Spec => []TypeOK`, with every id handed out before it is used |
| `IncidentsProofs!OneMatcherCorrect` | `Spec => []OneMatcherPerGroup` |
| `IncidentsProofs!WatchdogCorrect` | `Spec => []WatchdogBatchLinked` |
| `IncidentsProofs!EngineImplementsAssignment` | `Spec => ImplementsAssignment` |
| `StabilityProofs!StableCorrect` | `Spec => StableGroupID` |
| `StabilityProofs!OngoingCorrect` | `Spec => []OngoingIncidentKeepsUUID` |
| `StabilityProofs!RestartStableCorrect` | `RestartSpec => StableGroupID` |
| `StabilityProofs!RestartOngoingCorrect` | `RestartSpec => []OngoingIncidentKeepsUUID` |
| `StabilityProofs!RestartWatchdogCorrect` | `RestartSpec => []WatchdogBatchLinked` |
| `StabilityProofs!RestartIdentityCorrect` | `RestartSpec => IncidentsKeepIdentity` |
| `StabilityProofs!RestartImplementsAssignment` | `RestartSpec => ImplementsAssignment` |
| `ChangesProofs!IntervalsCorrect` | `Spec => []IntervalsAreRuns` |
| `ChangesProofs!ChangesCorrect` | `Spec => []ChangesAreOrdered` |
| `ProcessorProofs!TypeCorrect` | `Spec => []TypeOK`, the number of attempts included |
| `ProcessorProofs!CountsCorrect` | `Spec => []CountsMatchMap` |
| `ProcessorProofs!CollectCorrect` | `Spec => []CollectIsAtomic` |
| `ProcessorProofs!FedCorrect` | `Spec => []ServedIsFed` |
| `HealthMapProofs!RowsAgreeCorrect` | `Spec => []RowsAgreeOnSilence` |
| `HealthMapProofs!SilencedRowsCorrect` | `Spec => []SilencedRowsAreSilenced` |
| `HealthMapProofs!EveryAlertCorrect` | `Spec => []EveryAlertHasOneRow` |
| `HealthMapProofs!CountsCorrect` | `Spec => []CountsAreIncidents` |
| `HealthMapProofs!SourceLabelsCorrect` | `Spec => []SourceLabelsTellComponent` |
| `HealthMapProofs!RanksCorrect` | `Spec => []RanksFollowLayers` |
| `AlertMatcherProofs!FindsSelectedCorrect` | `Spec => []FindsSelected` |
| `ComponentHealthProofs!RollUpCorrect` | `Spec => []RollUp` |
| `ComponentHealthProofs!ObjectsCorrect` | `Spec => []ObjectsOnce` |
| `ComponentHealthProofs!OperatorsCorrect` | `Spec => []OperatorsAreWatched` |
| `McpProofs!SummariseCorrect` | `Spec => []IncidentsSummarise` |
| `McpProofs!RowsCorrect` | `Spec => []RowsAreTheAlerts` |
| `McpProofs!RowsSilencedCorrect` | `Spec => []RowsAreSilencedTogether` |

**Incidents.** Assumptions: the windows are ordered (`DeltasAssumption`), the clock
advances (`ClockAssumption`), the times of the history are earlier than the start and
its intervals of one series do not start together (`RangesAssumption`; `MetricsIntervals`
cuts a series into separate runs, see `Changes`), ids up to `PrevUUIDs` are the
previous process's. What is proved of `Incidents` is proved of `Step`, which is any
step of a process whatever it found at start-up (`SpecSteps`), so that it holds of
`Restart` too.
`TypeOK` becomes inductive with `PrevUUIDs < nextID`: without it a taken-over id
need not have been handed out. `OneMatcherPerGroup` needs `shared` beside `groups`
and `fresh`, because `Join` starts from the shared root, and, for `Absorb`, the
observation that a group covered by an interval's own group has the same single
matcher.

`WatchdogBatchLinked` also assumes `NamesAssumption`: every alert has a name, none
has the label `group_id`, which the analyzer adds itself, and the two alerts without
fuzzy labels have no other alert's main labels. `WatchdogInv` says
that each new group is an inactive root, which no interval is near to
(`TimesInv`), or comes from an alert that was grouped under its id (`Explained`). What
such a group matches has a label in common with that alert (`MatchIsLinked`), and what
was matched before has the id of an old group (`MatchedInv`).

**Refinement.** Each action of `Incidents` is a step of `Assignment` or a stutter.
Beside the type invariant this needs `BatchInv`: an alert of a batch is still to be
worked off, or waits unmatched, or has its incident, and only one of these;
`SharedInv`: the root that the unmatched alerts share is in the new collection and
so open; `KeptInv`: every incident opened for the batch has a group that the batch
has modified, so that pruning leaves it (`JoinKept`: a new root brings the exact group
of its alert); and `IdleInv`: nothing is left to do between batches.

**Stability.** The groups that can match a distinctive alert at distance 0 or 1 are its
own exact and main groups (`NearMatchIsOwn`). An alert that was exported is `Settled`:
there is a witness among its groups that carries its id, was seen as late as the
alert, and `Beats` every group of the alert with another id, that is, `bestMatch`
prefers it as long as it can. `SettledInv` alone is not inductive. Within a batch the
alert may be matched by the witness and add groups, or be matched by nothing and begin
anew, in either loop; `FoundInv` adds that the groups matched in this batch agree on
the id (`Latest`), and that, if nothing was found, all groups of the alert are too old
to be matched again (`Gone`). `CreatedInv` says which exact groups come from the
history: those of live batches are lost to the alert when `group_id` is written into
them (`Stamp`), and those of the history are pruned by their start, which is why
`HistoryIsRecent` is needed. `MadeInv` and `TimelyInv` bound the times.

**Take-over at start-up.** `ReplayInv`: every interval of a distinctive alert that has
been replayed is `Followed` by an exact group of the alert to its end. When it fires
at the restart that group has time distance 0, so what `bestMatch` finds is exact,
of the alert, and seen now (`FiringIsExact`); a previous incident that covers that
moment is among its claims, and its root gets the id of some previous incident
(`ClaimsExist`, `ClaimedRoot`).

**Restart.** A step of `RestartSpec` is a `Step` or a `Crash`, and a crash leaves the
invariant of `Incidents` true of the empty collection (`CrashInv`). `RecordedInv` says of the
samples that their ids were handed out and their times are past. For
`IncidentsKeepIdentity` it does not suffice that the alert's exact group claims the id:
another exact group of it, in another incident, could be found as well. `ApartInv`
excludes this: of two exact groups of one alert in different incidents, one was seen
last before the other was made, since an alert begins a new group only when the old
ones are out of reach, and of those it has the one seen last is matched. This needs that
the intervals are replayed in the order of their starts. Then all exact groups seen now
share a root; what was scraped lies in a run of samples (`RunOfSample`), hence is
recorded and offered to that root (`ScrapedIsRecorded`; the assumption that the
look-back is not shorter than the tolerance puts it within reach of the queries), and
what a root is given it was offered (`GivenIsOffered`).

**Changes.** `Inv` says of the scan: the intervals found are runs, the current one
is gapless and begins a run, every sample of a scanned series lies in an interval,
and the unread samples of the current series lie after its end.
`ChangesAreOrdered` follows the second loop: what has been gathered and what has not
are all the intervals, and nothing that is left starts before the last change.

**Processor.** `TypeInv` adds to `TypeOK` that `metrics`, `reading` and `seen` are
functions on their domains, that `pc = "backoff"` leaves an attempt to make, and
that the goroutine is off until the server serves. `CountsInv` says what the map is
between the two updates. `CollectIsAtomic` is inductive with `TypeInv`: `Update`
requires the lock of just the set it changes. `ServedIsFed` needs what each
stage of start-up has started, and that nothing stops before the context is done.

**HealthMap.** Assumption: every alert has a name; the last two theorems also assume
`TablesAssumption` (no component is listed twice or has the name of one of another
layer, the core table is short enough for its ranks to end before those of the workloads,
no matcher accepts the empty string) and `OperatorsAssumption` (no cluster operator is
named `compute` or like a workload). TLC evaluates them on the tables of `Mappings`.
`MarkInv` says that every alert that is marked has the mark of its whole evaluation group, and that the groups not yet
evaluated are whole; `RowsInv` that a row stands for some alert of the iteration;
`OneRowInv` that every alert mapped has a row and that labels do not repeat. Alerts with equal row
labels lie in one evaluation group; that is the step from the one to the other.
`CountInv` follows the counting: `worst` is the worst health of the rows counted. The
rows of an incident have the health values of its alerts, since the severity is
among the labels that make two rows equal; so merging rows changes no count.
`SourceLabelsTellComponent` follows each alert through `determineComponent`: every
label that decides is among the source labels, and a matcher that accepts no empty value
decides the same without the others. `RanksFollowLayers` is arithmetic on the positions: the
ranks of a layer grow by 5 and end before the next begins.

**AlertMatcher.** Assumptions: a selector has a label and no empty value. (An
empty value asks Alertmanager for alerts without the label, which the filter by
the other labels would not accept.) The invariant has a part per position: the
alerts (`AlertsInv`), the loop over the selectors (`PositionInv`), what the
finished selectors have found (`CleanedInv`), what the labels looked at have left
(`KeyInv`), and what the values asked for have brought (`QueryInv`). The crux is
in `KeyInv`: `matching` is empty exactly as long as no label was looked at, which
is what lets the code tell the first label from the others.

**ComponentHealth.** Assumption: `TreeAssumption`, of which the proof uses that with a
path its prefixes are configured, which makes the paths a tree after the
operators are added, too. The invariant says of every component that is done that
everything below it is, and that its status lies between the worst known of
the leaves below it and the worst known of all of it. Objects: those found
by an answered query differ in name; operators: the query with the operator's
name is the last of its component, and a query that is no longer to do has left
something with its name or its objects.

**McpIncidents.** Assumptions: two clusters share no group id, times are
integers, and the three severities are in lower case (`LowerAssumption`). The incidents are, at every turn of the fold, the summary of the series
folded; the rows of an incident are those of the pairs compared, and a row is
silenced as the alerts in it; the answer is made of incidents whose join is
complete.

Every safety property of the passing runs is proved. Only model-checked are the
liveness properties `StopsWithServer` and both `Converges`, which TLAPS does not reach.

## 6. Findings

- **`reidentification`.** The exact matcher of a group holds the alert's own map,
  into which `group_id` is then written, so it never matches a freshly queried
  alert. Alerts that fire on are matched at distance 1; ids stay stable
  (`StableGroupID` holds), but the direct re-identification that
  docs/health-analysis-engine.md describes does not take place, and groups are
  added at every iteration.
- **`watchdog_alone`.** A root group takes in any alert that starts within 15
  minutes, the Watchdog too, although the same document says it is always alone.
- **`prune`.** An exact group is matched by its end but pruned by its modified
  time, which exact matches do not move: the group of an alert from the history is
  removed 5 days after its start although it still fires.
- **`own_labels`.** The labels an alert of a component is exported with come from
  one map shared by all alerts of the selector; with an unlucky map order an
  alert is exported with another's value.

## 7. Not modelled

- The loaders, the HTTP and MCP servers, authentication and flags: I/O around
  libraries, seen as calls that answer or fail.
- The simulator: a tool for developers that keeps no state. It writes samples to a file with
  the functions modelled here; what is its own is the list of its default intervals
  and the format of the file.
- The integration tests and the manifests.
- The name of the cluster and the layout in the answer of the MCP tool.
- Hash collisions, clock steps backwards, and failures of the process other than a
  restart.

Seven hazards of `PROJECT.json` have no property, because nothing in the repository
says what should happen: alerts whose labels contain all labels of another
(`incidents.go:531`), a scrape that collects several sets of different iterations
(`server.go:127`), an alert with fewer labels than a silenced one of its name
(`processor.go:379`), components that an outage turns unknown and so above OK
(`health_processor.go:236`), a failed query of the alerts that the MCP tool answers with an
empty list (`incidents_tool.go:320`), its join by labels, whatever the times
(`incidents_tool.go:365`), and the status of a row that a firing and a resolved alert
share (`incidents_tool.go:399`). The models contain all seven.

## 8. What is left

1. A composition of both processors with a scrape that collects all six sets,
   once the repository says what such a scrape promises.
2. What nested label sets should do: `Distinctive` leaves them out of the three
   properties about ids, and the proofs show where they would matter
   (`NearMatchIsOwn`).
