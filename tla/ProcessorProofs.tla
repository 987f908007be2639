-------------------------- MODULE ProcessorProofs --------------------------
(***************************************************************************)
(* Safety of the processor and its metric sets, for any set of alerts,     *)
(* any number of scrapes at the same time and any number of attempts.      *)
(***************************************************************************)
EXTENDS Processor, TLAPS

\* Functions on the sets and on the Collect calls, whatever their values
IsFunction(f, S) == f = [x \in S |-> f[x]]

\* What TypeOK leaves open: a back-off is only entered with attempts left, and
\* the goroutine does not run before both start-up queries are done.
TypeInv ==
    /\ TypeOK
    /\ IsFunction(metrics, Sets)
    /\ IsFunction(seen, Scrapers)
    /\ pc = "backoff" => MayRetry
    /\ main \in {"health", "alerts", "healthMap"} => pc = "off"

\* The value of a function changed in one place
LEMMA ChangedFunction ==
    ASSUME NEW S, NEW f, IsFunction(f, S), NEW s \in S, NEW v
    PROVE  /\ IsFunction([f EXCEPT ![s] = v], S)
           /\ [f EXCEPT ![s] = v][s] = v
           /\ \A t \in S \ {s} : [f EXCEPT ![s] = v][t] = f[t]
  <1>1. [f EXCEPT ![s] = v] = [x \in S |-> IF x = s THEN v ELSE f[x]]
    BY DEF IsFunction
  <1> QED
    BY <1>1 DEF IsFunction

\* An update of set s changes that set only.
LEMMA UpdateChanges ==
    ASSUME IsFunction(metrics, Sets), NEW s \in Sets, NEW new, Update(s, new)
    PROVE  /\ IsFunction(metrics', Sets)
           /\ metrics'[s] = new
           /\ \A t \in Sets \ {s} : metrics'[t] = metrics[t]
  <1>1. metrics' = [metrics EXCEPT ![s] = new]
    BY DEF Update
  <1>2. /\ IsFunction([metrics EXCEPT ![s] = new], Sets)
        /\ [metrics EXCEPT ![s] = new][s] = new
        /\ \A t \in Sets \ {s} : [metrics EXCEPT ![s] = new][t] = metrics[t]
    BY ChangedFunction
  <1> QED
    BY <1>1, <1>2

\* What one Collect call reads and has seen is changed for that call only.
LEMMA CollectChanges ==
    ASSUME TypeInv, NEW c \in Scrapers, NEW s \in Sets \cup {None}, NEW v
    PROVE  reading' = [reading EXCEPT ![c] = s] /\ seen' = [seen EXCEPT ![c] = v]
           => /\ reading' \in [Scrapers -> Sets \cup {None}]
              /\ IsFunction(seen', Scrapers)
              /\ reading'[c] = s /\ seen'[c] = v
              /\ \A d \in Scrapers \ {c} : seen'[d] = seen[d] /\ reading'[d] = reading[d]
  <1>1. IsFunction(seen, Scrapers)
    BY DEF TypeInv
  <1>2. /\ IsFunction([seen EXCEPT ![c] = v], Scrapers)
        /\ [seen EXCEPT ![c] = v][c] = v
        /\ \A d \in Scrapers \ {c} : [seen EXCEPT ![c] = v][d] = seen[d]
    BY <1>1, ChangedFunction
  <1>3. reading' = [reading EXCEPT ![c] = s]
        => /\ reading' \in [Scrapers -> Sets \cup {None}]
           /\ reading'[c] = s
           /\ \A d \in Scrapers \ {c} : reading'[d] = reading[d]
    BY DEF TypeInv, TypeOK
  <1> QED
    BY <1>2, <1>3

\* The exports of alerts and silences are exports.
LEMMA MappedType ==
    ASSUME NEW as \in SUBSET Alerts, NEW sil
    PROVE  Mapped(as, sil) \in Exports
  <1>1. ASSUME NEW a \in as
        PROVE  Entry(a, sil) \in [alert : Alerts, silenced : BOOLEAN]
    <2>1. a \in Alerts
      OBVIOUS
    <2>2. (a \in sil) \in BOOLEAN
      OBVIOUS
    <2> QED
      BY <2>1, <2>2, Zenon DEF Entry
  <1> QED
    BY <1>1 DEF Mapped, Exports

---------------------------------------------------------------------------
\* The steps of the goroutine are type-correct.
LEMMA RunType ==
    ASSUME TypeInv,
           \/ RunStep
           \/ LoadQuery \/ LoadQueryError
           \/ EvaluateSilences \/ SilencedAlertsError
    PROVE  TypeInv'
  <1> USE StepsAssumption DEF TypeInv
  <1>1. CASE StartIteration
    <2>1. attempt' \in 1..Steps
      BY <1>1 DEF StartIteration, TypeOK
    <2> QED
      BY <1>1, <2>1 DEF StartIteration, TypeOK, env, server, scrapes
  <1>2. CASE Retry
    <2>1. attempt' \in 1..Steps
      BY <1>2 DEF Retry, MayRetry, TypeOK
    <2> QED
      BY <1>2, <2>1 DEF Retry, TypeOK, env, server, scrapes
  <1>3. CASE Wake
    BY <1>3 DEF Wake, TypeOK, env, server, scrapes
  <1>4. CASE UpdateHealthMap
    <2>1. pc' = "counts" /\ Update("map", healthMap) /\ "map" \in Sets
      BY <1>4 DEF UpdateHealthMap, Sets
    <2>2. /\ IsFunction(metrics', Sets) /\ metrics'["map"] = healthMap
          /\ \A t \in Sets \ {"map"} : metrics'[t] = metrics[t]
      BY <2>1, UpdateChanges
    <2> QED
      BY <1>4, <2>1, <2>2 DEF UpdateHealthMap, Update, TypeOK, Sets, env, server, scrapes
  <1>5. CASE UpdateSeverityCounts
    <2>1. pc' = "components" /\ Update("counts", healthMap) /\ "counts" \in Sets
      BY <1>5 DEF UpdateSeverityCounts, Counted, Sets
    <2>2. /\ IsFunction(metrics', Sets) /\ metrics'["counts"] = healthMap
          /\ \A t \in Sets \ {"counts"} : metrics'[t] = metrics[t]
      BY <2>1, UpdateChanges
    <2> QED
      BY <1>5, <2>1, <2>2 DEF UpdateSeverityCounts, Update, TypeOK, Sets, env, server, scrapes
  <1>6. CASE UpdateComponents
    <2>1. pc' = "sleep" /\ Update("components", Ranks) /\ "components" \in Sets
      BY <1>6 DEF UpdateComponents, Sets
    <2>2. /\ IsFunction(metrics', Sets) /\ metrics'["components"] = Ranks
          /\ \A t \in Sets \ {"components"} : metrics'[t] = metrics[t]
      BY <2>1, UpdateChanges
    <2> QED
      BY <1>6, <2>1, <2>2 DEF UpdateComponents, Update, TypeOK, Sets, env, server, scrapes
  <1>7. CASE LoadQuery
    BY <1>7 DEF LoadQuery, TypeOK, env, server, scrapes
  <1>8. CASE LoadQueryError
    BY <1>8 DEF LoadQueryError, Fail, MayRetry, TypeOK, env, server, scrapes
  <1>9. CASE EvaluateSilences
    <2>1. healthMap' \in Exports
      BY <1>9, MappedType DEF EvaluateSilences, TypeOK
    <2> QED
      BY <1>9, <2>1 DEF EvaluateSilences, TypeOK, Sets, env, server, scrapes
  <1>10. CASE SilencedAlertsError
    BY <1>10 DEF SilencedAlertsError, Fail, MayRetry, TypeOK, env, server, scrapes
  <1> QED
    BY <1>1, <1>2, <1>3, <1>4, <1>5, <1>6, <1>7, <1>8, <1>9, <1>10 DEF RunStep

\* A Collect call that begins or ends is type-correct.
LEMMA CollectType ==
    ASSUME TypeInv, NEW c \in Scrapers,
           (\E s \in Sets : BeginCollect(c, s)) \/ EndCollect(c)
    PROVE  TypeInv'
  <1> USE DEF TypeInv
  <1>1. ASSUME NEW s \in Sets, BeginCollect(c, s)
        PROVE  TypeInv'
    <2>1. /\ reading' = [reading EXCEPT ![c] = s]
          /\ seen' = [seen EXCEPT ![c] = metrics[s]]
          /\ UNCHANGED <<env, server, pc, attempt, alerts, healthMap, metrics>>
      BY <1>1 DEF BeginCollect
    <2>2. /\ reading' \in [Scrapers -> Sets \cup {None}]
          /\ IsFunction(seen', Scrapers)
          /\ reading'[c] = s /\ seen'[c] = metrics[s]
          /\ \A d \in Scrapers \ {c} : seen'[d] = seen[d] /\ reading'[d] = reading[d]
      BY <2>1, CollectChanges
    <2>3. \A d \in Scrapers : reading'[d] \in {"map", "counts"} => seen'[d] \in Exports
      BY <2>2 DEF TypeOK
    <2> QED
      BY <2>1, <2>2, <2>3 DEF TypeOK, env, server, MayRetry
  <1>2. CASE EndCollect(c)
    <2>1. /\ reading' = [reading EXCEPT ![c] = None]
          /\ seen' = [seen EXCEPT ![c] = {}]
          /\ UNCHANGED <<env, server, pc, attempt, alerts, healthMap, metrics>>
      BY <1>2 DEF EndCollect
    <2>2. /\ reading' \in [Scrapers -> Sets \cup {None}]
          /\ IsFunction(seen', Scrapers)
          /\ reading'[c] = None /\ seen'[c] = {}
          /\ \A d \in Scrapers \ {c} : seen'[d] = seen[d] /\ reading'[d] = reading[d]
      BY <2>1, CollectChanges
    <2>3. \A d \in Scrapers : reading'[d] \in {"map", "counts"} => seen'[d] \in Exports
      BY <2>2 DEF TypeOK, Exports
    <2> QED
      BY <2>1, <2>2, <2>3 DEF TypeOK, env, server, MayRetry
  <1> QED
    BY <1>1, <1>2

\* The inductive step of the type invariant
LEMMA TypeStep == TypeInv /\ [Next]_vars => TypeInv'
  <1> SUFFICES ASSUME TypeInv, [Next]_vars
               PROVE  TypeInv'
    OBVIOUS
  <1>1. CASE \/ AlertsChange \/ SilencesChange
             \/ LoadAlertsRange \/ LoadHealthMapRange \/ ServerStops
             \/ StopComponentHealth
             \/ UNCHANGED vars
    BY <1>1 DEF AlertsChange, SilencesChange, LoadAlertsRange, LoadHealthMapRange,
                ServerStops, StopComponentHealth, TypeInv, TypeOK, MayRetry, env, server,
                scrapes, vars
  <1>2. CASE StartComponentHealth
    BY <1>2 DEF StartComponentHealth, TypeInv, TypeOK, MayRetry, env, server, scrapes
  <1> QED
    BY <1>1, <1>2, RunType, CollectType DEF Next

\* The initial states are type-correct.
LEMMA TypeInit == Init => TypeInv
  BY StepsAssumption DEF Init, TypeInv, TypeOK, IsFunction, Exports, Sets

\* Every reachable state is type-correct: in particular, no iteration makes
\* more attempts than the back-off allows.
THEOREM TypeCorrect == Spec => []TypeOK
  BY TypeInit, TypeStep, PTL DEF Spec, TypeInv

---------------------------------------------------------------------------
\* What the counts are, also between the two updates
CountsInv == IF pc = "counts" THEN metrics["map"] = healthMap
             ELSE metrics["counts"] = metrics["map"]

\* The exported counts are those of the exported map, except between the two
\* updates of one iteration, whatever fails, is retried or is cancelled.
THEOREM CountsCorrect == Spec => []CountsMatchMap
  <1>1. Init => CountsInv
    BY DEF Init, CountsInv, Sets
  <1>2. TypeInv /\ CountsInv /\ [Next]_vars => CountsInv'
    <2> SUFFICES ASSUME TypeInv, CountsInv, [Next]_vars
                 PROVE  CountsInv'
      OBVIOUS
    <2>1. CASE UpdateHealthMap
      <3>1. Update("map", healthMap) /\ pc' = "counts" /\ healthMap' = healthMap
        BY <2>1 DEF UpdateHealthMap
      <3>2. metrics'["map"] = healthMap
        BY <3>1, UpdateChanges DEF TypeInv, Sets
      <3> QED
        BY <3>1, <3>2 DEF CountsInv
    <2>2. CASE UpdateSeverityCounts
      <3>1. Update("counts", healthMap) /\ pc = "counts" /\ pc' = "components"
        BY <2>2 DEF UpdateSeverityCounts, Update, Counted
      <3>2. metrics'["counts"] = healthMap /\ metrics'["map"] = metrics["map"]
        BY <3>1, UpdateChanges DEF TypeInv, Sets
      <3> QED
        BY <3>1, <3>2 DEF CountsInv
    <2>3. CASE UpdateComponents
      <3>1. Update("components", Ranks) /\ pc = "components" /\ pc' = "sleep"
        BY <2>3 DEF UpdateComponents, Update
      <3>2. metrics'["counts"] = metrics["counts"] /\ metrics'["map"] = metrics["map"]
        BY <3>1, UpdateChanges DEF TypeInv, Sets
      <3> QED
        BY <3>1, <3>2 DEF CountsInv
    <2>4. CASE StartIteration \/ Retry \/ Wake
      BY <2>4 DEF StartIteration, Retry, Wake, CountsInv
    <2>5. CASE LoadQuery \/ LoadQueryError \/ EvaluateSilences \/ SilencedAlertsError
      BY <2>5 DEF LoadQuery, LoadQueryError, EvaluateSilences, SilencedAlertsError,
                  Fail, CountsInv
    <2>6. CASE \/ AlertsChange \/ SilencesChange
               \/ StartComponentHealth \/ LoadAlertsRange \/ ServerStops
               \/ StopComponentHealth
               \/ (\E c \in Scrapers, s \in Sets : BeginCollect(c, s))
               \/ (\E c \in Scrapers : EndCollect(c))
               \/ UNCHANGED vars
      BY <2>6 DEF AlertsChange, SilencesChange, StartComponentHealth, LoadAlertsRange,
                  ServerStops, StopComponentHealth, BeginCollect, EndCollect, vars, CountsInv
    <2>7. CASE LoadHealthMapRange
      BY <2>7 DEF LoadHealthMapRange, TypeInv, CountsInv
    <2> QED
      BY <2>1, <2>2, <2>3, <2>4, <2>5, <2>6, <2>7 DEF Next, RunStep
  <1>3. CountsInv => CountsMatchMap
    BY DEF CountsInv, CountsMatchMap
  <1> QED
    BY <1>1, <1>2, <1>3, TypeInit, TypeStep, PTL DEF Spec

---------------------------------------------------------------------------
\* An update waits for the Collect calls that read the set, so what they
\* have seen stays what the set holds.
LEMMA UpdateKeepsCollects ==
    ASSUME TypeInv, CollectIsAtomic, NEW s \in Sets, NEW new, Update(s, new),
           UNCHANGED scrapes
    PROVE  CollectIsAtomic'
  <1>1. ASSUME NEW c \in Scrapers, reading[c] # None
        PROVE  metrics'[reading[c]] = metrics[reading[c]]
    <2>1. reading[c] \in Sets \ {s}
      BY <1>1 DEF Update, Unlocked, TypeInv, TypeOK
    <2> QED
      BY <2>1, UpdateChanges DEF TypeInv
  <1> QED
    BY <1>1 DEF CollectIsAtomic, scrapes

\* A Collect call sends the metrics of one update, however the scrapes and the
\* updates are interleaved.
THEOREM CollectCorrect == Spec => []CollectIsAtomic
  <1>1. Init => CollectIsAtomic
    BY DEF Init, CollectIsAtomic
  <1>2. TypeInv /\ CollectIsAtomic /\ [Next]_vars => CollectIsAtomic'
    <2> SUFFICES ASSUME TypeInv, CollectIsAtomic, [Next]_vars
                 PROVE  CollectIsAtomic'
      OBVIOUS
    <2>1. CASE UpdateHealthMap \/ UpdateSeverityCounts \/ UpdateComponents
      <3>1. UNCHANGED scrapes /\ \E s \in Sets : \E new : Update(s, new)
        BY <2>1 DEF UpdateHealthMap, UpdateSeverityCounts, UpdateComponents, Sets
      <3> QED
        BY <3>1, UpdateKeepsCollects
    <2>2. CASE UNCHANGED <<metrics, scrapes>>
      BY <2>2 DEF CollectIsAtomic, scrapes
    <2>3. ASSUME NEW c \in Scrapers, NEW s \in Sets, BeginCollect(c, s)
          PROVE  CollectIsAtomic'
      <3>1. /\ reading' = [reading EXCEPT ![c] = s]
            /\ seen' = [seen EXCEPT ![c] = metrics[s]]
            /\ metrics' = metrics
        BY <2>3 DEF BeginCollect
      <3>2. /\ seen'[c] = metrics[s] /\ reading'[c] = s
            /\ \A d \in Scrapers \ {c} : seen'[d] = seen[d] /\ reading'[d] = reading[d]
        BY <3>1, CollectChanges
      <3> QED
        BY <3>1, <3>2 DEF CollectIsAtomic
    <2>4. ASSUME NEW c \in Scrapers, EndCollect(c)
          PROVE  CollectIsAtomic'
      <3>1. /\ reading' = [reading EXCEPT ![c] = None]
            /\ seen' = [seen EXCEPT ![c] = {}]
            /\ metrics' = metrics
        BY <2>4 DEF EndCollect
      <3>2. /\ reading'[c] = None
            /\ \A d \in Scrapers \ {c} : seen'[d] = seen[d] /\ reading'[d] = reading[d]
        BY <3>1, CollectChanges
      <3> QED
        BY <3>1, <3>2 DEF CollectIsAtomic
    <2>5. CASE \/ AlertsChange \/ SilencesChange
               \/ StartComponentHealth \/ LoadAlertsRange \/ LoadHealthMapRange
               \/ ServerStops \/ StopComponentHealth
               \/ StartIteration \/ Retry \/ Wake
               \/ LoadQuery \/ LoadQueryError \/ EvaluateSilences \/ SilencedAlertsError
               \/ UNCHANGED vars
      <3>1. UNCHANGED <<metrics, scrapes>>
        BY <2>5 DEF AlertsChange, SilencesChange, StartComponentHealth, LoadAlertsRange,
                    LoadHealthMapRange, ServerStops, StopComponentHealth, StartIteration, Retry, Wake, LoadQuery, LoadQueryError,
                    EvaluateSilences, SilencedAlertsError, vars
      <3> QED
        BY <2>2, <3>1
    <2> QED
      BY <2>1, <2>3, <2>4, <2>5 DEF Next, RunStep
  <1> QED
    BY <1>1, <1>2, TypeInit, TypeStep, PTL DEF Spec

---------------------------------------------------------------------------
\* What is started before the metrics are served, and stays so until StartServer
\* returns
FedInv ==
    /\ ServedIsFed
    /\ main \in {"alerts", "healthMap"} /\ options.health => health = "running"
    /\ main = "health" => health = "off"

\* The metrics are served only while every processor that is enabled runs,
\* wherever start-up fails.
THEOREM FedCorrect == Spec => []ServedIsFed
  <1>1. Init => FedInv
    BY DEF Init, FedInv, ServedIsFed
  <1>2. TypeInv /\ FedInv /\ [Next]_vars => FedInv'
    <2> SUFFICES ASSUME TypeInv, FedInv, [Next]_vars
                 PROVE  FedInv'
      OBVIOUS
    <2> USE DEF FedInv, ServedIsFed
    <2>1. CASE StartComponentHealth
      BY <2>1 DEF StartComponentHealth, env
    <2>2. CASE LoadAlertsRange \/ LoadHealthMapRange \/ ServerStops
      BY <2>2 DEF LoadAlertsRange, LoadHealthMapRange, ServerStops, env
    <2>3. CASE StopComponentHealth
      BY <2>3 DEF StopComponentHealth, Cancelled, env
    <2>4. CASE AlertsChange \/ SilencesChange \/ UNCHANGED vars
      BY <2>4 DEF AlertsChange, SilencesChange, env, server, vars
    <2>5. CASE StartIteration \/ Retry \/ Wake
      BY <2>5 DEF StartIteration, Retry, Wake, Cancelled, env, server
    <2>6. CASE LoadQuery \/ LoadQueryError \/ EvaluateSilences \/ SilencedAlertsError
      BY <2>6 DEF LoadQuery, LoadQueryError, EvaluateSilences, SilencedAlertsError, Fail,
                  env, server
    <2>7. CASE UpdateHealthMap \/ UpdateSeverityCounts \/ UpdateComponents
      BY <2>7 DEF UpdateHealthMap, UpdateSeverityCounts, UpdateComponents, env, server
    <2>8. CASE (\E c \in Scrapers, s \in Sets : BeginCollect(c, s))
               \/ (\E c \in Scrapers : EndCollect(c))
      BY <2>8 DEF BeginCollect, EndCollect, env, server
    <2> QED
      BY <2>1, <2>2, <2>3, <2>4, <2>5, <2>6, <2>7, <2>8 DEF Next, RunStep
  <1>3. FedInv => ServedIsFed
    BY DEF FedInv
  <1> QED
    BY <1>1, <1>2, <1>3, TypeInit, TypeStep, PTL DEF Spec
=============================================================================
