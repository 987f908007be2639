------------------------------ MODULE McpProofs ------------------------------
(***************************************************************************)
(* What the answer of get_incidents says, for any series and any alerts    *)
(* and whatever order they come in: each incident sums up its series and   *)
(* lists its own alerts, row by row.                                       *)
(***************************************************************************)
EXTENDS McpIncidents, TLAPS

IncidentFields ==
    {"clusterID", "severity", "start", "end", "status", "url", "components", "alerts"}

\* The series folded so far, and those of one incident among them
Folded == {s \in asked \ dataVec : Label(s.srcLabels, "severity") # "none"}
FoldedOf(g) == {s \in Folded : s.groupId = g}

\* The incident i sums up the series F.
SetsOk(i, F) ==
    /\ i.components = {s.component : s \in F}
    /\ i.alerts = {s.srcLabels : s \in F}

ClusterOk(i, F) == \E s \in F : i.clusterID = s.clusterID /\ i.url = URL(s)

WorstOk(i, F) ==
    \E s \in F : i.severity = HealthName(s.health) /\ \A t \in F : t.health <= s.health

StartOk(i, F) == \E s \in F : i.start = s.first /\ \A t \in F : s.first <= t.first

EndOk(i, F) ==
    /\ i.status = Status(i.end)
    /\ \/ i.end = None /\ \E s \in F : EndTime(s) = None
       \/ /\ \A s \in F : EndTime(s) # None
          /\ \E s \in F : i.end = s.last /\ \A t \in F : t.last <= s.last

Summary(i, F) ==
    /\ DOMAIN i = IncidentFields
    /\ SetsOk(i, F) /\ ClusterOk(i, F) /\ WorstOk(i, F) /\ StartOk(i, F) /\ EndOk(i, F)

\* The rows are those of the alerts A.
RowsOf(rows, A) ==
    /\ DOMAIN rows = {Triple(a.labels) : a \in A}
    /\ \A key \in DOMAIN rows :
          /\ rows[key].silenced \in BOOLEAN
          /\ \E a \in A : Triple(a.labels) = key /\ rows[key].row = Row(a)
          /\ rows[key].silenced <=>
                \A a \in A : Triple(a.labels) = key => IsAlertSilenced(a.labels)

\* The alerts the pairs D put into an incident of the cluster c
Matched(c, D) ==
    {a \in alertData : \E p \in D :
        p[2] = a /\ SameCluster(c, a.labels) /\ SubsetMatches(p[1], a.labels)}

---------------------------------------------------------------------------
Sample(s) ==
    /\ DOMAIN s = {"groupId", "clusterID", "srcLabels", "component", "health", "first", "last"}
    /\ s.health \in 0..2 /\ s.first \in Int /\ s.last \in Int

\* Every series asked for is one, and a group id belongs to one cluster.
AskedInv ==
    /\ \A s \in asked : Sample(s)
    /\ \A s, t \in asked : s.groupId = t.groupId => s.clusterID = t.clusterID
    /\ params.timeRange \in Int

\* What there is where the call is
PhaseInv ==
    /\ pc \in {"start", "query", "silences", "console", "error"} =>
          dataVec = asked /\ DOMAIN incidents = {} /\ DOMAIN listed = {}
    /\ pc = "fold" => dataVec \subseteq asked /\ DOMAIN listed = {}
    /\ pc \in {"alerts", "join", "done"} => dataVec = {}

FoldInv ==
    /\ DOMAIN incidents = {s.groupId : s \in Folded}
    /\ \A g \in DOMAIN incidents : Summary(incidents[g], FoldedOf(g))

JoinInv ==
    pc = "join" =>
        /\ inc \in DOMAIN incidents
        /\ pairs \subseteq incidents[inc].alerts \X alertData
        /\ RowsOf(updated, Matched(incidents[inc].clusterID,
                                   (incidents[inc].alerts \X alertData) \ pairs))

ListedInv ==
    pc \in {"alerts", "join", "done"} =>
        \A g \in DOMAIN listed :
            /\ g \in DOMAIN incidents
            /\ listed[g].incident = incidents[g]
            /\ RowsOf(listed[g].rows, AlertsOf(g))

AnswerInv ==
    pc = "done" /\ DOMAIN listed = DOMAIN incidents => answer = [g \in Filtered |-> listed[g]]

Inv == AskedInv /\ PhaseInv /\ FoldInv /\ JoinInv /\ ListedInv /\ AnswerInv

---------------------------------------------------------------------------
(* Arithmetic *)

LEMMA MaxOfTwo ==
    ASSUME NEW x \in Int, NEW y \in Int
    PROVE  Max({x, y}) = IF x >= y THEN x ELSE y
  BY DEF Max

LEMMA MinOfTwo ==
    ASSUME NEW x \in Int, NEW y \in Int
    PROVE  Min({x, y}) = IF x <= y THEN x ELSE y
  BY DEF Min

\* A member that no other exceeds is the greatest, and so for the least.
LEMMA MaxUnique ==
    ASSUME NEW S \in SUBSET Int, NEW x \in S, \A y \in S : x >= y
    PROVE  Max(S) = x
  <1>1. \A y \in S : (\A z \in S : y >= z) => y = x
    OBVIOUS
  <1>2. Max(S) \in S /\ \A z \in S : Max(S) >= z
    BY Zenon DEF Max
  <1> QED
    BY <1>1, <1>2

LEMMA MinUnique ==
    ASSUME NEW S \in SUBSET Int, NEW x \in S, \A y \in S : x <= y
    PROVE  Min(S) = x
  <1>1. \A y \in S : (\A z \in S : y <= z) => y = x
    OBVIOUS
  <1>2. Min(S) \in S /\ \A z \in S : Min(S) <= z
    BY Zenon DEF Min
  <1> QED
    BY <1>1, <1>2

\* Reading a severity that was written gives it back.
LEMMA HealthRoundTrip ==
    ASSUME NEW h \in 0..2
    PROVE  /\ HealthName(h) = Severities[h + 1]
           /\ ParseHealthValue(HealthName(h)) = h
           /\ \A k \in 0..2 : HealthName(h) = HealthName(k) => h = k
  <1>1. Severities[1] = "info" /\ Severities[2] = "warning" /\ Severities[3] = "critical"
    BY DEF Severities
  <1>2. \A j, k \in 0..2 : Severities[j + 1] = Severities[k + 1] => j = k
    <2> TAKE j, k \in 0..2
    <2>1. j = 0 \/ j = 1 \/ j = 2
      OBVIOUS
    <2>2. k = 0 \/ k = 1 \/ k = 2
      OBVIOUS
    <2> QED
      BY <1>1, <2>1, <2>2
  <1>3. HealthName(h) = Severities[h + 1]
    BY DEF HealthName
  <1>4. ParseHealthValue(HealthName(h)) = h
    <2>1. ToLower(HealthName(h)) = HealthName(h)
      BY <1>1, <1>3, LowerAssumption
    <2>2. HealthName(h) = IF h = 0 THEN "info" ELSE IF h = 1 THEN "warning" ELSE "critical"
      BY <1>1, <1>3
    <2> QED
      BY <2>1, <2>2 DEF ParseHealthValue
  <1> QED
    BY <1>2, <1>3, <1>4 DEF HealthName

---------------------------------------------------------------------------
(* Folding a series *)

\* The end of a series is that of its last sample, or none.
LEMMA EndOfSeries ==
    ASSUME NEW s, Sample(s)
    PROVE  EndTime(s) # None => EndTime(s) = s.last
  BY SeriesAssumption DEF Sample, EndTime

LEMMA SummaryOfNew ==
    ASSUME NEW s, Sample(s)
    PROVE  Summary(NewIncident(s), {s})
  <1> DEFINE i == NewIncident(s)
  <1>1. /\ DOMAIN i = IncidentFields
        /\ i.clusterID = s.clusterID /\ i.url = URL(s)
        /\ i.severity = HealthName(s.health) /\ i.start = s.first
        /\ i.end = EndTime(s) /\ i.status = Status(EndTime(s))
        /\ i.components = {s.component} /\ i.alerts = {s.srcLabels}
    BY DEF NewIncident, IncidentFields
  <1> HIDE DEF i
  <1>2. SetsOk(i, {s}) /\ ClusterOk(i, {s})
    BY <1>1 DEF SetsOk, ClusterOk
  <1>3. WorstOk(i, {s}) /\ StartOk(i, {s})
    BY <1>1 DEF WorstOk, StartOk, Sample
  <1>4. EndOk(i, {s})
    BY <1>1, EndOfSeries DEF EndOk, Sample
  <1>5. Summary(i, {s})
    BY <1>1, <1>2, <1>3, <1>4 DEF Summary
  <1> QED
    BY <1>5 DEF i

LEMMA SummaryOfUpdated ==
    ASSUME NEW i, NEW F, NEW s, Sample(s), \A t \in F : Sample(t), Summary(i, F)
    PROVE  Summary(UpdatedIncident(i, s), F \cup {s})
  <1> DEFINE u == UpdatedIncident(i, s)
             G == F \cup {s}
             end == UpdateEndTime(i.end, EndTime(s))
  <1>1. DOMAIN i = IncidentFields
    BY DEF Summary
  <1>2. /\ DOMAIN u = IncidentFields
        /\ u.clusterID = i.clusterID /\ u.url = i.url
        /\ u.severity = (IF s.health > ParseHealthValue(i.severity)
                           THEN HealthName(s.health) ELSE i.severity)
        /\ u.start = Min({i.start, s.first})
        /\ u.end = end /\ u.status = Status(end)
        /\ u.components = i.components \cup {s.component}
        /\ u.alerts = i.alerts \cup {s.srcLabels}
    BY <1>1 DEF UpdatedIncident, IncidentFields
  <1> HIDE DEF u
  <1>3. SetsOk(u, G)
    BY <1>2 DEF Summary, SetsOk
  <1>4. ClusterOk(u, G)
    BY <1>2 DEF Summary, ClusterOk
  <1>5. WorstOk(u, G)
    <2>1. PICK w \in F : i.severity = HealthName(w.health) /\ \A t \in F : t.health <= w.health
      BY DEF Summary, WorstOk
    <2>2. w.health \in 0..2 /\ s.health \in 0..2 /\ \A t \in F : t.health \in 0..2
      BY DEF Sample
    <2>3. ParseHealthValue(i.severity) = w.health
      BY <2>1, <2>2, HealthRoundTrip
    <2>4. CASE s.health > w.health
      <3>1. u.severity = HealthName(s.health)
        BY <1>2, <2>3, <2>4
      <3>2. \A t \in G : t.health <= s.health
        BY <2>1, <2>2, <2>4
      <3> QED
        BY <3>1, <3>2 DEF WorstOk
    <2>5. CASE ~ (s.health > w.health)
      <3>1. u.severity = HealthName(w.health)
        BY <1>2, <2>1, <2>3, <2>5
      <3>2. \A t \in G : t.health <= w.health
        BY <2>1, <2>2, <2>5
      <3> QED
        BY <3>1, <3>2 DEF WorstOk
    <2> QED
      BY <2>4, <2>5
  <1>6. StartOk(u, G)
    <2>1. PICK w \in F : i.start = w.first /\ \A t \in F : w.first <= t.first
      BY DEF Summary, StartOk
    <2>2. w.first \in Int /\ s.first \in Int /\ \A t \in F : t.first \in Int
      BY DEF Sample
    <2>3. u.start = IF w.first <= s.first THEN w.first ELSE s.first
      BY <1>2, <2>1, <2>2, MinOfTwo
    <2> QED
      BY <2>1, <2>2, <2>3 DEF StartOk
  <1>7. EndOk(u, G)
    <2>1. s.last \in Int /\ (EndTime(s) # None => EndTime(s) = s.last)
      BY EndOfSeries DEF Sample
    <2>2. CASE i.end = None /\ \E t \in F : EndTime(t) = None
      <3>1. u.end = None
        BY <1>2, <2>2 DEF UpdateEndTime
      <3> QED
        BY <1>2, <2>2, <3>1 DEF EndOk
    <2>3. CASE EndTime(s) = None
      <3>1. u.end = None
        BY <1>2, <2>3 DEF UpdateEndTime
      <3> QED
        BY <1>2, <2>3, <3>1 DEF EndOk
    <2>4. CASE /\ EndTime(s) # None
               /\ \A t \in F : EndTime(t) # None
               /\ \E t \in F : i.end = t.last /\ \A q \in F : q.last <= t.last
      <3>1. PICK w \in F : i.end = w.last /\ \A q \in F : q.last <= w.last
        BY <2>4
      <3>2. w.last \in Int /\ \A q \in F : q.last \in Int
        BY DEF Sample
      <3>3. u.end = IF w.last >= s.last THEN w.last ELSE s.last
        BY <1>2, <2>1, <2>4, <3>1, <3>2, MaxOfTwo, SeriesAssumption DEF UpdateEndTime
      <3>4. \E t \in G : u.end = t.last /\ \A q \in G : q.last <= t.last
        BY <2>1, <3>1, <3>2, <3>3
      <3> QED
        BY <1>2, <2>4, <3>4 DEF EndOk
    <2> QED
      BY <2>2, <2>3, <2>4 DEF Summary, EndOk
  <1>8. Summary(u, G)
    BY <1>2, <1>3, <1>4, <1>5, <1>6, <1>7 DEF Summary
  <1> QED
    BY <1>8 DEF u

---------------------------------------------------------------------------
(* Joining an alert *)

LEMMA RowsOfNone == RowsOf(<<>>, {})
  BY DEF RowsOf

LEMMA RowsOfMore ==
    ASSUME NEW rows, NEW A, NEW a, RowsOf(rows, A),
           NEW sil \in BOOLEAN,
           sil <=> /\ IsAlertSilenced(a.labels)
                   /\ Triple(a.labels) \in DOMAIN rows => rows[Triple(a.labels)].silenced
    PROVE  RowsOf(Put(rows, Triple(a.labels), [row |-> Row(a), silenced |-> sil]), A \cup {a})
  <1> DEFINE new == Put(rows, Triple(a.labels), [row |-> Row(a), silenced |-> sil])
             B == A \cup {a}
  <1>1. /\ DOMAIN new = DOMAIN rows \cup {Triple(a.labels)}
        /\ new[Triple(a.labels)].row = Row(a)
        /\ new[Triple(a.labels)].silenced = sil
        /\ \A key \in DOMAIN rows : key # Triple(a.labels) => new[key] = rows[key]
    BY DEF Put
  <1> HIDE DEF new
  <1>2. DOMAIN new = {Triple(b.labels) : b \in B}
    BY <1>1 DEF RowsOf
  <1>3. ASSUME NEW key \in DOMAIN new
        PROVE  /\ new[key].silenced \in BOOLEAN
               /\ \E b \in B : Triple(b.labels) = key /\ new[key].row = Row(b)
               /\ new[key].silenced <=>
                     \A b \in B : Triple(b.labels) = key => IsAlertSilenced(b.labels)
    <2>1. CASE key = Triple(a.labels)
      <3>1. new[key].silenced = sil /\ new[key].row = Row(a)
        BY <1>1, <2>1
      <3>2. sil <=> \A b \in B : Triple(b.labels) = key => IsAlertSilenced(b.labels)
        <4>1. CASE key \in DOMAIN rows
          BY <2>1, <4>1 DEF RowsOf
        <4>2. CASE key \notin DOMAIN rows
          <5>1. \A b \in A : Triple(b.labels) # key
            BY <4>2 DEF RowsOf
          <5> QED
            BY <2>1, <4>2, <5>1
        <4> QED
          BY <4>1, <4>2
      <3> QED
        BY <2>1, <3>1, <3>2
    <2>2. CASE key # Triple(a.labels)
      <3>1. key \in DOMAIN rows /\ new[key] = rows[key]
        BY <1>1, <2>2
      <3> QED
        BY <2>2, <3>1 DEF RowsOf
    <2> QED
      BY <2>1, <2>2
  <1>4. RowsOf(new, B)
    BY <1>2, <1>3 DEF RowsOf
  <1> QED
    BY <1>4 DEF new

---------------------------------------------------------------------------
(* The steps *)

LEMMA InvInit == Init => Inv
  <1> SUFFICES ASSUME Init
               PROVE  Inv
    OBVIOUS
  <1>1. /\ params \in Requests /\ asked = {} /\ dataVec = {}
        /\ DOMAIN incidents = {} /\ DOMAIN listed = {} /\ pc = "start"
    BY DEF Init
  <1>2. AskedInv /\ PhaseInv
    BY <1>1, SeriesAssumption DEF AskedInv, PhaseInv
  <1>3. FoldInv
    BY <1>1 DEF FoldInv, Folded
  <1> QED
    BY <1>1, <1>2, <1>3 DEF Inv, JoinInv, ListedInv, AnswerInv

\* What a range query returns of series are series of the same clusters.
LEMMA InRangeSamples ==
    ASSUME NEW S \in SUBSET Series, params.timeRange \in Int
    PROVE  /\ \A s \in InRange(S) : Sample(s)
           /\ \A s, t \in InRange(S) : s.groupId = t.groupId => s.clusterID = t.clusterID
  <1>1. QueryStart \in Int
    BY SeriesAssumption DEF QueryStart
  <1>2. \A s \in Series : Sample(s)
    BY SeriesAssumption DEF Sample
  <1>3. ASSUME NEW s \in InRange(S)
        PROVE  /\ Sample(s)
               /\ \E t \in S : s.groupId = t.groupId /\ s.clusterID = t.clusterID
    <2>1. PICK t \in S : s = [t EXCEPT !.first = Max({t.first, QueryStart})]
      BY <1>3 DEF InRange
    <2>2. Sample(t)
      BY <1>2
    <2>3. Max({t.first, QueryStart}) \in Int
      BY <1>1, <2>2, MaxOfTwo DEF Sample
    <2>4. /\ DOMAIN s = DOMAIN t /\ s.first \in Int
          /\ s.health = t.health /\ s.last = t.last
          /\ s.groupId = t.groupId /\ s.clusterID = t.clusterID
      BY <2>1, <2>2, <2>3 DEF Sample
    <2> QED
      BY <2>2, <2>4 DEF Sample
  <1> QED
    BY <1>3, ClusterAssumption

\* What stays as it is keeps its part of the invariant.
LEMMA AskedStays ==
    ASSUME AskedInv, UNCHANGED <<asked, params>>
    PROVE  AskedInv'
  BY DEF AskedInv, Sample

LEMMA FoldStays ==
    ASSUME FoldInv, UNCHANGED <<console, asked, dataVec, incidents>>
    PROVE  FoldInv'
  <1>1. \A g : FoldedOf(g)' = FoldedOf(g)
    BY DEF FoldedOf, Folded
  <1>2. \A s : URL(s)' = URL(s)
    BY DEF URL
  <1>3. ASSUME NEW g
        PROVE  Summary(incidents[g], FoldedOf(g))' <=> Summary(incidents[g], FoldedOf(g))
    BY <1>1, <1>2 DEF Summary, SetsOk, ClusterOk, WorstOk, StartOk, EndOk
  <1>4. Folded' = Folded
    BY DEF Folded
  <1> QED
    BY <1>3, <1>4 DEF FoldInv

LEMMA ListedStays ==
    ASSUME ListedInv, pc \in {"alerts", "join", "done"},
           UNCHANGED <<asked, silences, alertData, incidents, listed>>
    PROVE  ListedInv'
  <1>1. \A g : AlertsOf(g)' = AlertsOf(g)
    BY DEF AlertsOf, SeriesOf
  <1>2. \A a : IsAlertSilenced(a)' = IsAlertSilenced(a)
    BY DEF IsAlertSilenced
  <1>3. ASSUME NEW g
        PROVE  RowsOf(listed[g].rows, AlertsOf(g))' <=> RowsOf(listed[g].rows, AlertsOf(g))
    BY <1>1, <1>2 DEF RowsOf
  <1> QED
    BY <1>3 DEF ListedInv

\* Until the fold nothing is gathered.
LEMMA EarlyStep ==
    ASSUME Inv, GetLoaders \/ LoadVectorRange \/ SilencedAlerts \/ QueryError \/ GetConsoleURL
    PROVE  Inv'
  <1>1. /\ pc \in {"start", "query", "silences", "console"}
        /\ pc' \in {"query", "silences", "console", "fold", "error"}
        /\ dataVec' = asked' /\ UNCHANGED <<params, incidents, listed>>
    BY DEF Inv, PhaseInv, GetLoaders, LoadVectorRange, SilencedAlerts, QueryError,
           GetConsoleURL, input
  <1>2. DOMAIN incidents = {} /\ DOMAIN listed = {}
    BY <1>1 DEF Inv, PhaseInv
  <1>3. AskedInv'
    <2>1. CASE UNCHANGED asked
      BY <1>1, <2>1, AskedStays DEF Inv
    <2>2. CASE LoadVectorRange
      <3>1. PICK S \in SUBSET Series : asked' = InRange(S)
        BY <2>2 DEF LoadVectorRange
      <3> QED
        BY <1>1, <3>1, InRangeSamples DEF Inv, AskedInv, Sample
    <2> QED
      BY <2>1, <2>2 DEF GetLoaders, SilencedAlerts, QueryError, GetConsoleURL, input
  <1>4. PhaseInv'
    BY <1>1, <1>2 DEF PhaseInv
  <1>5. FoldInv'
    <2>1. Folded' = {}
      BY <1>1 DEF Folded
    <2> QED
      BY <1>1, <1>2, <2>1 DEF FoldInv
  <1>6. JoinInv' /\ ListedInv' /\ AnswerInv'
    BY <1>1 DEF JoinInv, ListedInv, AnswerInv
  <1> QED
    BY <1>3, <1>4, <1>5, <1>6 DEF Inv

\* One series is folded: its incident sums up one series more.
LEMMA FoldSeriesStep ==
    ASSUME Inv, FoldSeries
    PROVE  Inv'
  <1>1. PICK s \in dataVec :
           /\ dataVec' = dataVec \ {s}
           /\ incidents' =
                IF Label(s.srcLabels, "severity") = "none" THEN incidents
                ELSE Put(incidents, s.groupId,
                         IF s.groupId \in DOMAIN incidents
                           THEN UpdatedIncident(incidents[s.groupId], s) ELSE NewIncident(s))
    BY DEF FoldSeries
  <1>2. /\ pc = "fold" /\ pc' = "fold"
        /\ UNCHANGED <<params, asked, console, silences, listed>>
    BY DEF FoldSeries, input
  <1>3. dataVec \subseteq asked /\ DOMAIN listed = {}
    BY <1>2 DEF Inv, PhaseInv
  <1>4. AskedInv'
    BY <1>2, AskedStays DEF Inv
  <1>5. PhaseInv'
    BY <1>1, <1>2, <1>3 DEF PhaseInv
  <1>6. FoldInv'
    <2> DEFINE new == IF s.groupId \in DOMAIN incidents
                        THEN UpdatedIncident(incidents[s.groupId], s) ELSE NewIncident(s)
    <2>1. \A t : URL(t)' = URL(t)
      BY <1>2 DEF URL
    <2>2. CASE Label(s.srcLabels, "severity") = "none"
      <3>1. Folded' = Folded
        BY <1>1, <1>2, <2>2 DEF Folded
      <3>2. \A g : FoldedOf(g)' = FoldedOf(g)
        BY <3>1 DEF FoldedOf
      <3>3. incidents' = incidents
        BY <1>1, <2>2
      <3>4. ASSUME NEW g
            PROVE  Summary(incidents[g], FoldedOf(g))' <=> Summary(incidents[g], FoldedOf(g))
        BY <2>1, <3>2, <3>3 DEF Summary, SetsOk, ClusterOk, WorstOk, StartOk, EndOk
      <3> QED
        BY <3>1, <3>3, <3>4 DEF Inv, FoldInv
    <2>3. CASE Label(s.srcLabels, "severity") # "none"
      <3>1. Folded' = Folded \cup {s}
        BY <1>1, <1>2, <1>3, <2>3 DEF Folded
      <3>2. \A g : FoldedOf(g)' = IF g = s.groupId THEN FoldedOf(g) \cup {s} ELSE FoldedOf(g)
        BY <3>1 DEF FoldedOf
      <3>3. /\ DOMAIN incidents' = DOMAIN incidents \cup {s.groupId}
            /\ incidents'[s.groupId] = new
            /\ \A g \in DOMAIN incidents : g # s.groupId => incidents'[g] = incidents[g]
        BY <1>1, <2>3 DEF Put
      <3>4. Sample(s) /\ \A g : \A t \in FoldedOf(g) : Sample(t)
        BY <1>3 DEF Inv, AskedInv, FoldedOf, Folded
      <3>5. DOMAIN incidents' = {t.groupId : t \in Folded'}
        BY <3>1, <3>3 DEF Inv, FoldInv
      <3>6. Summary(new, FoldedOf(s.groupId) \cup {s})
        <4>1. CASE s.groupId \in DOMAIN incidents
          <5>1. Summary(incidents[s.groupId], FoldedOf(s.groupId))
            BY <4>1 DEF Inv, FoldInv
          <5>2. Summary(UpdatedIncident(incidents[s.groupId], s), FoldedOf(s.groupId) \cup {s})
            BY <3>4, <5>1, SummaryOfUpdated
          <5> QED
            BY <4>1, <5>2
        <4>2. CASE s.groupId \notin DOMAIN incidents
          <5>1. FoldedOf(s.groupId) = {}
            BY <4>2 DEF Inv, FoldInv, FoldedOf
          <5>2. Summary(NewIncident(s), {s})
            BY <3>4, SummaryOfNew
          <5>3. FoldedOf(s.groupId) \cup {s} = {s}
            BY <5>1
          <5> QED
            BY <4>2, <5>2, <5>3
        <4> QED
          BY <4>1, <4>2
      <3> HIDE DEF new
      <3>7. ASSUME NEW g \in DOMAIN incidents'
            PROVE  Summary(incidents[g], FoldedOf(g))'
        <4> DEFINE i == incidents'[g]
                   F == FoldedOf(g)'
        <4>1. Summary(i, F)
          <5>1. CASE g = s.groupId
            <6>1. i = new /\ F = FoldedOf(s.groupId) \cup {s}
              BY <3>2, <3>3, <5>1
            <6> QED
              BY <3>6, <6>1
          <5>2. CASE g # s.groupId
            <6>1. g \in DOMAIN incidents /\ i = incidents[g] /\ F = FoldedOf(g)
              BY <3>2, <3>3, <5>2
            <6> QED
              BY <6>1 DEF Inv, FoldInv
          <5> QED
            BY <5>1, <5>2
        <4> QED
          BY <2>1, <4>1 DEF Summary, SetsOk, ClusterOk, WorstOk, StartOk, EndOk
      <3> QED
        BY <3>5, <3>7 DEF FoldInv
    <2> QED
      BY <2>2, <2>3
  <1>7. JoinInv' /\ ListedInv' /\ AnswerInv'
    BY <1>2 DEF JoinInv, ListedInv, AnswerInv
  <1> QED
    BY <1>4, <1>5, <1>6, <1>7 DEF Inv

LEMMA LoadAlertsStep ==
    ASSUME Inv, LoadAlerts
    PROVE  Inv'
  <1>1. /\ pc = "fold" /\ dataVec = {} /\ pc' = "alerts"
        /\ UNCHANGED <<params, asked, console, dataVec, incidents, listed>>
    BY DEF LoadAlerts, input
  <1>2. AskedInv' /\ FoldInv'
    BY <1>1, AskedStays, FoldStays DEF Inv
  <1>3. PhaseInv' /\ JoinInv' /\ ListedInv' /\ AnswerInv'
    BY <1>1 DEF Inv, PhaseInv, JoinInv, ListedInv, AnswerInv
  <1> QED
    BY <1>2, <1>3 DEF Inv

\* Without the alerts nothing is listed, and the answer is empty.
LEMMA LoadAlertsErrorStep ==
    ASSUME Inv, LoadAlertsError
    PROVE  Inv'
  <1>1. /\ pc = "fold" /\ dataVec = {} /\ pc' = "done" /\ answer' = <<>>
        /\ UNCHANGED <<params, asked, console, dataVec, incidents, listed>>
    BY DEF LoadAlertsError, input
  <1>2. AskedInv' /\ FoldInv'
    BY <1>1, AskedStays, FoldStays DEF Inv
  <1>3. DOMAIN listed' = {}
    BY <1>1 DEF Inv, PhaseInv
  <1>4. PhaseInv' /\ JoinInv' /\ ListedInv'
    BY <1>1, <1>3 DEF PhaseInv, JoinInv, ListedInv
  <1>5. AnswerInv'
    <2>1. Filtered' = {}
      BY <1>3 DEF Filtered
    <2> QED
      BY <1>1, <2>1 DEF AnswerInv
  <1> QED
    BY <1>2, <1>4, <1>5 DEF Inv

LEMMA NextIncidentStep ==
    ASSUME Inv, NextIncident
    PROVE  Inv'
  <1>1. /\ pc = "alerts" /\ pc' = "join"
        /\ inc' \in DOMAIN incidents /\ pairs' = incidents[inc'].alerts \X alertData
        /\ updated' = <<>>
        /\ UNCHANGED <<params, asked, console, silences, dataVec, incidents, alertData, listed>>
    BY DEF NextIncident, input
  <1>2. AskedInv' /\ FoldInv' /\ ListedInv'
    BY <1>1, AskedStays, FoldStays, ListedStays DEF Inv
  <1>3. PhaseInv' /\ AnswerInv'
    BY <1>1 DEF Inv, PhaseInv, AnswerInv
  <1>4. JoinInv'
    <2>1. Matched(incidents[inc].clusterID, (incidents[inc].alerts \X alertData) \ pairs)' = {}
      BY <1>1 DEF Matched
    <2>2. RowsOf(<<>>, {})'
      BY DEF RowsOf
    <2> QED
      BY <1>1, <2>1, <2>2 DEF JoinInv, RowsOf
  <1> QED
    BY <1>2, <1>3, <1>4 DEF Inv

\* One alert is compared: if it matches, it is one of those of its row.
LEMMA JoinAlertStep ==
    ASSUME Inv, JoinAlert
    PROVE  Inv'
  <1> DEFINE c == incidents[inc].clusterID
             All == incidents[inc].alerts \X alertData
             Fits(p) == SameCluster(c, p[2].labels) /\ SubsetMatches(p[1], p[2].labels)
             Sil(a) == StillSilenced(Triple(a.labels), IsAlertSilenced(a.labels))
  <1>1. PICK p \in pairs :
           /\ pairs' = pairs \ {p}
           /\ updated' = IF Fits(p)
                           THEN Put(updated, Triple(p[2].labels),
                                    [row |-> Row(p[2]), silenced |-> Sil(p[2])])
                           ELSE updated
    BY DEF JoinAlert
  <1>2. /\ pc = "join" /\ pc' = "join"
        /\ UNCHANGED <<params, asked, console, silences, dataVec, incidents, alertData, inc, listed>>
    BY DEF JoinAlert, input
  <1>3. AskedInv' /\ FoldInv' /\ ListedInv'
    BY <1>2, AskedStays, FoldStays, ListedStays DEF Inv
  <1>4. PhaseInv' /\ AnswerInv'
    BY <1>2 DEF Inv, PhaseInv, AnswerInv
  <1>5. /\ inc \in DOMAIN incidents /\ pairs \subseteq All
        /\ RowsOf(updated, Matched(c, All \ pairs))
    BY <1>2 DEF Inv, JoinInv
  <1>6. p \in All /\ All \ pairs' = (All \ pairs) \cup {p}
    BY <1>1, <1>5
  <1>7. p[2] \in alertData
    BY <1>6
  <1> HIDE DEF All
  <1>8. RowsOf(updated', Matched(c, All \ pairs'))
    <2>1. CASE Fits(p)
      <3>1. Matched(c, All \ pairs') = Matched(c, All \ pairs) \cup {p[2]}
        BY <1>6, <1>7, <2>1 DEF Matched
      <3>2. Sil(p[2]) \in BOOLEAN
        BY DEF StillSilenced, IsAlertSilenced
      <3>3. Sil(p[2]) <=> /\ IsAlertSilenced(p[2].labels)
                          /\ Triple(p[2].labels) \in DOMAIN updated =>
                                updated[Triple(p[2].labels)].silenced
        BY DEF StillSilenced
      <3>4. updated' = Put(updated, Triple(p[2].labels), [row |-> Row(p[2]), silenced |-> Sil(p[2])])
        BY <1>1, <2>1
      <3> HIDE DEF Sil
      <3>5. RowsOf(Put(updated, Triple(p[2].labels), [row |-> Row(p[2]), silenced |-> Sil(p[2])]),
                   Matched(c, All \ pairs) \cup {p[2]})
        BY <1>5, <3>2, <3>3, RowsOfMore
      <3> QED
        BY <3>1, <3>4, <3>5
    <2>2. CASE ~ Fits(p)
      <3>1. Matched(c, All \ pairs') = Matched(c, All \ pairs)
        BY <1>6, <2>2 DEF Matched
      <3> QED
        BY <1>1, <1>5, <2>2, <3>1
    <2> QED
      BY <2>1, <2>2
  <1>9. JoinInv'
    <2>1. pairs' \subseteq All
      BY <1>1, <1>5
    <2>2. \A a : IsAlertSilenced(a)' = IsAlertSilenced(a)
      BY <1>2 DEF IsAlertSilenced
    <2>3. RowsOf(updated, Matched(incidents[inc].clusterID, (incidents[inc].alerts \X alertData) \ pairs))'
      BY <1>2, <1>8, <2>2 DEF RowsOf, Matched, All
    <2> QED
      BY <1>2, <1>5, <2>1, <2>3 DEF JoinInv, All
  <1> QED
    BY <1>3, <1>4, <1>9 DEF Inv

\* With everything folded, the alerts that match the label sets of an incident
\* are the alerts of the incident.
LEMMA MatchedAreAlerts ==
    ASSUME Inv, dataVec = {}, NEW g \in DOMAIN incidents
    PROVE  /\ FoldedOf(g) = SeriesOf(g)
           /\ Matched(incidents[g].clusterID, incidents[g].alerts \X alertData) = AlertsOf(g)
  <1>1. FoldedOf(g) = SeriesOf(g)
    BY DEF FoldedOf, Folded, SeriesOf
  <1>2. SetsOk(incidents[g], SeriesOf(g)) /\ ClusterOk(incidents[g], SeriesOf(g))
    BY <1>1 DEF Inv, FoldInv, Summary
  <1>3. \A s \in SeriesOf(g) : s.clusterID = incidents[g].clusterID
    BY <1>2 DEF ClusterOk, SeriesOf, Inv, AskedInv
  <1>4. ASSUME NEW a \in alertData
        PROVE  a \in Matched(incidents[g].clusterID, incidents[g].alerts \X alertData)
                 <=> a \in AlertsOf(g)
    <2>1. (\E p \in incidents[g].alerts \X alertData :
              p[2] = a /\ SubsetMatches(p[1], a.labels))
            <=> \E s \in SeriesOf(g) : SubsetMatches(s.srcLabels, a.labels)
      <3>1. ASSUME NEW s \in SeriesOf(g), SubsetMatches(s.srcLabels, a.labels)
            PROVE  \E p \in incidents[g].alerts \X alertData :
                      p[2] = a /\ SubsetMatches(p[1], a.labels)
        <4>1. <<s.srcLabels, a>> \in incidents[g].alerts \X alertData
          BY <1>2 DEF SetsOk
        <4> QED
          BY <3>1, <4>1
      <3> QED
        BY <1>2, <3>1 DEF SetsOk
    <2> QED
      BY <1>3, <2>1 DEF Matched, AlertsOf, SameCluster
  <1>5. /\ Matched(incidents[g].clusterID, incidents[g].alerts \X alertData) \subseteq alertData
        /\ AlertsOf(g) \subseteq alertData
    BY DEF Matched, AlertsOf
  <1> QED
    BY <1>1, <1>4, <1>5

LEMMA EndIncidentStep ==
    ASSUME Inv, EndIncident
    PROVE  Inv'
  <1>1. /\ pc = "join" /\ pairs = {} /\ pc' = "alerts"
        /\ listed' = Put(listed, inc, [incident |-> incidents[inc], rows |-> updated])
        /\ UNCHANGED <<params, asked, console, silences, dataVec, incidents, alertData>>
    BY DEF EndIncident, input
  <1>2. AskedInv' /\ FoldInv'
    BY <1>1, AskedStays, FoldStays DEF Inv
  <1>3. PhaseInv' /\ JoinInv' /\ AnswerInv'
    BY <1>1 DEF Inv, PhaseInv, JoinInv, AnswerInv
  <1>4. inc \in DOMAIN incidents /\ dataVec = {}
    BY <1>1 DEF Inv, JoinInv, PhaseInv
  <1>5. RowsOf(updated, AlertsOf(inc))
    <2>1. (incidents[inc].alerts \X alertData) \ pairs = incidents[inc].alerts \X alertData
      BY <1>1
    <2> QED
      BY <1>1, <1>4, <2>1, MatchedAreAlerts DEF Inv, JoinInv
  <1>6. /\ DOMAIN listed' = DOMAIN listed \cup {inc}
        /\ listed'[inc].incident = incidents[inc] /\ listed'[inc].rows = updated
        /\ \A g \in DOMAIN listed : g # inc => listed'[g] = listed[g]
    BY <1>1 DEF Put
  <1>7. ASSUME NEW g \in DOMAIN listed'
        PROVE  /\ g \in DOMAIN incidents /\ listed'[g].incident = incidents[g]
               /\ RowsOf(listed'[g].rows, AlertsOf(g))
    BY <1>1, <1>4, <1>5, <1>6 DEF Inv, ListedInv
  <1>8. ListedInv'
    <2>1. \A g : AlertsOf(g)' = AlertsOf(g)
      BY <1>1 DEF AlertsOf, SeriesOf
    <2>2. \A a : IsAlertSilenced(a)' = IsAlertSilenced(a)
      BY <1>1 DEF IsAlertSilenced
    <2>3. ASSUME NEW g \in DOMAIN listed'
          PROVE  RowsOf(listed[g].rows, AlertsOf(g))'
      BY <1>7, <2>1, <2>2 DEF RowsOf
    <2> QED
      BY <1>1, <1>7, <2>3 DEF ListedInv
  <1> QED
    BY <1>2, <1>3, <1>8 DEF Inv

LEMMA AnswerStep ==
    ASSUME Inv, Answer
    PROVE  Inv'
  <1>1. /\ pc = "alerts" /\ pc' = "done" /\ answer' = [g \in Filtered |-> listed[g]]
        /\ UNCHANGED <<params, asked, console, silences, dataVec, incidents, alertData, listed>>
    BY DEF Answer, input
  <1>2. AskedInv' /\ FoldInv' /\ ListedInv'
    BY <1>1, AskedStays, FoldStays, ListedStays DEF Inv
  <1>3. PhaseInv' /\ JoinInv'
    BY <1>1 DEF Inv, PhaseInv, JoinInv
  <1>4. AnswerInv'
    <2>1. Filtered' = Filtered
      BY <1>1 DEF Filtered
    <2> QED
      BY <1>1, <2>1 DEF AnswerInv
  <1> QED
    BY <1>2, <1>3, <1>4 DEF Inv

LEMMA StutterStep ==
    ASSUME Inv, UNCHANGED vars
    PROVE  Inv'
  <1> USE DEF vars, input
  <1>1. AskedInv' /\ FoldInv' /\ PhaseInv'
    BY AskedStays, FoldStays DEF Inv, PhaseInv
  <1>2. ListedInv'
    BY ListedStays DEF Inv, ListedInv
  <1>3. JoinInv'
    <2>1. \A a : IsAlertSilenced(a)' = IsAlertSilenced(a)
      BY DEF IsAlertSilenced
    <2> QED
      BY <2>1 DEF Inv, JoinInv, RowsOf, Matched
  <1>4. AnswerInv'
    BY DEF Inv, AnswerInv, Filtered
  <1> QED
    BY <1>1, <1>2, <1>3, <1>4 DEF Inv

LEMMA InvCorrect == Spec => []Inv
  <1>1. Init => Inv
    BY InvInit
  <1>2. Inv /\ [Next]_vars => Inv'
    BY EarlyStep, FoldSeriesStep, LoadAlertsStep, LoadAlertsErrorStep, NextIncidentStep,
       JoinAlertStep, EndIncidentStep, AnswerStep, StutterStep
    DEF Next, Return
  <1> QED
    BY <1>1, <1>2, PTL DEF Spec

---------------------------------------------------------------------------
(* What the answer says *)

\* An incident of a complete answer sums up its series and has the rows of
\* its alerts.
LEMMA AnswerFacts ==
    ASSUME Inv, Complete
    PROVE  /\ DOMAIN answer =
                {g \in DOMAIN incidents :
                   ParseHealthValue(incidents[g].severity) >= ParseHealthValue(params.minSeverity)}
           /\ \A g \in DOMAIN answer :
                /\ answer[g].incident = incidents[g]
                /\ RowsOf(answer[g].rows, AlertsOf(g))
           /\ \A g \in DOMAIN incidents : Summary(incidents[g], SeriesOf(g))
           /\ DOMAIN incidents = {g \in {s.groupId : s \in asked} : SeriesOf(g) # {}}
  <1>1. /\ pc = "done" /\ DOMAIN listed = DOMAIN incidents /\ dataVec = {}
        /\ answer = [g \in Filtered |-> listed[g]]
    BY DEF Complete, Inv, AnswerInv, PhaseInv
  <1>2. \A g \in DOMAIN listed :
           listed[g].incident = incidents[g] /\ RowsOf(listed[g].rows, AlertsOf(g))
    BY <1>1 DEF Inv, ListedInv
  <1>3. DOMAIN answer = Filtered /\ \A g \in DOMAIN answer : answer[g] = listed[g]
    BY <1>1
  <1>4. Filtered = {g \in DOMAIN incidents :
                      ParseHealthValue(incidents[g].severity) >= ParseHealthValue(params.minSeverity)}
    BY <1>1, <1>2 DEF Filtered
  <1>5. \A g \in DOMAIN answer :
           answer[g].incident = incidents[g] /\ RowsOf(answer[g].rows, AlertsOf(g))
    BY <1>1, <1>2, <1>3, <1>4
  <1>6. \A g \in DOMAIN incidents : Summary(incidents[g], SeriesOf(g))
    BY <1>1, MatchedAreAlerts DEF Inv, FoldInv
  <1>7. DOMAIN incidents = {g \in {s.groupId : s \in asked} : SeriesOf(g) # {}}
    BY <1>1 DEF Inv, FoldInv, Folded, SeriesOf
  <1> QED
    BY <1>3, <1>4, <1>5, <1>6, <1>7

\* A row of an incident is silenced if and only if all the alerts that share it
\* are, whatever order alerts and labels come in.
THEOREM RowsSilencedCorrect == Spec => []RowsAreSilencedTogether
  <1>1. Inv => RowsAreSilencedTogether
    <2> SUFFICES ASSUME Inv, Complete, NEW g \in DOMAIN answer, NEW key \in DOMAIN answer[g].rows
                 PROVE  answer[g].rows[key].silenced <=>
                           \A a \in RowAlerts(g, key) : IsAlertSilenced(a.labels)
      BY DEF RowsAreSilencedTogether
    <2>1. RowsOf(answer[g].rows, AlertsOf(g))
      BY AnswerFacts
    <2> QED
      BY <2>1 DEF RowsOf, RowAlerts
  <1> QED
    BY <1>1, InvCorrect, PTL

\* The rows of an incident are the alerts of its cluster that match one of its
\* series, and its link is to the console of that cluster or to no host.
THEOREM RowsCorrect == Spec => []RowsAreTheAlerts
  <1>1. Inv => RowsAreTheAlerts
    <2> SUFFICES ASSUME Inv, Complete, NEW g \in DOMAIN answer
                 PROVE  LET rows == answer[g].rows
                            cluster == (CHOOSE s \in SeriesOf(g) : TRUE).clusterID
                        IN  /\ DOMAIN rows = {Triple(a.labels) : a \in AlertsOf(g)}
                            /\ \A key \in DOMAIN rows :
                                  rows[key].row \in {Row(a) : a \in RowAlerts(g, key)}
                            /\ answer[g].incident.url =
                                  IF console = None THEN None
                                  ELSE [host |-> Label(console, ConsoleKey(cluster)),
                                        groupId |-> g]
      BY DEF RowsAreTheAlerts
    <2> DEFINE chosen == CHOOSE s \in SeriesOf(g) : TRUE
    <2>1. /\ RowsOf(answer[g].rows, AlertsOf(g))
          /\ answer[g].incident = incidents[g] /\ Summary(incidents[g], SeriesOf(g))
      BY AnswerFacts
    <2>2. PICK s \in SeriesOf(g) : answer[g].incident.url = URL(s)
      BY <2>1 DEF Summary, ClusterOk
    <2>3. chosen \in SeriesOf(g)
      BY <2>2
    <2>4. s.clusterID = chosen.clusterID
      BY <2>2, <2>3 DEF SeriesOf, Inv, AskedInv
    <2>5. answer[g].incident.url =
             IF console = None THEN None
             ELSE [host |-> Label(console, ConsoleKey(chosen.clusterID)), groupId |-> g]
      BY <2>2, <2>4 DEF URL, SeriesOf
    <2>6. \A key \in DOMAIN answer[g].rows :
             answer[g].rows[key].row \in {Row(a) : a \in RowAlerts(g, key)}
      BY <2>1 DEF RowsOf, RowAlerts
    <2> QED
      BY <2>1, <2>5, <2>6 DEF RowsOf
  <1> QED
    BY <1>1, InvCorrect, PTL

\* Whatever order the series come in, an incident has their first start, their
\* worst severity, all their components, and an end only if none goes on.
THEOREM SummariseCorrect == Spec => []IncidentsSummarise
  <1>1. Inv => IncidentsSummarise
    <2> SUFFICES ASSUME Inv, Complete
                 PROVE  IncidentsSummarise
      BY DEF IncidentsSummarise
    <2>1. ASSUME NEW g \in DOMAIN incidents
          PROVE  \E w \in SeriesOf(g) :
                   /\ incidents[g].severity = HealthName(w.health)
                   /\ \A t \in SeriesOf(g) : t.health <= w.health
      BY AnswerFacts DEF Summary, WorstOk
    <2>2. \A g : \A s \in SeriesOf(g) : Sample(s)
      BY DEF SeriesOf, Inv, AskedInv
    <2>3. ParseHealthValue(params.minSeverity) \in 0..2
      BY DEF ParseHealthValue
    <2>4. ASSUME NEW g \in DOMAIN incidents
          PROVE  ParseHealthValue(incidents[g].severity) >= ParseHealthValue(params.minSeverity)
                   <=> \E s \in SeriesOf(g) : s.health >= ParseHealthValue(params.minSeverity)
      <3>1. PICK w \in SeriesOf(g) :
                   /\ incidents[g].severity = HealthName(w.health)
                   /\ \A t \in SeriesOf(g) : t.health <= w.health
        BY <2>1
      <3>2. w.health \in 0..2 /\ \A t \in SeriesOf(g) : t.health \in 0..2
        BY <2>2 DEF Sample
      <3>3. ParseHealthValue(incidents[g].severity) = w.health
        BY <3>1, <3>2, HealthRoundTrip
      <3> QED
        BY <2>3, <3>1, <3>2, <3>3
    <2>5. DOMAIN answer = {g \in {s.groupId : s \in asked} : \E s \in SeriesOf(g) : Asked(s)}
      <3>1. ASSUME NEW s, s.health \in 0..2
            PROVE  Asked(s) <=> s.health >= ParseHealthValue(params.minSeverity)
        BY <3>1 DEF Asked, ParseHealthValue
      <3>2. \A g : \A s \in SeriesOf(g) :
               Asked(s) <=> s.health >= ParseHealthValue(params.minSeverity)
        BY <2>2, <3>1 DEF Sample
      <3> QED
        BY <2>4, <3>2, AnswerFacts
    <2>6. ASSUME NEW g \in DOMAIN answer
          PROVE  LET i == answer[g].incident IN
                 /\ i.start = Min({s.first : s \in SeriesOf(g)})
                 /\ i.severity = Severities[Max({s.health : s \in SeriesOf(g)}) + 1]
                 /\ i.components = {s.component : s \in SeriesOf(g)}
                 /\ i.status = "firing" <=> \E s \in SeriesOf(g) : EndTime(s) = None
                 /\ i.status = "resolved" => i.end = Max({s.last : s \in SeriesOf(g)})
      <3> DEFINE i == answer[g].incident
                 F == SeriesOf(g)
      <3>1. Summary(i, F)
        BY AnswerFacts
      <3>2. \A s \in F : s.health \in 0..2 /\ s.first \in Int /\ s.last \in Int
        BY <2>2 DEF Sample
      <3> HIDE DEF i, F
      <3>3. i.start = Min({s.first : s \in F})
        <4>1. PICK w \in F : i.start = w.first /\ \A t \in F : w.first <= t.first
          BY <3>1 DEF Summary, StartOk
        <4> DEFINE S == {s.first : s \in F}
        <4>2. S \in SUBSET Int /\ w.first \in S /\ \A y \in S : w.first <= y
          BY <3>2, <4>1
        <4> HIDE DEF S
        <4>3. Min(S) = w.first
          BY <4>2, MinUnique
        <4> QED
          BY <4>1, <4>3 DEF S
      <3>4. i.severity = Severities[Max({s.health : s \in F}) + 1]
        <4>1. PICK w \in F : i.severity = HealthName(w.health) /\ \A t \in F : t.health <= w.health
          BY <3>1 DEF Summary, WorstOk
        <4> DEFINE S == {s.health : s \in F}
        <4>2. S \in SUBSET Int /\ w.health \in S /\ \A y \in S : w.health >= y
          BY <3>2, <4>1
        <4> HIDE DEF S
        <4>3. Max(S) = w.health
          BY <4>2, MaxUnique
        <4>4. HealthName(w.health) = Severities[w.health + 1]
          BY <3>2, HealthRoundTrip
        <4> QED
          BY <4>1, <4>3, <4>4 DEF S
      <3>5. i.components = {s.component : s \in F}
        BY <3>1 DEF Summary, SetsOk
      <3>6. (\E s \in F : i.end = s.last) => i.end # None
        BY <3>2, SeriesAssumption
      <3>7. i.status = "firing" <=> \E s \in F : EndTime(s) = None
        BY <3>1, <3>6 DEF Summary, EndOk, Status
      <3>8. i.status = "resolved" => i.end = Max({s.last : s \in F})
        <4> SUFFICES ASSUME i.status = "resolved"
                     PROVE  i.end = Max({s.last : s \in F})
          OBVIOUS
        <4>1. i.end # None
          BY <3>1 DEF Summary, EndOk, Status
        <4>2. PICK w \in F : i.end = w.last /\ \A t \in F : t.last <= w.last
          BY <3>1, <4>1 DEF Summary, EndOk
        <4> DEFINE S == {s.last : s \in F}
        <4>3. S \in SUBSET Int /\ w.last \in S /\ \A y \in S : w.last >= y
          BY <3>2, <4>2
        <4> HIDE DEF S
        <4>4. Max(S) = w.last
          BY <4>3, MaxUnique
        <4> QED
          BY <4>2, <4>4 DEF S
      <3> QED
        BY <3>3, <3>4, <3>5, <3>7, <3>8 DEF i, F
    <2> QED
      BY <2>5, <2>6 DEF IncidentsSummarise
  <1> QED
    BY <1>1, InvCorrect, PTL
=============================================================================
