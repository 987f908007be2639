--------------------------- MODULE HealthMapProofs ---------------------------
(***************************************************************************)
(* What the exported health map says of silences and alerts, and the       *)
(* counts of incidents, for any alerts, any incidents and any tables of    *)
(* components, whatever order the groups and the alerts come in.           *)
(***************************************************************************)
EXTENDS HealthMap, FiniteSetTheorems, WellFoundedInduction, TLAPS

\* The alerts silences are evaluated with for an alert
GroupOf(a) == {b \in DOMAIN group : EvalKey(b) = EvalKey(a)}

LoadedInv ==
    /\ DOMAIN group \subseteq Alerts
    /\ silenced \subseteq Alerts
    /\ pc \in {"load", "silences", "evaluate", "map", "count"}

\* An alert is marked once its group is evaluated, and its mark is that of its
\* group.
MarkInv ==
    /\ pc = "evaluate" =>
          /\ \A g \in unevaluated : \E a \in DOMAIN group : g = GroupOf(a)
          /\ \A a \in DOMAIN group :
                \/ GroupOf(a) \in unevaluated
                \/ a \in DOMAIN mark /\ mark[a] = AllSilenced(GroupOf(a))
    /\ pc \in {"map", "count", "load"} =>
          \A a \in DOMAIN group : mark[a] = AllSilenced(GroupOf(a))

\* Every row stands for an alert of the iteration.
RowsInv ==
    /\ pc \in {"map", "count", "load"} =>
          \A r \in Rows : \E a \in DOMAIN group : r = ComponentHealthMap(a)
    /\ pc = "map" => unmapped \subseteq DOMAIN group
    /\ pc \in {"silences", "evaluate"} => Rows = {}

Inv == LoadedInv /\ MarkInv /\ RowsInv

\* Nothing is exported at first.
LEMMA InvInit == Init => Inv
  <1> SUFFICES ASSUME Init
               PROVE  Inv
    OBVIOUS
  <1>1. DOMAIN group = {} /\ silenced = {} /\ pc = "load"
    BY DEF Init
  <1>2. Rows = {}
    BY DEF Init, Rows, BagToSet, EmptyBag, SetToBag
  <1> QED
    BY <1>1, <1>2 DEF Inv, LoadedInv, MarkInv, RowsInv

\* The members of an evaluation group share it.
LEMMA GroupShared ==
    ASSUME NEW a \in DOMAIN group, NEW b
    PROVE  /\ a \in GroupOf(a)
           /\ a \in GroupOf(b) => GroupOf(a) = GroupOf(b)
  BY DEF GroupOf

\* One group is evaluated: its alerts are marked alike, the others stay.
LEMMA EvaluateGroupStep ==
    ASSUME Inv, EvaluateGroup
    PROVE  Inv'
  <1>1. PICK g \in unevaluated :
          /\ unevaluated' = unevaluated \ {g}
          /\ mark' = [a \in DOMAIN mark \cup g |-> IF a \in g THEN AllSilenced(g) ELSE mark[a]]
    BY DEF EvaluateGroup
  <1>2. /\ pc = "evaluate" /\ pc' = pc
        /\ group' = group /\ silenced' = silenced
        /\ exported' = exported
    BY DEF EvaluateGroup
  <1>3. \A a : GroupOf(a)' = GroupOf(a) /\ AllSilenced(GroupOf(a))' = AllSilenced(GroupOf(a))
    BY <1>2 DEF GroupOf, EvalKey, AllSilenced, IsAlertSilenced
  <1>4. ASSUME NEW a \in DOMAIN group
        PROVE  \/ GroupOf(a) \in unevaluated'
               \/ a \in DOMAIN mark' /\ mark'[a] = AllSilenced(GroupOf(a))
    <2>1. CASE a \in g
      <3>1. g = GroupOf(a)
        BY <1>1, <1>2, <2>1, GroupShared DEF Inv, MarkInv
      <3>2. a \in DOMAIN mark' /\ mark'[a] = AllSilenced(g)
        BY <1>1, <2>1, Zenon
      <3> QED
        BY <3>1, <3>2
    <2>2. CASE a \notin g
      <3>1. GroupOf(a) # g
        BY <2>2, GroupShared
      <3>2. a \in DOMAIN mark => a \in DOMAIN mark' /\ mark'[a] = mark[a]
        BY <1>1, <2>2, Zenon
      <3>3. GroupOf(a) \in unevaluated \/ (a \in DOMAIN mark /\ mark[a] = AllSilenced(GroupOf(a)))
        BY <1>2 DEF Inv, MarkInv
      <3> QED
        BY <1>1, <3>1, <3>2, <3>3, Zenon
    <2> QED
      BY <2>1, <2>2
  <1>5. MarkInv'
    BY <1>1, <1>2, <1>3, <1>4, Zenon DEF Inv, MarkInv
  <1> QED
    BY <1>2, <1>5 DEF Inv, LoadedInv, RowsInv, Rows

\* A row is added only for an alert of the iteration.
LEMMA DedupStep ==
    ASSUME Inv, DedupHealthMap
    PROVE  Inv'
  <1>1. PICK a \in unmapped :
          /\ unmapped' = unmapped \ {a}
          /\ exported' = IF Duplicate(ComponentHealthMap(a)) THEN exported
                         ELSE exported (+) SetToBag({ComponentHealthMap(a)})
    BY DEF DedupHealthMap
  <1>2. /\ pc = "map" /\ pc' = pc
        /\ group' = group /\ silenced' = silenced /\ mark' = mark
    BY DEF DedupHealthMap
  <1>3. a \in DOMAIN group
    BY <1>1, <1>2 DEF Inv, RowsInv
  <1>4. Rows' \subseteq Rows \cup {ComponentHealthMap(a)}
    BY <1>1 DEF Rows, BagToSet, SetToBag, (+)
  <1>5. \A b : ComponentHealthMap(b)' = ComponentHealthMap(b)
    BY <1>2 DEF ComponentHealthMap
  <1>6. RowsInv'
    BY <1>1, <1>2, <1>3, <1>4, <1>5 DEF Inv, RowsInv
  <1>7. \A b : GroupOf(b)' = GroupOf(b) /\ AllSilenced(GroupOf(b))' = AllSilenced(GroupOf(b))
    BY <1>2 DEF GroupOf, EvalKey, AllSilenced, IsAlertSilenced
  <1>8. MarkInv'
    BY <1>2, <1>7 DEF Inv, MarkInv
  <1> QED
    BY <1>2, <1>6, <1>8 DEF Inv, LoadedInv

\* The steps that change neither marks nor rows
LEMMA OtherStep ==
    ASSUME Inv,
           \/ Export \/ CountHealthMap \/ CountSeverities
           \/ UNCHANGED vars
    PROVE  Inv'
  <1>1. /\ group' = group /\ silenced' = silenced /\ mark' = mark
        /\ exported' = exported /\ unmapped' = unmapped /\ unevaluated' = unevaluated
        /\ \/ pc' = pc
           \/ pc \in {"map", "count"} /\ pc' \in {"count", "load"}
    BY DEF Export, CountHealthMap, CountSeverities, vars
  <1>2. /\ \A a : GroupOf(a)' = GroupOf(a) /\ AllSilenced(GroupOf(a))' = AllSilenced(GroupOf(a))
        /\ \A a : ComponentHealthMap(a)' = ComponentHealthMap(a)
        /\ Rows' = Rows
    BY <1>1 DEF GroupOf, EvalKey, AllSilenced, IsAlertSilenced, ComponentHealthMap, Rows
  <1>3. LoadedInv' /\ RowsInv'
    BY <1>1, <1>2 DEF Inv, LoadedInv, RowsInv
  <1>4. MarkInv'
    BY <1>1, <1>2 DEF Inv, MarkInv
  <1> QED
    BY <1>3, <1>4 DEF Inv

\* Every step keeps the invariant.
LEMMA InvStep == Inv /\ [Next]_vars => Inv'
  <1> SUFFICES ASSUME Inv, [Next]_vars
               PROVE  Inv'
    OBVIOUS
  <1>1. CASE LoadAlerts
    <2>1. DOMAIN group' \subseteq Alerts /\ silenced' = {} /\ pc' = "silences"
      BY <1>1 DEF LoadAlerts
    <2>2. Rows' = {}
      BY <1>1 DEF LoadAlerts, Rows, BagToSet, EmptyBag, SetToBag
    <2> QED
      BY <2>1, <2>2 DEF Inv, LoadedInv, MarkInv, RowsInv
  <1>2. CASE SilencedAlerts
    <2>1. /\ group' = group /\ exported' = exported
          /\ pc = "silences" /\ pc' = "evaluate" /\ silenced' \subseteq Alerts
          /\ unevaluated' = {GroupOf(a) : a \in DOMAIN group}
      BY <1>2 DEF SilencedAlerts, GroupOf
    <2>2. \A a : GroupOf(a)' = GroupOf(a)
      BY <2>1 DEF GroupOf, EvalKey
    <2> QED
      BY <2>1, <2>2 DEF Inv, LoadedInv, MarkInv, RowsInv, Rows
  <1>3. CASE MapAlerts
    <2>1. /\ group' = group /\ exported' = exported /\ silenced' = silenced /\ mark' = mark
          /\ pc = "evaluate" /\ unevaluated = {} /\ pc' = "map" /\ unmapped' = DOMAIN group
      BY <1>3 DEF MapAlerts
    <2>2. \A a : GroupOf(a)' = GroupOf(a) /\ AllSilenced(GroupOf(a))' = AllSilenced(GroupOf(a))
      BY <2>1 DEF GroupOf, EvalKey, AllSilenced, IsAlertSilenced
    <2>3. MarkInv'
      BY <2>1, <2>2 DEF Inv, MarkInv
    <2> QED
      BY <2>1, <2>3 DEF Inv, LoadedInv, RowsInv, Rows
  <1> QED
    BY <1>1, <1>2, <1>3, EvaluateGroupStep, DedupStep, OtherStep DEF Next

---------------------------------------------------------------------------
\* The labels that name an alert survive in its source labels.
LEMMA SourceNames ==
    ASSUME NEW a, NEW k \in {"alertname", "namespace", "severity"}
    PROVE  Label(SrcLabels(a), k) = Label(a, k)
  BY DEF Label, SrcLabels

\* What a row of an alert says of its silence and its names
LEMMA RowOf ==
    ASSUME NEW a
    PROVE  /\ ComponentHealthMap(a).groupId = group[a]
           /\ ComponentHealthMap(a).silenced = mark[a]
           /\ \A k \in {"alertname", "namespace", "severity"} :
                 Label(ComponentHealthMap(a).srcLabels, k) = Label(a, k)
  BY SourceNames DEF ComponentHealthMap

\* Two exported rows never say of the same source in the same incident that it
\* is silenced and that it is not.
THEOREM RowsAgreeCorrect == Spec => []RowsAgreeOnSilence
  <1>1. Inv => RowsAgreeOnSilence
    <2> SUFFICES ASSUME Inv, Exported, NEW r \in Rows, NEW s \in Rows,
                        r.groupId = s.groupId,
                        \A k \in {"namespace", "alertname", "severity"} :
                           Label(r.srcLabels, k) = Label(s.srcLabels, k)
                 PROVE  r.silenced = s.silenced
      BY DEF RowsAgreeOnSilence
    <2>1. pc \in {"map", "count", "load"}
      BY DEF Exported
    <2>2. PICK a \in DOMAIN group : r = ComponentHealthMap(a)
      BY <2>1 DEF Inv, RowsInv
    <2>3. PICK b \in DOMAIN group : s = ComponentHealthMap(b)
      BY <2>1 DEF Inv, RowsInv
    <2>4. EvalKey(a) = EvalKey(b)
      BY <2>2, <2>3, RowOf DEF EvalKey
    <2>5. mark[a] = AllSilenced(GroupOf(a)) /\ mark[b] = AllSilenced(GroupOf(b))
      BY <2>1 DEF Inv, MarkInv
    <2>6. GroupOf(a) = GroupOf(b)
      BY <2>4 DEF GroupOf
    <2> QED
      BY <2>2, <2>3, <2>5, <2>6, RowOf
  <1> QED
    BY <1>1, InvInit, InvStep, PTL DEF Spec

\* Of the alerts of one rule, a silenced alert marks itself only.
LEMMA SilencedIsItself ==
    ASSUME silenced \subseteq Alerts, NEW a \in Alerts, OneRule(a)
    PROVE  IsAlertSilenced(a) <=> a \in silenced
  <1>1. ASSUME a \in silenced
        PROVE  IsAlertSilenced(a)
    <2>1. IntersectionMatches(a, a)
      BY AlertsAssumption DEF IntersectionMatches
    <2> QED
      BY <1>1, <2>1 DEF IsAlertSilenced
  <1>2. ASSUME IsAlertSilenced(a)
        PROVE  a \in silenced
    <2>1. PICK s \in silenced : Label(s, "alertname") = Label(a, "alertname") /\ IntersectionMatches(s, a)
      BY <1>2 DEF IsAlertSilenced
    <2>2. DOMAIN s = DOMAIN a
      BY <2>1 DEF OneRule
    <2>3. \A k \in DOMAIN a : s[k] = a[k]
      BY <2>1, <2>2 DEF IntersectionMatches
    <2>4. s = [k \in DOMAIN s |-> s[k]] /\ a = [k \in DOMAIN a |-> a[k]]
      BY <2>1, AlertsAssumption
    <2>5. s = a
      BY <2>2, <2>3, <2>4, Zenon
    <2> QED
      BY <2>5
  <1> QED
    BY <1>1, <1>2

\* A row is silenced exactly when all alerts of its incident with its name,
\* namespace and severity are: none is hidden by the silence of another.
THEOREM SilencedRowsCorrect == Spec => []SilencedRowsAreSilenced
  <1>1. Inv => SilencedRowsAreSilenced
    <2> SUFFICES ASSUME Inv, Exported, NEW r \in Rows,
                        \A a \in Alike(r) : OneRule(a)
                 PROVE  r.silenced <=> Alike(r) \subseteq silenced
      BY DEF SilencedRowsAreSilenced
    <2>1. pc \in {"map", "count", "load"}
      BY DEF Exported
    <2>2. PICK a \in DOMAIN group : r = ComponentHealthMap(a)
      BY <2>1 DEF Inv, RowsInv
    <2>3. Alike(r) = GroupOf(a)
      BY <2>2, RowOf DEF Alike, GroupOf, EvalKey
    <2>4. mark[a] = AllSilenced(GroupOf(a))
      BY <2>1 DEF Inv, MarkInv
    <2>5. \A b \in GroupOf(a) : IsAlertSilenced(b) <=> b \in silenced
      <3> TAKE b \in GroupOf(a)
      <3>1. b \in Alerts /\ OneRule(b) /\ silenced \subseteq Alerts
        BY <2>3 DEF GroupOf, Inv, LoadedInv
      <3> QED
        BY <3>1, SilencedIsItself
    <2>6. AllSilenced(GroupOf(a)) <=> GroupOf(a) \subseteq silenced
      BY <2>5 DEF AllSilenced
    <2>7. r.silenced = mark[a]
      BY <2>2, RowOf
    <2> QED
      BY <2>3, <2>4, <2>6, <2>7, Zenon
  <1> QED
    BY <1>1, InvInit, InvStep, PTL DEF Spec

---------------------------------------------------------------------------
\* The alerts whose health map is deduplicated have a row with their labels,
\* and no two rows have the same labels.
OneRowInv ==
    /\ pc \in {"map", "count", "load"} =>
          \A a \in DOMAIN group : (pc = "map" /\ a \in unmapped)
                                 \/ \E r \in Rows : Labels(r) = Labels(ComponentHealthMap(a))
    /\ \A r, s \in Rows : Labels(r) = Labels(s) => r = s
    /\ \A r \in Rows : exported[r] = 1

\* A row is added only if its labels are new.
LEMMA DedupOneRow ==
    ASSUME Inv, OneRowInv, DedupHealthMap
    PROVE  OneRowInv'
  <1>1. PICK a \in unmapped :
          /\ unmapped' = unmapped \ {a}
          /\ exported' = IF Duplicate(ComponentHealthMap(a)) THEN exported
                         ELSE exported (+) SetToBag({ComponentHealthMap(a)})
    BY DEF DedupHealthMap
  <1>2. pc = "map" /\ pc' = pc /\ group' = group /\ mark' = mark
    BY DEF DedupHealthMap
  <1>3. \A b : Labels(ComponentHealthMap(b))' = Labels(ComponentHealthMap(b))
    BY <1>2 DEF ComponentHealthMap, Labels
  <1>4. CASE Duplicate(ComponentHealthMap(a))
    <2>1. exported' = exported
      BY <1>1, <1>4
    <2>2. \E r \in Rows : Labels(r) = Labels(ComponentHealthMap(a))
      BY <1>4 DEF Duplicate, Rows
    <2>3. Rows' = Rows /\ \A r : Labels(r)' = Labels(r)
      BY <2>1 DEF Rows, Labels
    <2> QED
      BY <1>1, <1>2, <1>3, <2>1, <2>2, <2>3 DEF OneRowInv
  <1>5. CASE ~Duplicate(ComponentHealthMap(a))
    <2> DEFINE new == ComponentHealthMap(a)
    <2>1. \A r \in Rows : Labels(r) # Labels(new)
      BY <1>5 DEF Duplicate, Rows
    <2>2. exported' = exported (+) SetToBag({new})
      BY <1>1, <1>5
    <2> HIDE DEF new
    <2>3. new \notin Rows
      BY <2>1
    <2>4. /\ Rows' = Rows \cup {new}
          /\ exported'[new] = 1
          /\ \A r \in Rows : exported'[r] = exported[r]
      BY <2>2, <2>3 DEF Rows, BagToSet, SetToBag, (+), OneRowInv
    <2>5. \A r : Labels(r)' = Labels(r)
      BY DEF Labels
    <2>6. \A b \in DOMAIN group' : (pc' = "map" /\ b \in unmapped')
              \/ \E r \in Rows' : Labels(r) = Labels(ComponentHealthMap(b))'
      BY <1>1, <1>2, <1>3, <2>4 DEF OneRowInv, new
    <2>7. \A r, s \in Rows' : Labels(r) = Labels(s) => r = s
      BY <2>1, <2>4 DEF OneRowInv
    <2> QED
      BY <1>2, <2>4, <2>5, <2>6, <2>7 DEF OneRowInv
  <1> QED
    BY <1>4, <1>5

\* Every step keeps the rows apart.
LEMMA OneRowStep == Inv /\ OneRowInv /\ [Next]_vars => OneRowInv'
  <1> SUFFICES ASSUME Inv, OneRowInv, [Next]_vars
               PROVE  OneRowInv'
    OBVIOUS
  <1>1. CASE LoadAlerts
    <2>1. Rows' = {} /\ pc' = "silences"
      BY <1>1 DEF LoadAlerts, Rows, BagToSet, EmptyBag, SetToBag
    <2> QED
      BY <2>1 DEF OneRowInv
  <1>2. CASE SilencedAlerts \/ EvaluateGroup
    <2>1. exported' = exported /\ pc' = "evaluate"
      BY <1>2 DEF SilencedAlerts, EvaluateGroup
    <2> QED
      BY <2>1 DEF OneRowInv, Rows, Labels
  <1>3. CASE MapAlerts
    <2>1. exported' = exported /\ pc' = "map" /\ unmapped' = DOMAIN group' /\ group' = group
      BY <1>3 DEF MapAlerts
    <2> QED
      BY <2>1 DEF OneRowInv, Rows, Labels
  <1>4. CASE Export \/ CountHealthMap \/ CountSeverities \/ UNCHANGED vars
    <2>1. /\ group' = group /\ mark' = mark /\ exported' = exported /\ unmapped' = unmapped
          /\ pc' = pc \/ (pc = "map" /\ unmapped = {}) \/ pc = "count"
      BY <1>4 DEF Export, CountHealthMap, CountSeverities, vars
    <2>2. (\A b : Labels(ComponentHealthMap(b))' = Labels(ComponentHealthMap(b)))
          /\ (\A r : Labels(r)' = Labels(r)) /\ Rows' = Rows
      BY <2>1 DEF ComponentHealthMap, Labels, Rows
    <2>3. pc' = pc \/ pc \in {"map", "count"}
      BY <2>1
    <2> QED
      BY <2>1, <2>2, <2>3 DEF OneRowInv
  <1> QED
    BY <1>1, <1>2, <1>3, <1>4, DedupOneRow DEF Next

\* Rows with the same labels have the same value, as the severity is a label.
LEMMA SameLabels ==
    ASSUME NEW a, NEW b, Labels(ComponentHealthMap(a)) = Labels(ComponentHealthMap(b))
    PROVE  /\ group[a] = group[b] /\ SrcLabels(a) = SrcLabels(b)
           /\ Mapped[a].layer = Mapped[b].layer
           /\ Mapped[a].component = Mapped[b].component
           /\ Label(a, "severity") = Label(b, "severity")
  <1> DEFINE Fields == {"layer", "component", "srcLabels", "groupId", "silenced"}
  <1>1. \A c : Labels(ComponentHealthMap(c)) = [f \in Fields |-> ComponentHealthMap(c)[f]]
    BY DEF Labels, ComponentHealthMap
  <1>2. \A f \in Fields : ComponentHealthMap(a)[f] = ComponentHealthMap(b)[f]
    <2> TAKE f \in Fields
    <2>1. [g \in Fields |-> ComponentHealthMap(a)[g]] = [g \in Fields |-> ComponentHealthMap(b)[g]]
      BY <1>1
    <2>2. [g \in Fields |-> ComponentHealthMap(a)[g]][f] = ComponentHealthMap(a)[f]
      OBVIOUS
    <2>3. [g \in Fields |-> ComponentHealthMap(b)[g]][f] = ComponentHealthMap(b)[f]
      OBVIOUS
    <2> QED
      BY <2>1, <2>2, <2>3
  <1>3. /\ ComponentHealthMap(a).layer = ComponentHealthMap(b).layer
        /\ ComponentHealthMap(a).component = ComponentHealthMap(b).component
        /\ ComponentHealthMap(a).srcLabels = ComponentHealthMap(b).srcLabels
        /\ ComponentHealthMap(a).groupId = ComponentHealthMap(b).groupId
    BY <1>2
  <1>4. SrcLabels(a) = SrcLabels(b)
    BY <1>3 DEF ComponentHealthMap
  <1> QED
    BY <1>3, <1>4, SourceNames DEF ComponentHealthMap

\* The name of the health value of an alert is its severity.
LEMMA SeverityOfHealth ==
    \A a : Severity[ParseHealthValue(Label(a, "severity"))] = SeverityOf(a)
  <1>1. Severity[0] = "info" /\ Severity[1] = "warning" /\ Severity[2] = "critical"
    BY DEF Severity
  <1> QED
    BY <1>1 DEF ParseHealthValue, SeverityOf

\* Every alert is exported in exactly one row, and no two rows have the same
\* labels.
THEOREM EveryAlertCorrect == Spec => []EveryAlertHasOneRow
  <1>1. Init => OneRowInv
    <2> SUFFICES ASSUME Init
                 PROVE  OneRowInv
      OBVIOUS
    <2>1. Rows = {} /\ DOMAIN group = {}
      BY DEF Init, Rows, BagToSet, EmptyBag, SetToBag
    <2> QED
      BY <2>1 DEF OneRowInv
  <1>2. Inv /\ OneRowInv => EveryAlertHasOneRow
    <2> SUFFICES ASSUME Inv, OneRowInv, Exported
                 PROVE  EveryAlertHasOneRow
      BY DEF EveryAlertHasOneRow
    <2>1. pc \in {"count", "load"}
      BY DEF Exported
    <2>2. ASSUME NEW a \in DOMAIN group
          PROVE  \E r \in Rows : IsRowOf(r, a) /\ \A s \in Rows : IsRowOf(s, a) => s = r
      <3>1. PICK r \in Rows : Labels(r) = Labels(ComponentHealthMap(a))
        BY <2>1 DEF OneRowInv
      <3>2. PICK b \in DOMAIN group : r = ComponentHealthMap(b)
        BY <2>1 DEF Inv, RowsInv
      <3>3. IsRowOf(r, a)
        <4>1. /\ group[a] = group[b] /\ SrcLabels(a) = SrcLabels(b)
              /\ Mapped[a].layer = Mapped[b].layer /\ Mapped[a].component = Mapped[b].component
              /\ Label(a, "severity") = Label(b, "severity")
          BY <3>1, <3>2, SameLabels
        <4>2. Severity[r.health] = SeverityOf(b) /\ SeverityOf(a) = SeverityOf(b)
          BY <3>2, <4>1, SeverityOfHealth DEF ComponentHealthMap, SeverityOf
        <4> QED
          BY <3>2, <4>1, <4>2 DEF IsRowOf, ComponentHealthMap
      <3>4. ASSUME NEW s \in Rows, IsRowOf(s, a)
            PROVE  s = r
        <4>1. PICK c \in DOMAIN group : s = ComponentHealthMap(c)
          BY <2>1 DEF Inv, RowsInv
        <4>2. /\ s.groupId = r.groupId /\ s.srcLabels = r.srcLabels
              /\ s.layer = r.layer /\ s.component = r.component
          BY <3>3, <3>4 DEF IsRowOf
        <4>3. EvalKey(b) = EvalKey(c)
          BY <3>2, <4>1, <4>2, RowOf DEF EvalKey
        <4>4. mark[b] = mark[c]
          <5>1. GroupOf(b) = GroupOf(c)
            BY <4>3 DEF GroupOf
          <5> QED
            BY <2>1, <5>1 DEF Inv, MarkInv
        <4>5. Labels(s) = Labels(r)
          BY <3>2, <4>1, <4>2, <4>4 DEF ComponentHealthMap, Labels
        <4> QED
          BY <4>5 DEF OneRowInv
      <3> QED
        BY <3>3, <3>4
    <2> QED
      BY <2>2 DEF EveryAlertHasOneRow, OneRowInv
  <1> QED
    BY <1>1, <1>2, InvInit, InvStep, OneRowStep, PTL DEF Spec
---------------------------------------------------------------------------
\* v is the worst health of the rows S of incident i.
IsWorst(v, i, S) ==
    /\ \E r \in S : r.groupId = i /\ r.health = v
    /\ \A r \in S : r.groupId = i => r.health <= v

\* The incidents counted so far are those of the rows counted so far.
CountInv ==
    /\ \A a \in DOMAIN group : group[a] \in Incidents
    /\ pc \in {"silences", "evaluate", "map"} => DOMAIN worst = {}
    /\ pc = "count" =>
          /\ uncounted \subseteq Rows
          /\ DOMAIN worst = {r.groupId : r \in Rows \ uncounted}
          /\ \A i \in DOMAIN worst : IsWorst(worst[i], i, Rows \ uncounted)

LEMMA HealthValues == \A s : ParseHealthValue(s) \in 0..2
  BY DEF ParseHealthValue

LEMMA MaxOfTwo ==
    ASSUME NEW x \in 0..2, NEW y \in 0..2
    PROVE  WorstOf(x, y) = IF x >= y THEN x ELSE y
  BY DEF WorstOf, Max

\* Counting one more row
LEMMA CountStep ==
    ASSUME Inv, CountInv, CountHealthMap
    PROVE  CountInv'
  <1> DEFINE Old(i) == IF i \in DOMAIN worst THEN worst[i] ELSE 0
  <1>1. PICK hm \in uncounted :
          /\ uncounted' = uncounted \ {hm}
          /\ worst' = [i \in DOMAIN worst \cup {hm.groupId} |->
                        IF i = hm.groupId THEN WorstOf(Old(hm.groupId), hm.health) ELSE worst[i]]
    BY DEF CountHealthMap
  <1>2. pc = "count" /\ pc' = "count" /\ group' = group /\ exported' = exported
    BY DEF CountHealthMap
  <1>3. Rows' = Rows /\ hm \in Rows
    BY <1>1, <1>2 DEF Rows, CountInv
  <1>4. \A r \in Rows : r.health \in 0..2
    BY <1>2, HealthValues DEF Inv, RowsInv, ComponentHealthMap
  <1> DEFINE S == Rows \ uncounted
  <1> DEFINE T == Rows \ (uncounted \ {hm})
  <1>5. T = S \cup {hm}
    BY <1>1, <1>3
  <1>6. \A i \in DOMAIN worst : worst[i] \in 0..2 /\ IsWorst(worst[i], i, S)
    BY <1>2, <1>4 DEF CountInv, IsWorst
  <1>7. DOMAIN worst' = {r.groupId : r \in T}
    BY <1>1, <1>2, <1>5 DEF CountInv
  <1>8. ASSUME NEW i \in DOMAIN worst'
        PROVE  IsWorst(worst'[i], i, T)
    <2>1. CASE i # hm.groupId
      <3>1. i \in DOMAIN worst /\ worst'[i] = worst[i]
        BY <1>1, <2>1
      <3> HIDE DEF S, T
      <3> QED
        BY <1>5, <1>6, <2>1, <3>1 DEF IsWorst
    <2>2. CASE i = hm.groupId /\ i \in DOMAIN worst
      <3>1. worst'[i] = IF worst[i] >= hm.health THEN worst[i] ELSE hm.health
        BY <1>1, <1>3, <1>4, <1>6, <2>2, MaxOfTwo
      <3>2. \A r \in S : r.health \in 0..2
        BY <1>4
      <3> HIDE DEF S, T
      <3> QED
        BY <1>3, <1>4, <1>5, <1>6, <2>2, <3>1, <3>2 DEF IsWorst
    <2>3. CASE i = hm.groupId /\ i \notin DOMAIN worst
      <3>1. worst'[i] = hm.health
        <4>1. worst'[i] = WorstOf(0, hm.health)
          BY <1>1, <2>3
        <4> QED
          BY <1>3, <1>4, <4>1, MaxOfTwo
      <3>2. \A r \in S : r.groupId # i
        BY <1>2, <2>3 DEF CountInv
      <3> HIDE DEF S, T
      <3> QED
        BY <1>3, <1>4, <1>5, <2>3, <3>1, <3>2 DEF IsWorst
    <2> QED
      BY <2>1, <2>2, <2>3
  <1> QED
    BY <1>1, <1>2, <1>3, <1>7, <1>8 DEF CountInv, IsWorst

\* Every other step
LEMMA CountInvStep == Inv /\ CountInv /\ [Next]_vars => CountInv'
  <1> SUFFICES ASSUME Inv, CountInv, [Next]_vars
               PROVE  CountInv'
    OBVIOUS
  <1>1. CASE LoadAlerts
    BY <1>1 DEF LoadAlerts, CountInv
  <1>2. CASE SilencedAlerts \/ EvaluateGroup \/ MapAlerts \/ DedupHealthMap
    BY <1>2 DEF SilencedAlerts, EvaluateGroup, MapAlerts, DedupHealthMap, CountInv
  <1>3. CASE Export
    <2>1. uncounted' = Rows /\ Rows' = Rows /\ DOMAIN worst' = {} /\ group' = group
      BY <1>3 DEF Export, Rows, CountInv
    <2> QED
      BY <2>1, <1>3 DEF CountInv, Export
  <1>4. CASE CountSeverities
    BY <1>4 DEF CountSeverities, CountInv
  <1>5. CASE UNCHANGED vars
    BY <1>5 DEF vars, CountInv, IsWorst, Rows
  <1> QED
    BY <1>1, <1>2, <1>3, <1>4, <1>5, CountStep DEF Next

\* The health values of the alerts of incident i
HealthsOf(i) ==
    {ParseHealthValue(Label(a, "severity")) : a \in {b \in DOMAIN group : group[b] = i}}

\* The rows of an incident have the health values of its alerts.
LEMMA RowsHaveHealths ==
    ASSUME Inv, OneRowInv, pc = "count", NEW i, NEW h
    PROVE  h \in HealthsOf(i) <=> \E r \in Rows : r.groupId = i /\ r.health = h
  <1>1. ASSUME NEW r \in Rows, r.groupId = i, r.health = h
        PROVE  h \in HealthsOf(i)
    BY <1>1 DEF Inv, RowsInv, ComponentHealthMap, HealthsOf
  <1>2. ASSUME NEW a \in DOMAIN group, group[a] = i, ParseHealthValue(Label(a, "severity")) = h
        PROVE  \E r \in Rows : r.groupId = i /\ r.health = h
    <2>1. PICK r \in Rows : Labels(r) = Labels(ComponentHealthMap(a))
      BY DEF OneRowInv
    <2>2. PICK b \in DOMAIN group : r = ComponentHealthMap(b)
      BY DEF Inv, RowsInv
    <2>3. group[b] = group[a] /\ Label(b, "severity") = Label(a, "severity")
      BY <2>1, <2>2, SameLabels
    <2> QED
      BY <1>2, <2>2, <2>3 DEF ComponentHealthMap
  <1> QED
    BY <1>1, <1>2 DEF HealthsOf

\* The worst of the severities is the name of the worst health value.
LEMMA WorstSeverity ==
    ASSUME NEW i, NEW s \in {"info", "warning", "critical"}
    PROVE  (s \in SeveritiesOf(i) /\ SeveritiesOf(i) \cap Worse[s] = {})
              <=> (HealthsOf(i) # {} /\ Severity[Max(HealthsOf(i))] = s)
  <1>1. HealthsOf(i) \subseteq 0..2
    BY HealthValues DEF HealthsOf
  <1>2. SeveritiesOf(i) = {Severity[h] : h \in HealthsOf(i)}
    BY SeverityOfHealth DEF SeveritiesOf, HealthsOf
  <1>3. Severity[0] = "info" /\ Severity[1] = "warning" /\ Severity[2] = "critical"
    BY DEF Severity
  <1>4. Worse["info"] = {"warning", "critical"} /\ Worse["warning"] = {"critical"} /\ Worse["critical"] = {}
    BY DEF Worse
  <1>5. CASE HealthsOf(i) = {}
    BY <1>2, <1>5
  <1>6. ASSUME NEW m \in HealthsOf(i), \A h \in HealthsOf(i) : h <= m
        PROVE  Max(HealthsOf(i)) = m
    BY <1>1, <1>6 DEF Max
  <1> HIDE DEF Worse
  <1>7. CASE 2 \in HealthsOf(i)
    <2>1. Max(HealthsOf(i)) = 2 /\ "critical" \in SeveritiesOf(i)
      BY <1>1, <1>2, <1>3, <1>6, <1>7
    <2> QED
      BY <1>3, <1>4, <1>7, <2>1
  <1>8. CASE 2 \notin HealthsOf(i) /\ 1 \in HealthsOf(i)
    <2>1. Max(HealthsOf(i)) = 1 /\ "warning" \in SeveritiesOf(i) /\ "critical" \notin SeveritiesOf(i)
      BY <1>1, <1>2, <1>3, <1>6, <1>8
    <2> QED
      BY <1>3, <1>4, <1>8, <2>1
  <1>9. CASE HealthsOf(i) = {0}
    <2>1. Max(HealthsOf(i)) = 0 /\ SeveritiesOf(i) = {"info"}
      BY <1>1, <1>2, <1>3, <1>6, <1>9
    <2> QED
      BY <1>3, <1>4, <1>9, <2>1
  <1> QED
    BY <1>1, <1>5, <1>7, <1>8, <1>9

\* All rows counted, the incidents and their worst health are those of the alerts.
LEMMA WorstIsOfTheAlerts ==
    ASSUME Inv, OneRowInv, CountInv, pc = "count", uncounted = {}
    PROVE  /\ \A i : i \in DOMAIN worst <=> HealthsOf(i) # {}
           /\ \A i \in DOMAIN worst : i \in Incidents /\ worst[i] = Max(HealthsOf(i))
           /\ \A i \in DOMAIN worst : worst[i] \in 0..2
  <1>1. /\ DOMAIN worst = {r.groupId : r \in Rows}
        /\ \A i \in DOMAIN worst : IsWorst(worst[i], i, Rows)
    BY DEF CountInv
  <1>2. ASSUME NEW i
        PROVE  i \in DOMAIN worst <=> HealthsOf(i) # {}
    <2>1. ASSUME i \in DOMAIN worst
          PROVE  HealthsOf(i) # {}
      BY <1>1, <2>1, RowsHaveHealths DEF IsWorst
    <2>2. ASSUME NEW h \in HealthsOf(i)
          PROVE  i \in DOMAIN worst
      BY <1>1, <2>2, RowsHaveHealths
    <2> QED
      BY <2>1, <2>2
  <1>3. ASSUME NEW i \in DOMAIN worst
        PROVE  i \in Incidents /\ worst[i] = Max(HealthsOf(i)) /\ worst[i] \in 0..2
    <2>1. HealthsOf(i) \subseteq 0..2
      BY HealthValues DEF HealthsOf
    <2>2. worst[i] \in HealthsOf(i) /\ \A h \in HealthsOf(i) : h <= worst[i]
      BY <1>1, RowsHaveHealths DEF IsWorst
    <2>3. i \in Incidents
      BY <2>2 DEF HealthsOf, CountInv
    <2>4. worst[i] = Max(HealthsOf(i))
      BY <2>1, <2>2 DEF Max
    <2> QED
      BY <2>1, <2>2, <2>3, <2>4
  <1> QED
    BY <1>2, <1>3

\* The counts are those of the alerts, each incident counted once.
LEMMA CountSeveritiesStep ==
    ASSUME Inv, OneRowInv, CountInv, CountSeverities
    PROVE  CountsAreIncidents'
  <1> DEFINE Of(s) == {i \in DOMAIN worst : Severity[worst[i]] = s}
  <1>1. /\ pc = "count" /\ uncounted = {} /\ group' = group
        /\ counts' = [s \in {Severity[worst[i]] : i \in DOMAIN worst} |-> Cardinality(Of(s))]
    BY DEF CountSeverities
  <1>2. ASSUME NEW s
        PROVE  (IF s \in DOMAIN counts' THEN counts'[s] ELSE 0) = Cardinality(Of(s))
    <2>1. CASE s \in DOMAIN counts'
      BY <1>1, <2>1
    <2>2. CASE s \notin DOMAIN counts'
      <3>1. Of(s) = {}
        BY <1>1, <2>2
      <3> HIDE DEF Of
      <3> QED
        BY <2>2, <3>1, FS_EmptySet
    <2> QED
      BY <2>1, <2>2
  <1>3. ASSUME NEW s
        PROVE  {i \in Incidents : HealthsOf(i) # {} /\ Severity[Max(HealthsOf(i))] = s} = Of(s)
    BY <1>1, WorstIsOfTheAlerts
  <1>4. \A s \in {"info", "warning", "critical"} :
          IncidentsOf(s)' = Cardinality({i \in Incidents : HealthsOf(i) # {} /\ Severity[Max(HealthsOf(i))] = s})
    BY <1>1, WorstSeverity DEF IncidentsOf, SeveritiesOf
  <1> HIDE DEF Of
  <1>5. ASSUME NEW s \in {"info", "warning", "critical"}
        PROVE  (IF s \in DOMAIN counts' THEN counts'[s] ELSE 0) = IncidentsOf(s)'
    <2>1. IncidentsOf(s)' = Cardinality({i \in Incidents : HealthsOf(i) # {} /\ Severity[Max(HealthsOf(i))] = s})
      BY <1>4
    <2>2. {i \in Incidents : HealthsOf(i) # {} /\ Severity[Max(HealthsOf(i))] = s} = Of(s)
      BY <1>3
    <2> QED
      BY <1>2, <2>1, <2>2
  <1> QED
    BY <1>5 DEF CountsAreIncidents

\* The exported counts are the incidents of the iteration, each counted once,
\* under the worst severity of its alerts, however rows were merged.
THEOREM CountsCorrect == Spec => []CountsAreIncidents
  <1> DEFINE All == Inv /\ OneRowInv /\ CountInv /\ CountsAreIncidents
  <1>1. Init => All
    <2> SUFFICES ASSUME Init
                 PROVE  All
      OBVIOUS
    <2>1. Rows = {} /\ DOMAIN group = {} /\ DOMAIN counts = {} /\ pc = "load"
      BY DEF Init, Rows, BagToSet, EmptyBag, SetToBag
    <2>2. OneRowInv /\ CountInv
      BY <2>1 DEF OneRowInv, CountInv
    <2>3. \A s : IncidentsOf(s) = 0
      <3>1. \A i : SeveritiesOf(i) = {}
        BY <2>1 DEF SeveritiesOf
      <3>2. \A s : {i \in Incidents : s \in SeveritiesOf(i) /\ SeveritiesOf(i) \cap Worse[s] = {}} = {}
        BY <3>1
      <3> QED
        BY <3>2, FS_EmptySet DEF IncidentsOf
    <2> QED
      BY <2>1, <2>2, <2>3, InvInit DEF CountsAreIncidents
  <1>2. All /\ [Next]_vars => All'
    <2> SUFFICES ASSUME All, [Next]_vars
                 PROVE  All'
      OBVIOUS
    <2>1. Inv' /\ OneRowInv' /\ CountInv'
      BY InvStep, OneRowStep, CountInvStep
    <2>2. CASE CountSeverities
      BY <2>1, <2>2, CountSeveritiesStep
    <2>3. CASE UNCHANGED vars
      BY <2>1, <2>3 DEF vars, CountsAreIncidents, IncidentsOf, SeveritiesOf
    <2>4. ASSUME ~CountSeverities, Next
          PROVE  pc' # "load"
      BY <2>4 DEF Next, LoadAlerts, SilencedAlerts, EvaluateGroup, MapAlerts,
                  DedupHealthMap, Export, CountHealthMap
    <2>5. CASE pc' # "load"
      BY <2>1, <2>5 DEF CountsAreIncidents
    <2> QED
      BY <2>2, <2>3, <2>4, <2>5
  <1> QED
    BY <1>1, <1>2, PTL DEF Spec
---------------------------------------------------------------------------
\* A set of positions that is not empty has a first one.
LEMMA FirstPosition ==
    ASSUME NEW S, S \subseteq Nat, S # {}
    PROVE  Min(S) \in S /\ \A j \in S : Min(S) <= j
  <1> DEFINE R == OpToRel(<, Nat)
  <1>1. PICK i \in S : \A j \in S : ~(<<j, i>> \in R)
    BY WFMin, NatLessThanWellFounded
  <1>2. ASSUME NEW j \in S, j < i
        PROVE  <<j, i>> \in R
    <2>1. <<j, i>> \in Nat \X Nat /\ <<j, i>>[1] < <<j, i>>[2]
      BY <1>2
    <2> QED
      BY <2>1, Zenon DEF OpToRel
  <1> HIDE DEF R
  <1>3. \A j \in S : ~(j < i)
    BY <1>1, <1>2, Zenon
  <1>4. \A j \in S : i <= j
    BY <1>3
  <1>5. \E k \in S : \A j \in S : k <= j
    BY <1>4
  <1> QED
    BY <1>5, Zenon DEF Min

\* The first position of a set is the first of any part of it that keeps it.
LEMMA FirstOfPart ==
    ASSUME NEW S, S \subseteq Nat, NEW P, P \subseteq S, S # {}, Min(S) \in P
    PROVE  Min(P) = Min(S)
  <1>1. Min(S) \in Nat /\ \A j \in S : Min(S) <= j
    BY FirstPosition
  <1>2. Min(P) \in P /\ \A j \in P : Min(P) <= j
    BY FirstPosition
  <1>3. Min(P) \in Nat /\ Min(P) <= Min(S) /\ Min(S) <= Min(P)
    BY <1>1, <1>2
  <1> QED
    BY <1>1, <1>3

\* b has the labels of a under the keys K, and under the others those of a or
\* none.
Part(b, a, K) ==
    /\ \A k \in K : Label(b, k) = Label(a, k)
    /\ \A k : Label(b, k) \in {Label(a, k), ""}

\* The positions and the elements of a sequence
LEMMA SeqShape ==
    ASSUME NEW S, NEW q \in Seq(S)
    PROVE  /\ DOMAIN q = 1..Len(q) /\ Len(q) \in Nat
           /\ DOMAIN q \subseteq Nat /\ \A i \in DOMAIN q : q[i] \in S
  <1>1. DOMAIN q = 1..Len(q) /\ Len(q) \in Nat
    OBVIOUS
  <1> QED
    BY <1>1

\* A table, what its matchers look at, and where they stand
LEMMA TableShape ==
    ASSUME NEW table \in Tables
    PROVE  /\ DOMAIN table \subseteq Nat
           /\ \A j \in DOMAIN table :
                 /\ DOMAIN table[j].matchers \subseteq Nat
                 /\ \A i \in DOMAIN table[j].matchers : "" \notin table[j].matchers[i].values
  <1> DEFINE Matcher == [key : STRING, values : SUBSET (STRING \ {""})]
  <1>1. \A m \in Matcher : "" \notin m.values
    OBVIOUS
  <1>2. table \in Seq([component : STRING, matchers : Seq(Matcher)])
    BY DEF Tables
  <1> HIDE DEF Matcher
  <1> DEFINE Entry == [component : STRING, matchers : Seq(Matcher)]
  <1>3. \A c \in Entry : c.matchers \in Seq(Matcher)
    OBVIOUS
  <1> HIDE DEF Entry
  <1>4. DOMAIN table \subseteq Nat /\ \A j \in DOMAIN table : table[j] \in Entry
    BY <1>2, SeqShape DEF Entry
  <1>5. ASSUME NEW j \in DOMAIN table
        PROVE  /\ DOMAIN table[j].matchers \subseteq Nat
               /\ \A i \in DOMAIN table[j].matchers : table[j].matchers[i] \in Matcher
    <2>1. table[j].matchers \in Seq(Matcher)
      BY <1>3, <1>4, <1>5
    <2> QED
      BY <2>1, SeqShape
  <1> QED
    BY <1>1, <1>4, <1>5

\* Part of the labels of an alert satisfies no matcher that the alert does not.
LEMMA PartAccepts ==
    ASSUME NEW table \in Tables, NEW j \in DOMAIN table,
           NEW a, NEW b, NEW K, Part(b, a, K)
    PROVE  /\ Accepting(table[j], b) \subseteq Accepting(table[j], a)
           /\ \A i \in Accepting(table[j], a) :
                 table[j].matchers[i].key \in K => i \in Accepting(table[j], b)
  <1>1. ASSUME NEW i \in Accepting(table[j], b)
        PROVE  i \in Accepting(table[j], a)
    <2>1. i \in DOMAIN table[j].matchers /\ Label(b, table[j].matchers[i].key) \in table[j].matchers[i].values
      BY <1>1 DEF Accepting
    <2>2. "" \notin table[j].matchers[i].values
      BY <2>1, TableShape
    <2>3. Label(b, table[j].matchers[i].key) = Label(a, table[j].matchers[i].key)
      BY <2>1, <2>2 DEF Part
    <2> QED
      BY <2>1, <2>3 DEF Accepting
  <1>2. ASSUME NEW i \in Accepting(table[j], a), table[j].matchers[i].key \in K
        PROVE  i \in Accepting(table[j], b)
    BY <1>2 DEF Accepting, Part
  <1> QED
    BY <1>1, <1>2

\* The labels that decided lead to the component again, in the same table.
LEMMA PartFinds ==
    ASSUME NEW layer, NEW table \in Tables, NEW a, InTable(table, a),
           NEW K, FindComponent(layer, table, a).keys \subseteq K,
           NEW b, Part(b, a, K)
    PROVE  /\ InTable(table, b)
           /\ FindComponent(layer, table, b).component = FindComponent(layer, table, a).component
  <1> DEFINE In(c) == {j \in DOMAIN table : Accepting(table[j], c) # {}}
             first == Min(In(a))
             key == Min(Accepting(table[first], a))
  <1>1. In(a) # {} /\ In(a) \subseteq Nat
    BY TableShape DEF InTable
  <1>2. first \in In(a)
    BY <1>1, FirstPosition
  <1>3. Accepting(table[first], a) \subseteq Nat /\ Accepting(table[first], a) # {}
    BY <1>2, TableShape DEF Accepting
  <1>4. key \in Accepting(table[first], a)
    BY <1>3, FirstPosition
  <1>5. table[first].matchers[key].key \in K
    BY DEF FindComponent, Mapping, MatchedKeys
  <1>6. key \in Accepting(table[first], b)
    BY <1>2, <1>4, <1>5, PartAccepts
  <1>7. In(b) \subseteq In(a)
    BY PartAccepts
  <1>8. first \in In(b)
    BY <1>2, <1>6
  <1>9. Min(In(b)) = first
    BY <1>1, <1>7, <1>8, FirstOfPart
  <1>10. InTable(table, b)
    BY <1>8 DEF InTable
  <1>11. /\ FindComponent(layer, table, a).component = table[first].component
         /\ FindComponent(layer, table, b).component = table[Min(In(b))].component
    BY DEF FindComponent, Mapping
  <1> QED
    BY <1>9, <1>10, <1>11

\* The source labels of an alert lead to its layer and its component.
LEMMA SourceTells ==
    ASSUME NEW a \in Alerts, Label(a, "alertname") \notin CvoAlerts
    PROVE  /\ DetermineComponent(SrcLabels(a)).layer = DetermineComponent(a).layer
           /\ DetermineComponent(SrcLabels(a)).component = DetermineComponent(a).component
  <1> DEFINE b == SrcLabels(a)
             K == {"namespace", "alertname", "severity"} \cup DetermineComponent(a).keys
  <1>1. Part(b, a, K)
    BY DEF Part, Label, SrcLabels, Mapped
  <1>2. Label(b, "alertname") = Label(a, "alertname")
    BY <1>1 DEF Part
  <1>3. CoreMatchers \in Tables /\ WorkloadMatchers \in Tables
    BY TablesAssumption
  <1>4. \A table \in Tables : InTable(table, b) => InTable(table, a)
    BY <1>1, PartAccepts DEF InTable
  <1> HIDE DEF b
  <1>5. CASE Label(a, "alertname") \in NodeAlerts
    BY <1>2, <1>5 DEF DetermineComponent, b
  <1>6. CASE Label(a, "alertname") \notin NodeAlerts /\ InTable(CoreMatchers, a)
    <2>1. DetermineComponent(a) = FindComponent("core", CoreMatchers, a)
      BY <1>6 DEF DetermineComponent
    <2>2. /\ InTable(CoreMatchers, b)
          /\ FindComponent("core", CoreMatchers, b).component = FindComponent("core", CoreMatchers, a).component
      BY <1>1, <1>3, <1>6, <2>1, PartFinds
    <2>3. DetermineComponent(b) = FindComponent("core", CoreMatchers, b)
      BY <1>2, <1>6, <2>2 DEF DetermineComponent
    <2> QED
      BY <2>1, <2>2, <2>3 DEF FindComponent, Mapping, b
  <1>7. CASE Label(a, "alertname") \notin NodeAlerts /\ ~InTable(CoreMatchers, a) /\ InTable(WorkloadMatchers, a)
    <2>1. DetermineComponent(a) = FindComponent("workload", WorkloadMatchers, a)
      BY <1>7 DEF DetermineComponent
    <2>2. /\ InTable(WorkloadMatchers, b)
          /\ FindComponent("workload", WorkloadMatchers, b).component = FindComponent("workload", WorkloadMatchers, a).component
      BY <1>1, <1>3, <1>7, <2>1, PartFinds
    <2>3. DetermineComponent(b) = FindComponent("workload", WorkloadMatchers, b)
      BY <1>2, <1>3, <1>4, <1>7, <2>2 DEF DetermineComponent
    <2> QED
      BY <2>1, <2>2, <2>3 DEF FindComponent, Mapping, b
  <1>8. CASE Label(a, "alertname") \notin NodeAlerts /\ ~InTable(CoreMatchers, a) /\ ~InTable(WorkloadMatchers, a)
    BY <1>2, <1>3, <1>4, <1>8 DEF DetermineComponent, b
  <1> QED
    BY <1>5, <1>6, <1>7, <1>8

\* What a row exports leads to its component, for any tables of matchers.
THEOREM SourceLabelsCorrect == Spec => []SourceLabelsTellComponent
  <1>1. Inv => SourceLabelsTellComponent
    <2> SUFFICES ASSUME Inv, Exported, NEW r \in Rows, r.srcLabels["alertname"] \notin CvoAlerts
                 PROVE  <<r.layer, r.component>> = Told[r.srcLabels]
      BY DEF SourceLabelsTellComponent
    <2>1. PICK a \in DOMAIN group : r = ComponentHealthMap(a)
      BY DEF Inv, RowsInv, Exported
    <2>2. a \in Alerts
      BY DEF Inv, LoadedInv
    <2>3. /\ r.srcLabels = SrcLabels(a)
          /\ r.layer = DetermineComponent(a).layer
          /\ r.component = DetermineComponent(a).component
      BY <2>1, <2>2 DEF ComponentHealthMap, Mapped
    <2>4. r.srcLabels["alertname"] = Label(a, "alertname")
      BY <2>2, <2>3, AlertsAssumption DEF SrcLabels, Label
    <2>5. Told[r.srcLabels] = <<DetermineComponent(SrcLabels(a)).layer, DetermineComponent(SrcLabels(a)).component>>
      BY <2>2, <2>3 DEF Told
    <2> QED
      BY <2>2, <2>3, <2>4, <2>5, SourceTells
  <1> QED
    BY <1>1, InvInit, InvStep, PTL DEF Spec
---------------------------------------------------------------------------
\* The rank of a listed component follows from its place, which no other one has.
LEMMA RankOfPlace ==
    ASSUME NEW table \in {CoreMatchers, WorkloadMatchers}, NEW c \in Listed(table),
           NEW layer, NEW base \in Nat
    PROVE  \E i \in 1..Len(table) : /\ table[i].component = c
                                    /\ RankIn(layer, table, base, c) = Rank(layer, base + 5 * (i - 1))
  <1>1. DOMAIN table = 1..Len(table)
    BY TablesAssumption, SeqShape DEF Tables
  <1>2. PICK i \in 1..Len(table) : table[i].component = c
    BY <1>1 DEF Listed
  <1>3. \A j \in DOMAIN table : table[j].component = c => j = i
    BY <1>1, <1>2, TablesAssumption
  <1>4. (CHOOSE j \in DOMAIN table : table[j].component = c) = i
    BY <1>1, <1>2, <1>3
  <1> QED
    BY <1>2, <1>4 DEF RankIn

Ranked(c, layer, rank) == ComponentRanks[c].layer = layer /\ ComponentRanks[c].rank = rank

LEMMA RankedAt ==
    ASSUME NEW c, NEW layer, NEW rank, ComponentRanks[c] = Rank(layer, rank)
    PROVE  Ranked(c, layer, rank)
  <1>1. Rank(layer, rank).layer = layer /\ Rank(layer, rank).rank = rank
    BY DEF Rank
  <1> QED
    BY <1>1 DEF Ranked

\* The ranks of a component follow from its place in its table, and no two
\* places have the same one.
LEMMA RanksOfLayers ==
    /\ Ranked("compute", "compute", 1)
    /\ \A c \in Listed(CoreMatchers) :
          \E i \in 1..Len(CoreMatchers) :
             CoreMatchers[i].component = c /\ Ranked(c, "core", 10 + 5 * (i - 1))
    /\ \A c \in Listed(WorkloadMatchers) :
          \E i \in 1..Len(WorkloadMatchers) :
             WorkloadMatchers[i].component = c /\ Ranked(c, "workload", 1000 + 5 * (i - 1))
  <1>1. Ranked("compute", "compute", 1)
    <2>1. ComponentRanks["compute"] = Rank("compute", 1)
      BY TablesAssumption DEF ComponentRanks
    <2> QED
      BY <2>1, RankedAt
  <1>2. ASSUME NEW c \in Listed(CoreMatchers)
        PROVE  \E i \in 1..Len(CoreMatchers) :
                  CoreMatchers[i].component = c /\ Ranked(c, "core", 10 + 5 * (i - 1))
    <2>1. c \notin Listed(WorkloadMatchers)
      BY <1>2, TablesAssumption
    <2>2. ComponentRanks[c] = RankIn("core", CoreMatchers, 10, c)
      BY <1>2, <2>1 DEF ComponentRanks
    <2>3. PICK i \in 1..Len(CoreMatchers) :
             /\ CoreMatchers[i].component = c
             /\ RankIn("core", CoreMatchers, 10, c) = Rank("core", 10 + 5 * (i - 1))
      BY <1>2, RankOfPlace
    <2> QED
      BY <2>2, <2>3, RankedAt
  <1>3. ASSUME NEW c \in Listed(WorkloadMatchers)
        PROVE  \E i \in 1..Len(WorkloadMatchers) :
                  WorkloadMatchers[i].component = c /\ Ranked(c, "workload", 1000 + 5 * (i - 1))
    <2>1. ComponentRanks[c] = RankIn("workload", WorkloadMatchers, 1000, c)
      BY <1>3 DEF ComponentRanks, WorkloadBase
    <2>2. PICK i \in 1..Len(WorkloadMatchers) :
             /\ WorkloadMatchers[i].component = c
             /\ RankIn("workload", WorkloadMatchers, 1000, c) = Rank("workload", 1000 + 5 * (i - 1))
      BY <1>3, RankOfPlace
    <2> QED
      BY <2>1, <2>2, RankedAt
  <1> QED
    BY <1>1, <1>2, <1>3

\* A ranked component is ranked in the layer its alerts are mapped to.
LEMMA MappedToItsLayer ==
    ASSUME NEW a \in Alerts, DetermineComponent(a).component \in DOMAIN ComponentRanks
    PROVE  ComponentRanks[DetermineComponent(a).component].layer = DetermineComponent(a).layer
  <1> DEFINE c == DetermineComponent(a).component
  <1>1. c \in {"compute"} \cup Listed(CoreMatchers) \cup Listed(WorkloadMatchers)
    BY DEF ComponentRanks
  <1>2. /\ c = "compute" => ComponentRanks[c].layer = "compute"
        /\ c \in Listed(CoreMatchers) => ComponentRanks[c].layer = "core"
        /\ c \in Listed(WorkloadMatchers) => ComponentRanks[c].layer = "workload"
    BY RanksOfLayers DEF Ranked
  <1>3. ASSUME NEW layer, NEW table \in Tables, InTable(table, a)
        PROVE  /\ FindComponent(layer, table, a).layer = layer
               /\ FindComponent(layer, table, a).component \in Listed(table)
    <2> DEFINE In == {j \in DOMAIN table : Accepting(table[j], a) # {}}
    <2>1. Min(In) \in In
      BY <1>3, TableShape, FirstPosition DEF InTable
    <2> QED
      BY <2>1 DEF FindComponent, Mapping, Listed
  <1>4. CoreMatchers \in Tables /\ WorkloadMatchers \in Tables
    BY TablesAssumption
  <1>5. CASE Label(a, "alertname") \in CvoAlerts
    <2>1. c = CvoComponent(a) /\ DetermineComponent(a).layer = "core"
      BY <1>5 DEF DetermineComponent, Mapping
    <2>2. c \notin {"compute"} \cup Listed(WorkloadMatchers)
      BY <1>5, <2>1, OperatorsAssumption
    <2> QED
      BY <1>1, <1>2, <2>1, <2>2
  <1>6. CASE Label(a, "alertname") \notin CvoAlerts /\ Label(a, "alertname") \in NodeAlerts
    BY <1>2, <1>6 DEF DetermineComponent, Mapping
  <1>7. CASE /\ Label(a, "alertname") \notin CvoAlerts \cup NodeAlerts
             /\ InTable(CoreMatchers, a)
    BY <1>2, <1>3, <1>4, <1>7 DEF DetermineComponent
  <1>8. CASE /\ Label(a, "alertname") \notin CvoAlerts \cup NodeAlerts
             /\ ~InTable(CoreMatchers, a) /\ InTable(WorkloadMatchers, a)
    BY <1>2, <1>3, <1>4, <1>8 DEF DetermineComponent
  <1>9. CASE /\ Label(a, "alertname") \notin CvoAlerts \cup NodeAlerts
             /\ ~InTable(CoreMatchers, a) /\ ~InTable(WorkloadMatchers, a)
    <2>1. c = "Others"
      BY <1>9 DEF DetermineComponent, Mapping
    <2> QED
      BY <1>1, <2>1, TablesAssumption
  <1> QED
    BY <1>5, <1>6, <1>7, <1>8, <1>9

\* The ranks order the rows by layers, and tell components apart, whatever the
\* tables list.
THEOREM RanksCorrect == Spec => []RanksFollowLayers
  <1>1. Inv => RanksFollowLayers
    <2> SUFFICES ASSUME Inv, Exported,
                        NEW r \in Rows, r.component \in DOMAIN RankOf,
                        NEW s \in Rows, s.component \in DOMAIN RankOf
                 PROVE  /\ LayerOf[r.component] = r.layer
                        /\ <<r.layer, s.layer>> \in
                              {<<"compute", "core">>, <<"compute", "workload">>, <<"core", "workload">>}
                           => RankOf[r.component] < RankOf[s.component]
                        /\ r.component # s.component => RankOf[r.component] # RankOf[s.component]
      BY DEF RanksFollowLayers
    <2>1. ASSUME NEW q \in Rows, q.component \in DOMAIN RankOf
          PROVE  /\ q.component \in DOMAIN ComponentRanks
                 /\ ComponentRanks[q.component].layer = q.layer
      <3>1. PICK a \in DOMAIN group : q = ComponentHealthMap(a)
        BY DEF Inv, RowsInv, Exported
      <3>2. a \in Alerts
        BY DEF Inv, LoadedInv
      <3>3. q.layer = DetermineComponent(a).layer /\ q.component = DetermineComponent(a).component
        BY <3>1, <3>2 DEF ComponentHealthMap, Mapped
      <3>4. q.component \in DOMAIN ComponentRanks
        BY <2>1 DEF RankOf
      <3> QED
        BY <3>2, <3>3, <3>4, MappedToItsLayer
    <2>2. \A c \in DOMAIN ComponentRanks :
             LayerOf[c] = ComponentRanks[c].layer /\ RankOf[c] = ComponentRanks[c].rank
      BY DEF LayerOf, RankOf
    <2>3. ASSUME NEW c \in DOMAIN ComponentRanks, NEW d \in DOMAIN ComponentRanks
          PROVE  /\ <<ComponentRanks[c].layer, ComponentRanks[d].layer>> \in
                       {<<"compute", "core">>, <<"compute", "workload">>, <<"core", "workload">>}
                    => ComponentRanks[c].rank < ComponentRanks[d].rank
                 /\ c # d => ComponentRanks[c].rank # ComponentRanks[d].rank
      <3>1. \A e \in DOMAIN ComponentRanks :
               \/ e = "compute" \/ e \in Listed(CoreMatchers) \/ e \in Listed(WorkloadMatchers)
        BY DEF ComponentRanks
      <3>2. ComponentRanks["compute"].layer = "compute" /\ ComponentRanks["compute"].rank = 1
        BY RanksOfLayers DEF Ranked
      <3>3. \A e \in Listed(CoreMatchers) : \E i \in 1..Len(CoreMatchers) :
               /\ CoreMatchers[i].component = e
               /\ ComponentRanks[e].layer = "core" /\ ComponentRanks[e].rank = 10 + 5 * (i - 1)
        BY RanksOfLayers DEF Ranked
      <3>4. \A e \in Listed(WorkloadMatchers) : \E i \in 1..Len(WorkloadMatchers) :
               /\ WorkloadMatchers[i].component = e
               /\ ComponentRanks[e].layer = "workload" /\ ComponentRanks[e].rank = 1000 + 5 * (i - 1)
        BY RanksOfLayers DEF Ranked
      <3>5. Len(CoreMatchers) \in Nat /\ Len(WorkloadMatchers) \in Nat /\ Len(CoreMatchers) < 199
        BY TablesAssumption, SeqShape DEF Tables
      <3>6. CASE c = "compute"
        BY <3>1, <3>2, <3>3, <3>4, <3>5, <3>6
      <3>7. CASE c \in Listed(CoreMatchers)
        BY <3>1, <3>2, <3>3, <3>4, <3>5, <3>7
      <3>8. CASE c \in Listed(WorkloadMatchers)
        BY <3>1, <3>2, <3>3, <3>4, <3>5, <3>8
      <3> QED
        BY <3>1, <3>6, <3>7, <3>8
    <2> QED
      BY <2>1, <2>2, <2>3
  <1> QED
    BY <1>1, InvInit, InvStep, PTL DEF Spec
=============================================================================
