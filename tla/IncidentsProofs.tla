-------------------------- MODULE IncidentsProofs --------------------------
(***************************************************************************)
(* Theorems about Incidents, for every value of its constants: the type    *)
(* invariant, the shape of the groups, the batches with a Watchdog, and    *)
(* that it implements Assignment.                                          *)
(***************************************************************************)
EXTENDS Incidents, TLAPS

---------------------------------------------------------------------------
(* The operators *)

\* bestMatch returns a group of the collection it searches.
LEMMA BestMatchIsAGroup ==
    ASSUME NEW gs, NEW i
    PROVE  BestMatches(gs, i) \subseteq gs
  BY DEF BestMatches, Closest, ShortCandidates, LongCandidates

\* A larger bound on the ids admits more groups.
LEMMA GroupsBelowMonotonic ==
    ASSUME NEW m \in Nat, NEW n \in Nat, m <= n
    PROVE  GroupsBelow(m) \subseteq GroupsBelow(n)
  <1>1. 1..(m - 1) \subseteq 1..(n - 1)
    OBVIOUS
  <1> QED
    BY <1>1 DEF GroupsBelow

\* newRootGroup makes a well-formed group.
LEMMA RootGroupType ==
    ASSUME NEW n \in Nat, NEW root \in 1..(n - 1), NEW i \in Intervals,
           NEW modified \in Nat
    PROVE  RootGroup(root, i, modified) \in GroupsBelow(n)
  BY DEF RootGroup, Group, GroupsBelow, Intervals, Root

\* alertGroupMatchers makes well-formed groups.
LEMMA AlertGroupsType ==
    ASSUME NEW n \in Nat, NEW root \in 1..(n - 1), NEW i \in Intervals
    PROVE  AlertGroups(root, i) \subseteq GroupsBelow(n)
  <1>1. /\ i.metric \in Alerts
        /\ i.start \in Nat
        /\ i.end \in Nat
    BY DEF Intervals
  <1>2. ASSUME NEW d \in {Exact, Main, Fuzzy, Root}, NEW m, m \subseteq i.metric
        PROVE  MatcherGroup(root, i, d, m) \in GroupsBelow(n)
    <2>1. m \subseteq UNION Alerts
      BY <1>1, <1>2
    <2>2. {m} \in SUBSET MatcherLabels
      BY <2>1 DEF MatcherLabels
    <2> QED
      BY <1>1, <2>2 DEF MatcherGroup, Group, GroupsBelow
  <1>3. MatcherGroup(root, i, Exact, i.metric) \in GroupsBelow(n)
    BY <1>2
  <1>4. MatcherGroup(root, i, Main, Project(i.metric, MainKeys)) \in GroupsBelow(n)
    BY <1>2 DEF Project
  <1>5. ASSUME NEW p \in FuzzyLabels(i.metric)
        PROVE  MatcherGroup(root, i, Fuzzy, {p}) \in GroupsBelow(n)
    <2>1. {p} \subseteq i.metric
      BY <1>5 DEF FuzzyLabels, Project
    <2> QED
      BY <1>2, <2>1
  <1> QED
    BY <1>3, <1>4, <1>5 DEF AlertGroups

\* Touch keeps a group well-formed.
LEMMA TouchType ==
    ASSUME NEW n \in Nat, NEW g \in GroupsBelow(n), NEW i \in Intervals
    PROVE  /\ Touch(g, i) \in GroupsBelow(n)
           /\ Touch(g, i).root = g.root
           /\ Touch(g, i).distance = g.distance
           /\ Touch(g, i).matchers = g.matchers
  <1>1. /\ Later(g.end, i.end) \in Nat
        /\ (IF g.distance > Exact THEN i.start ELSE g.modified) \in Nat
    BY DEF Later, GroupsBelow, Intervals
  <1> QED
    BY <1>1 DEF Touch, GroupsBelow

\* Joining a group keeps the collection well-formed.
LEMMA JoinType ==
    ASSUME NEW n \in Nat, NEW gs, gs \subseteq GroupsBelow(n),
           NEW g \in GroupsBelow(n), NEW i \in Intervals
    PROVE  Join(gs, g, i) \subseteq GroupsBelow(n)
  <1>1. g.root \in 1..(n - 1)
    BY DEF GroupsBelow
  <1>2. AlertGroups(g.root, i) \subseteq GroupsBelow(n)
    BY <1>1, AlertGroupsType
  <1>3. AddedGroups(g, i) \subseteq GroupsBelow(n)
    BY <1>2 DEF AddedGroups
  <1>4. Absorb(g, i) \in GroupsBelow(n)
    <2> DEFINE covered == {c \in AlertGroups(g.root, i) : Covers(c, g)}
               ms == Touch(g, i).matchers \cup UNION {c.matchers : c \in covered}
    <2>1. Touch(g, i) \in GroupsBelow(n)
      BY TouchType
    <2>2. \A c \in covered : c.matchers \in SUBSET MatcherLabels
      BY <1>2 DEF GroupsBelow
    <2>3. ms \in SUBSET MatcherLabels
      BY <2>1, <2>2 DEF GroupsBelow
    <2>4. [Touch(g, i) EXCEPT !.matchers = ms] \in GroupsBelow(n)
      <3> HIDE DEF ms
      <3> QED  BY <2>1, <2>3 DEF GroupsBelow
    <2> QED
      BY <2>4 DEF Absorb
  <1> QED
    BY <1>3, <1>4 DEF Join

---------------------------------------------------------------------------
(* The steps of a process *)

\* The ids of the previous process are never handed out again.
TypeInv == EngineTypeOK /\ PrevUUIDs < nextID

\* The ids of the previous incidents were handed out, and those that the first
\* process finds are of the one before it.
Known(prev) ==
    \A p \in prev :
        /\ p.uuid \in 1..(nextID - 1) /\ p.start \in Nat /\ p.end \in Nat
        /\ now = StartTime => p.uuid \in 1..PrevUUIDs

\* What a process may do, whatever it found at start-up.  What is preserved by
\* these steps holds of Spec and, as far as a crash leaves it, of RestartSpec.
Step ==
    \/ NextChange
    \/ EndChange
    \/ \E prev : Known(prev) /\ UpdateFrom(prev)
    \/ \E i \in todo : TryMatchInterval(i)
    \/ BeginUnmatched
    \/ \E i \in todo : AddInterval(i)
    \/ \E alerts \in SUBSET Alerts, gap \in Gaps : ProcessAlertsBatch(alerts, gap)
    \/ AssignAlertsToGroups
    \/ UpdateHealthMap
    \/ SilencedAlertsError
    \/ Shutdown
    \/ UNCHANGED vars

LEMMA SpecSteps ==
    ASSUME TypeInv, [Next]_vars
    PROVE  Step
  <1>1. ASSUME NEW prev \in HealthMaps
        PROVE  Known(prev)
    <2>1. \A p \in prev : p.uuid \in 1..PrevUUIDs /\ p.start \in Nat /\ p.end \in Nat
      BY RangesAssumption DEF PreviousIncidents
    <2> QED
      BY <2>1, ClockAssumption DEF Known, TypeInv, EngineTypeOK
  <1> QED
    BY <1>1 DEF Next, Stopped, UpdateGroupUUIDs, Step

---------------------------------------------------------------------------
(* Type correctness *)

\* A type-correct iteration of tryMatchIntervals
LEMMA TryMatchType ==
    ASSUME TypeInv, NEW i \in todo, TryMatchInterval(i)
    PROVE  TypeInv'
  <1> USE DEF TypeInv
  <1>1. i \in Intervals /\ i.metric \in Alerts
    BY DEF EngineTypeOK, Intervals
  <1>2. groups' \subseteq GroupsBelow(nextID)
    <2>1. CASE UNCHANGED groups
      BY <2>1 DEF EngineTypeOK
    <2>2. ASSUME NEW g \in BestMatches(groups, i),
                 groups' = Join((groups \ {g}) \cup {Touch(g, i)}, Touch(g, i), i)
          PROVE  groups' \subseteq GroupsBelow(nextID)
      <3>1. g \in GroupsBelow(nextID)
        BY BestMatchIsAGroup DEF EngineTypeOK
      <3>2. nextID \in Nat
        BY DEF EngineTypeOK
      <3>3. Touch(g, i) \in GroupsBelow(nextID)
        BY <1>1, <3>1, <3>2, TouchType
      <3>4. (groups \ {g}) \cup {Touch(g, i)} \subseteq GroupsBelow(nextID)
        BY <3>3 DEF EngineTypeOK
      <3> QED
        BY <1>1, <2>2, <3>2, <3>3, <3>4, JoinType
    <2> QED
      BY <2>1, <2>2 DEF TryMatchInterval
  <1>3. grouped' \subseteq [metric : Alerts, id : 1..(nextID - 1)]
    <2>1. CASE UNCHANGED grouped
      BY <2>1 DEF EngineTypeOK
    <2>2. ASSUME NEW g \in BestMatches(groups, i), grouped' = grouped \cup {Grouped(i, g)}
          PROVE  grouped' \subseteq [metric : Alerts, id : 1..(nextID - 1)]
      <3>1. g \in GroupsBelow(nextID)
        BY BestMatchIsAGroup DEF EngineTypeOK
      <3>2. g.root \in 1..(nextID - 1)
        BY <3>1 DEF GroupsBelow
      <3> QED
        BY <1>1, <2>2, <3>2 DEF EngineTypeOK, Grouped
    <2> QED
      BY <2>1, <2>2 DEF TryMatchInterval
  <1>4. unmatched' \subseteq Intervals
    BY <1>1 DEF TryMatchInterval, EngineTypeOK
  <1> QED
    BY <1>2, <1>3, <1>4 DEF TryMatchInterval, EngineTypeOK, boot

\* A type-correct start of addIntervalsGroups
LEMMA BeginUnmatchedType ==
    ASSUME TypeInv, BeginUnmatched
    PROVE  TypeInv'
  <1> USE DEF TypeInv
  <1>1. CASE UNCHANGED <<fresh, shared, nextID>>
    BY <1>1 DEF BeginUnmatched, EngineTypeOK, boot
  <1>2. ASSUME NEW i \in unmatched,
               shared' = {RootGroup(nextID, i, i.start)},
               fresh' = shared', nextID' = nextID + 1
        PROVE  TypeInv'
    <2>1. nextID \in Nat \ {0} /\ nextID' \in Nat \ {0} /\ nextID \in 1..(nextID' - 1)
      BY <1>2 DEF EngineTypeOK
    <2>2. i \in Intervals /\ i.start \in Nat
      BY DEF EngineTypeOK, Intervals
    <2>3. RootGroup(nextID, i, i.start) \in GroupsBelow(nextID')
      BY <2>1, <2>2, RootGroupType
    <2>4. GroupsBelow(nextID) \subseteq GroupsBelow(nextID')
      BY <1>2, <2>1, GroupsBelowMonotonic
    <2>5. 1..(nextID - 1) \subseteq 1..(nextID' - 1)
      BY <1>2, <2>1
    <2>6. /\ grouped' \subseteq [metric : Alerts, id : 1..(nextID' - 1)]
          /\ published' \subseteq [metric : Alerts, id : 1..(nextID' - 1), at : Nat]
      BY <2>5 DEF BeginUnmatched, boot, EngineTypeOK
    <2> QED
      BY <1>2, <2>1, <2>3, <2>4, <2>6, ClockAssumption DEF BeginUnmatched, boot, EngineTypeOK
  <1> QED
    BY <1>1, <1>2 DEF BeginUnmatched

\* A type-correct iteration of addIntervalsGroups
LEMMA AddIntervalType ==
    ASSUME TypeInv, NEW i \in todo, AddInterval(i)
    PROVE  TypeInv'
  <1> USE DEF TypeInv
  <1>1. i \in Intervals /\ i.metric \in Alerts
    BY DEF EngineTypeOK, Intervals
  <1>2. ASSUME NEW g \in Candidates(i),
               fresh' = Join(fresh, g, i),
               grouped' = grouped \cup {Grouped(i, g)},
               UNCHANGED nextID
        PROVE  TypeInv'
    <2>1. g \in GroupsBelow(nextID) /\ nextID \in Nat
      <3>1. CASE shared # {}
        BY <3>1 DEF Candidates, EngineTypeOK
      <3>2. CASE shared = {}
        BY <3>2, BestMatchIsAGroup DEF Candidates, EngineTypeOK
      <3> QED
        BY <3>1, <3>2
    <2>2. fresh' \subseteq GroupsBelow(nextID)
      BY <1>1, <1>2, <2>1, JoinType DEF EngineTypeOK
    <2>3. g.root \in 1..(nextID - 1)
      BY <2>1 DEF GroupsBelow
    <2>4. grouped' \subseteq [metric : Alerts, id : 1..(nextID - 1)]
      BY <1>1, <1>2, <2>3 DEF Grouped, EngineTypeOK
    <2> QED
      BY <1>2, <2>2, <2>4 DEF AddInterval, EngineTypeOK, boot
  <1>3. ASSUME fresh' = Join(fresh, RootGroup(nextID, i, 0), i),
               grouped' = grouped \cup {Grouped(i, RootGroup(nextID, i, 0))},
               nextID' = nextID + 1
        PROVE  TypeInv'
    <2> DEFINE g == RootGroup(nextID, i, 0)
    <2>1. nextID \in Nat \ {0} /\ nextID' \in Nat \ {0} /\ nextID \in 1..(nextID' - 1)
      BY <1>3 DEF EngineTypeOK
    <2>2. GroupsBelow(nextID) \subseteq GroupsBelow(nextID')
      BY <1>3, <2>1, GroupsBelowMonotonic
    <2>3. g \in GroupsBelow(nextID')
      BY <1>1, <2>1, RootGroupType
    <2>4. fresh' \subseteq GroupsBelow(nextID')
      <3>1. fresh \subseteq GroupsBelow(nextID')
        BY <2>2 DEF EngineTypeOK
      <3> QED
        BY <1>1, <1>3, <2>1, <2>3, <3>1, JoinType
    <2>5. 1..(nextID - 1) \subseteq 1..(nextID' - 1)
      BY <1>3, <2>1
    <2>6. Grouped(i, g) \in [metric : Alerts, id : 1..(nextID' - 1)]
      BY <1>1, <2>1 DEF Grouped, RootGroup, Group
    <2>7. /\ grouped' \subseteq [metric : Alerts, id : 1..(nextID' - 1)]
          /\ published' \subseteq [metric : Alerts, id : 1..(nextID' - 1), at : Nat]
      BY <1>3, <2>5, <2>6 DEF AddInterval, EngineTypeOK
    <2>8. /\ groups' \subseteq GroupsBelow(nextID')
          /\ shared' \subseteq GroupsBelow(nextID')
      BY <2>2 DEF AddInterval, EngineTypeOK
    <2> QED
      BY <1>3, <2>1, <2>4, <2>7, <2>8, ClockAssumption DEF AddInterval, EngineTypeOK, boot
  <1> QED
    BY <1>2, <1>3 DEF AddInterval

\* Type-correct renaming of the groups
LEMMA UpdateFromType ==
    ASSUME TypeInv, NEW prev, Known(prev), UpdateFrom(prev)
    PROVE  TypeInv'
  <1> USE DEF TypeInv
  <1> DEFINE roots == {g.root : g \in groups}
  <1>1. PICK new \in [roots -> roots \cup {p.uuid : p \in prev}] :
          groups' = {[g EXCEPT !.root = new[g.root]] : g \in groups}
    BY DEF UpdateFrom
  <1>2. roots \cup {p.uuid : p \in prev} \subseteq 1..(nextID - 1)
    BY DEF EngineTypeOK, GroupsBelow, Known
  <1>3. ASSUME NEW g \in groups
        PROVE  [g EXCEPT !.root = new[g.root]] \in GroupsBelow(nextID)
    <2>1. g.root \in roots
      OBVIOUS
    <2>2. new[g.root] \in 1..(nextID - 1)
      BY <1>1, <1>2, <2>1
    <2> QED
      BY <2>2 DEF EngineTypeOK, GroupsBelow
  <1>4. groups' \subseteq GroupsBelow(nextID)
    BY <1>1, <1>3
  <1> QED
    BY <1>4 DEF UpdateFrom, EngineTypeOK

\* Type-correct start and end of the batches
LEMMA BatchType ==
    ASSUME TypeInv,
           \/ NextChange
           \/ EndChange
           \/ \E alerts \in SUBSET Alerts, gap \in Gaps : ProcessAlertsBatch(alerts, gap)
           \/ AssignAlertsToGroups
    PROVE  TypeInv'
  <1> USE DEF TypeInv
  <1>1. CASE NextChange
    <2>1. changes \subseteq Intervals
      BY DEF EngineTypeOK
    <2>2. todo' \subseteq Intervals /\ changes' \subseteq history
      BY <1>1, <2>1 DEF NextChange, EngineTypeOK
    <2> QED
      BY <1>1, <2>2 DEF NextChange, EngineTypeOK
  <1>2. CASE EndChange
    BY <1>2 DEF EndChange, EngineTypeOK, boot
  <1>3. ASSUME NEW alerts \in SUBSET Alerts, NEW gap \in Gaps,
               ProcessAlertsBatch(alerts, gap)
        PROVE  TypeInv'
    <2>1. now' \in Nat
      BY <1>3, ClockAssumption DEF ProcessAlertsBatch, EngineTypeOK
    <2>2. todo' \subseteq Intervals
      BY <1>3, <2>1 DEF ProcessAlertsBatch, Intervals
    <2> QED
      BY <1>3, <2>1, <2>2 DEF ProcessAlertsBatch, EngineTypeOK, boot
  <1>4. CASE AssignAlertsToGroups
    <2>1. ASSUME NEW h \in groups \cup fresh
          PROVE  Stamp(h) \in GroupsBelow(nextID)
      <3>1. h \in GroupsBelow(nextID)
        BY DEF EngineTypeOK
      <3>2. <<"group_id", h.root>> \in {"group_id"} \X Nat
        BY <3>1 DEF GroupsBelow, EngineTypeOK
      <3> DEFINE ms == {m \cup {<<"group_id", h.root>>} : m \in h.matchers}
      <3>3. ms \in SUBSET MatcherLabels
        BY <3>1, <3>2 DEF GroupsBelow, MatcherLabels
      <3>4. [h EXCEPT !.matchers = ms] \in GroupsBelow(nextID)
        <4> HIDE DEF ms
        <4> QED
          BY <3>1, <3>3 DEF GroupsBelow
      <3> QED
        BY <3>1, <3>4 DEF Stamp
    <2>2. groups' \subseteq GroupsBelow(nextID)
      BY <1>4, <2>1 DEF AssignAlertsToGroups
    <2> QED
      BY <1>4, <2>2 DEF AssignAlertsToGroups, EngineTypeOK, boot
  <1> QED
    BY <1>1, <1>2, <1>3, <1>4

\* The export, or its failure, is type-correct.
LEMMA ExportType ==
    ASSUME TypeInv, UpdateHealthMap \/ SilencedAlertsError \/ Shutdown \/ UNCHANGED vars
    PROVE  TypeInv'
  <1> USE DEF TypeInv
  <1>1. CASE UpdateHealthMap
    <2>1. published' \subseteq [metric : Alerts, id : 1..(nextID - 1), at : Nat]
      BY <1>1 DEF UpdateHealthMap, EngineTypeOK
    <2> QED
      BY <1>1, <2>1 DEF UpdateHealthMap, EngineTypeOK, boot
  <1>2. CASE SilencedAlertsError
    BY <1>2 DEF SilencedAlertsError, EngineTypeOK, boot
  <1>3. CASE Shutdown
    BY <1>3 DEF Shutdown, EngineTypeOK, boot
  <1>4. CASE UNCHANGED vars
    BY <1>4 DEF vars, EngineTypeOK
  <1> QED
    BY <1>1, <1>2, <1>3, <1>4

\* The invariant is inductive.
LEMMA TypeInvInit ==
    ASSUME Init
    PROVE  TypeInv
  <1>1. nextID \in Nat \ {0} /\ PrevUUIDs < nextID /\ now \in Nat
    BY ClockAssumption DEF Init
  <1>2. /\ {} \subseteq GroupsBelow(nextID) /\ {} \subseteq Intervals
        /\ history \subseteq Intervals /\ changes \subseteq history
    BY RangesAssumption DEF Init
  <1> QED
    BY <1>1, <1>2 DEF Init, TypeInv, EngineTypeOK

LEMMA TypeInvInductive ==
    ASSUME TypeInv, Step
    PROVE  TypeInv'
  BY TryMatchType, BeginUnmatchedType, AddIntervalType, UpdateFromType,
     BatchType, ExportType DEF Step

LEMMA TypeInvCorrect == Spec => []TypeInv
  <1>1. Init => TypeInv
    BY TypeInvInit
  <1>2. TypeInv /\ [Next]_vars => TypeInv'
    BY SpecSteps, TypeInvInductive
  <1> QED
    BY <1>1, <1>2, PTL DEF Spec

\* Every reachable state is type-correct: in particular, every group and every
\* exported alert carries an id handed out before.
THEOREM TypeCorrect == Spec => []TypeOK
  <1> DEFINE Found == history \in Histories /\ health \subseteq PreviousIncidents
  <1>1. Init => Found
    BY DEF Init
  <1>2. Found /\ [Next]_vars => Found'
    <2> SUFFICES ASSUME Found, [Next]_vars
                 PROVE  Found'
      OBVIOUS
    <2>1. UNCHANGED history
      BY DEF Next, vars, boot, Stopped, NextChange, EndChange, UpdateGroupUUIDs, UpdateFrom,
             TryMatchInterval, BeginUnmatched, AddInterval, ProcessAlertsBatch,
             AssignAlertsToGroups, UpdateHealthMap, SilencedAlertsError, Shutdown
    <2>2. health' = health \/ health' \in HealthMaps
      BY DEF Next, vars, boot, Stopped, NextChange, EndChange, UpdateGroupUUIDs, UpdateFrom,
             TryMatchInterval, BeginUnmatched, AddInterval, ProcessAlertsBatch,
             AssignAlertsToGroups, UpdateHealthMap, SilencedAlertsError, Shutdown
    <2> QED
      BY <2>1, <2>2, RangesAssumption
  <1>3. TypeInv /\ Found => TypeOK
    BY DEF TypeInv, TypeOK
  <1> HIDE DEF Found
  <1> QED
    BY <1>1, <1>2, <1>3, TypeInvCorrect, PTL DEF Spec

---------------------------------------------------------------------------
(* One matcher per group *)

\* What the matchers of a group look like while a batch is worked off
OneMatcherInv == \A g \in groups \cup fresh \cup shared : OneMatcher(g)

\* Every group alertGroupMatchers makes has one matcher.
LEMMA AlertGroupsOneMatcher ==
    ASSUME NEW root, NEW i, NEW c \in AlertGroups(root, i)
    PROVE  c.distance # Root /\ \E m \in c.matchers : c.matchers = {m}
  <1>1. \A d, m : /\ MatcherGroup(root, i, d, m).distance = d
                  /\ MatcherGroup(root, i, d, m).matchers = {m}
    BY DEF MatcherGroup, Group
  <1>2. \/ c = MatcherGroup(root, i, Exact, i.metric)
        \/ c = MatcherGroup(root, i, Main, Project(i.metric, MainKeys))
        \/ \E p \in FuzzyLabels(i.metric) : c = MatcherGroup(root, i, Fuzzy, {p})
    BY DEF AlertGroups
  <1>3. PICK d \in {Exact, Main, Fuzzy} : \E m : c = MatcherGroup(root, i, d, m)
    BY <1>2
  <1>4. PICK m : c = MatcherGroup(root, i, d, m)
    BY <1>3
  <1>5. c.distance = d /\ c.matchers = {m}
    BY <1>1, <1>4
  <1> QED
    BY <1>5 DEF Exact, Main, Fuzzy, Root

\* Joining a group adds no second matcher to it: the groups it can take in
\* hold the very matcher it has.
LEMMA JoinOneMatcher ==
    ASSUME NEW gs, \A h \in gs : OneMatcher(h),
           NEW n \in Nat, NEW g \in GroupsBelow(n), OneMatcher(g),
           NEW i \in Intervals
    PROVE  \A h \in Join(gs, g, i) : OneMatcher(h)
  <1>1. ASSUME NEW h \in AddedGroups(g, i)
        PROVE  OneMatcher(h)
    <2>1. h \in AlertGroups(g.root, i)
      BY DEF AddedGroups
    <2> QED
      BY <2>1, AlertGroupsOneMatcher DEF OneMatcher
  <1>2. OneMatcher(Absorb(g, i))
    <2> DEFINE covered == {c \in AlertGroups(g.root, i) : Covers(c, g)}
               ms == Touch(g, i).matchers \cup UNION {c.matchers : c \in covered}
    <2>1. CASE covered = {} \/ g.distance = Exact
      BY <2>1 DEF Absorb
    <2>2. CASE covered # {} /\ g.distance # Exact
      <3>1. g.distance # Root
        BY <2>2, AlertGroupsOneMatcher DEF Covers
      <3>2. PICK m \in g.matchers : g.matchers = {m}
        BY <3>1 DEF OneMatcher
      <3>3. \A c \in covered : c.matchers = {m}
        BY <3>2, AlertGroupsOneMatcher DEF Covers
      <3>4. Touch(g, i) \in GroupsBelow(n) /\ Touch(g, i).matchers = {m}
        BY <3>2, TouchType
      <3>5. ms = {m}
        BY <3>3, <3>4
      <3>6. Absorb(g, i) = [Touch(g, i) EXCEPT !.matchers = {m}]
        BY <2>2, <3>5 DEF Absorb
      <3>7. Absorb(g, i).matchers = {m} /\ Absorb(g, i).distance = g.distance
        BY <3>4, <3>6, TouchType DEF GroupsBelow
      <3> QED
        BY <3>1, <3>7 DEF OneMatcher
    <2> QED
      BY <2>1, <2>2
  <1> QED
    BY <1>1, <1>2 DEF Join

LEMMA OneMatcherInductive ==
    ASSUME TypeInv, OneMatcherInv, Step
    PROVE  OneMatcherInv'
  <1> USE DEF TypeInv
  <1>1. \A root, i, modified : OneMatcher(RootGroup(root, i, modified))
    BY DEF OneMatcher, RootGroup, Group
  <1>2. \A i \in todo : i \in Intervals
    BY DEF EngineTypeOK
  <1>3. ASSUME NEW i \in todo, TryMatchInterval(i)
        PROVE  OneMatcherInv'
    <2>1. CASE UNCHANGED groups
      BY <1>3, <2>1 DEF TryMatchInterval, OneMatcherInv
    <2>2. ASSUME NEW g \in BestMatches(groups, i),
                 groups' = Join((groups \ {g}) \cup {Touch(g, i)}, Touch(g, i), i)
          PROVE  OneMatcherInv'
      <3>1. g \in groups /\ g \in GroupsBelow(nextID) /\ nextID \in Nat
        BY BestMatchIsAGroup DEF EngineTypeOK
      <3>2. Touch(g, i) \in GroupsBelow(nextID) /\ OneMatcher(Touch(g, i))
        BY <1>2, <3>1, TouchType DEF OneMatcher, OneMatcherInv
      <3>3. \A h \in groups' : OneMatcher(h)
        BY <1>2, <2>2, <3>1, <3>2, JoinOneMatcher DEF OneMatcherInv
      <3> QED
        BY <1>3, <3>3 DEF TryMatchInterval, OneMatcherInv
    <2> QED
      BY <1>3, <2>1, <2>2 DEF TryMatchInterval
  <1>4. CASE BeginUnmatched
    BY <1>1, <1>4 DEF BeginUnmatched, OneMatcherInv
  <1>5. ASSUME NEW i \in todo, AddInterval(i)
        PROVE  OneMatcherInv'
    <2>1. ASSUME NEW g \in Candidates(i), fresh' = Join(fresh, g, i)
          PROVE  OneMatcherInv'
      <3>1. g \in fresh \cup shared
        BY BestMatchIsAGroup DEF Candidates
      <3>2. g \in GroupsBelow(nextID) /\ nextID \in Nat /\ OneMatcher(g)
        BY <3>1 DEF EngineTypeOK, OneMatcherInv
      <3>3. \A h \in fresh' : OneMatcher(h)
        BY <1>2, <2>1, <3>2, JoinOneMatcher DEF OneMatcherInv
      <3> QED
        BY <1>5, <3>3 DEF AddInterval, OneMatcherInv
    <2>2. ASSUME fresh' = Join(fresh, RootGroup(nextID, i, 0), i)
          PROVE  OneMatcherInv'
      <3>1. nextID + 1 \in Nat /\ nextID \in 1..((nextID + 1) - 1)
        BY DEF EngineTypeOK
      <3>2. RootGroup(nextID, i, 0) \in GroupsBelow(nextID + 1)
        BY <1>2, <3>1, RootGroupType
      <3>3. \A h \in fresh' : OneMatcher(h)
        BY <1>1, <1>2, <2>2, <3>1, <3>2, JoinOneMatcher DEF OneMatcherInv
      <3> QED
        BY <1>5, <3>3 DEF AddInterval, OneMatcherInv
    <2> QED
      BY <1>5, <2>1, <2>2 DEF AddInterval
  <1>6. CASE EndChange
    BY <1>6 DEF EndChange, OneMatcherInv
  <1>7. CASE \E prev : Known(prev) /\ UpdateFrom(prev)
    <2>1. ASSUME NEW g \in groups, NEW r
          PROVE  OneMatcher([g EXCEPT !.root = r])
      <3>1. g \in GroupsBelow(nextID) /\ OneMatcher(g)
        BY DEF EngineTypeOK, OneMatcherInv
      <3>2. /\ [g EXCEPT !.root = r].distance = g.distance
            /\ [g EXCEPT !.root = r].matchers = g.matchers
        BY <3>1 DEF GroupsBelow
      <3> QED
        BY <3>1, <3>2 DEF OneMatcher
    <2>2. PICK new : groups' = {[g EXCEPT !.root = new[g.root]] : g \in groups}
      BY <1>7 DEF UpdateFrom
    <2>3. \A h \in groups' : OneMatcher(h)
      BY <2>1, <2>2
    <2> QED
      BY <1>7, <2>3 DEF UpdateFrom, OneMatcherInv
  <1>8. CASE AssignAlertsToGroups
    <2>1. ASSUME NEW h \in groups \cup fresh
          PROVE  OneMatcher(Stamp(h))
      <3>1. CASE Stamp(h) = h
        BY <3>1 DEF OneMatcherInv
      <3>2. CASE h.distance = Exact
        <4> DEFINE stamp(m) == m \cup {<<"group_id", h.root>>}
                   ms == {stamp(m) : m \in h.matchers}
        <4>1. PICK m \in h.matchers : h.matchers = {m}
          BY <3>2 DEF OneMatcherInv, OneMatcher, Exact, Root
        <4>2. ms = {stamp(m)}
          BY <4>1
        <4>3. h \in GroupsBelow(nextID)
          BY DEF EngineTypeOK
        <4>4. CASE Stamp(h) = [h EXCEPT !.matchers = ms]
          <5>1. Stamp(h).matchers = {stamp(m)} /\ Stamp(h).distance = Exact
            BY <3>2, <4>2, <4>3, <4>4 DEF GroupsBelow
          <5> QED
            BY <5>1 DEF OneMatcher, Exact, Root
        <4> QED
          BY <3>1, <4>4 DEF Stamp
      <3> QED
        BY <3>1, <3>2 DEF Stamp
    <2> QED
      BY <1>8, <2>1 DEF AssignAlertsToGroups, OneMatcherInv
  <1>9. CASE \/ NextChange
             \/ \E alerts \in SUBSET Alerts, gap \in Gaps : ProcessAlertsBatch(alerts, gap)
             \/ UpdateHealthMap \/ SilencedAlertsError \/ Shutdown \/ UNCHANGED vars
    BY <1>9 DEF NextChange, ProcessAlertsBatch, UpdateHealthMap, SilencedAlertsError,
                Shutdown, vars, OneMatcherInv
  <1> QED
    BY <1>3, <1>4, <1>5, <1>6, <1>7, <1>8, <1>9 DEF Step

\* Every group of every reachable state is matched by at most one label set.
THEOREM OneMatcherCorrect == Spec => []OneMatcherPerGroup
  <1>1. Init => OneMatcherInv
    BY DEF Init, OneMatcherInv
  <1>2. TypeInv /\ OneMatcherInv /\ [Next]_vars => OneMatcherInv'
    BY SpecSteps, OneMatcherInductive
  <1>3. OneMatcherInv => OneMatcherPerGroup
    BY DEF OneMatcherInv, OneMatcherPerGroup
  <1> QED
    BY <1>1, <1>2, <1>3, TypeInvCorrect, PTL DEF Spec

---------------------------------------------------------------------------
(* Incidents and groups *)

LEMMA RootsAdd ==
    ASSUME NEW gs, NEW g
    PROVE  Roots(gs \cup {g}) = Roots(gs) \cup {g.root}
  BY DEF Roots

\* Joining a group opens its incident and leaves the others as they are.
LEMMA JoinRoots ==
    ASSUME NEW n \in Nat, NEW gs, NEW g \in GroupsBelow(n), NEW i \in Intervals
    PROVE  Roots(Join(gs, g, i)) = Roots(gs) \cup {g.root}
  <1>1. \A c \in AddedGroups(g, i) : c.root = g.root
    BY DEF AddedGroups, AlertGroups, MatcherGroup, Group
  <1>2. Absorb(g, i).root = g.root
    <2>1. Touch(g, i) \in GroupsBelow(n) /\ Touch(g, i).root = g.root
      BY TouchType
    <2>2. \A ms : [Touch(g, i) EXCEPT !.matchers = ms].root = g.root
      BY <2>1 DEF GroupsBelow
    <2> QED
      BY <2>2 DEF Absorb
  <1> QED
    BY <1>1, <1>2 DEF Join, Roots

\* The same when the group has just been touched
LEMMA TouchedJoinRoots ==
    ASSUME NEW n \in Nat, NEW gs, NEW g \in GroupsBelow(n), NEW i \in Intervals
    PROVE  Roots(Join(gs, Touch(g, i), i)) = Roots(gs) \cup {g.root}
  <1>1. Touch(g, i) \in GroupsBelow(n) /\ Touch(g, i).root = g.root
    BY TouchType
  <1>2. Roots(Join(gs, Touch(g, i), i)) = Roots(gs) \cup {Touch(g, i).root}
    BY <1>1, JoinRoots, Zenon
  <1> QED
    BY <1>1, <1>2

---------------------------------------------------------------------------
(* Batches with a Watchdog *)

\* g is one of the groups that alertGroupMatchers makes for alert b.
IsFrom(g, b) ==
    \/ g.distance = Exact /\ g.matchers = {b}
    \/ g.distance = Main /\ g.matchers = {Project(b, MainKeys)}
    \/ g.distance = Fuzzy /\ \E p \in FuzzyLabels(b) : g.matchers = {{p}}

\* A new group is an inactive root, or comes from an alert that has its id.
Explained(g) ==
    IF g.distance = Root
      THEN g.matchers = {} /\ g.modified = 0
      ELSE \E b \in Alerts : IsFrom(g, b) /\ [metric |-> b, id |-> g.root] \in grouped

\* Nothing is so old that an inactive root is near to it.
TimesInv ==
    /\ LongDelta < now
    /\ \A i \in changes \cup todo \cup unmatched : LongDelta < i.start

\* A batch begins with nothing grouped; what is matched has the id of a group.
MatchedInv ==
    /\ pc \in {"history", "idle", "stopped"} => grouped = {}
    /\ pc = "match" => \A p \in grouped : p.id \in Roots(groups)
    /\ pc # "group" => fresh = {} /\ shared = {}

WatchdogInv ==
    /\ TimesInv
    /\ MatchedInv
    /\ pc = "group" /\ shared = {} => \A g \in fresh : Explained(g)
    /\ WatchdogBatchLinked

\* Two alerts that share a fuzzy label
Linked(a, b) == FuzzyLabels(a) \cap FuzzyLabels(b) # {}

\* An alert whose main labels are found in another's shares its name with it.
LEMMA NestedAreLinked ==
    ASSUME NEW a \in Alerts, NEW b \in Alerts, a # b, Project(b, MainKeys) \subseteq a
    PROVE  Linked(a, b)
  <1>1. PICK p \in b : p[1] = "alertname"
    BY NamesAssumption
  <1>2. p \in a
    BY <1>1 DEF Project, MainKeys
  <1>3. FuzzyLabels(a) # {}
    BY NamesAssumption
  <1>4. ~(Watchdog \subseteq a) /\ ~(NoReceivers \subseteq a)
    BY <1>3 DEF FuzzyLabels
  <1>5. ASSUME NEW W \in {Watchdog, NoReceivers}, W \subseteq b
        PROVE  FALSE
    <2>1. W \subseteq Project(b, MainKeys)
      BY <1>5 DEF Project, MainKeys, Watchdog, NoReceivers
    <2> QED
      BY <1>4, <2>1
  <1>6. p \in FuzzyLabels(a) /\ p \in FuzzyLabels(b)
    BY <1>1, <1>2, <1>4, <1>5 DEF FuzzyLabels, Project
  <1> QED
    BY <1>6 DEF Linked

\* What a group of one alert matches has a label in common with it.
LEMMA MatchIsLinked ==
    ASSUME NEW g, NEW b \in Alerts, IsFrom(g, b),
           NEW i \in Intervals, i.metric # b,
           \E m \in g.matchers : m \subseteq LabelsFor(g, i)
    PROVE  Linked(i.metric, b)
  <1>1. i.metric \in Alerts
    BY DEF Intervals
  <1>2. CASE g.distance = Exact /\ g.matchers = {b}
    <2>1. b \subseteq i.metric
      BY <1>2 DEF LabelsFor, Exact, Fuzzy
    <2>2. Project(b, MainKeys) \subseteq i.metric
      BY <2>1 DEF Project
    <2> QED
      BY <1>1, <2>2, NestedAreLinked
  <1>3. CASE g.distance = Main /\ g.matchers = {Project(b, MainKeys)}
    <2>1. Project(b, MainKeys) \subseteq i.metric
      BY <1>3 DEF LabelsFor, Main, Fuzzy
    <2> QED
      BY <1>1, <2>1, NestedAreLinked
  <1>4. CASE g.distance = Fuzzy /\ \E p \in FuzzyLabels(b) : g.matchers = {{p}}
    <2>1. PICK p \in FuzzyLabels(b) : g.matchers = {{p}}
      BY <1>4
    <2>2. p \in FuzzyLabels(i.metric)
      BY <1>4, <2>1 DEF LabelsFor, Fuzzy
    <2> QED
      BY <2>1, <2>2 DEF Linked
  <1> QED
    BY <1>2, <1>3, <1>4 DEF IsFrom

\* The groups an alert adds come from it.
LEMMA AddedAreFrom ==
    ASSUME NEW g, NEW i, NEW c \in AddedGroups(g, i)
    PROVE  c.distance # Root /\ c.root = g.root /\ IsFrom(c, i.metric)
  <1>1. \A d, m : /\ MatcherGroup(g.root, i, d, m).distance = d
                  /\ MatcherGroup(g.root, i, d, m).matchers = {m}
                  /\ MatcherGroup(g.root, i, d, m).root = g.root
    BY DEF MatcherGroup, Group
  <1>2. \/ c = MatcherGroup(g.root, i, Exact, i.metric)
        \/ c = MatcherGroup(g.root, i, Main, Project(i.metric, MainKeys))
        \/ \E p \in FuzzyLabels(i.metric) : c = MatcherGroup(g.root, i, Fuzzy, {p})
    BY DEF AddedGroups, AlertGroups
  <1>3. CASE c = MatcherGroup(g.root, i, Exact, i.metric)
    BY <1>1, <1>3 DEF IsFrom, Exact, Root
  <1>4. CASE c = MatcherGroup(g.root, i, Main, Project(i.metric, MainKeys))
    BY <1>1, <1>4 DEF IsFrom, Main, Root
  <1>5. ASSUME NEW p \in FuzzyLabels(i.metric), c = MatcherGroup(g.root, i, Fuzzy, {p})
        PROVE  c.distance # Root /\ c.root = g.root /\ IsFrom(c, i.metric)
    <2>1. c.distance = Fuzzy /\ c.matchers = {{p}} /\ c.root = g.root
      BY <1>1, <1>5
    <2>2. IsFrom(c, i.metric)
      BY <1>5, <2>1, Zenon DEF IsFrom
    <2>3. c.distance # Root
      BY <2>1 DEF Fuzzy, Root
    <2> QED
      BY <2>1, <2>2, <2>3
  <1> QED
    BY <1>2, <1>3, <1>4, <1>5

\* A root takes in nothing.
LEMMA RootAbsorbsNothing ==
    ASSUME NEW g, g.distance = Root, NEW i
    PROVE  Absorb(g, i) = g
  <1>1. \A c \in AlertGroups(g.root, i) : ~Covers(c, g)
    BY AlertGroupsOneMatcher DEF Covers
  <1> QED
    BY <1>1 DEF Absorb

\* A group of one alert remains one.
LEMMA AbsorbIsFrom ==
    ASSUME NEW n \in Nat, NEW g \in GroupsBelow(n), NEW i \in Intervals,
           g.distance # Root, OneMatcher(g)
    PROVE  /\ Absorb(g, i).distance = g.distance /\ Absorb(g, i).root = g.root
           /\ Absorb(g, i).matchers = g.matchers
  <1> DEFINE covered == {c \in AlertGroups(g.root, i) : Covers(c, g)}
             ms == Touch(g, i).matchers \cup UNION {c.matchers : c \in covered}
  <1>1. PICK m \in g.matchers : g.matchers = {m}
    BY DEF OneMatcher
  <1>2. \A c \in covered : c.matchers = {m}
    BY <1>1, AlertGroupsOneMatcher DEF Covers
  <1>3. /\ Touch(g, i) \in GroupsBelow(n) /\ Touch(g, i).matchers = {m}
        /\ Touch(g, i).root = g.root /\ Touch(g, i).distance = g.distance
    BY <1>1, TouchType
  <1>4. ms = {m}
    BY <1>2, <1>3
  <1>5. Absorb(g, i) = g \/ Absorb(g, i) = [Touch(g, i) EXCEPT !.matchers = {m}]
    BY <1>4 DEF Absorb
  <1>6. LET h == [Touch(g, i) EXCEPT !.matchers = {m}]
        IN  h.distance = g.distance /\ h.root = g.root /\ h.matchers = {m}
    BY <1>3 DEF GroupsBelow
  <1> QED
    BY <1>1, <1>5, <1>6

\* An alert that joins a group of a linked alert, or its own
LEMMA JoinLinked ==
    ASSUME EngineTypeOK, WatchdogInv, NEW i \in todo, AddInterval(i), shared = {},
           NEW g \in Candidates(i),
           fresh' = Join(fresh, g, i), grouped' = grouped \cup {Grouped(i, g)}
    PROVE  (\A h \in fresh' : Explained(h)') /\ WatchdogBatchLinked'
  <1>1. /\ pc = "group" /\ g \in BestMatches(fresh, i)
        /\ groups' = groups /\ shared' = shared /\ pc' = pc
    BY DEF AddInterval, Candidates, boot
  <1>2. g \in fresh /\ Matching(g, i)
    BY <1>1 DEF BestMatches, Closest, ShortCandidates, LongCandidates
  <1>3. i \in Intervals /\ i.metric \in Alerts /\ g \in GroupsBelow(nextID) /\ nextID \in Nat
    BY <1>2 DEF EngineTypeOK, Intervals
  <1>4. Explained(g)
    BY <1>1, <1>2 DEF WatchdogInv
  <1>5. g.distance # Root /\ \E m \in g.matchers : m \subseteq LabelsFor(g, i)
    <2>1. CASE g.distance = Root
      <3>1. g.matchers = {} /\ g.modified = 0
        BY <1>4, <2>1 DEF Explained
      <3>2. LongDelta < i.start /\ i.start \in Nat
        BY <1>3 DEF WatchdogInv, TimesInv, Intervals
      <3>3. TimeDist(g, i) = i.start
        BY <2>1, <3>1, <3>2 DEF TimeDist, Root, Exact
      <3>4. TimeDist(g, i) <= TimeDelta
        BY <1>2, <3>1 DEF Matching
      <3> QED
        BY <3>2, <3>3, <3>4, DeltasAssumption
    <2> QED
      BY <1>2, <2>1 DEF Matching
  <1>6. PICK b \in Alerts : IsFrom(g, b) /\ [metric |-> b, id |-> g.root] \in grouped
    BY <1>4, <1>5 DEF Explained
  <1>7. i.metric = b \/ Linked(i.metric, b)
    BY <1>3, <1>5, <1>6, MatchIsLinked
  <1>8. grouped' = grouped \cup {[metric |-> i.metric, id |-> g.root]}
    BY DEF Grouped
  <1>9. ASSUME NEW h \in fresh'
        PROVE  Explained(h)'
    <2>1. CASE h \in fresh
      BY <1>1, <1>8, <2>1 DEF WatchdogInv, Explained
    <2>2. CASE h = Absorb(g, i)
      <3>1. OneMatcher(g)
        BY <1>5, <1>6 DEF OneMatcher, IsFrom
      <3>2. h.distance = g.distance /\ h.root = g.root /\ h.matchers = g.matchers
        BY <1>3, <1>5, <2>2, <3>1, AbsorbIsFrom
      <3>3. h.distance # Root /\ IsFrom(h, b)
        BY <1>5, <1>6, <3>2 DEF IsFrom
      <3> QED
        BY <1>6, <1>8, <3>2, <3>3 DEF Explained
    <2>3. CASE h \in AddedGroups(g, i)
      <3>1. h.distance # Root /\ h.root = g.root /\ IsFrom(h, i.metric)
        BY <2>3, AddedAreFrom
      <3> QED
        BY <1>3, <1>8, <3>1 DEF Explained
    <2> QED
      BY <2>1, <2>2, <2>3 DEF Join
  <1>10. WatchdogBatchLinked'
    <2> DEFINE Other(S, p) == \E r \in S : r # p /\ r.id = p.id
                                          /\ FuzzyLabels(p.metric) \cap FuzzyLabels(r.metric) # {}
               new == [metric |-> i.metric, id |-> g.root]
               old == [metric |-> b, id |-> g.root]
    <2>1. ASSUME NEW p \in grouped, NEW q \in grouped, p # q, p.id = q.id, p.id \notin Roots(groups)
          PROVE  Other(grouped, p)
      BY <1>1, <2>1 DEF WatchdogInv, WatchdogBatchLinked, Roots
    <2>2. new # old => new.id = old.id /\ FuzzyLabels(new.metric) \cap FuzzyLabels(old.metric) # {}
      BY <1>7 DEF Linked
    <2> SUFFICES ASSUME NEW p \in grouped', NEW q \in grouped', p # q, p.id = q.id,
                        p.id \notin Roots(groups)
                 PROVE  Other(grouped', p)
      BY <1>1 DEF WatchdogBatchLinked, Roots
    <2>3. CASE p = new
      <3>1. CASE new = old
        BY <1>6, <1>8, <2>1, <2>3, <3>1
      <3>2. CASE new # old
        BY <1>6, <1>8, <2>2, <2>3, <3>2
      <3> QED
        BY <3>1, <3>2
    <2>4. CASE p # new /\ p = old
      BY <1>8, <2>2, <2>4
    <2>5. CASE p # new /\ p # old
      <3>1. p \in grouped
        BY <1>8, <2>5
      <3>2. CASE q = new
        BY <1>6, <1>8, <2>1, <2>5, <3>1, <3>2
      <3>3. CASE q # new
        BY <1>8, <2>1, <3>1, <3>3
      <3> QED
        BY <3>2, <3>3
    <2> QED
      BY <2>3, <2>4, <2>5
  <1> QED
    BY <1>9, <1>10

\* An alert that is matched by nothing begins an incident of its own.
LEMMA NewRootAlone ==
    ASSUME EngineTypeOK, WatchdogInv, NEW i \in todo, AddInterval(i), shared = {},
           NEW g, g = RootGroup(nextID, i, 0),
           fresh' = Join(fresh, g, i), grouped' = grouped \cup {Grouped(i, g)}
    PROVE  (\A h \in fresh' : Explained(h)') /\ WatchdogBatchLinked'
  <1>1. pc = "group" /\ groups' = groups /\ shared' = shared /\ pc' = pc
    BY DEF AddInterval, boot
  <1>2. g.root = nextID /\ g.distance = Root /\ g.matchers = {} /\ g.modified = 0
    BY DEF RootGroup, Group
  <1>3. i.metric \in Alerts /\ nextID \in Nat /\ \A p \in grouped : p.id \in 1..(nextID - 1)
    BY DEF EngineTypeOK, Intervals
  <1>4. grouped' = grouped \cup {[metric |-> i.metric, id |-> nextID]}
    BY <1>2 DEF Grouped
  <1>5. ASSUME NEW h \in fresh'
        PROVE  Explained(h)'
    <2>1. CASE h \in fresh
      BY <1>1, <1>4, <2>1 DEF WatchdogInv, Explained
    <2>2. CASE h = Absorb(g, i)
      BY <1>2, <2>2, RootAbsorbsNothing DEF Explained
    <2>3. CASE h \in AddedGroups(g, i)
      BY <1>2, <1>3, <1>4, <2>3, AddedAreFrom DEF Explained
    <2> QED
      BY <2>1, <2>2, <2>3 DEF Join
  <1>6. \A p, q \in grouped' : p # q /\ p.id = q.id => p \in grouped /\ q \in grouped
    BY <1>3, <1>4
  <1>7. WatchdogBatchLinked'
    BY <1>1, <1>4, <1>6 DEF WatchdogInv, WatchdogBatchLinked
  <1> QED
    BY <1>5, <1>7

LEMMA AddIntervalLinked ==
    ASSUME EngineTypeOK, WatchdogInv, NEW i \in todo, AddInterval(i)
    PROVE  WatchdogInv'
  <1>1. /\ pc = "group" /\ pc' = pc /\ todo' = todo \ {i}
        /\ UNCHANGED <<now, groups, unmatched, shared, changes>>
    BY DEF AddInterval, boot
  <1>2. TimesInv' /\ MatchedInv'
    BY <1>1 DEF WatchdogInv, TimesInv, MatchedInv
  <1>3. CASE shared # {}
    BY <1>1, <1>2, <1>3 DEF WatchdogInv, WatchdogBatchLinked
  <1>4. CASE shared = {}
    BY <1>2, <1>4, JoinLinked, NewRootAlone DEF AddInterval, WatchdogInv
  <1> QED
    BY <1>3, <1>4

\* Matching extends groups that have their ids already.
LEMMA TryMatchLinked ==
    ASSUME EngineTypeOK, WatchdogInv, NEW i \in todo, TryMatchInterval(i)
    PROVE  WatchdogInv'
  <1>1. /\ pc = "match" /\ pc' = pc /\ todo' = todo \ {i}
        /\ unmatched' \subseteq unmatched \cup {i}
        /\ UNCHANGED <<now, fresh, shared, changes>>
    BY DEF TryMatchInterval, boot
  <1>2. TimesInv'
    BY <1>1 DEF WatchdogInv, TimesInv
  <1>3. i \in Intervals /\ nextID \in Nat /\ groups \subseteq GroupsBelow(nextID)
    BY DEF EngineTypeOK
  <1>4. CASE UNCHANGED <<groups, grouped>>
    BY <1>1, <1>2, <1>4 DEF WatchdogInv, MatchedInv, WatchdogBatchLinked, Roots
  <1>5. ASSUME NEW g \in BestMatches(groups, i),
               groups' = Join((groups \ {g}) \cup {Touch(g, i)}, Touch(g, i), i),
               grouped' = grouped \cup {Grouped(i, g)}
        PROVE  WatchdogInv'
    <2> DEFINE gs == (groups \ {g}) \cup {Touch(g, i)}
    <2>1. g \in groups
      BY BestMatchIsAGroup
    <2>2. Touch(g, i).root = g.root
      BY <1>3, <2>1, TouchType
    <2>3. Roots(gs) \cup {g.root} = Roots(groups)
      BY <2>1, <2>2 DEF Roots
    <2>4. Roots(groups') = Roots(gs) \cup {g.root}
      <3>1. groups' = Join(gs, Touch(g, i), i) /\ g \in GroupsBelow(nextID)
        BY <1>3, <1>5, <2>1
      <3>2. Roots(Join(gs, Touch(g, i), i)) = Roots(gs) \cup {g.root}
        <4> HIDE DEF gs
        <4> QED
          BY <1>3, <3>1, TouchedJoinRoots, Zenon
      <3> QED
        BY <3>1, <3>2, Zenon
    <2>5. \A p \in grouped' : p.id \in Roots(groups')
      <3>1. Roots(groups') = Roots(groups) /\ g.root \in Roots(groups)
        BY <2>3, <2>4
      <3>2. Grouped(i, g).id = g.root
        BY DEF Grouped
      <3> QED
        BY <1>1, <1>5, <3>1, <3>2 DEF WatchdogInv, MatchedInv
    <2>6. Roots(groups)' = Roots(groups')
      BY DEF Roots
    <2> QED
      BY <1>1, <1>2, <2>5, <2>6 DEF WatchdogInv, MatchedInv, WatchdogBatchLinked
  <1> QED
    BY <1>4, <1>5 DEF TryMatchInterval

\* The unmatched alerts are yet to be grouped.
LEMMA BeginUnmatchedLinked ==
    ASSUME EngineTypeOK, WatchdogInv, BeginUnmatched
    PROVE  WatchdogInv'
  <1>1. /\ pc = "match" /\ pc' = "group" /\ todo' = unmatched /\ unmatched' = {}
        /\ UNCHANGED <<now, groups, grouped, changes>>
    BY DEF BeginUnmatched, boot
  <1>2. shared' = {} => fresh' = {}
    <2>1. fresh = {}
      BY <1>1 DEF WatchdogInv, MatchedInv
    <2> QED
      BY <2>1 DEF BeginUnmatched
  <1>3. \A p \in grouped : p.id \in Roots(groups)
    BY <1>1 DEF WatchdogInv, MatchedInv
  <1>4. WatchdogBatchLinked'
    BY <1>1, <1>3 DEF WatchdogBatchLinked, Roots
  <1> QED
    BY <1>1, <1>2, <1>4 DEF WatchdogInv, TimesInv, MatchedInv

\* The steps between the loops
LEMMA OtherStepsLinked ==
    ASSUME EngineTypeOK, WatchdogInv,
           \/ NextChange \/ EndChange \/ \E prev : UpdateFrom(prev)
           \/ \E alerts \in SUBSET Alerts, gap \in Gaps : ProcessAlertsBatch(alerts, gap)
           \/ AssignAlertsToGroups \/ UpdateHealthMap \/ SilencedAlertsError
           \/ Shutdown \/ UNCHANGED vars
    PROVE  WatchdogInv'
  <1>1. CASE NextChange
    BY <1>1 DEF NextChange, WatchdogInv, TimesInv, MatchedInv, WatchdogBatchLinked
  <1>2. CASE EndChange \/ (\E prev : UpdateFrom(prev)) \/ AssignAlertsToGroups \/ UpdateHealthMap
             \/ SilencedAlertsError \/ Shutdown
    BY <1>2 DEF EndChange, UpdateFrom, AssignAlertsToGroups, UpdateHealthMap,
                SilencedAlertsError, Shutdown, boot,
                WatchdogInv, TimesInv, MatchedInv, WatchdogBatchLinked
  <1>3. ASSUME NEW alerts \in SUBSET Alerts, NEW gap \in Gaps, ProcessAlertsBatch(alerts, gap)
        PROVE  WatchdogInv'
    <2>1. LongDelta < now'
      BY <1>3, ClockAssumption, DeltasAssumption DEF ProcessAlertsBatch, WatchdogInv, TimesInv, EngineTypeOK
    <2>2. \A i \in todo' : i.start = now'
      BY <1>3 DEF ProcessAlertsBatch
    <2> QED
      BY <1>3, <2>1, <2>2 DEF ProcessAlertsBatch, boot, WatchdogInv, TimesInv, MatchedInv,
                             WatchdogBatchLinked
  <1>4. CASE UNCHANGED vars
    BY <1>4 DEF vars, WatchdogInv, TimesInv, MatchedInv, WatchdogBatchLinked, Explained, Roots
  <1> QED
    BY <1>1, <1>2, <1>3, <1>4

LEMMA WatchdogInvInit ==
    ASSUME Init
    PROVE  WatchdogInv
  BY ClockAssumption, RangesAssumption
     DEF Init, WatchdogInv, TimesInv, MatchedInv, WatchdogBatchLinked

LEMMA WatchdogInvInductive ==
    ASSUME TypeInv, WatchdogInv, Step
    PROVE  WatchdogInv'
  BY TryMatchLinked, BeginUnmatchedLinked, AddIntervalLinked, OtherStepsLinked
     DEF TypeInv, Step

\* In a batch with a Watchdog, alerts that no older group matches share an
\* incident only if a label links each of them to another one of it.
THEOREM WatchdogCorrect == Spec => []WatchdogBatchLinked
  <1>1. Init => WatchdogInv
    BY WatchdogInvInit
  <1>2. TypeInv /\ WatchdogInv /\ [Next]_vars => WatchdogInv'
    BY SpecSteps, WatchdogInvInductive
  <1>3. WatchdogInv => WatchdogBatchLinked
    BY DEF WatchdogInv
  <1> QED
    BY <1>1, <1>2, <1>3, TypeInvCorrect, PTL DEF Spec
---------------------------------------------------------------------------
(* What a batch has left to do *)

\* Between batches nothing is left to do.
IdleInv ==
    /\ pc \in {"history", "idle", "stopped"} => grouped = {}
    /\ pc \in {"history", "idle", "silences", "stopped"} => todo = {} /\ unmatched = {}
    /\ pc # "group" => fresh = {} /\ shared = {}
    /\ pc = "history" => ~ready
    /\ pc \in {"idle", "silences", "stopped"} => ready

\* Every alert of a batch is still to be worked off, or waits unmatched, or has
\* its one incident, and only one of these.
BatchInv ==
    ready =>
        /\ todo \cap unmatched = {}
        /\ \A p, q \in grouped : p.metric = q.metric => p = q
        /\ \A i, j \in todo \cup unmatched : i.metric = j.metric => i = j
        /\ \A i \in todo \cup unmatched, p \in grouped : i.metric # p.metric

\* The root the unmatched alerts share is in the new collection.
SharedInv == \A g \in shared : g \in fresh /\ g.distance = Root

\* The intervals of a batch begin with it, and every incident opened for it has
\* a group that was modified by it: pruning leaves that group.
KeptInv ==
    ready =>
        /\ \A i \in todo \cup unmatched : i.start = now
        /\ \A r \in Roots(fresh) : \E g \in fresh : g.root = r /\ g.modified = now

RefInv == IdleInv /\ BatchInv /\ SharedInv /\ KeptInv

\* Joining a group of a batch leaves every incident of it a group that the batch
\* has modified, and gives one to a new incident.
LEMMA JoinKept ==
    ASSUME NEW i \in Intervals, i.start = now,
           NEW n \in Nat, NEW g \in GroupsBelow(n), g \in fresh \/ g.distance = Root,
           \A r \in Roots(fresh) : \E h \in fresh : h.root = r /\ h.modified = now
    PROVE  \A r \in Roots(Join(fresh, g, i)) :
              \E h \in Join(fresh, g, i) : h.root = r /\ h.modified = now
  <1>1. Roots(Join(fresh, g, i)) = Roots(fresh) \cup {g.root}
    BY JoinRoots
  <1>2. /\ fresh \ {g} \subseteq Join(fresh, g, i) /\ Absorb(g, i) \in Join(fresh, g, i)
        /\ AddedGroups(g, i) \subseteq Join(fresh, g, i)
    BY DEF Join
  <1>3. CASE g \in fresh
    <2>1. /\ Absorb(g, i).root = g.root
          /\ g.modified = now => Absorb(g, i).modified = now
      BY DEF Absorb, Touch, GroupsBelow
    <2>2. g.root \in Roots(fresh)
      BY <1>3 DEF Roots
    <2> QED
      BY <1>1, <1>2, <2>1, <2>2
  <1>4. CASE g \notin fresh
    <2> DEFINE exact == MatcherGroup(g.root, i, Exact, i.metric)
    <2>1. exact.root = g.root /\ exact.modified = now /\ exact.distance = Exact
      BY DEF MatcherGroup, Group
    <2>2. exact \in AddedGroups(g, i)
      BY <1>4, <2>1 DEF AddedGroups, AlertGroups, Covers, Exact, Root
    <2> QED
      BY <1>1, <1>2, <1>4, <2>1, <2>2
  <1> QED
    BY <1>3, <1>4

LEMMA TryMatchRefInv ==
    ASSUME TypeInv, RefInv, NEW i \in todo, TryMatchInterval(i)
    PROVE  RefInv'
  <1> USE DEF RefInv, TypeInv
  <1>1. IdleInv'
    BY DEF TryMatchInterval, IdleInv, boot
  <1>2. BatchInv'
    <2> SUFFICES ASSUME ready PROVE BatchInv'
      BY DEF BatchInv, TryMatchInterval, boot
    <2>1. CASE unmatched' = unmatched \cup {i} /\ UNCHANGED grouped
      BY <2>1 DEF BatchInv, TryMatchInterval
    <2>2. ASSUME NEW g, grouped' = grouped \cup {Grouped(i, g)}, UNCHANGED unmatched
          PROVE  BatchInv'
      <3>1. Grouped(i, g).metric = i.metric
        BY DEF Grouped
      <3>2. /\ todo' = todo \ {i} /\ i \notin unmatched
            /\ \A j \in todo' \cup unmatched' : j.metric # i.metric
        BY <2>2 DEF BatchInv, TryMatchInterval
      <3> QED
        BY <2>2, <3>1, <3>2 DEF BatchInv
    <2> QED
      BY <2>1, <2>2 DEF TryMatchInterval
  <1>3. SharedInv'
    BY DEF TryMatchInterval, SharedInv
  <1>4. KeptInv'
    BY DEF TryMatchInterval, KeptInv, Roots, boot
  <1> QED
    BY <1>1, <1>2, <1>3, <1>4

LEMMA AddIntervalRefInv ==
    ASSUME TypeInv, RefInv, NEW i \in todo, AddInterval(i)
    PROVE  RefInv'
  <1> USE DEF RefInv, TypeInv
  <1>1. IdleInv'
    BY DEF AddInterval, IdleInv, boot
  <1>2. PICK g : /\ grouped' = grouped \cup {Grouped(i, g)}
                 /\ fresh' = Join(fresh, g, i)
                 /\ \E n \in Nat : g \in GroupsBelow(n)
                 /\ g \in fresh \/ g.distance = Root
    <2>1. i \in Intervals
      BY DEF EngineTypeOK
    <2>2. \A g \in Candidates(i) : g \in fresh
      BY BestMatchIsAGroup DEF Candidates, SharedInv
    <2>3. nextID + 1 \in Nat /\ nextID \in 1..((nextID + 1) - 1)
      BY DEF EngineTypeOK
    <2>4. RootGroup(nextID, i, 0) \in GroupsBelow(nextID + 1)
      BY <2>1, <2>3, RootGroupType
    <2>5. RootGroup(nextID, i, 0).distance = Root
      BY DEF RootGroup, Group
    <2> QED
      BY <2>2, <2>3, <2>4, <2>5 DEF AddInterval, EngineTypeOK
  <1>3. BatchInv'
    <2>1. Grouped(i, g).metric = i.metric
      BY DEF Grouped
    <2>2. ready' = ready /\ todo' = todo \ {i} /\ unmatched' = unmatched
      BY DEF AddInterval, boot
    <2> QED
      BY <1>2, <2>1, <2>2 DEF BatchInv
  <1>4. SharedInv'
    <2>1. CASE shared = {}
      BY <2>1 DEF SharedInv, AddInterval
    <2>2. CASE shared # {}
      <3>1. PICK k \in shared : fresh' = Join(fresh, k, i)
        BY <2>2 DEF AddInterval, Candidates
      <3>2. Absorb(k, i) = k
        BY <3>1, RootAbsorbsNothing DEF SharedInv
      <3>3. fresh \subseteq fresh' /\ shared' = shared
        BY <3>1, <3>2 DEF Join, AddInterval
      <3> QED
        BY <3>3 DEF SharedInv
    <2> QED
      BY <2>1, <2>2
  <1>5. KeptInv'
    <2>1. /\ ready' = ready /\ now' = now /\ unmatched' = unmatched /\ todo' \subseteq todo
          /\ i \in Intervals
      BY DEF AddInterval, boot, EngineTypeOK
    <2>2. CASE ~ready
      BY <2>1, <2>2 DEF KeptInv
    <2>3. CASE ready
      <3>1. \A r \in Roots(fresh') : \E h \in fresh' : h.root = r /\ h.modified = now
        BY <1>2, <2>1, <2>3, JoinKept DEF KeptInv
      <3> QED
        BY <2>1, <2>3, <3>1 DEF KeptInv
    <2> QED
      BY <2>2, <2>3
  <1> QED
    BY <1>1, <1>3, <1>4, <1>5

LEMMA RefInvInductive ==
    ASSUME TypeInv, RefInv, Step
    PROVE  RefInv'
  <1> USE DEF RefInv, TypeInv
  <1>1. CASE \E i \in todo : TryMatchInterval(i)
    BY <1>1, TryMatchRefInv
  <1>2. CASE \E i \in todo : AddInterval(i)
    BY <1>2, AddIntervalRefInv
  <1>3. CASE BeginUnmatched
    <2>1. SharedInv'
      <3>1. \A i : RootGroup(nextID, i, i.start).distance = Root
        BY DEF RootGroup, Group
      <3> QED
        BY <1>3, <3>1 DEF BeginUnmatched, SharedInv
    <2>2. KeptInv'
      <3> SUFFICES ASSUME ready'
                   PROVE  KeptInv'
        BY DEF KeptInv
      <3>1. ready /\ now' = now /\ todo' = unmatched /\ unmatched' = {} /\ fresh = {}
        BY <1>3 DEF BeginUnmatched, boot, IdleInv
      <3>2. \A i \in unmatched : i.start = now
        BY <3>1 DEF KeptInv
      <3>3. \A g \in fresh' : g.modified = now
        <4>1. \A i : RootGroup(nextID, i, i.start).modified = i.start
          BY DEF RootGroup, Group
        <4> QED
          BY <1>3, <3>1, <3>2, <4>1 DEF BeginUnmatched
      <3> QED
        BY <3>1, <3>2, <3>3 DEF KeptInv, Roots
    <2> QED
      BY <1>3, <2>1, <2>2 DEF BeginUnmatched, IdleInv, BatchInv, boot
  <1>4. ASSUME NEW alerts \in SUBSET Alerts, NEW gap \in Gaps, ProcessAlertsBatch(alerts, gap)
        PROVE  RefInv'
    <2>1. IdleInv' /\ SharedInv'
      BY <1>4 DEF ProcessAlertsBatch, IdleInv, SharedInv, boot
    <2>2. /\ unmatched' = {} /\ grouped' = {}
          /\ \A i \in todo' : \E a \in alerts : i = [metric |-> a, start |-> now', end |-> now']
      BY <1>4 DEF ProcessAlertsBatch, IdleInv
    <2>3. \A i \in todo' : i.start = now'
      BY <2>2
    <2>4. fresh' = {}
      BY <1>4 DEF ProcessAlertsBatch, IdleInv
    <2>5. KeptInv'
      BY <2>2, <2>3, <2>4 DEF KeptInv, Roots
    <2> QED
      BY <2>1, <2>2, <2>5 DEF BatchInv
  <1>5. CASE \E prev : UpdateFrom(prev)
    <2>1. fresh' = {} /\ todo' = {} /\ unmatched' = {}
      BY <1>5 DEF UpdateFrom, IdleInv
    <2>2. KeptInv'
      BY <2>1 DEF KeptInv, Roots
    <2> QED
      BY <1>5, <2>2 DEF UpdateFrom, IdleInv, BatchInv, SharedInv
  <1>6. CASE \/ NextChange \/ EndChange \/ AssignAlertsToGroups \/ UpdateHealthMap
             \/ SilencedAlertsError \/ Shutdown \/ UNCHANGED vars
    <2>1. \/ ~ready'
          \/ fresh' = {} /\ todo' = {} /\ unmatched' = {}
          \/ UNCHANGED <<ready, now, fresh, todo, unmatched>>
      BY <1>6 DEF NextChange, EndChange, AssignAlertsToGroups, UpdateHealthMap, BatchDone,
                  SilencedAlertsError, Shutdown, vars, boot, IdleInv
    <2>2. KeptInv'
      BY <2>1 DEF KeptInv, Roots
    <2> QED
      BY <1>6, <2>2 DEF NextChange, EndChange, AssignAlertsToGroups, UpdateHealthMap, BatchDone,
                        SilencedAlertsError, Shutdown, vars, boot, IdleInv, BatchInv, SharedInv
  <1> QED
    BY <1>1, <1>2, <1>3, <1>4, <1>5, <1>6 DEF Step

---------------------------------------------------------------------------
(* The steps of Incidents are steps of Assignment *)

\* An iteration of tryMatchIntervals gives the alert an open incident, or
\* leaves everything as it is.
LEMMA TryMatchStep ==
    ASSUME TypeInv, RefInv, NEW i \in todo, TryMatchInterval(i)
    PROVE  [A!Next]_(A!vars)
  <1> USE DEF RefInv, TypeInv
  <1>0. i \in Intervals /\ i.metric \in Alerts /\ nextID \in Nat
    BY DEF EngineTypeOK, Intervals
  <1>1. CASE UNCHANGED <<groups, grouped>> /\ unmatched' = unmatched \cup {i}
    BY <1>1 DEF TryMatchInterval, boot, A!vars, Roots
  <1>2. ASSUME NEW g \in BestMatches(groups, i),
               groups' = Join((groups \ {g}) \cup {Touch(g, i)}, Touch(g, i), i),
               grouped' = grouped \cup {Grouped(i, g)},
               UNCHANGED unmatched
        PROVE  [A!Next]_(A!vars)
    <2>1. g \in groups /\ g \in GroupsBelow(nextID)
      BY BestMatchIsAGroup DEF EngineTypeOK
    <2>2. Touch(g, i) \in GroupsBelow(nextID) /\ Touch(g, i).root = g.root
      BY <1>0, <2>1, TouchType
    <2>3. Roots(groups') = Roots(groups)
      <3>1. Roots(groups') = Roots((groups \ {g}) \cup {Touch(g, i)}) \cup {g.root}
        BY <1>0, <1>2, <2>1, TouchedJoinRoots
      <3>2. g.root \in Roots(groups)
        BY <2>1 DEF Roots
      <3>3. Roots((groups \ {g}) \cup {Touch(g, i)}) \subseteq Roots(groups)
        BY <2>2, <3>2 DEF Roots
      <3>4. Roots(groups) \subseteq Roots((groups \ {g}) \cup {Touch(g, i)}) \cup {g.root}
        BY DEF Roots
      <3> QED
        BY <3>1, <3>2, <3>3, <3>4
    <2>4. g.root \in Roots(groups) /\ g.root \in 1..(nextID - 1)
      BY <2>1 DEF Roots, GroupsBelow
    <2>5. Grouped(i, g) = [metric |-> i.metric, id |-> g.root]
      BY DEF Grouped
    <2>6. UNCHANGED <<now, ready, nextID, fresh, published, changes>> /\ todo' = todo \ {i}
      BY DEF TryMatchInterval, boot
    <2>7. Roots(groups' \cup fresh') = Roots(groups \cup fresh) /\ Roots(fresh') = Roots(fresh)
      BY <2>3, <2>6 DEF Roots
    <2>8. CASE ~ready
      BY <2>6, <2>7, <2>8 DEF A!vars
    <2>9. CASE ready
      <3> DEFINE B == {j.metric : j \in todo \cup unmatched \cup grouped}
      <3>1. {j.metric : j \in todo' \cup unmatched' \cup grouped'} = B
        BY <1>2, <2>5, <2>6
      <3>2. i.metric \in B \ {p.metric : p \in grouped}
        BY <2>9 DEF BatchInv
      <3>3. g.root \in Roots(groups \cup fresh)
        BY <2>4 DEF Roots
      <3>4. g.root # nextID - 1 + 1
        BY <1>0, <2>4
      <3>5. Roots(groups' \cup fresh') = Roots(groups \cup fresh) \cup {g.root}
        BY <2>7, <3>3
      <3> HIDE DEF B
      <3> QED
        BY <1>2, <2>5, <2>6, <2>7, <2>9, <3>1, <3>2, <3>3, <3>4, <3>5
        DEF A!Next, A!Assign, A!Metrics, B
    <2> QED
      BY <2>8, <2>9
  <1> QED
    BY <1>1, <1>2 DEF TryMatchInterval

\* The same for addIntervalsGroups, where the incident may be a new one.
LEMMA AddIntervalStep ==
    ASSUME TypeInv, RefInv, NEW i \in todo, AddInterval(i)
    PROVE  [A!Next]_(A!vars)
  <1> USE DEF RefInv, TypeInv
  <1>1. i \in Intervals /\ i.metric \in Alerts /\ nextID \in Nat
    BY DEF EngineTypeOK, Intervals
  <1>2. UNCHANGED <<now, ready, groups, unmatched, published>> /\ todo' = todo \ {i}
    BY DEF AddInterval, boot
  <1>3. PICK g : /\ grouped' = grouped \cup {Grouped(i, g)}
                 /\ fresh' = Join(fresh, g, i)
                 /\ \E n \in Nat : g \in GroupsBelow(n)
                 /\ \/ g.root \in Roots(fresh) /\ g.root < nextID /\ nextID' = nextID
                    \/ g.root = nextID /\ nextID' = nextID + 1
    <2>1. \A g \in Candidates(i) : g \in fresh
      BY BestMatchIsAGroup DEF Candidates, SharedInv
    <2>2. \A g \in Candidates(i) : g.root \in Roots(fresh)
      BY <2>1 DEF Roots
    <2>3. \A g \in Candidates(i) : g \in GroupsBelow(nextID) /\ g.root < nextID
      BY <1>1, <2>1 DEF EngineTypeOK, GroupsBelow
    <2>4. RootGroup(nextID, i, 0) \in GroupsBelow(nextID + 1)
      <3>1. nextID + 1 \in Nat /\ nextID \in 1..((nextID + 1) - 1)
        BY DEF EngineTypeOK
      <3> QED
        BY <1>1, <3>1, RootGroupType
    <2>5. RootGroup(nextID, i, 0).root = nextID
      BY DEF RootGroup, Group
    <2>6. CASE \E g \in Candidates(i) : /\ fresh' = Join(fresh, g, i)
                                        /\ grouped' = grouped \cup {Grouped(i, g)}
                                        /\ UNCHANGED nextID
      BY <1>1, <2>2, <2>3, <2>6
    <2>7. CASE /\ fresh' = Join(fresh, RootGroup(nextID, i, 0), i)
               /\ grouped' = grouped \cup {Grouped(i, RootGroup(nextID, i, 0))}
               /\ nextID' = nextID + 1
      BY <1>1, <2>4, <2>5, <2>7
    <2> QED
      BY <2>6, <2>7 DEF AddInterval
  <1>4. /\ Roots(groups' \cup fresh') = Roots(groups \cup fresh) \cup {g.root}
        /\ Roots(fresh') = Roots(fresh) \cup {g.root}
        /\ Roots(fresh) \subseteq Roots(groups \cup fresh)
    <2>1. Roots(fresh') = Roots(fresh) \cup {g.root}
      BY <1>1, <1>3, JoinRoots
    <2> QED
      BY <1>2, <2>1 DEF Roots
  <1>5. Grouped(i, g) = [metric |-> i.metric, id |-> g.root]
    BY DEF Grouped
  <1>6. \/ /\ g.root \in Roots(groups \cup fresh) /\ g.root < nextID /\ nextID' = nextID
           /\ Roots(fresh') = Roots(fresh)
        \/ g.root = nextID /\ nextID' = nextID + 1
    <2>1. CASE g.root \in Roots(fresh) /\ g.root < nextID /\ nextID' = nextID
      <3>1. g.root \in Roots(groups \cup fresh) /\ Roots(fresh') = Roots(fresh)
        BY <1>4, <2>1
      <3> QED
        BY <2>1, <3>1
    <2> QED
      BY <1>3, <2>1
  <1>7. CASE ~ready
    <2>1. /\ nextID' - 1 \in {nextID - 1, (nextID - 1) + 1}
          /\ \/ g.root = nextID' - 1
             \/ g.root \in Roots(groups \cup fresh)
      BY <1>1, <1>6
    <2> QED
      BY <1>2, <1>4, <1>7, <2>1 DEF A!Next, A!Replay
  <1>8. CASE ready
    <2> DEFINE B == {j.metric : j \in todo \cup unmatched \cup grouped}
    <2>1. {j.metric : j \in todo' \cup unmatched' \cup grouped'} = B
      BY <1>2, <1>3, <1>5
    <2>2. i.metric \in B \ {p.metric : p \in grouped}
      BY <1>8 DEF BatchInv
    <2>3. /\ g.root \in Roots(groups \cup fresh) \cup {(nextID - 1) + 1}
          /\ \/ /\ g.root = (nextID - 1) + 1 /\ nextID' - 1 = g.root
             \/ /\ g.root # (nextID - 1) + 1 /\ nextID' - 1 = nextID - 1
                /\ Roots(fresh') = Roots(fresh)
      BY <1>1, <1>6
    <2> HIDE DEF B
    <2> QED
      BY <1>2, <1>3, <1>4, <1>5, <1>8, <2>1, <2>2, <2>3 DEF A!Next, A!Assign, A!Metrics, B
  <1> QED
    BY <1>7, <1>8

\* BeginUnmatched opens the incident the unmatched alerts will share, if any.
LEMMA BeginUnmatchedStep ==
    ASSUME TypeInv, RefInv, BeginUnmatched
    PROVE  [A!Next]_(A!vars)
  <1> USE DEF RefInv, TypeInv
  <1>1. UNCHANGED <<now, ready, groups, grouped, published>> /\ todo' = unmatched
        /\ todo = {} /\ unmatched' = {} /\ unmatched # {}
    BY DEF BeginUnmatched, boot
  <1>2. {j.metric : j \in todo' \cup unmatched' \cup grouped'}
          = {j.metric : j \in todo \cup unmatched \cup grouped}
    BY <1>1
  <1>3. CASE UNCHANGED <<fresh, nextID>>
    BY <1>1, <1>2, <1>3 DEF A!vars
  <1>4. ASSUME NEW i, fresh' = {RootGroup(nextID, i, i.start)}, nextID' = nextID + 1
        PROVE  [A!Next]_(A!vars)
    <2>1. nextID \in Nat /\ fresh = {}
      BY DEF EngineTypeOK, BeginUnmatched, IdleInv
    <2>2. /\ Roots(groups' \cup fresh') = Roots(groups) \cup {nextID}
          /\ Roots(fresh') = {nextID} /\ Roots(fresh) = {}
      <3>1. RootGroup(nextID, i, i.start).root = nextID
        BY DEF RootGroup, Group
      <3>2. groups' = groups
        BY <1>1
      <3>3. Roots(fresh') = {nextID} /\ Roots(fresh) = {}
        BY <1>4, <2>1, <3>1 DEF Roots
      <3> QED
        BY <1>4, <3>1, <3>2, <3>3, RootsAdd
    <2>3. {j.metric : j \in todo \cup unmatched \cup grouped} # {}
      BY <1>1
    <2>4. Roots(groups \cup fresh) = Roots(groups)
      BY <2>1 DEF Roots
    <2>5. CASE ready
      <3> DEFINE B == {j.metric : j \in todo \cup unmatched \cup grouped}
      <3>1. nextID' - 1 = nextID /\ nextID = (nextID - 1) + 1
        BY <1>4, <2>1
      <3>2. ready' /\ UNCHANGED <<now, grouped, published>>
        BY <1>1, <2>5
      <3>3. B # {} /\ {j.metric : j \in todo' \cup unmatched' \cup grouped'} = B
        BY <1>2, <2>3
      <3> HIDE DEF B
      <3> QED
        BY <2>2, <2>4, <2>5, <3>1, <3>2, <3>3 DEF A!Next, A!OpenIncident, B
    <2>6. CASE ~ready
      BY <1>1, <1>4, <2>1, <2>2, <2>4, <2>6 DEF A!Next, A!Replay
    <2> QED
      BY <2>5, <2>6
  <1> QED
    BY <1>3, <1>4 DEF BeginUnmatched

\* UpdateGroupUUIDs gives every root its own id or one of the previous process.
LEMMA UpdateStep ==
    ASSUME TypeInv, RefInv, NEW prev, Known(prev), UpdateFrom(prev)
    PROVE  [A!Next]_(A!vars)
  <1> USE DEF RefInv, TypeInv
  <1>1. PICK new \in [Roots(groups) -> Roots(groups) \cup 1..(nextID - 1)] :
            groups' = {[g EXCEPT !.root = new[g.root]] : g \in groups}
    <2>1. PICK new \in [Roots(groups) -> Roots(groups) \cup {p.uuid : p \in prev}] :
            groups' = {[g EXCEPT !.root = new[g.root]] : g \in groups}
      BY DEF UpdateFrom, Roots
    <2>2. new \in [Roots(groups) -> Roots(groups) \cup 1..(nextID - 1)]
      BY <2>1 DEF Known
    <2> QED
      BY <2>1, <2>2
  <1>2. \A g \in groups : \A r : [g EXCEPT !.root = r].root = r
    BY DEF EngineTypeOK, GroupsBelow
  <1>3. Roots(groups') \subseteq Roots(groups) \cup 1..(nextID - 1)
    <2>1. \A g \in groups : new[g.root] \in Roots(groups) \cup 1..(nextID - 1)
      BY <1>1 DEF Roots
    <2>2. ASSUME NEW h \in groups'
          PROVE  h.root \in Roots(groups) \cup 1..(nextID - 1)
      <3>1. PICK g \in groups : h = [g EXCEPT !.root = new[g.root]]
        BY <1>1, <2>2
      <3>2. h.root = new[g.root]
        BY <1>2, <3>1
      <3> QED
        BY <2>1, <3>2
    <2> QED
      BY <2>2 DEF Roots
  <1>4. /\ ~ready /\ ready' /\ fresh = {} /\ fresh' = {} /\ grouped = {} /\ grouped' = {}
        /\ todo' = {} /\ unmatched' = {} /\ UNCHANGED <<now, nextID, published>>
    BY DEF UpdateFrom, IdleInv, EngineTypeOK
  <1>5. Roots(groups' \cup fresh') \subseteq Roots(groups \cup fresh) \cup 1..(nextID - 1)
    BY <1>3, <1>4 DEF Roots
  <1>6. {j.metric : j \in todo' \cup unmatched' \cup grouped'} = {} /\ Roots(fresh') = {}
    BY <1>4 DEF Roots
  <1> QED
    BY <1>4, <1>5, <1>6 DEF A!Next, A!Adopt

\* Stamping and pruning open no incident, and leave those of the batch.
LEMMA AssignStep ==
    ASSUME TypeInv, RefInv, AssignAlertsToGroups
    PROVE  [A!Next]_(A!vars)
  <1> USE DEF RefInv, TypeInv
  <1>1. \A g \in groups \cup fresh : Stamp(g).root = g.root /\ Stamp(g).modified = g.modified
    BY DEF EngineTypeOK, GroupsBelow, Stamp
  <1>2. Roots(groups' \cup fresh') \subseteq Roots(groups \cup fresh)
    BY <1>1 DEF AssignAlertsToGroups, Roots
  <1>3. /\ ready /\ todo = {} /\ unmatched = {}
        /\ UNCHANGED <<now, nextID, todo, unmatched, grouped, ready, published>>
    BY DEF AssignAlertsToGroups, BatchDone, boot
  <1>4. {j.metric : j \in todo \cup unmatched \cup grouped} = {p.metric : p \in grouped}
    BY <1>3
  <1>5. Roots(fresh) \subseteq Roots(groups' \cup fresh') /\ Roots(fresh') = {}
    <2>1. ASSUME NEW r \in Roots(fresh)
          PROVE  r \in Roots(groups')
      <3>1. PICK g \in fresh : g.root = r /\ g.modified = now
        BY <1>3 DEF KeptInv
      <3>2. Kept(Stamp(g))
        <4>1. Stamp(g).modified = now /\ now \in Nat
          BY <1>1, <3>1 DEF EngineTypeOK
        <4> QED
          BY <4>1, DeltasAssumption DEF Kept
      <3>3. Stamp(g) \in groups' /\ Stamp(g).root = r
        BY <1>1, <3>1, <3>2 DEF AssignAlertsToGroups
      <3> QED
        BY <3>3 DEF Roots
    <2>2. fresh' = {}
      BY DEF AssignAlertsToGroups
    <2> QED
      BY <2>1, <2>2 DEF Roots
  <1> QED
    BY <1>2, <1>3, <1>4, <1>5 DEF A!Next, A!Forget, A!Metrics

\* updateHealthMap exports the whole batch.
LEMMA PublishStep ==
    ASSUME TypeInv, RefInv, UpdateHealthMap
    PROVE  [A!Next]_(A!vars)
  <1> USE DEF RefInv, TypeInv
  <1>1. /\ ready /\ ready' /\ todo = {} /\ unmatched = {} /\ todo' = {} /\ unmatched' = {}
        /\ grouped' = {} /\ UNCHANGED <<now, nextID, groups, fresh>> /\ Roots(fresh) = {}
    BY DEF UpdateHealthMap, IdleInv, boot, Roots
  <1>2. {j.metric : j \in todo \cup unmatched \cup grouped} = {p.metric : p \in grouped}
    BY <1>1
  <1>3. {j.metric : j \in todo' \cup unmatched' \cup grouped'} = {}
    BY <1>1
  <1>4. published' =
          {p \in published : p.metric \notin {q.metric : q \in grouped}}
            \cup {[metric |-> p.metric, id |-> p.id, at |-> now] : p \in grouped}
    BY DEF UpdateHealthMap
  <1> QED
    BY <1>1, <1>2, <1>3, <1>4 DEF A!Next, A!Publish, A!Metrics

\* A query starts a batch that has no incidents yet.
LEMMA ProcessStep ==
    ASSUME TypeInv, RefInv, NEW alerts \in SUBSET Alerts, NEW gap \in Gaps,
           ProcessAlertsBatch(alerts, gap)
    PROVE  [A!Next]_(A!vars)
  <1> USE DEF RefInv, TypeInv
  <1>1. /\ ready /\ ready' /\ todo = {} /\ unmatched = {} /\ unmatched' = {}
        /\ grouped = {} /\ grouped' = {}
        /\ UNCHANGED <<nextID, groups, fresh, published>>
    BY DEF ProcessAlertsBatch, IdleInv, boot
  <1>2. {j.metric : j \in todo \cup unmatched \cup grouped} = {}
    BY <1>1
  <1>3. {j.metric : j \in todo' \cup unmatched' \cup grouped'} \subseteq Alerts
    BY <1>1 DEF ProcessAlertsBatch
  <1>4. now' > now
    BY ClockAssumption DEF ProcessAlertsBatch, EngineTypeOK
  <1> QED
    BY <1>1, <1>2, <1>3, <1>4 DEF A!Next, A!Query

\* The start-up and the failing calls
LEMMA OtherSteps ==
    ASSUME TypeInv, RefInv, \/ NextChange \/ EndChange \/ SilencedAlertsError \/ Shutdown
                   \/ UNCHANGED vars
    PROVE  [A!Next]_(A!vars)
  <1> USE DEF RefInv, TypeInv
  <1>1. CASE NextChange
    BY <1>1 DEF NextChange, IdleInv, A!vars
  <1>2. CASE EndChange
    <2>1. Roots(groups' \cup fresh') = Roots(groups \cup fresh)
      BY <1>2 DEF EndChange, Roots
    <2> QED
      BY <1>2, <2>1 DEF EndChange, boot, A!vars
  <1>3. CASE SilencedAlertsError
    <2>1. {j.metric : j \in todo' \cup unmatched' \cup grouped'} = {}
      BY <1>3 DEF SilencedAlertsError, IdleInv
    <2>2. /\ ready /\ ready' /\ grouped' = {} /\ Roots(fresh) = {}
          /\ UNCHANGED <<now, nextID, groups, fresh, published>>
      BY <1>3 DEF SilencedAlertsError, IdleInv, boot, Roots
    <2>3. Roots(groups' \cup fresh') = Roots(groups \cup fresh)
      BY <2>2
    <2> QED
      BY <2>1, <2>2, <2>3 DEF A!Next, A!Abandon
  <1>4. CASE Shutdown \/ UNCHANGED vars
    <2>1. UNCHANGED <<now, ready, nextID, groups, fresh, todo, unmatched, grouped, published>>
      BY <1>4 DEF Shutdown, vars, boot
    <2> QED
      BY <2>1 DEF A!vars
  <1> QED
    BY <1>1, <1>2, <1>3, <1>4

LEMMA RefInvInit ==
    ASSUME Init
    PROVE  RefInv
  BY DEF Init, RefInv, IdleInv, BatchInv, SharedInv, KeptInv

LEMMA AssignmentInit ==
    ASSUME Init
    PROVE  A!Init
  <1>1. nextID - 1 = PrevUUIDs /\ now \in Nat
    BY ClockAssumption DEF Init
  <1> QED
    BY <1>1 DEF Init, A!Init, Roots

LEMMA StepIsAssignmentStep ==
    ASSUME TypeInv, RefInv, Step
    PROVE  [A!Next]_(A!vars)
  BY TryMatchStep, AddIntervalStep, BeginUnmatchedStep, UpdateStep, AssignStep,
     PublishStep, ProcessStep, OtherSteps DEF Step

\* Whatever is replayed, fired, failed or pruned, in whatever order a batch is
\* worked off, the engine behaves as Assignment promises.
THEOREM EngineImplementsAssignment == Spec => ImplementsAssignment
  <1>1. Init => RefInv /\ A!Init
    BY RefInvInit, AssignmentInit
  <1>2. TypeInv /\ RefInv /\ [Next]_vars => RefInv'
    BY SpecSteps, RefInvInductive
  <1>3. TypeInv /\ RefInv /\ [Next]_vars => [A!Next]_(A!vars)
    BY SpecSteps, StepIsAssignmentStep
  <1> QED
    BY <1>1, <1>2, <1>3, TypeInvCorrect, PTL DEF Spec, ImplementsAssignment, A!Spec
=============================================================================
