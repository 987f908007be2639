-------------------------- MODULE StabilityProofs --------------------------
(***************************************************************************)
(* An alert that keeps firing, or is soon back, keeps its group_id: for    *)
(* every value of the constants of Incidents, across its batches.          *)
(*                                                                         *)
(* The groups that an alert nothing is taken for can be matched by at a    *)
(* small distance are its own exact and main groups.  Once the alert has   *)
(* an id there is one of them, the witness, with that id, and none with    *)
(* another id that bestMatch would prefer.  The proof follows the witness  *)
(* through the two loops of a batch, the stamping and the pruning.         *)
(*                                                                         *)
(* At a restart the alert is rebuilt from its history and takes over the   *)
(* id it had: the replay follows each of its intervals with an exact group *)
(* to its end, and of the exact groups that reach the present all are of   *)
(* one root, which claims the id.                                          *)
(***************************************************************************)
EXTENDS IncidentsProofs, Restart, WellFoundedInduction

---------------------------------------------------------------------------
(* The groups of an alert *)

\* The time from which a group ages
LastSeen(g) == IF g.distance = Exact THEN g.end ELSE g.modified

\* g is the exact or the main group of alert a
Of(g, a) ==
    \/ g.distance = Exact /\ g.matchers = {a}
    \/ g.distance = Main /\ g.matchers = {Project(a, MainKeys)}

\* Of two groups of one alert, g is the one bestMatch prefers, now and as long
\* as the two are left alone.
Beats(g, h) ==
    \/ g.distance = h.distance /\ LastSeen(h) < LastSeen(g)
    \/ g.distance = Exact /\ h.distance = Main
    \/ g.distance = Main /\ h.distance = Exact /\ LastSeen(h) + FuzzyDelta < LastSeen(g)

\* g was made for an interval of the history hs.
FromHistory(hs, g, a) ==
    \E i \in hs : i.metric = a /\ g.start = i.start /\ g.modified = i.start

\* The group w keeps alert a at the id it had at time t.
Witness(w, hs, gs, a, id, t) ==
    /\ Of(w, a) /\ w.root = id /\ t <= LastSeen(w)
    /\ w.distance = Exact => FromHistory(hs, w, a)
    /\ \A h \in gs : Of(h, a) => h.root = id \/ Beats(w, h)

Settled(hs, gs, a, id, t) == \E w \in gs : Witness(w, hs, gs, a, id, t)

\* The groups of a that were matched at time t agree on its id.
Latest(t, gs, a) ==
    \A g, h \in gs :
        /\ Of(g, a) /\ Of(h, a) /\ g.distance = h.distance
        /\ LastSeen(g) = t /\ LastSeen(h) = t
        => g.root = h.root

\* An exact group the code has written group_id into
Marked(g) == g.distance = Exact /\ \A m \in g.matchers : \E p \in m : p[1] = "group_id"

\* A group that was made for an alert, by time t
Made(g, t) ==
    /\ g.distance # Root => Marked(g) \/ \E b \in Alerts : IsFrom(g, b)
    /\ g.start <= t /\ g.end <= t /\ g.modified <= t

\* What holds of every group
Sound(g) == g \in GroupsBelow(nextID) /\ OneMatcher(g) /\ Made(g, now)

---------------------------------------------------------------------------
(* Touch, Absorb and AddedGroups *)

\* What a match changes of a group
LEMMA TouchFields ==
    ASSUME NEW n \in Nat, NEW g \in GroupsBelow(n), NEW i \in Intervals
    PROVE  /\ Touch(g, i).root = g.root /\ Touch(g, i).start = g.start
           /\ Touch(g, i).distance = g.distance /\ Touch(g, i).matchers = g.matchers
           /\ Touch(g, i).modified = IF g.distance > Exact THEN i.start ELSE g.modified
           /\ Touch(g, i).end = IF g.end < i.end THEN i.end ELSE g.end
           /\ Touch(Touch(g, i), i) = Touch(g, i)
  <1> DEFINE m(k) == IF k.distance > Exact THEN i.start ELSE k.modified
             e(k) == Later(k.end, i.end)
             touch(k) == [k EXCEPT !.modified = m(k), !.end = e(k)]
  <1>1. \A k : Touch(k, i) = touch(k)
    BY DEF Touch
  <1> HIDE DEF m, e
  <1>2. /\ touch(g).root = g.root /\ touch(g).start = g.start
        /\ touch(g).distance = g.distance /\ touch(g).matchers = g.matchers
        /\ touch(g).modified = m(g) /\ touch(g).end = e(g)
    BY DEF GroupsBelow
  <1> HIDE DEF touch
  <1>3. touch(g) \in GroupsBelow(n)
    BY <1>1, TouchType
  <1>4. m(touch(g)) = touch(g).modified /\ e(touch(g)) = touch(g).end
    BY <1>2 DEF m, e, Later, GroupsBelow, Intervals
  <1>5. \A k \in GroupsBelow(n) : [k EXCEPT !.modified = k.modified, !.end = k.end] = k
    BY DEF GroupsBelow
  <1>6. touch(touch(g)) = touch(g)
    <2> DEFINE k == touch(g)
    <2>1. touch(k) = [k EXCEPT !.modified = m(k), !.end = e(k)]
      BY DEF touch
    <2> HIDE DEF k
    <2> QED
      BY <1>3, <1>4, <1>5, <2>1 DEF k
  <1> QED
    BY <1>1, <1>2, <1>6 DEF m, e, Later

\* expandMatchers adds no matcher: a group that takes in others is touched.
LEMMA AbsorbIs ==
    ASSUME NEW n \in Nat, NEW g \in GroupsBelow(n), NEW i \in Intervals, OneMatcher(g)
    PROVE  /\ Absorb(g, i) \in {g, Touch(g, i)}
           /\ g.distance \in {Exact, Root} => Absorb(g, i) = g
  <1> DEFINE covered == {c \in AlertGroups(g.root, i) : Covers(c, g)}
             ms == Touch(g, i).matchers \cup UNION {c.matchers : c \in covered}
  <1>1. CASE g.distance = Root
    BY <1>1, RootAbsorbsNothing
  <1>2. CASE g.distance = Exact
    BY <1>2 DEF Absorb
  <1>3. CASE g.distance \notin {Exact, Root}
    <2>1. PICK m \in g.matchers : g.matchers = {m}
      BY <1>3 DEF OneMatcher
    <2>2. \A c \in covered : c.matchers = {m}
      BY <2>1, AlertGroupsOneMatcher DEF Covers
    <2>3. Touch(g, i) \in GroupsBelow(n) /\ Touch(g, i).matchers = {m}
      BY <2>1, TouchType
    <2>4. ms = Touch(g, i).matchers
      BY <2>2, <2>3
    <2>5. [Touch(g, i) EXCEPT !.matchers = Touch(g, i).matchers] = Touch(g, i)
      BY <2>3 DEF GroupsBelow
    <2>6. [Touch(g, i) EXCEPT !.matchers = @ \cup UNION {c.matchers : c \in covered}]
            = [Touch(g, i) EXCEPT !.matchers = ms]
      OBVIOUS
    <2> HIDE DEF ms
    <2>7. [Touch(g, i) EXCEPT !.matchers = @ \cup UNION {c.matchers : c \in covered}] = Touch(g, i)
      BY <2>4, <2>5, <2>6
    <2> QED
      BY <1>3, <2>7 DEF Absorb
  <1> QED
    BY <1>1, <1>2, <1>3

\* A turn of tryMatchIntervals leaves the group touched, and adds the others.
LEMMA MatchJoin ==
    ASSUME NEW n \in Nat, NEW gs, NEW g \in GroupsBelow(n), NEW i \in Intervals, OneMatcher(g)
    PROVE  Join((gs \ {g}) \cup {Touch(g, i)}, Touch(g, i), i)
             = (gs \ {g}) \cup {Touch(g, i)} \cup AddedGroups(g, i)
  <1> DEFINE h == Touch(g, i)
  <1>1. /\ h \in GroupsBelow(n) /\ h.root = g.root /\ h.distance = g.distance
        /\ h.matchers = g.matchers /\ Touch(h, i) = h
    BY TouchType, TouchFields
  <1>2. OneMatcher(h)
    BY <1>1 DEF OneMatcher
  <1> HIDE DEF h
  <1>3. Absorb(h, i) = h
    BY <1>1, <1>2, AbsorbIs
  <1>4. AddedGroups(h, i) = AddedGroups(g, i)
    BY <1>1 DEF AddedGroups, Covers
  <1>5. Join((gs \ {g}) \cup {h}, h, i) = (gs \ {g}) \cup {h} \cup AddedGroups(g, i)
    BY <1>3, <1>4 DEF Join
  <1> QED
    BY <1>5 DEF h

\* The groups an interval adds, in full
LEMMA AddedFields ==
    ASSUME NEW g, NEW i, NEW c \in AddedGroups(g, i)
    PROVE  /\ g.distance # Exact
           /\ c.start = i.start /\ c.modified = i.start /\ c.end = i.end
           /\ c.root = g.root /\ c.distance # Root /\ IsFrom(c, i.metric)
           /\ c.distance = g.distance => ~(g.matchers \subseteq c.matchers)
  <1>1. c.root = g.root /\ c.distance # Root /\ IsFrom(c, i.metric)
    BY AddedAreFrom
  <1>2. g.distance # Exact /\ c \in AlertGroups(g.root, i) /\ ~Covers(c, g)
    BY DEF AddedGroups
  <1>3. \A d, m : /\ MatcherGroup(g.root, i, d, m).start = i.start
                  /\ MatcherGroup(g.root, i, d, m).modified = i.start
                  /\ MatcherGroup(g.root, i, d, m).end = i.end
    BY DEF MatcherGroup, Group
  <1>4. \E d, m : c = MatcherGroup(g.root, i, d, m)
    BY <1>2 DEF AlertGroups
  <1> QED
    BY <1>1, <1>2, <1>3, <1>4 DEF Covers

\* An alert that joins a fuzzy group, or a root, is given a main group.
LEMMA MainGroupAdded ==
    ASSUME NEW g, NEW i, g.distance # Exact, g.distance # Main
    PROVE  \E c \in AddedGroups(g, i) :
              c.distance = Main /\ c.matchers = {Project(i.metric, MainKeys)}
  <1> DEFINE c == MatcherGroup(g.root, i, Main, Project(i.metric, MainKeys))
  <1>1. c.distance = Main /\ c.matchers = {Project(i.metric, MainKeys)}
    BY DEF MatcherGroup, Group
  <1>2. c \in AlertGroups(g.root, i)
    BY DEF AlertGroups
  <1>3. c.distance # g.distance /\ g.distance # Exact
    BY <1>1
  <1> QED
    BY <1>1, <1>2, <1>3 DEF AddedGroups, Covers

---------------------------------------------------------------------------
(* bestMatch *)

\* What bestMatch returns is closer than anything else that matches.
LEMMA BestIsClosest ==
    ASSUME NEW n \in Nat, NEW gs, gs \subseteq GroupsBelow(n), NEW i \in Intervals,
           NEW g \in BestMatches(gs, i), NEW h \in gs, Matching(h, i)
    PROVE  /\ g \in gs /\ Matching(g, i)
           /\ \/ TimeDist(g, i) <= FuzzyDelta
              \/ g.distance = Exact /\ TimeDist(g, i) <= LongDelta
           /\ h.distance = g.distance => TimeDist(g, i) <= TimeDist(h, i)
           /\ TimeDist(h, i) <= FuzzyDelta =>
                 g.distance <= h.distance /\ TimeDist(g, i) <= FuzzyDelta
  <1> DEFINE near(S) == {x \in S : \A y \in S : x.distance <= y.distance}
  <1>1. ASSUME NEW S \in {ShortCandidates(gs, i), LongCandidates(gs, i)}, g \in Closest(S, i)
        PROVE  /\ g \in S
               /\ \A x \in S : g.distance <= x.distance
               /\ \A x \in S : x.distance = g.distance => TimeDist(g, i) <= TimeDist(x, i)
    <2>1. S \subseteq gs
      BY DEF ShortCandidates, LongCandidates
    <2>2. g \in near(S) /\ \A y \in near(S) : TimeDist(g, i) <= TimeDist(y, i)
      BY <1>1 DEF Closest
    <2> QED
      BY <2>1, <2>2
  <1>2. g \in gs /\ TimeDist(g, i) \in Int /\ TimeDist(h, i) \in Int
    BY BestMatchIsAGroup DEF TimeDist, GroupsBelow, Intervals
  <1>3. CASE ShortCandidates(gs, i) # {}
    <2>1. g \in Closest(ShortCandidates(gs, i), i)
      BY <1>3 DEF BestMatches
    <2> QED
      BY <1>1, <1>2, <2>1, DeltasAssumption DEF ShortCandidates
  <1>4. CASE ShortCandidates(gs, i) = {}
    <2>1. g \in Closest(LongCandidates(gs, i), i)
      BY <1>4 DEF BestMatches
    <2>2. ~(TimeDist(h, i) <= FuzzyDelta)
      BY <1>4 DEF ShortCandidates
    <2>3. g \in LongCandidates(gs, i)
      BY <1>1, <2>1
    <2>4. h.distance = g.distance /\ TimeDist(h, i) <= LongDelta => h \in LongCandidates(gs, i)
      BY <2>3 DEF LongCandidates
    <2>5. h.distance = g.distance => TimeDist(g, i) <= TimeDist(h, i)
      BY <1>1, <1>2, <2>1, <2>3, <2>4, DeltasAssumption DEF LongCandidates
    <2> QED
      BY <1>2, <2>2, <2>3, <2>5 DEF LongCandidates
  <1> QED
    BY <1>3, <1>4

\* A set of times has a least element.
LEMMA LeastTime ==
    ASSUME NEW S, S \subseteq Nat, S # {}
    PROVE  \E k \in S : \A j \in S : k <= j
  <1> DEFINE R == OpToRel(<, Nat)
  <1>1. PICK k \in S : \A j \in S : ~(<<j, k>> \in R)
    BY WFMin, NatLessThanWellFounded
  <1>2. ASSUME NEW j \in S, j < k
        PROVE  <<j, k>> \in R
    <2>1. <<j, k>> \in Nat \X Nat /\ <<j, k>>[1] < <<j, k>>[2]
      BY <1>2
    <2> QED
      BY <2>1, Zenon DEF OpToRel
  <1> HIDE DEF R
  <1>3. \A j \in S : ~(j < k)
    BY <1>1, <1>2, Zenon
  <1> QED
    BY <1>3

\* A collection that has groups near to an interval has a closest one.
LEMMA ClosestExists ==
    ASSUME NEW n \in Nat, NEW S, S \subseteq GroupsBelow(n), S # {}, NEW i \in Intervals,
           NEW b \in Nat, \A h \in S : TimeDist(h, i) \in Int /\ TimeDist(h, i) + b \in Nat
    PROVE  Closest(S, i) # {}
  <1> DEFINE near == {g \in S : \A h \in S : g.distance <= h.distance}
             ds == {g.distance : g \in S}
             ts == {TimeDist(g, i) + b : g \in near}
  <1>1. ds \subseteq Nat /\ ds # {}
    BY DEF GroupsBelow, Exact, Main, Fuzzy, Root
  <1>2. PICK d \in ds : \A e \in ds : d <= e
    BY <1>1, LeastTime
  <1>3. near # {}
    BY <1>2
  <1>4. ts \subseteq Nat /\ ts # {}
    BY <1>3
  <1>5. PICK t \in ts : \A u \in ts : t <= u
    BY <1>4, LeastTime
  <1>6. PICK g \in near : t = TimeDist(g, i) + b
    OBVIOUS
  <1>7. ASSUME NEW h \in near
        PROVE  TimeDist(g, i) <= TimeDist(h, i)
    <2>1. TimeDist(h, i) + b \in ts /\ TimeDist(g, i) \in Int /\ TimeDist(h, i) \in Int
      BY <1>6
    <2> QED
      BY <1>5, <1>6, <2>1
  <1> QED
    BY <1>6, <1>7 DEF Closest

\* What nothing is found for has nothing near to it.
LEMMA NoMatch ==
    ASSUME NEW n \in Nat, NEW gs, gs \subseteq GroupsBelow(n), NEW i \in Intervals,
           BestMatches(gs, i) = {}, NEW h \in gs, Matching(h, i),
           NEW b \in Nat, \A g \in gs : LastSeen(g) <= b
    PROVE  i.start - LastSeen(h) > (IF h.distance = Exact THEN LongDelta ELSE FuzzyDelta)
  <1>1. \A g \in gs : TimeDist(g, i) = i.start - LastSeen(g)
    BY DEF TimeDist, LastSeen
  <1>2. \A g \in gs : TimeDist(g, i) \in Int /\ TimeDist(g, i) + b \in Nat
    BY <1>1 DEF LastSeen, GroupsBelow, Intervals
  <1>3. ShortCandidates(gs, i) = {} /\ LongCandidates(gs, i) = {}
    <2>1. ShortCandidates(gs, i) \subseteq gs /\ LongCandidates(gs, i) \subseteq gs
      BY DEF ShortCandidates, LongCandidates
    <2> QED
      BY <1>2, <2>1, ClosestExists DEF BestMatches
  <1>4. ~(TimeDist(h, i) <= FuzzyDelta) /\ ~(h.distance = Exact /\ TimeDist(h, i) <= LongDelta)
    BY <1>3 DEF ShortCandidates, LongCandidates
  <1> QED
    BY <1>1, <1>2, <1>4, DeltasAssumption

---------------------------------------------------------------------------
(* The groups of a distinctive alert *)

\* A group of an alert has one matcher, a part of the alert's labels.
LEMMA OfAlert ==
    ASSUME NEW g, NEW a, Of(g, a)
    PROVE  /\ g.distance \in {Exact, Main}
           /\ \E m : m \subseteq a /\ g.matchers = {m}
  BY DEF Of, Project

\* An alert is matched by its own groups.
LEMMA OwnGroupMatches ==
    ASSUME NEW g, NEW i, Of(g, i.metric), g.start <= i.start
    PROVE  Matching(g, i)
  <1>1. \E m \in g.matchers : m \subseteq i.metric
    BY DEF Of, Project
  <1>2. LabelsFor(g, i) = i.metric
    BY DEF Of, LabelsFor, Exact, Main, Fuzzy
  <1> QED
    BY <1>1, <1>2 DEF Matching

\* What a group of an alert matches, its closer groups of the same distance
\* match, and so does its main group.
LEMMA SameAlertMatches ==
    ASSUME NEW g, NEW h, NEW a, NEW i, Of(g, a), Of(h, a), Matching(g, i), h.start <= i.start,
           h.distance = g.distance \/ h.distance = Main
    PROVE  Matching(h, i)
  <1>1. PICK m \in g.matchers : m \subseteq i.metric
    BY DEF Matching, LabelsFor, Of, Exact, Main, Fuzzy, Root
  <1>2. Project(a, MainKeys) \subseteq i.metric \/ g.matchers = h.matchers
    BY <1>1 DEF Of, Project, Exact, Main
  <1>3. \E k \in h.matchers : k \subseteq i.metric
    BY <1>1, <1>2 DEF Of, Exact, Main
  <1> QED
    BY <1>3 DEF Matching, LabelsFor, Of, Exact, Main, Fuzzy

\* What matches a distinctive alert at a small distance is a group of its own.
LEMMA NearMatchIsOwn ==
    ASSUME NEW a \in Alerts, Distinctive(a), NEW g, Sound(g), NEW i, i.metric = a,
           Matching(g, i), g.distance \in {Exact, Main}
    PROVE  Of(g, a)
  <1>1. PICK m \in g.matchers : m \subseteq a
    BY DEF Matching, LabelsFor, Exact, Main, Fuzzy, Root
  <1>2. g.distance # Root
    BY DEF Exact, Main, Root
  <1>3. ~Marked(g)
    BY <1>1, NamesAssumption DEF Marked
  <1>4. PICK b \in Alerts : IsFrom(g, b)
    BY <1>2, <1>3 DEF Sound, Made
  <1>5. Project(b, MainKeys) \subseteq a
    BY <1>1, <1>4 DEF IsFrom, Project, Exact, Main, Fuzzy
  <1>6. b = a
    BY <1>5 DEF Distinctive
  <1> QED
    BY <1>4, <1>6 DEF IsFrom, Of, Exact, Main, Fuzzy

\* Another alert adds no group of a distinctive one.
LEMMA AddedNotOf ==
    ASSUME NEW a \in Alerts, Distinctive(a), NEW b \in Alerts \ {a}, NEW c, IsFrom(c, b)
    PROVE  ~Of(c, a)
  <1>1. Project(a, MainKeys) \subseteq a /\ Project(b, MainKeys) # Project(a, MainKeys)
    BY DEF Project, Distinctive
  <1> QED
    BY <1>1 DEF Of, IsFrom, Exact, Main, Fuzzy

\* A group that keeps its distance and matchers is of the same alerts.
LEMMA OfKept ==
    ASSUME NEW g, NEW h, NEW a, h.distance = g.distance, h.matchers = g.matchers
    PROVE  Of(h, a) <=> Of(g, a)
  BY DEF Of

\* Two witnesses agree.
LEMMA WitnessesAgree ==
    ASSUME NEW hs, NEW gs, gs \subseteq GroupsBelow(nextID), NEW a, NEW id, NEW t \in Nat, NEW id2,
           now \in Nat, \A g \in gs : LastSeen(g) <= now,
           Settled(hs, gs, a, id, t), now - t <= FuzzyDelta, Settled(hs, gs, a, id2, now)
    PROVE  id = id2
  <1>1. PICK v \in gs : Witness(v, hs, gs, a, id, t)
    BY DEF Settled
  <1>2. PICK w \in gs : Witness(w, hs, gs, a, id2, now)
    BY DEF Settled
  <1>3. \A g \in gs : LastSeen(g) \in Nat
    BY DEF LastSeen, GroupsBelow
  <1>4. t <= LastSeen(v) /\ LastSeen(v) <= now /\ now <= LastSeen(w) /\ LastSeen(w) <= now
    BY <1>1, <1>2 DEF Witness
  <1>5. ~Beats(v, w) \/ ~Beats(w, v)
    BY <1>3, <1>4, DeltasAssumption DEF Beats, Exact, Main
  <1>6. /\ w.root = id \/ Beats(v, w)
        /\ v.root = id2 \/ Beats(w, v)
        /\ v.root = id /\ w.root = id2
    BY <1>1, <1>2 DEF Witness
  <1> QED
    BY <1>5, <1>6

---------------------------------------------------------------------------
(* A turn of tryMatchIntervals *)

\* Every group of the collection is sound.
AllSound(gs) == \A g \in gs : Sound(g)

LEMMA SoundTimes ==
    ASSUME TypeInv, NEW gs, AllSound(gs)
    PROVE  /\ gs \subseteq GroupsBelow(nextID) /\ nextID \in Nat /\ now \in Nat
           /\ \A g \in gs : LastSeen(g) \in Nat /\ LastSeen(g) <= now
  <1>1. gs \subseteq GroupsBelow(nextID) /\ nextID \in Nat /\ now \in Nat
    BY DEF AllSound, Sound, Made, TypeInv, EngineTypeOK
  <1> QED
    BY <1>1 DEF AllSound, Sound, Made, LastSeen, GroupsBelow

\* A match brings the group to the present.
LEMMA TouchedNow ==
    ASSUME TypeInv, NEW hs, NEW g, Sound(g), NEW i \in Intervals, i.start = now, i.end = now
    PROVE  /\ LastSeen(Touch(g, i)) = now
           /\ Touch(g, i).root = g.root /\ Touch(g, i).distance = g.distance
           /\ \A a : Of(Touch(g, i), a) <=> Of(g, a)
           /\ g.distance = Exact =>
                 \A a : FromHistory(hs, Touch(g, i), a) <=> FromHistory(hs, g, a)
  <1>1. g \in GroupsBelow(nextID) /\ nextID \in Nat /\ now \in Nat
    BY DEF Sound, Made, TypeInv, EngineTypeOK
  <1> DEFINE h == Touch(g, i)
  <1>2. /\ h.root = g.root /\ h.start = g.start /\ h.distance = g.distance
        /\ h.matchers = g.matchers
        /\ h.modified = IF g.distance > Exact THEN i.start ELSE g.modified
        /\ h.end = IF g.end < i.end THEN i.end ELSE g.end
    BY <1>1, TouchFields
  <1> HIDE DEF h
  <1>3. \A a : Of(h, a) <=> Of(g, a)
    BY <1>2, OfKept
  <1>4. LastSeen(h) = now
    BY <1>1, <1>2 DEF LastSeen, Sound, Made, GroupsBelow, Exact, Main, Fuzzy, Root
  <1>5. g.distance = Exact => h.modified = g.modified
    BY <1>2 DEF Exact
  <1> QED
    BY <1>2, <1>3, <1>4, <1>5 DEF h, FromHistory

\* The alert itself is matched: it is settled on the id of the group found,
\* whatever was there before.
LEMMA OwnMatch ==
    ASSUME TypeInv, NEW hs, NEW gs, AllSound(gs), NEW i \in Intervals, i.start = now, i.end = now,
           NEW g \in BestMatches(gs, i), Distinctive(i.metric), Latest(now, gs, i.metric),
           \A h \in gs : h.distance = Exact /\ Of(h, i.metric) => FromHistory(hs, h, i.metric),
           NEW gs2, gs2 = (gs \ {g}) \cup {Touch(g, i)} \cup AddedGroups(g, i)
    PROVE  Settled(hs, gs2, i.metric, g.root, now) /\ Latest(now, gs2, i.metric)
  <1> DEFINE a == i.metric
             u == Touch(g, i)
  <1>1. /\ gs \subseteq GroupsBelow(nextID) /\ nextID \in Nat /\ now \in Nat
        /\ \A h \in gs : LastSeen(h) \in Nat /\ LastSeen(h) <= now
    BY SoundTimes
  <1>2. g \in gs /\ a \in Alerts
    BY BestMatchIsAGroup DEF Intervals
  <1>3. \A h \in gs : TimeDist(h, i) = now - LastSeen(h)
    BY DEF TimeDist, LastSeen
  <1>4. \A h \in gs : Of(h, a) => Matching(h, i)
    BY OwnGroupMatches DEF AllSound, Sound, Made
  <1>5. \A h \in gs : Of(h, a) =>
          /\ h.distance = g.distance => LastSeen(h) <= LastSeen(g)
          /\ now - LastSeen(h) <= FuzzyDelta => g.distance <= h.distance
    BY <1>1, <1>2, <1>3, <1>4, BestIsClosest
  <1>6. /\ LastSeen(u) = now /\ u.root = g.root /\ u.distance = g.distance
        /\ Of(u, a) <=> Of(g, a)
        /\ g.distance = Exact => (FromHistory(hs, u, a) <=> FromHistory(hs, g, a))
    BY <1>2, TouchedNow DEF AllSound
  <1>7. \A c \in AddedGroups(g, i) :
          /\ g.distance # Exact /\ c.root = g.root /\ LastSeen(c) = now
          /\ c.distance = g.distance => ~(g.matchers \subseteq c.matchers)
    BY AddedFields DEF LastSeen
  <1>8. g.distance \in {Exact, Main} => Of(g, a)
    <2>1. Matching(g, i)
      BY <1>1, <1>2 DEF BestMatches, Closest, ShortCandidates, LongCandidates
    <2> QED
      BY <1>2, <2>1, NearMatchIsOwn DEF AllSound
  <1>9. g.distance \in {Exact, Main, Fuzzy, Root}
    BY <1>1, <1>2 DEF GroupsBelow
  <1>0. gs2 = (gs \ {g}) \cup {u} \cup AddedGroups(g, i)
    OBVIOUS
  <1> HIDE DEF u
  <1>10. Settled(hs, gs2, a, g.root, now)
    <2>1. CASE g.distance = Exact
      <3>1. Of(u, a) /\ FromHistory(hs, u, a)
        BY <1>2, <1>6, <1>8, <2>1
      <3>2. ASSUME NEW h \in gs2, Of(h, a), h.root # g.root
            PROVE  Beats(u, h)
        <4>1. h \in gs /\ h.distance \in {Exact, Main}
          BY <1>0, <1>6, <1>7, <3>2, OfAlert
        <4>2. CASE h.distance = Main
          BY <1>6, <2>1, <4>2 DEF Beats
        <4>3. CASE h.distance = Exact
          <5>1. LastSeen(h) <= LastSeen(g) /\ LastSeen(g) <= now
            BY <1>1, <1>2, <1>5, <2>1, <3>2, <4>1, <4>3
          <5>2. LastSeen(h) # now
            BY <1>1, <1>2, <1>8, <2>1, <3>2, <4>1, <4>3, <5>1 DEF Latest
          <5> QED
            BY <1>1, <1>6, <2>1, <4>1, <4>3, <5>1, <5>2 DEF Beats
        <4> QED
          BY <4>1, <4>2, <4>3
      <3> QED
        BY <1>0, <1>1, <1>6, <3>1, <3>2 DEF Settled, Witness
    <2>2. CASE g.distance = Main
      <3>1. Of(u, a) /\ u.distance # Exact
        BY <1>6, <1>8, <2>2 DEF Exact, Main
      <3>2. ASSUME NEW h \in gs2, Of(h, a), h.root # g.root
            PROVE  Beats(u, h)
        <4>1. h \in gs /\ h.distance \in {Exact, Main}
          BY <1>0, <1>6, <1>7, <3>2, OfAlert
        <4>2. CASE h.distance = Exact
          <5>1. ~(now - LastSeen(h) <= FuzzyDelta)
            BY <1>5, <2>2, <3>2, <4>1, <4>2 DEF Exact, Main
          <5> QED
            BY <1>1, <1>6, <2>2, <4>1, <4>2, <5>1, DeltasAssumption DEF Beats
        <4>3. CASE h.distance = Main
          <5>1. LastSeen(h) <= LastSeen(g) /\ LastSeen(g) <= now
            BY <1>1, <1>2, <1>5, <2>2, <3>2, <4>1, <4>3
          <5>2. LastSeen(h) # now
            BY <1>1, <1>2, <1>8, <2>2, <3>2, <4>1, <4>3, <5>1 DEF Latest
          <5> QED
            BY <1>1, <1>6, <2>2, <4>1, <4>3, <5>1, <5>2 DEF Beats
        <4> QED
          BY <4>1, <4>2, <4>3
      <3> QED
        BY <1>0, <1>1, <1>6, <3>1, <3>2 DEF Settled, Witness
    <2>3. CASE g.distance \in {Fuzzy, Root}
      <3>1. PICK c \in AddedGroups(g, i) : c.distance = Main /\ c.matchers = {Project(a, MainKeys)}
        <4>1. g.distance # Exact /\ g.distance # Main
          BY <2>3 DEF Exact, Main, Fuzzy, Root
        <4> QED
          BY <4>1, MainGroupAdded
      <3>2. Of(c, a) /\ c.distance # Exact /\ c.root = g.root /\ LastSeen(c) = now
        BY <1>7, <3>1 DEF Of, Exact, Main
      <3>3. ASSUME NEW h \in gs2, Of(h, a), h.root # g.root
            PROVE  Beats(c, h)
        <4>1. h \in gs /\ h.distance \in {Exact, Main}
          BY <1>0, <1>6, <1>7, <3>3, OfAlert
        <4>2. ~(now - LastSeen(h) <= FuzzyDelta)
          BY <1>5, <2>3, <3>3, <4>1 DEF Exact, Main, Fuzzy, Root
        <4>3. LastSeen(h) + FuzzyDelta < now /\ LastSeen(h) < now
          BY <1>1, <4>1, <4>2, DeltasAssumption
        <4> QED
          BY <3>1, <3>2, <4>1, <4>3 DEF Beats
      <3> QED
        BY <1>0, <1>1, <3>2, <3>3 DEF Settled, Witness
    <2> QED
      BY <1>9, <2>1, <2>2, <2>3
  <1>11. Latest(now, gs2, a)
    <2>1. ASSUME NEW h \in gs, Of(h, a), LastSeen(h) = now,
                 NEW k \in {u} \cup AddedGroups(g, i), Of(k, a), k.distance = h.distance
          PROVE  h.root = g.root
      <3>1. g.distance <= h.distance
        BY <1>1, <1>5, <2>1, DeltasAssumption
      <3>2. g.distance \in {Exact, Main} /\ h.distance \in {Exact, Main}
        BY <1>9, <2>1, <3>1, OfAlert DEF Exact, Main, Fuzzy, Root
      <3>3. Of(g, a)
        BY <1>8, <3>2
      <3>4. k.distance = g.distance
        <4>1. CASE k = u
          BY <1>6, <4>1
        <4>2. CASE k \in AddedGroups(g, i)
          <5>1. g.distance = Main
            BY <1>7, <3>2, <4>2
          <5>2. h.distance = Main
            BY <3>1, <3>2, <5>1 DEF Exact, Main
          <5> QED
            BY <2>1, <5>1, <5>2
        <4> QED
          BY <2>1, <4>1, <4>2
      <3>5. LastSeen(g) = now
        <4>1. h.distance = g.distance
          BY <2>1, <3>4
        <4>2. now <= LastSeen(g) /\ LastSeen(g) <= now /\ LastSeen(g) \in Nat
          BY <1>1, <1>2, <1>5, <2>1, <4>1
        <4> QED
          BY <1>1, <4>2
      <3> QED
        BY <1>2, <2>1, <3>3, <3>4, <3>5 DEF Latest
    <2>2. \A k \in {u} \cup AddedGroups(g, i) : k.root = g.root
      BY <1>6, <1>7
    <2>3. gs2 \subseteq gs \cup ({u} \cup AddedGroups(g, i))
      BY <1>0
    <2> QED
      BY <2>1, <2>2, <2>3 DEF Latest
  <1> QED
    BY <1>10, <1>11

\* Another alert is matched, perhaps by a group of this one: the witness is
\* left alone or brought to the present, and nothing is preferred to it.
LEMMA OtherMatch ==
    ASSUME TypeInv, NEW hs, NEW gs, AllSound(gs), NEW i \in Intervals, i.start = now, i.end = now,
           NEW g \in BestMatches(gs, i), NEW a \in Alerts \ {i.metric}, Distinctive(a),
           NEW gs2, gs2 = (gs \ {g}) \cup {Touch(g, i)} \cup AddedGroups(g, i)
    PROVE  /\ Latest(now, gs, a) => Latest(now, gs2, a)
           /\ \A id, t : t \in Nat /\ now - t <= FuzzyDelta /\ Settled(hs, gs, a, id, t)
                           => Settled(hs, gs2, a, id, t)
  <1> DEFINE u == Touch(g, i)
  <1>1. /\ gs \subseteq GroupsBelow(nextID) /\ nextID \in Nat /\ now \in Nat
        /\ \A h \in gs : LastSeen(h) \in Nat /\ LastSeen(h) <= now
    BY SoundTimes
  <1>2. g \in gs /\ i.metric \in Alerts
    BY BestMatchIsAGroup DEF Intervals
  <1>3. \A h \in gs : TimeDist(h, i) = now - LastSeen(h) /\ h.start <= i.start
    BY DEF TimeDist, LastSeen, AllSound, Sound, Made
  <1>4. /\ LastSeen(u) = now /\ u.root = g.root /\ u.distance = g.distance
        /\ Of(u, a) <=> Of(g, a)
        /\ g.distance = Exact => (FromHistory(hs, u, a) <=> FromHistory(hs, g, a))
    BY <1>2, TouchedNow DEF AllSound
  <1>5. \A c \in AddedGroups(g, i) : ~Of(c, a)
    BY <1>2, AddedFields, AddedNotOf
  <1>6. \A h \in gs2 : Of(h, a) => h \in gs \ {g} \/ (h = u /\ Of(g, a))
    BY <1>4, <1>5
  <1>7. ASSUME NEW h \in gs, Of(h, a), Of(g, a)
        PROVE  /\ h.distance = g.distance => LastSeen(h) <= LastSeen(g)
               /\ h.distance = Main /\ g.distance = Exact => ~(now - LastSeen(h) <= FuzzyDelta) \/ now - LastSeen(g) <= FuzzyDelta
    <2>1. Matching(g, i)
      BY <1>1, <1>2 DEF BestMatches, Closest, ShortCandidates, LongCandidates
    <2>2. h.distance = g.distance \/ h.distance = Main => Matching(h, i)
      BY <1>3, <1>7, <2>1, SameAlertMatches
    <2>3. h.distance = g.distance => TimeDist(g, i) <= TimeDist(h, i)
      BY <1>1, <1>2, <2>2, BestIsClosest
    <2>4. h.distance = Main /\ TimeDist(h, i) <= FuzzyDelta => TimeDist(g, i) <= FuzzyDelta
      BY <1>1, <1>2, <2>2, BestIsClosest
    <2> QED
      BY <1>1, <1>2, <1>3, <2>3, <2>4
  <1> HIDE DEF u
  <1>8. Latest(now, gs, a) => Latest(now, gs2, a)
    <2> SUFFICES ASSUME Latest(now, gs, a) PROVE Latest(now, gs2, a)
      OBVIOUS
    <2>1. ASSUME NEW h \in gs, Of(h, a), LastSeen(h) = now, Of(g, a), h.distance = g.distance
          PROVE  h.root = g.root
      <3>1. LastSeen(g) = now
        BY <1>1, <1>2, <1>7, <2>1
      <3> QED
        BY <1>2, <2>1, <3>1 DEF Latest
    <2> QED
      BY <1>4, <1>6, <2>1 DEF Latest
  <1>9. ASSUME NEW id, NEW t \in Nat, now - t <= FuzzyDelta, Settled(hs, gs, a, id, t)
        PROVE  Settled(hs, gs2, a, id, t)
    <2>1. PICK w \in gs : Witness(w, hs, gs, a, id, t)
      BY <1>9 DEF Settled
    <2>2. /\ Of(w, a) /\ w.root = id /\ t <= LastSeen(w)
          /\ w.distance = Exact => FromHistory(hs, w, a)
          /\ \A h \in gs : Of(h, a) => h.root = id \/ Beats(w, h)
      BY <2>1 DEF Witness
    <2>3. CASE w = g
      <3>1. Of(u, a) /\ u.root = id /\ t <= LastSeen(u) /\ (u.distance = Exact => FromHistory(hs, u, a))
        BY <1>1, <1>4, <2>2, <2>3
      <3>2. LastSeen(w) <= LastSeen(u) /\ w.distance = u.distance
        BY <1>1, <1>4, <2>3
      <3>3. ASSUME NEW h \in gs, Beats(w, h)
            PROVE  Beats(u, h)
        BY <1>1, <1>4, <3>2, <3>3, DeltasAssumption DEF Beats
      <3>4. u \in gs2
        BY DEF u
      <3> QED
        BY <1>6, <2>2, <3>1, <3>3, <3>4 DEF Settled, Witness
    <2>4. CASE w # g
      <3>1. w \in gs2
        BY <2>4
      <3>2. ASSUME Of(g, a), g.root # id
            PROVE  Beats(w, u)
        <4>1. Beats(w, g)
          BY <1>2, <2>2, <3>2
        <4>2. ~(g.distance = w.distance /\ LastSeen(g) < LastSeen(w))
          BY <1>1, <1>2, <1>7, <2>2, <3>2
        <4>3. now - LastSeen(w) <= FuzzyDelta
          BY <1>1, <2>2, <1>9, DeltasAssumption
        <4>4. ~(w.distance = Main /\ g.distance = Exact /\ LastSeen(g) + FuzzyDelta < LastSeen(w))
          BY <1>1, <1>2, <1>7, <2>2, <3>2, <4>3, DeltasAssumption
        <4>5. w.distance = Exact /\ g.distance = Main
          BY <4>1, <4>2, <4>4 DEF Beats
        <4> QED
          BY <1>4, <4>5 DEF Beats
      <3>3. \A h \in gs2 : Of(h, a) => h.root = id \/ Beats(w, h)
        BY <1>4, <1>6, <2>2, <3>2
      <3> QED
        BY <2>2, <3>1, <3>3 DEF Settled, Witness
    <2> QED
      BY <2>3, <2>4
  <1> QED
    BY <1>8, <1>9

---------------------------------------------------------------------------
(* Times, and what the groups were made for *)

\* A batch of live alerts is worked off.
Batch == ready /\ pc \in {"match", "group"}

\* The history is in the past, what fires fires now, and every alert was
\* exported once at most.
TimelyInv ==
    /\ \A i \in history : i.start <= i.end /\ i.end <= now /\ (Batch => i.end < now)
    /\ ready => \A i \in todo \cup unmatched : i.start = now /\ i.end = now
    /\ ~ready => published = {} /\ todo \cup unmatched \subseteq history
    /\ \A p, q \in published : p.at <= now /\ (p.metric = q.metric => p = q)

MadeInv == \A g \in groups \cup fresh : Made(g, now)

LEMMA TimelyInvInductive ==
    ASSUME TypeInv, RefInv, TimelyInv, Step
    PROVE  TimelyInv'
  <1> USE DEF RefInv, IdleInv, TypeInv
  <1>1. CASE NextChange
    BY <1>1 DEF NextChange, TimelyInv, Batch, EngineTypeOK
  <1>2. CASE EndChange
    BY <1>2 DEF EndChange, BatchDone, TimelyInv, Batch, boot
  <1>3. CASE \E prev : UpdateFrom(prev)
    BY <1>3 DEF UpdateFrom, TimelyInv, Batch
  <1>4. ASSUME NEW i \in todo, TryMatchInterval(i)
        PROVE  TimelyInv'
    <2>1. /\ UNCHANGED <<now, pc, history, ready, published>>
          /\ todo' \cup unmatched' \subseteq todo \cup unmatched
      BY <1>4 DEF TryMatchInterval, boot
    <2> QED
      BY <2>1 DEF TimelyInv, Batch
  <1>5. CASE BeginUnmatched
    BY <1>5 DEF BeginUnmatched, TimelyInv, Batch, boot
  <1>6. ASSUME NEW i \in todo, AddInterval(i)
        PROVE  TimelyInv'
    BY <1>6 DEF AddInterval, TimelyInv, Batch, boot
  <1>7. ASSUME NEW alerts \in SUBSET Alerts, NEW gap \in Gaps, ProcessAlertsBatch(alerts, gap)
        PROVE  TimelyInv'
    <2>1. now \in Nat /\ now' \in Nat /\ now < now'
      BY <1>7, ClockAssumption DEF ProcessAlertsBatch, EngineTypeOK
    <2>2. \A i \in history : i.end \in Nat
      BY DEF EngineTypeOK, Intervals
    <2>3. \A p \in published : p.at \in Nat
      BY DEF EngineTypeOK
    <2>4. /\ UNCHANGED <<history, ready, published>> /\ ready
          /\ \A i \in todo' \cup unmatched' : i.start = now' /\ i.end = now'
      BY <1>7 DEF ProcessAlertsBatch, boot
    <2> QED
      BY <2>1, <2>2, <2>3, <2>4 DEF TimelyInv, Batch
  <1>8. CASE AssignAlertsToGroups
    BY <1>8 DEF AssignAlertsToGroups, TimelyInv, Batch, boot
  <1>9. CASE UpdateHealthMap
    <2>1. /\ UNCHANGED <<now, history, ready, todo, unmatched>> /\ pc' = "idle" /\ ready
          /\ \A p \in published' :
                \/ p \in published /\ \A q \in grouped : q.metric # p.metric
                \/ \E q \in grouped : p = [metric |-> q.metric, id |-> q.id, at |-> now]
      BY <1>9 DEF UpdateHealthMap, boot
    <2>2. now \in Nat /\ \A p, q \in grouped : p.metric = q.metric => p = q
      BY <2>1 DEF BatchInv, EngineTypeOK
    <2>3. \A p, q \in published' : p.at <= now /\ (p.metric = q.metric => p = q)
      BY <2>1, <2>2 DEF TimelyInv
    <2> QED
      BY <2>1, <2>3 DEF TimelyInv, Batch
  <1>10. CASE SilencedAlertsError \/ Shutdown
    BY <1>10 DEF SilencedAlertsError, Shutdown, TimelyInv, Batch, boot
  <1>11. CASE UNCHANGED vars
    BY <1>11 DEF vars, boot, TimelyInv, Batch
  <1> QED
    BY <1>1, <1>2, <1>3, <1>4, <1>5, <1>6, <1>7, <1>8, <1>9, <1>10, <1>11 DEF Step

\* What a group was made for shows in its distance and its matchers.
LEMMA MadeKept ==
    ASSUME NEW g, NEW h, NEW t, Made(g, t), h.distance = g.distance, h.matchers = g.matchers,
           h.start <= t, h.end <= t, h.modified <= t
    PROVE  Made(h, t)
  BY DEF Made, Marked, IsFrom

LEMMA TouchedIsMade ==
    ASSUME NEW n \in Nat, NEW g \in GroupsBelow(n), NEW i \in Intervals, NEW t,
           i.start <= t, i.end <= t, Made(g, t)
    PROVE  Made(Touch(g, i), t)
  <1> DEFINE h == Touch(g, i)
  <1>1. /\ h.distance = g.distance /\ h.matchers = g.matchers /\ h.start = g.start
        /\ h.modified = IF g.distance > Exact THEN i.start ELSE g.modified
        /\ h.end = IF g.end < i.end THEN i.end ELSE g.end
    BY TouchFields
  <1> HIDE DEF h
  <1>2. h.start <= t /\ h.end <= t /\ h.modified <= t
    BY <1>1 DEF Made
  <1>3. Made(h, t)
    BY <1>1, <1>2, MadeKept
  <1> QED
    BY <1>3 DEF h

LEMMA AddedAreMade ==
    ASSUME NEW i \in Intervals, NEW t, i.start <= t, i.end <= t, NEW g, NEW c \in AddedGroups(g, i)
    PROVE  Made(c, t)
  <1>1. i.metric \in Alerts
    BY DEF Intervals
  <1> QED
    BY <1>1, AddedFields DEF Made

\* A turn of addIntervalsGroups for interval i joins group g, which is h then.
Joined(i, g, h) ==
    /\ \/ g \in fresh /\ (g \in BestMatches(fresh, i) \/ g.distance = Root)
       \/ g = RootGroup(nextID, i, 0)
    /\ h \in {g, Touch(g, i)} /\ (g.distance \in {Exact, Root} => h = g)
    /\ fresh' = (fresh \ {g}) \cup {h} \cup AddedGroups(g, i)
    /\ grouped' = grouped \cup {Grouped(i, g)}

LEMMA AddTurn ==
    ASSUME TypeInv, RefInv, OneMatcherInv, NEW i \in todo, AddInterval(i)
    PROVE  \E g, h : Joined(i, g, h)
  <1>1. i \in Intervals /\ nextID \in Nat
    BY DEF TypeInv, EngineTypeOK
  <1>2. ASSUME NEW g \in Candidates(i), fresh' = Join(fresh, g, i),
               grouped' = grouped \cup {Grouped(i, g)}
        PROVE  Joined(i, g, Absorb(g, i))
    <2>1. g \in fresh /\ (g \in BestMatches(fresh, i) \/ g.distance = Root)
      BY BestMatchIsAGroup DEF Candidates, RefInv, SharedInv
    <2>2. g \in GroupsBelow(nextID) /\ OneMatcher(g)
      BY <2>1 DEF TypeInv, EngineTypeOK, OneMatcherInv
    <2>3. /\ Absorb(g, i) \in {g, Touch(g, i)}
          /\ g.distance \in {Exact, Root} => Absorb(g, i) = g
      BY <1>1, <2>2, AbsorbIs
    <2> QED
      BY <1>2, <2>1, <2>3 DEF Joined, Join
  <1>3. ASSUME NEW g, g = RootGroup(nextID, i, 0), fresh' = Join(fresh, g, i),
               grouped' = grouped \cup {Grouped(i, g)}
        PROVE  Joined(i, g, g)
    <2>1. g.distance = Root
      BY <1>3 DEF RootGroup, Group
    <2>2. Absorb(g, i) = g
      BY <2>1, RootAbsorbsNothing
    <2> QED
      BY <1>3, <2>2 DEF Joined, Join
  <1> QED
    BY <1>2, <1>3 DEF AddInterval

LEMMA MadeInvInductive ==
    ASSUME TypeInv, RefInv, OneMatcherInv, TimelyInv, MadeInv, Step
    PROVE  MadeInv'
  <1> USE DEF TypeInv
  <1>1. /\ nextID \in Nat /\ now \in Nat
        /\ groups \cup fresh \subseteq GroupsBelow(nextID)
        /\ \A i \in todo \cup unmatched \cup history :
              i \in Intervals /\ i.start \in Nat /\ i.end \in Nat
    BY DEF EngineTypeOK, Intervals
  <1>2. \A i \in todo \cup unmatched : i.start <= now /\ i.end <= now
    BY <1>1 DEF TimelyInv
  <1>3. ASSUME NEW i \in todo, TryMatchInterval(i)
        PROVE  MadeInv'
    <2>1. CASE UNCHANGED groups
      BY <1>3, <2>1 DEF TryMatchInterval, MadeInv
    <2>2. ASSUME NEW g \in BestMatches(groups, i),
                 groups' = Join((groups \ {g}) \cup {Touch(g, i)}, Touch(g, i), i)
          PROVE  MadeInv'
      <3>1. g \in groups /\ g \in GroupsBelow(nextID) /\ OneMatcher(g) /\ Made(g, now)
        BY <1>1, BestMatchIsAGroup DEF OneMatcherInv, MadeInv
      <3>2. groups' = (groups \ {g}) \cup {Touch(g, i)} \cup AddedGroups(g, i)
        BY <1>1, <2>2, <3>1, MatchJoin
      <3>3. Made(Touch(g, i), now)
        BY <1>1, <1>2, <3>1, TouchedIsMade
      <3>4. \A c \in AddedGroups(g, i) : Made(c, now)
        BY <1>1, <1>2, AddedAreMade
      <3> QED
        BY <1>3, <3>2, <3>3, <3>4 DEF TryMatchInterval, MadeInv
    <2> QED
      BY <1>3, <2>1, <2>2 DEF TryMatchInterval
  <1>4. ASSUME NEW i \in todo, AddInterval(i)
        PROVE  MadeInv'
    <2>1. PICK g, h : Joined(i, g, h)
      BY <1>4, AddTurn
    <2>2. Made(h, now)
      <3>1. CASE g \in fresh
        <4>1. Made(g, now) /\ g \in GroupsBelow(nextID)
          BY <1>1, <3>1 DEF MadeInv
        <4>2. Made(Touch(g, i), now)
          BY <1>1, <1>2, <4>1, TouchedIsMade
        <4> QED
          BY <2>1, <4>1, <4>2 DEF Joined
      <3>2. CASE g = RootGroup(nextID, i, 0)
        <4>1. g.distance = Root /\ g.start = i.start /\ g.end = i.end /\ g.modified = 0
          BY <3>2 DEF RootGroup, Group
        <4>2. h = g
          BY <2>1, <4>1 DEF Joined
        <4> QED
          BY <1>1, <1>2, <4>1, <4>2 DEF Made
      <3> QED
        BY <2>1, <3>1, <3>2 DEF Joined
    <2>3. \A c \in AddedGroups(g, i) : Made(c, now)
      BY <1>1, <1>2, AddedAreMade
    <2> QED
      BY <1>4, <2>1, <2>2, <2>3 DEF Joined, AddInterval, MadeInv
  <1>5. CASE BeginUnmatched
    <2>1. \A i : LET g == RootGroup(nextID, i, i.start)
                 IN  g.distance = Root /\ g.start = i.start /\ g.end = i.end /\ g.modified = i.start
      BY DEF RootGroup, Group
    <2>2. \A i \in unmatched : Made(RootGroup(nextID, i, i.start), now)
      BY <1>2, <2>1 DEF Made
    <2> QED
      BY <1>5, <2>2 DEF BeginUnmatched, MadeInv
  <1>6. ASSUME NEW alerts \in SUBSET Alerts, NEW gap \in Gaps, ProcessAlertsBatch(alerts, gap)
        PROVE  MadeInv'
    <2>1. now' \in Nat /\ now <= now'
      BY <1>1, <1>6, ClockAssumption DEF ProcessAlertsBatch
    <2>2. ASSUME NEW g \in groups \cup fresh
          PROVE  Made(g, now')
      <3>1. g.start \in Nat /\ g.end \in Nat /\ g.modified \in Nat
        BY <1>1 DEF GroupsBelow
      <3> QED
        BY <1>1, <2>1, <3>1 DEF MadeInv, Made
    <2> QED
      BY <1>6, <2>2 DEF ProcessAlertsBatch, MadeInv
  <1>7. CASE \E prev : UpdateFrom(prev)
    <2>1. PICK new : groups' = {[g EXCEPT !.root = new[g.root]] : g \in groups}
      BY <1>7 DEF UpdateFrom
    <2>2. ASSUME NEW g \in groups, NEW r
          PROVE  Made([g EXCEPT !.root = r], now)
      <3> DEFINE h == [g EXCEPT !.root = r]
      <3>1. /\ h.distance = g.distance /\ h.matchers = g.matchers /\ h.start = g.start
            /\ h.end = g.end /\ h.modified = g.modified
        BY <1>1 DEF GroupsBelow
      <3> HIDE DEF h
      <3>2. Made(g, now)
        BY DEF MadeInv
      <3>3. Made(h, now)
        BY <3>1, <3>2, MadeKept DEF Made
      <3> QED
        BY <3>3 DEF h
    <2>3. \A k \in groups' : Made(k, now)
      BY <2>1, <2>2
    <2> QED
      BY <1>7, <2>3 DEF UpdateFrom, MadeInv
  <1>8. CASE AssignAlertsToGroups
    <2>1. ASSUME NEW h \in groups \cup fresh
          PROVE  Made(Stamp(h), now)
      <3> DEFINE ms == {m \cup {<<"group_id", h.root>>} : m \in h.matchers}
                 k == [h EXCEPT !.matchers = ms]
      <3>1. CASE Stamp(h) = h
        BY <3>1 DEF MadeInv
      <3>2. CASE h.distance = Exact /\ Stamp(h) = k
        <4>1. ASSUME NEW m \in ms PROVE \E p \in m : p[1] = "group_id"
          <5>1. <<"group_id", h.root>> \in m /\ <<"group_id", h.root>>[1] = "group_id"
            OBVIOUS
          <5> QED
            BY <5>1
        <4> HIDE DEF ms
        <4>2. /\ k.distance = h.distance /\ k.matchers = ms /\ k.start = h.start
              /\ k.end = h.end /\ k.modified = h.modified
          BY <1>1 DEF GroupsBelow
        <4> HIDE DEF k
        <4>3. Marked(k)
          BY <3>2, <4>1, <4>2 DEF Marked
        <4>4. Made(k, now)
          BY <4>2, <4>3 DEF MadeInv, Made
        <4> QED
          BY <3>2, <4>4
      <3> QED
        BY <3>1, <3>2 DEF Stamp
    <2> QED
      BY <1>8, <2>1 DEF AssignAlertsToGroups, MadeInv
  <1>9. CASE EndChange
    BY <1>9 DEF EndChange, MadeInv
  <1>10. CASE \/ NextChange \/ UpdateHealthMap \/ SilencedAlertsError \/ Shutdown
              \/ UNCHANGED vars
    BY <1>10 DEF NextChange, UpdateHealthMap, SilencedAlertsError, Shutdown, vars, MadeInv
  <1> QED
    BY <1>3, <1>4, <1>5, <1>6, <1>7, <1>8, <1>9, <1>10 DEF Step

---------------------------------------------------------------------------
(* Where the groups of an alert come from *)

\* The exact group of an alert comes from the history or from the batch at hand;
\* so does every group of a distinctive alert that is new.
CreatedInv ==
    /\ \A g \in groups \cup fresh, a \in Alerts :
          g.distance = Exact /\ Of(g, a) =>
              \/ FromHistory(history, g, a)
              \/ Batch /\ g.start = now /\ \E q \in grouped : q.metric = a
    /\ ready => \A g \in fresh, a \in Alerts :
          Distinctive(a) /\ Of(g, a) => \E q \in grouped : q.metric = a /\ q.id = g.root

LEMMA FromHistoryKept ==
    ASSUME NEW hs, NEW g, NEW h, NEW a, h.start = g.start, h.modified = g.modified
    PROVE  FromHistory(hs, h, a) <=> FromHistory(hs, g, a)
  BY DEF FromHistory

\* A root is no alert's own group.
LEMMA RootIsNotOf ==
    ASSUME NEW g, g.distance = Root, NEW a
    PROVE  ~Of(g, a)
  BY DEF Of, Exact, Main, Root

\* The exact group an interval adds is that of its alert.
LEMMA AddedExact ==
    ASSUME NEW g, NEW i \in Intervals, NEW c \in AddedGroups(g, i), NEW a \in Alerts,
           c.distance = Exact, Of(c, a)
    PROVE  a = i.metric /\ c.start = i.start /\ c.modified = i.start
  <1>1. IsFrom(c, i.metric) /\ c.start = i.start /\ c.modified = i.start
    BY AddedFields
  <1>2. c.matchers = {i.metric}
    BY <1>1 DEF IsFrom, Exact, Main, Fuzzy
  <1>3. c.matchers = {a}
    BY DEF Of, Exact, Main
  <1> QED
    BY <1>1, <1>2, <1>3

\* What group_id is written into is no alert's own group any more.
LEMMA StampedIsNotOf ==
    ASSUME NEW h \in GroupsBelow(nextID), NEW a \in Alerts, Of(Stamp(h), a)
    PROVE  Stamp(h) = h /\ (h.distance = Exact => h.start # now)
  <1> DEFINE ms == {m \cup {<<"group_id", h.root>>} : m \in h.matchers}
  <1>1. CASE h.distance = Exact /\ h.start = now
    <2>1. Stamp(h) = [h EXCEPT !.matchers = ms]
      BY <1>1 DEF Stamp
    <2> HIDE DEF ms
    <2>2. Stamp(h).matchers = ms /\ Stamp(h).distance = Exact
      BY <1>1, <2>1 DEF GroupsBelow
    <2>3. ms = {a}
      BY <2>2 DEF Of, Exact, Main
    <2> USE DEF ms
    <2>4. <<"group_id", h.root>> \in a /\ <<"group_id", h.root>>[1] = "group_id"
      BY <2>3
    <2> QED
      BY <2>4, NamesAssumption
  <1>2. CASE ~(h.distance = Exact /\ h.start = now)
    BY <1>2 DEF Stamp
  <1> QED
    BY <1>1, <1>2

LEMMA MatchCreated ==
    ASSUME TypeInv, RefInv, OneMatcherInv, TimelyInv, CreatedInv,
           NEW i \in todo, TryMatchInterval(i)
    PROVE  CreatedInv'
  <1> USE DEF TypeInv
  <1>1. /\ nextID \in Nat /\ groups \subseteq GroupsBelow(nextID)
        /\ i \in Intervals /\ i.metric \in Alerts
    BY DEF EngineTypeOK, Intervals
  <1>2. /\ pc = "match" /\ fresh = {} /\ grouped \subseteq grouped'
        /\ UNCHANGED <<now, fresh, history, ready, pc>>
    BY DEF TryMatchInterval, boot, RefInv, IdleInv
  <1>3. Batch' = Batch
    BY <1>2 DEF Batch
  <1>4. CASE UNCHANGED <<groups, grouped>>
    BY <1>2, <1>3, <1>4 DEF CreatedInv
  <1>5. ASSUME NEW g \in BestMatches(groups, i),
               groups' = Join((groups \ {g}) \cup {Touch(g, i)}, Touch(g, i), i),
               grouped' = grouped \cup {Grouped(i, g)}
        PROVE  CreatedInv'
    <2> DEFINE u == Touch(g, i)
               Created(x, a) == \/ FromHistory(history, x, a)
                                \/ Batch /\ x.start = now /\ \E q \in grouped' : q.metric = a
    <2>1. g \in groups /\ g \in GroupsBelow(nextID) /\ OneMatcher(g)
      BY <1>1, BestMatchIsAGroup DEF OneMatcherInv
    <2>2. groups' = (groups \ {g}) \cup {u} \cup AddedGroups(g, i)
      BY <1>1, <1>5, <2>1, MatchJoin
    <2>3. /\ u.distance = g.distance /\ u.matchers = g.matchers /\ u.start = g.start
          /\ u.modified = IF g.distance > Exact THEN i.start ELSE g.modified
      BY <1>1, <2>1, TouchFields
    <2> HIDE DEF u
    <2>4. ASSUME NEW x \in groups, NEW a \in Alerts, x.distance = Exact, Of(x, a)
          PROVE  Created(x, a)
      BY <1>2, <2>4 DEF CreatedInv
    <2>5. ASSUME NEW a \in Alerts, u.distance = Exact, Of(u, a)
          PROVE  Created(u, a)
      <3>1. u.modified = g.modified /\ g.distance = Exact
        BY <2>3, <2>5 DEF Exact
      <3>2. Created(g, a)
        BY <2>1, <2>3, <2>4, <2>5, <3>1, OfKept
      <3> QED
        BY <2>3, <3>1, <3>2, FromHistoryKept
    <2>6. ASSUME NEW x \in AddedGroups(g, i), NEW a \in Alerts, x.distance = Exact, Of(x, a)
          PROVE  Created(x, a)
      <3>1. a = i.metric /\ x.start = i.start /\ x.modified = i.start
        BY <1>1, <2>6, AddedExact
      <3>2. CASE ready
        <4>1. Batch /\ i.start = now
          BY <1>2, <3>2 DEF Batch, TimelyInv
        <4>2. Grouped(i, g) \in grouped' /\ Grouped(i, g).metric = i.metric
          BY <1>5 DEF Grouped
        <4> QED
          BY <3>1, <4>1, <4>2
      <3>3. CASE ~ready
        BY <3>1, <3>3 DEF TimelyInv, FromHistory
      <3> QED
        BY <3>2, <3>3
    <2>7. \A x \in groups', a \in Alerts : x.distance = Exact /\ Of(x, a) => Created(x, a)
      BY <2>2, <2>4, <2>5, <2>6
    <2> QED
      BY <1>2, <1>3, <2>7 DEF CreatedInv
  <1> QED
    BY <1>4, <1>5 DEF TryMatchInterval

LEMMA AddCreated ==
    ASSUME TypeInv, RefInv, OneMatcherInv, TimelyInv, CreatedInv,
           NEW i \in todo, AddInterval(i)
    PROVE  CreatedInv'
  <1> USE DEF TypeInv
  <1>1. /\ nextID \in Nat /\ fresh \subseteq GroupsBelow(nextID)
        /\ i \in Intervals /\ i.metric \in Alerts
    BY DEF EngineTypeOK, Intervals
  <1>2. pc = "group" /\ UNCHANGED <<now, groups, history, ready, pc>>
    BY DEF AddInterval, boot
  <1>3. Batch' = Batch
    BY <1>2 DEF Batch
  <1>4. PICK g, h : Joined(i, g, h)
    BY AddTurn
  <1>5. /\ h \in {g, Touch(g, i)} /\ (g.distance \in {Exact, Root} => h = g)
        /\ fresh' = (fresh \ {g}) \cup {h} \cup AddedGroups(g, i)
        /\ grouped' = grouped \cup {Grouped(i, g)}
    BY <1>4 DEF Joined
  <1>6. g \notin fresh => h = g /\ g.distance = Root
    BY <1>4 DEF Joined, RootGroup, Group
  <1>7. h.distance = g.distance /\ h.matchers = g.matchers /\ h.root = g.root
    BY <1>1, <1>5, <1>6, TouchFields
  <1>8. Grouped(i, g).metric = i.metric /\ Grouped(i, g).id = g.root
    BY DEF Grouped
  <1>9. ASSUME NEW x \in groups' \cup fresh', NEW a \in Alerts, x.distance = Exact, Of(x, a)
        PROVE  \/ FromHistory(history, x, a)
               \/ Batch /\ x.start = now /\ \E q \in grouped' : q.metric = a
    <2>1. CASE x \in groups \cup fresh
      BY <1>5, <1>9, <2>1 DEF CreatedInv
    <2>2. CASE x = h
      <3>1. h = g /\ g.distance # Root
        BY <1>5, <1>7, <1>9, <2>2 DEF Exact, Root
      <3> QED
        BY <1>6, <2>1, <2>2, <3>1
    <2>3. CASE x \in AddedGroups(g, i)
      <3>1. a = i.metric /\ x.start = i.start /\ x.modified = i.start
        BY <1>1, <1>9, <2>3, AddedExact
      <3>2. CASE ready
        <4>1. Batch /\ i.start = now
          BY <1>2, <3>2 DEF Batch, TimelyInv
        <4> QED
          BY <1>5, <1>8, <3>1, <4>1
      <3>3. CASE ~ready
        BY <3>1, <3>3 DEF TimelyInv, FromHistory
      <3> QED
        BY <3>2, <3>3
    <2> QED
      BY <1>2, <1>5, <2>1, <2>2, <2>3
  <1>10. ASSUME ready, NEW x \in fresh', NEW a \in Alerts, Distinctive(a), Of(x, a)
         PROVE  \E q \in grouped' : q.metric = a /\ q.id = x.root
    <2>1. CASE x \in fresh
      BY <1>5, <1>10, <2>1 DEF CreatedInv
    <2>2. CASE x = h
      <3>1. Of(g, a) /\ g.distance # Root
        BY <1>7, <1>10, <2>2, OfKept, RootIsNotOf
      <3>2. \E q \in grouped : q.metric = a /\ q.id = g.root
        BY <1>6, <1>10, <3>1 DEF CreatedInv
      <3> QED
        BY <1>5, <1>7, <2>2, <3>2
    <2>3. CASE x \in AddedGroups(g, i)
      <3>1. IsFrom(x, i.metric) /\ x.root = g.root
        BY <2>3, AddedFields
      <3>2. a = i.metric
        BY <1>1, <1>10, <3>1, AddedNotOf
      <3> QED
        BY <1>5, <1>8, <3>1, <3>2
    <2> QED
      BY <1>5, <2>1, <2>2, <2>3
  <1> QED
    BY <1>2, <1>3, <1>9, <1>10 DEF CreatedInv

LEMMA CreatedInvInductive ==
    ASSUME TypeInv, RefInv, OneMatcherInv, TimelyInv, CreatedInv, Step
    PROVE  CreatedInv'
  <1> USE DEF TypeInv, RefInv, IdleInv
  <1>1. groups \cup fresh \subseteq GroupsBelow(nextID)
    BY DEF EngineTypeOK
  <1>2. ASSUME ~Batch
        PROVE  \A g \in groups \cup fresh, a \in Alerts :
                  g.distance = Exact /\ Of(g, a) => FromHistory(history, g, a)
    BY <1>2 DEF CreatedInv
  <1>3. CASE \E i \in todo : TryMatchInterval(i)
    BY <1>3, MatchCreated
  <1>4. CASE \E i \in todo : AddInterval(i)
    BY <1>4, AddCreated
  <1>5. CASE BeginUnmatched
    <2>1. /\ pc = "match" /\ pc' = "group" /\ fresh = {}
          /\ UNCHANGED <<now, groups, grouped, history, ready>>
      BY <1>5 DEF BeginUnmatched, boot
    <2>2. Batch' = Batch
      BY <2>1 DEF Batch
    <2>3. \A g \in fresh' : g.distance = Root
      BY <1>5, <2>1 DEF BeginUnmatched, RootGroup, Group
    <2>4. \A g \in fresh', a \in Alerts : ~Of(g, a)
      BY <2>3, RootIsNotOf
    <2> QED
      BY <2>1, <2>2, <2>4 DEF CreatedInv
  <1>6. CASE EndChange
    <2>1. ~Batch /\ groups' = groups \cup fresh /\ fresh' = {} /\ UNCHANGED history
      BY <1>6 DEF EndChange, Batch, boot
    <2> QED
      BY <1>2, <2>1 DEF CreatedInv
  <1>7. CASE \E prev : UpdateFrom(prev)
    <2>1. PICK new : groups' = {[g EXCEPT !.root = new[g.root]] : g \in groups}
      BY <1>7 DEF UpdateFrom
    <2>2. ~Batch /\ fresh' = {} /\ UNCHANGED history
      BY <1>7 DEF UpdateFrom, Batch
    <2>3. ASSUME NEW g \in groups, NEW r, NEW a \in Alerts,
                 [g EXCEPT !.root = r].distance = Exact, Of([g EXCEPT !.root = r], a)
          PROVE  FromHistory(history, [g EXCEPT !.root = r], a)
      <3> DEFINE h == [g EXCEPT !.root = r]
      <3>1. /\ h.distance = g.distance /\ h.matchers = g.matchers /\ h.start = g.start
            /\ h.modified = g.modified
        BY <1>1 DEF GroupsBelow
      <3>2. h.distance = Exact /\ Of(h, a)
        BY <2>3
      <3> HIDE DEF h
      <3>3. FromHistory(history, h, a)
        BY <1>2, <2>2, <3>1, <3>2, OfKept, FromHistoryKept
      <3> QED
        BY <3>3 DEF h
    <2>4. ASSUME NEW k \in groups', NEW a \in Alerts, k.distance = Exact, Of(k, a)
          PROVE  FromHistory(history, k, a)
      <3>1. PICK g \in groups : k = [g EXCEPT !.root = new[g.root]]
        BY <2>1
      <3> QED
        BY <2>3, <2>4, <3>1
    <2> QED
      BY <2>2, <2>4 DEF CreatedInv
  <1>8. CASE AssignAlertsToGroups
    <2>1. fresh' = {} /\ UNCHANGED history
      BY <1>8 DEF AssignAlertsToGroups, boot
    <2>2. ASSUME NEW k \in groups', NEW a \in Alerts, k.distance = Exact, Of(k, a)
          PROVE  FromHistory(history, k, a)
      <3>1. PICK h \in groups \cup fresh : k = Stamp(h)
        BY <1>8 DEF AssignAlertsToGroups
      <3>2. k = h /\ h.start # now
        BY <1>1, <2>2, <3>1, StampedIsNotOf
      <3> QED
        BY <2>2, <3>2 DEF CreatedInv
    <2> QED
      BY <2>1, <2>2 DEF CreatedInv
  <1>9. CASE \/ NextChange \/ UpdateHealthMap \/ SilencedAlertsError \/ Shutdown
             \/ \E alerts \in SUBSET Alerts, gap \in Gaps : ProcessAlertsBatch(alerts, gap)
    <2>1. ~Batch /\ fresh = {} /\ UNCHANGED <<groups, fresh, history>>
      BY <1>9 DEF NextChange, UpdateHealthMap, SilencedAlertsError, Shutdown,
                  ProcessAlertsBatch, boot, Batch
    <2> QED
      BY <1>2, <2>1 DEF CreatedInv
  <1>10. CASE UNCHANGED vars
    BY <1>10 DEF vars, boot, CreatedInv, Batch
  <1> QED
    BY <1>3, <1>4, <1>5, <1>6, <1>7, <1>8, <1>9, <1>10 DEF Step

---------------------------------------------------------------------------
(* A turn of addIntervalsGroups *)

\* g can be matched by nothing that fires at time t.
Stale(g, t) == LastSeen(g) + (IF g.distance = Exact THEN LongDelta ELSE FuzzyDelta) < t

\* No group of a can be matched at time t.
Gone(gs, a, t) == \A g \in gs : Of(g, a) => Stale(g, t)

LEMMA SoundInv ==
    ASSUME TypeInv, OneMatcherInv, MadeInv
    PROVE  AllSound(groups \cup fresh)
  BY DEF TypeInv, EngineTypeOK, OneMatcherInv, MadeInv, AllSound, Sound

\* Only its own groups matter to an alert.
LEMMA OnlyOwnMatter ==
    ASSUME NEW hs, NEW gs, NEW gs2, NEW a, \A g : Of(g, a) => (g \in gs <=> g \in gs2), NEW id, NEW t
    PROVE  /\ Settled(hs, gs, a, id, t) => Settled(hs, gs2, a, id, t)
           /\ Latest(t, gs, a) => Latest(t, gs2, a)
  BY DEF Settled, Witness, Latest

\* A later witness of the same kind is as good.
LEMMA LaterBeats ==
    ASSUME NEW n \in Nat, NEW g \in GroupsBelow(n), NEW w \in GroupsBelow(n),
           NEW v \in GroupsBelow(n), Beats(w, g), v.distance = w.distance,
           LastSeen(w) <= LastSeen(v)
    PROVE  Beats(v, g)
  <1>1. LastSeen(g) \in Nat /\ LastSeen(w) \in Nat /\ LastSeen(v) \in Nat
    BY DEF LastSeen, GroupsBelow
  <1> QED
    BY <1>1, DeltasAssumption DEF Beats

\* Matched while it is settled, an alert keeps its id.
LEMMA OwnMatchAgrees ==
    ASSUME TypeInv, NEW hs, NEW gs, AllSound(gs), NEW i \in Intervals, i.start = now, i.end = now,
           NEW g \in BestMatches(gs, i), Distinctive(i.metric), NEW id, NEW t \in Nat,
           now - t <= FuzzyDelta, Settled(hs, gs, i.metric, id, t)
    PROVE  g.root = id
  <1> DEFINE a == i.metric
  <1>1. /\ gs \subseteq GroupsBelow(nextID) /\ nextID \in Nat /\ now \in Nat
        /\ \A h \in gs : LastSeen(h) \in Nat /\ LastSeen(h) <= now
    BY SoundTimes
  <1>2. g \in gs /\ a \in Alerts
    BY BestMatchIsAGroup DEF Intervals
  <1>3. \A h \in gs : TimeDist(h, i) = now - LastSeen(h)
    BY DEF TimeDist, LastSeen
  <1>4. PICK w \in gs : Witness(w, hs, gs, a, id, t)
    BY DEF Settled
  <1>5. /\ Of(w, a) /\ w.root = id /\ t <= LastSeen(w) /\ w.distance \in {Exact, Main}
        /\ Of(g, a) => g.root = id \/ Beats(w, g)
    BY <1>2, <1>4, OfAlert DEF Witness
  <1>6. Matching(w, i) /\ TimeDist(w, i) <= FuzzyDelta
    <2>1. Matching(w, i)
      BY <1>5, OwnGroupMatches DEF AllSound, Sound, Made
    <2> QED
      BY <1>1, <1>3, <1>5, <2>1, DeltasAssumption
  <1>7. /\ Matching(g, i) /\ g.distance <= w.distance /\ TimeDist(g, i) <= FuzzyDelta
        /\ w.distance = g.distance => TimeDist(g, i) <= TimeDist(w, i)
    BY <1>1, <1>6, BestIsClosest
  <1>8. g.distance \in {Exact, Main}
    BY <1>1, <1>2, <1>5, <1>7 DEF GroupsBelow, Exact, Main, Fuzzy, Root
  <1>9. Of(g, a)
    BY <1>2, <1>7, <1>8, NearMatchIsOwn DEF AllSound
  <1>10. ~Beats(w, g)
    <2>1. ~(w.distance = g.distance /\ LastSeen(g) < LastSeen(w))
      BY <1>1, <1>2, <1>3, <1>7
    <2>2. ~(w.distance = Exact /\ g.distance = Main)
      BY <1>7 DEF Exact, Main
    <2>3. ~(LastSeen(g) + FuzzyDelta < LastSeen(w))
      BY <1>1, <1>2, <1>3, <1>7, DeltasAssumption
    <2> QED
      BY <2>1, <2>2, <2>3 DEF Beats
  <1> QED
    BY <1>5, <1>9, <1>10

\* An alert that nothing was found for opens an incident, or joins one of the
\* batch at a distance: its new main group is the witness.
LEMMA OwnAdded ==
    ASSUME TypeInv, NEW hs, NEW gs, NEW fs, AllSound(gs \cup fs),
           NEW i \in Intervals, i.start = now, i.end = now, Distinctive(i.metric),
           Gone(gs, i.metric, now), \A k \in fs : ~Of(k, i.metric),
           NEW g, g.distance # Exact, g.distance # Main, NEW h, ~Of(h, i.metric),
           NEW fs2, fs2 = (fs \ {g}) \cup {h} \cup AddedGroups(g, i)
    PROVE  Settled(hs, gs \cup fs2, i.metric, g.root, now) /\ Latest(now, gs \cup fs2, i.metric)
  <1> DEFINE a == i.metric
  <1>1. now \in Nat /\ \A k \in gs \cup fs : LastSeen(k) \in Nat
    BY SoundTimes
  <1>2. \A c \in AddedGroups(g, i) : c.root = g.root /\ LastSeen(c) = now
    BY AddedFields DEF LastSeen
  <1>3. PICK c \in AddedGroups(g, i) : c.distance = Main /\ c.matchers = {Project(a, MainKeys)}
    BY MainGroupAdded
  <1>4. Of(c, a) /\ c.distance # Exact
    BY <1>3 DEF Of, Exact, Main
  <1>5. \A k \in gs \cup fs2 : Of(k, a) => k \in gs \/ k \in AddedGroups(g, i)
    OBVIOUS
  <1>6. ASSUME NEW k \in gs, Of(k, a)
        PROVE  LastSeen(k) + FuzzyDelta < now /\ LastSeen(k) < now
    BY <1>1, <1>6, DeltasAssumption DEF Gone, Stale
  <1>7. ASSUME NEW k \in gs \cup fs2, Of(k, a), k.root # g.root
        PROVE  Beats(c, k)
    <2>1. k \in gs /\ k.distance \in {Exact, Main}
      BY <1>2, <1>5, <1>7, OfAlert
    <2> QED
      BY <1>2, <1>3, <1>6, <1>7, <2>1 DEF Beats
  <1>8. Settled(hs, gs \cup fs2, a, g.root, now)
    BY <1>1, <1>2, <1>4, <1>7 DEF Settled, Witness
  <1>9. Latest(now, gs \cup fs2, a)
    BY <1>1, <1>2, <1>5, <1>6 DEF Latest
  <1> QED
    BY <1>8, <1>9

\* A turn of addIntervalsGroups: group g of the new collection, or a new root,
\* is h when interval i has joined it.
Turn(fs, fs2, i, g, h) ==
    /\ g \in fs \/ g.distance = Root
    /\ h \in {g, Touch(g, i)}
    /\ g.distance \in {Exact, Root} => h = g
    /\ fs2 = (fs \ {g}) \cup {h} \cup AddedGroups(g, i)

\* The groups of alert a are of one incident.
OneRoot(fs, a) == \A k, l \in fs : Of(k, a) /\ Of(l, a) => k.root = l.root

\* Another alert joins a group of the batch, perhaps one of this alert, whose
\* groups of the batch are of one incident.
LEMMA OtherAdded ==
    ASSUME TypeInv, NEW hs, NEW gs, NEW fs, AllSound(gs \cup fs),
           NEW i \in Intervals, i.start = now, i.end = now,
           NEW a \in Alerts \ {i.metric}, Distinctive(a), Gone(gs, a, now), OneRoot(fs, a),
           NEW g, NEW h, NEW fs2, Turn(fs, fs2, i, g, h),
           NEW id, NEW t \in Nat
    PROVE  /\ Latest(now, gs \cup fs2, a)
           /\ now - t <= FuzzyDelta /\ Settled(hs, gs \cup fs, a, id, t)
                => Settled(hs, gs \cup fs2, a, id, t)
  <1>0. /\ g \in fs \/ g.distance = Root
        /\ h \in {g, Touch(g, i)}
        /\ g.distance \in {Exact, Root} => h = g
        /\ fs2 = (fs \ {g}) \cup {h} \cup AddedGroups(g, i)
    BY DEF Turn
  <1>1. /\ gs \cup fs \subseteq GroupsBelow(nextID) /\ nextID \in Nat /\ now \in Nat
        /\ \A k \in gs \cup fs : LastSeen(k) \in Nat /\ LastSeen(k) <= now
    BY SoundTimes
  <1>2. i.metric \in Alerts
    BY DEF Intervals
  <1>3. \A c \in AddedGroups(g, i) : ~Of(c, a)
    BY <1>2, AddedFields, AddedNotOf
  <1>4. ASSUME g \in fs
        PROVE  /\ h.root = g.root /\ h.distance = g.distance /\ (Of(h, a) <=> Of(g, a))
               /\ LastSeen(g) <= LastSeen(h) /\ h \in GroupsBelow(nextID)
    <2>1. LastSeen(Touch(g, i)) = now /\ Touch(g, i).root = g.root
          /\ Touch(g, i).distance = g.distance /\ (Of(Touch(g, i), a) <=> Of(g, a))
      BY <1>4, TouchedNow DEF AllSound
    <2>2. g \in GroupsBelow(nextID) /\ Touch(g, i) \in GroupsBelow(nextID)
      BY <1>1, <1>4, TouchType
    <2> QED
      BY <1>0, <1>1, <1>4, <2>1, <2>2
  <1>5. ASSUME Of(h, a)
        PROVE  g \in fs /\ Of(g, a)
    BY <1>0, <1>4, <1>5, RootIsNotOf DEF Root
  <1>6. \A k \in fs2 : Of(k, a) =>
          /\ k \in fs \ {g} \/ (k = h /\ g \in fs /\ Of(g, a))
          /\ \E l \in fs : Of(l, a) /\ l.root = k.root
    BY <1>0, <1>3, <1>4, <1>5
  <1>7. \A k \in gs : Of(k, a) => LastSeen(k) + FuzzyDelta < now /\ LastSeen(k) < now
    BY <1>1, DeltasAssumption DEF Gone, Stale
  <1>8. Latest(now, gs \cup fs2, a)
    BY <1>1, <1>6, <1>7 DEF Latest, OneRoot
  <1>9. ASSUME now - t <= FuzzyDelta, Settled(hs, gs \cup fs, a, id, t)
        PROVE  Settled(hs, gs \cup fs2, a, id, t)
    <2>1. PICK w \in gs \cup fs : Witness(w, hs, gs \cup fs, a, id, t)
      BY <1>9 DEF Settled
    <2>2. /\ Of(w, a) /\ w.root = id /\ t <= LastSeen(w)
          /\ w.distance = Exact => FromHistory(hs, w, a)
          /\ \A k \in gs \cup fs : Of(k, a) => k.root = id \/ Beats(w, k)
      BY <2>1 DEF Witness
    <2>3. w \in fs /\ \A k \in fs : Of(k, a) => k.root = id
      BY <1>1, <1>7, <1>9, <2>2, DeltasAssumption DEF OneRoot
    <2>4. \A k \in gs \cup fs2 : Of(k, a) => k.root = id \/ (k \in gs /\ Beats(w, k))
      BY <1>6, <2>2, <2>3
    <2>5. CASE w = g
      <3>1. /\ Of(h, a) /\ h.root = id /\ t <= LastSeen(h)
            /\ h.distance = Exact => FromHistory(hs, h, a)
        <4>1. Of(h, a) /\ h.root = id /\ h.distance = g.distance /\ LastSeen(g) <= LastSeen(h)
          BY <1>0, <1>4, <2>2, <2>3, <2>5
        <4>2. h \in GroupsBelow(nextID)
          BY <1>4, <2>3, <2>5
        <4>3. LastSeen(g) \in Nat /\ LastSeen(h) \in Nat
          BY <1>1, <2>5, <4>2 DEF LastSeen, GroupsBelow
        <4>4. t <= LastSeen(h)
          BY <2>2, <2>5, <4>1, <4>3
        <4>5. h.distance = Exact => h = g
          BY <1>0, <4>1
        <4> QED
          BY <2>2, <2>5, <4>1, <4>4, <4>5
      <3>2. \A k \in gs : Beats(w, k) => Beats(h, k)
        BY <1>1, <1>4, <2>3, <2>5, LaterBeats
      <3>3. h \in gs \cup fs2
        BY <1>0
      <3> QED
        BY <2>4, <3>1, <3>2, <3>3 DEF Settled, Witness
    <2>6. CASE w # g
      <3>1. w \in gs \cup fs2
        BY <1>0, <2>3, <2>6
      <3> QED
        BY <2>2, <2>4, <3>1 DEF Settled, Witness
    <2> QED
      BY <2>5, <2>6
  <1> QED
    BY <1>8, <1>9

---------------------------------------------------------------------------
(* Stability *)

\* Alert a is still to be worked off by addIntervalsGroups, or has been.
Unfound(a) ==
    \/ \E i \in unmatched : i.metric = a
    \/ pc = "group" /\ \E i \in todo : i.metric = a
    \/ \E g \in fresh : Of(g, a)

\* During a batch, the groups matched now agree, and those of an alert that
\* tryMatchIntervals found nothing for cannot be matched.
FoundInv(a) ==
    Batch => /\ Latest(now, groups \cup fresh, a)
             /\ Unfound(a) => Gone(groups, a, now)

\* What was exported lately, or is about to be, is settled.
SettledInv(a) ==
    HistoryIsRecent(a) =>
        /\ \A p \in published : p.metric = a /\ now - p.at <= FuzzyDelta =>
              Settled(history, groups \cup fresh, a, p.id, p.at)
        /\ ready => \A q \in grouped : q.metric = a =>
              Settled(history, groups \cup fresh, a, q.id, now)

\* What is known of all groups and alerts
GroupsInv == RefInv /\ OneMatcherInv /\ TimelyInv /\ MadeInv /\ CreatedInv

LEMMA TryMatchStable ==
    ASSUME TypeInv, GroupsInv, NEW a \in Alerts, Distinctive(a), FoundInv(a), SettledInv(a),
           ready, NEW i \in todo, TryMatchInterval(i)
    PROVE  FoundInv(a)' /\ SettledInv(a)'
  <1> USE DEF TypeInv, GroupsInv
  <1>1. /\ nextID \in Nat /\ now \in Nat /\ groups \subseteq GroupsBelow(nextID)
        /\ i \in Intervals /\ i.metric \in Alerts
        /\ \A p \in published : p.at \in Nat
    BY DEF EngineTypeOK, Intervals
  <1>2. /\ pc = "match" /\ fresh = {} /\ Batch /\ ready' /\ todo' = todo \ {i} /\ fresh' = {}
        /\ UNCHANGED <<now, fresh, history, ready, pc, published>>
    BY DEF TryMatchInterval, boot, RefInv, IdleInv, Batch
  <1>3. groups \cup fresh = groups /\ groups' \cup fresh' = groups' /\ Batch'
    BY <1>2 DEF Batch
  <1>4. i.start = now /\ i.end = now
    BY DEF TimelyInv
  <1>5. AllSound(groups)
    BY <1>3, SoundInv
  <1>6. Latest(now, groups, a) /\ (Unfound(a) => Gone(groups, a, now))
    BY <1>2, <1>3 DEF FoundInv
  <1>7. HistoryIsRecent(a)' <=> HistoryIsRecent(a)
    BY <1>2 DEF HistoryIsRecent
  <1>8. /\ \A q \in grouped : q.metric # i.metric
        /\ \A j \in unmatched : j.metric # i.metric
    BY DEF RefInv, BatchInv
  <1>9. CASE BestMatches(groups, i) = {} /\ unmatched' = unmatched \cup {i} /\ UNCHANGED <<groups, grouped>>
    <2>1. SettledInv(a)'
      BY <1>2, <1>7, <1>9 DEF SettledInv
    <2>2. CASE i.metric = a
      <3>1. Gone(groups, a, now)
        <4> SUFFICES ASSUME NEW g \in groups, Of(g, a) PROVE Stale(g, now)
          BY DEF Gone
        <4>1. Matching(g, i)
          BY <1>4, <1>5, <2>2, OwnGroupMatches DEF AllSound, Sound, Made
        <4>2. \A k \in groups : LastSeen(k) \in Nat /\ LastSeen(k) <= now
          BY <1>5, SoundTimes
        <4>3. now - LastSeen(g) > (IF g.distance = Exact THEN LongDelta ELSE FuzzyDelta)
          BY <1>1, <1>4, <1>9, <4>1, <4>2, NoMatch
        <4> QED
          BY <1>1, <4>2, <4>3, DeltasAssumption DEF Stale
      <3> QED
        BY <1>2, <1>3, <1>6, <1>9, <2>1, <3>1 DEF FoundInv
    <2>3. CASE i.metric # a
      <3>1. Unfound(a)' => Unfound(a)
        BY <1>2, <1>9, <2>3 DEF Unfound
      <3> QED
        BY <1>2, <1>3, <1>6, <1>9, <2>1, <3>1 DEF FoundInv
    <2> QED
      BY <2>2, <2>3
  <1>10. ASSUME NEW g \in BestMatches(groups, i),
                groups' = Join((groups \ {g}) \cup {Touch(g, i)}, Touch(g, i), i),
                grouped' = grouped \cup {Grouped(i, g)}, UNCHANGED unmatched
         PROVE  FoundInv(a)' /\ SettledInv(a)'
    <2>1. g \in groups /\ OneMatcher(g)
      BY BestMatchIsAGroup DEF OneMatcherInv
    <2>2. groups' = (groups \ {g}) \cup {Touch(g, i)} \cup AddedGroups(g, i)
      BY <1>1, <1>10, <2>1, MatchJoin
    <2>3. Grouped(i, g).metric = i.metric /\ Grouped(i, g).id = g.root
      BY DEF Grouped
    <2>4. CASE i.metric = a
      <3>1. \A h \in groups : h.distance = Exact /\ Of(h, a) => FromHistory(history, h, a)
        BY <1>1, <1>8, <2>4 DEF CreatedInv
      <3>2. Settled(history, groups', a, g.root, now) /\ Latest(now, groups', a)
        BY <1>1, <1>4, <1>5, <1>6, <1>10, <2>2, <2>4, <3>1, OwnMatch
      <3>3. ~Unfound(a)'
        BY <1>2, <1>8, <1>10, <2>4 DEF Unfound
      <3>4. FoundInv(a)'
        BY <1>2, <1>3, <3>2, <3>3 DEF FoundInv
      <3>5. ASSUME NEW p \in published, p.metric = a, now - p.at <= FuzzyDelta, HistoryIsRecent(a)
            PROVE  Settled(history, groups', a, p.id, p.at)
        <4>1. Settled(history, groups, a, p.id, p.at)
          BY <1>3, <3>5 DEF SettledInv
        <4>2. g.root = p.id
          BY <1>1, <1>4, <1>5, <2>4, <3>5, <4>1, OwnMatchAgrees
        <4>3. PICK w \in groups' : Witness(w, history, groups', a, g.root, now)
          BY <3>2 DEF Settled
        <4>4. p.at <= now
          BY DEF TimelyInv
        <4>5. p.at <= LastSeen(w)
          <5>1. w \in GroupsBelow(nextID)
            <6>1. Touch(g, i) \in GroupsBelow(nextID)
              BY <1>1, <2>1, TouchType
            <6>2. \A c \in AddedGroups(g, i) : LastSeen(c) = now /\ now \in Nat
              BY <1>1, <1>4, AddedFields DEF LastSeen
            <6>3. g.root \in 1..(nextID - 1)
              BY <1>1, <2>1 DEF GroupsBelow
            <6>4. AddedGroups(g, i) \subseteq GroupsBelow(nextID)
              BY <1>1, <6>3, AlertGroupsType DEF AddedGroups
            <6> QED
              BY <1>1, <2>2, <6>1, <6>4
          <5>2. LastSeen(w) \in Nat /\ now <= LastSeen(w)
            BY <4>3, <5>1 DEF Witness, LastSeen, GroupsBelow
          <5> QED
            BY <1>1, <4>4, <5>2
        <4> QED
          BY <4>2, <4>3, <4>5 DEF Settled, Witness
      <3>6. SettledInv(a)'
        <4>1. \A q \in grouped' : q.metric = a => q.id = g.root
          BY <1>8, <1>10, <2>3, <2>4
        <4> QED
          BY <1>2, <1>3, <1>7, <3>2, <3>5, <4>1 DEF SettledInv
      <3> QED
        BY <3>4, <3>6
    <2>5. CASE i.metric # a
      <3>1. /\ Latest(now, groups, a) => Latest(now, groups', a)
            /\ \A id, t : t \in Nat /\ now - t <= FuzzyDelta /\ Settled(history, groups, a, id, t)
                            => Settled(history, groups', a, id, t)
        BY <1>1, <1>4, <1>5, <1>10, <2>2, <2>5, OtherMatch
      <3>2. Unfound(a)' => Unfound(a)
        BY <1>2, <1>10 DEF Unfound
      <3>3. Gone(groups, a, now) => Gone(groups', a, now)
        <4> SUFFICES ASSUME Gone(groups, a, now), NEW k \in groups', Of(k, a) PROVE Stale(k, now)
          BY DEF Gone
        <4>1. \A c \in AddedGroups(g, i) : ~Of(c, a)
          BY <1>1, <2>5, AddedFields, AddedNotOf
        <4>2. ~Of(g, a)
          <5>1. LastSeen(g) \in Nat /\ TimeDist(g, i) = now - LastSeen(g)
            BY <1>4, <1>5, <2>1, SoundTimes DEF TimeDist, LastSeen
          <5>2. \/ TimeDist(g, i) <= FuzzyDelta
                \/ g.distance = Exact /\ TimeDist(g, i) <= LongDelta
            BY <1>10 DEF BestMatches, Closest, ShortCandidates, LongCandidates
          <5>3. ~Stale(g, now)
            BY <1>1, <5>1, <5>2, DeltasAssumption DEF Stale
          <5> QED
            BY <2>1, <5>3 DEF Gone
        <4>3. ~Of(Touch(g, i), a)
          BY <1>1, <1>4, <1>5, <2>1, <4>2, TouchedNow DEF AllSound
        <4>4. k \in groups
          BY <2>2, <4>1, <4>3
        <4> QED
          BY <4>4 DEF Gone
      <3>4. FoundInv(a)'
        BY <1>2, <1>3, <1>6, <3>1, <3>2, <3>3 DEF FoundInv
      <3>5. SettledInv(a)'
        <4>1. \A q \in grouped' : q.metric = a => q \in grouped
          BY <1>10, <2>3, <2>5
        <4>2. now - now <= FuzzyDelta
          BY <1>1, DeltasAssumption
        <4> QED
          BY <1>1, <1>2, <1>3, <1>7, <3>1, <4>1, <4>2 DEF SettledInv
      <3> QED
        BY <3>4, <3>5
    <2> QED
      BY <2>4, <2>5
  <1> QED
    BY <1>9, <1>10 DEF TryMatchInterval

LEMMA AddStable ==
    ASSUME TypeInv, GroupsInv, CreatedInv', NEW a \in Alerts, Distinctive(a), FoundInv(a), SettledInv(a),
           ready, NEW i \in todo, AddInterval(i)
    PROVE  FoundInv(a)' /\ SettledInv(a)'
  <1> USE DEF TypeInv, GroupsInv
  <1>1. /\ nextID \in Nat /\ now \in Nat /\ i \in Intervals /\ i.metric \in Alerts
        /\ \A p \in published : p.at \in Nat
        /\ groups \cup fresh \subseteq GroupsBelow(nextID)
    BY DEF EngineTypeOK, Intervals
  <1>2. /\ pc = "group" /\ Batch /\ todo' = todo \ {i} /\ ready'
        /\ UNCHANGED <<now, groups, history, ready, pc, published, unmatched>>
    BY DEF AddInterval, boot, Batch
  <1>3. Batch' /\ (HistoryIsRecent(a)' <=> HistoryIsRecent(a))
    BY <1>2 DEF Batch, HistoryIsRecent
  <1>4. i.start = now /\ i.end = now
    BY DEF TimelyInv
  <1>5. AllSound(groups \cup fresh)
    BY SoundInv
  <1>6. PICK g, h : Joined(i, g, h)
    BY AddTurn
  <1>7. /\ h \in {g, Touch(g, i)} /\ (g.distance \in {Exact, Root} => h = g)
        /\ fresh' = (fresh \ {g}) \cup {h} \cup AddedGroups(g, i)
        /\ grouped' = grouped \cup {Grouped(i, g)}
        /\ g \in fresh \/ g.distance = Root
        /\ g \in BestMatches(fresh, i) \/ g.distance = Root
    BY <1>6 DEF Joined, RootGroup, Group
  <1>8. Grouped(i, g).metric = i.metric /\ Grouped(i, g).id = g.root
    BY DEF Grouped
  <1>9. /\ \A p, q \in grouped : p.metric = q.metric => p = q
        /\ \A q \in grouped : q.metric # i.metric
        /\ \A k \in fresh : Of(k, a) => \E q \in grouped : q.metric = a /\ q.id = k.root
    BY DEF RefInv, BatchInv, CreatedInv
  <1>10. Latest(now, groups \cup fresh, a) /\ (Unfound(a) => Gone(groups, a, now))
    BY <1>2 DEF FoundInv
  <1>11. CASE i.metric = a
    <2>1. Gone(groups, a, now) /\ \A k \in fresh : ~Of(k, a)
      BY <1>2, <1>9, <1>10, <1>11 DEF Unfound
    <2>2. g.distance # Exact /\ g.distance # Main
      <3>1. CASE g.distance = Root
        BY <3>1 DEF Exact, Main, Root
      <3>2. CASE g \in BestMatches(fresh, i)
        <4>1. g \in fresh /\ Matching(g, i)
          BY <3>2 DEF BestMatches, Closest, ShortCandidates, LongCandidates
        <4> QED
          BY <1>5, <1>11, <2>1, <4>1, NearMatchIsOwn DEF AllSound
      <3> QED
        BY <1>7, <3>1, <3>2
    <2>3. ~Of(g, a) /\ h.distance = g.distance /\ h.matchers = g.matchers
      <3>1. ~Of(g, a)
        BY <2>2 DEF Of
      <3>2. CASE g \in fresh
        BY <1>1, <1>7, <3>1, <3>2, TouchFields
      <3>3. CASE g.distance = Root
        BY <1>7, <3>1, <3>3
      <3> QED
        BY <1>7, <3>2, <3>3
    <2>4. ~Of(h, a)
      BY <2>3, OfKept
    <2>5. Settled(history, groups \cup fresh', a, g.root, now) /\ Latest(now, groups \cup fresh', a)
      BY <1>4, <1>1, <1>5, <1>7, <1>11, <2>1, <2>2, <2>4, OwnAdded
    <2>6. FoundInv(a)'
      BY <1>2, <2>1, <2>5 DEF FoundInv
    <2>7. ASSUME NEW p \in published, p.metric = a, now - p.at <= FuzzyDelta, HistoryIsRecent(a)
          PROVE  FALSE
      <3>1. PICK w \in groups \cup fresh : Witness(w, history, groups \cup fresh, a, p.id, p.at)
        BY <2>7 DEF SettledInv, Settled
      <3>2. w \in groups /\ Stale(w, now) /\ p.at <= LastSeen(w)
        BY <2>1, <3>1 DEF Witness, Gone
      <3>3. LastSeen(w) \in Nat
        BY <1>5, SoundTimes
      <3> QED
        BY <1>1, <2>7, <3>2, <3>3, DeltasAssumption DEF Stale
    <2>8. \A q \in grouped' : q.metric = a => q.id = g.root
      BY <1>7, <1>8, <1>9, <1>11
    <2> QED
      BY <1>2, <1>3, <2>5, <2>6, <2>7, <2>8 DEF SettledInv
  <1>12. CASE i.metric # a
    <2>1. \A q \in grouped' : q.metric = a => q \in grouped
      BY <1>7, <1>8, <1>12
    <2>2. now - now <= FuzzyDelta
      BY <1>1, DeltasAssumption
    <2>3. /\ Latest(now, groups \cup fresh', a)
          /\ \A id, t : t \in Nat /\ now - t <= FuzzyDelta /\ Settled(history, groups \cup fresh, a, id, t)
                          => Settled(history, groups \cup fresh', a, id, t)
      <3>1. CASE \E k \in fresh : Of(k, a)
        <4>1. Gone(groups, a, now) /\ a \in Alerts \ {i.metric}
          BY <1>10, <1>12, <3>1 DEF Unfound
        <4>2. OneRoot(fresh, a)
          BY <1>9 DEF OneRoot
        <4>3. Turn(fresh, fresh', i, g, h)
          BY <1>7 DEF Turn
        <4>4. i \in Intervals /\ TypeInv /\ Distinctive(a)
          BY <1>1
        <4> HIDE DEF TypeInv
        <4>5. Latest(now, groups \cup fresh', a)
          BY <1>1, <1>4, <1>5, <4>1, <4>2, <4>3, <4>4, OtherAdded
        <4>6. ASSUME NEW id, NEW t \in Nat, now - t <= FuzzyDelta,
                      Settled(history, groups \cup fresh, a, id, t)
               PROVE  Settled(history, groups \cup fresh', a, id, t)
          BY <1>4, <1>5, <4>1, <4>2, <4>3, <4>4, <4>6, OtherAdded
        <4> QED
          BY <4>5, <4>6
      <3>2. CASE \A k \in fresh : ~Of(k, a)
        <4>1. \A c \in AddedGroups(g, i) : ~Of(c, a)
          BY <1>1, <1>12, AddedFields, AddedNotOf
        <4>2. ~Of(h, a)
          <5>1. CASE g \in fresh
            <6>1. h.distance = g.distance /\ h.matchers = g.matchers
              BY <1>1, <1>7, <5>1, TouchFields
            <6> QED
              BY <3>2, <5>1, <6>1, OfKept
          <5>2. CASE g.distance = Root
            BY <1>7, <5>2, RootIsNotOf
          <5> QED
            BY <1>7, <5>1, <5>2
        <4>3. \A k : Of(k, a) => (k \in groups \cup fresh <=> k \in groups \cup fresh')
          BY <1>7, <3>2, <4>1, <4>2
        <4> QED
          BY <1>10, <4>3, OnlyOwnMatter
      <3> QED
        BY <3>1, <3>2
    <2>4. Unfound(a)' => Unfound(a)
      <3>1. ASSUME NEW k \in fresh', Of(k, a)
            PROVE  Unfound(a)
        <4>1. k \notin AddedGroups(g, i)
          BY <1>1, <1>12, <3>1, AddedFields, AddedNotOf
        <4>2. CASE k \in fresh
          BY <3>1, <4>2 DEF Unfound
        <4>3. CASE k = h /\ g \in fresh
          <5>1. h.distance = g.distance /\ h.matchers = g.matchers
            BY <1>1, <1>7, <4>3, TouchFields
          <5> QED
            BY <3>1, <4>3, <5>1, OfKept DEF Unfound
        <4>4. CASE k = h /\ g.distance = Root
          BY <1>7, <3>1, <4>4, RootIsNotOf
        <4> QED
          BY <1>7, <4>1, <4>2, <4>3, <4>4
      <3> QED
        BY <1>2, <3>1 DEF Unfound
    <2>5. FoundInv(a)'
      BY <1>2, <1>10, <2>3, <2>4 DEF FoundInv
    <2>6. SettledInv(a)'
      BY <1>1, <1>2, <1>3, <2>1, <2>2, <2>3 DEF SettledInv
    <2> QED
      BY <2>5, <2>6
  <1> QED
    BY <1>11, <1>12

\* The groups of a settled alert survive the stamping and the pruning.
LEMMA AssignStable ==
    ASSUME TypeInv, GroupsInv, NEW a \in Alerts, Distinctive(a), HistoryIsRecent(a),
           AssignAlertsToGroups, NEW id, NEW t \in Nat, now - t <= FuzzyDelta,
           Settled(history, groups \cup fresh, a, id, t)
    PROVE  Settled(history, groups', a, id, t)
  <1> DEFINE gs == groups \cup fresh
  <1>1. /\ gs \subseteq GroupsBelow(nextID) /\ now \in Nat
        /\ groups' = {g \in {Stamp(h) : h \in gs} : Kept(g)}
    BY DEF TypeInv, EngineTypeOK, AssignAlertsToGroups
  <1>2. PICK w \in gs : Witness(w, history, gs, a, id, t)
    BY DEF Settled
  <1>3. /\ Of(w, a) /\ w.root = id /\ t <= LastSeen(w)
        /\ w.distance = Exact => FromHistory(history, w, a)
        /\ \A h \in gs : Of(h, a) => h.root = id \/ Beats(w, h)
    BY <1>2 DEF Witness
  <1>4. \A i \in history : i \in Intervals /\ i.start < now
    <2>1. Batch
      BY DEF AssignAlertsToGroups, BatchDone, Batch
    <2>2. \A i \in history : i \in Intervals
      BY DEF TypeInv, EngineTypeOK
    <2> QED
      BY <1>1, <2>1, <2>2 DEF GroupsInv, TimelyInv, Intervals
  <1>5. Stamp(w) = w
    BY <1>1, <1>3, <1>4 DEF Stamp, FromHistory, Intervals
  <1>6. Kept(w)
    <2>1. CASE w.distance = Exact
      <3>1. PICK i \in history : i.metric = a /\ w.modified = i.start
        BY <1>3, <2>1 DEF FromHistory
      <3>2. now - i.start <= LongDelta /\ i.start \in Nat
        BY <1>4, <3>1 DEF HistoryIsRecent, Intervals
      <3> QED
        BY <1>1, <2>1, <3>1, <3>2, DeltasAssumption DEF Kept
    <2>2. CASE w.distance # Exact
      <3>1. LastSeen(w) = w.modified /\ w.modified \in Nat
        BY <1>1, <2>2 DEF LastSeen, GroupsBelow
      <3> QED
        BY <1>1, <1>3, <2>2, <3>1, DeltasAssumption DEF Kept
    <2> QED
      BY <2>1, <2>2
  <1>7. w \in groups'
    BY <1>1, <1>5, <1>6
  <1>8. ASSUME NEW k \in groups', Of(k, a)
        PROVE  k \in gs
    <2>1. PICK h \in gs : k = Stamp(h)
      BY <1>1
    <2> QED
      BY <1>1, <1>8, <2>1, StampedIsNotOf
  <1> QED
    BY <1>3, <1>7, <1>8 DEF Settled, Witness

\* While the history is replayed nothing is exported.
LEMMA ReplayStable ==
    ASSUME GroupsInv, NEW a, Step, ~ready
    PROVE  FoundInv(a)' /\ SettledInv(a)'
  <1>1. pc \in {"idle", "silences", "stopped"} => FALSE
    BY DEF GroupsInv, RefInv, IdleInv
  <1>2. published = {} /\ (pc = "history" => grouped = {})
    BY DEF GroupsInv, TimelyInv, RefInv, IdleInv
  <1>3. published' = {} /\ ~Batch' /\ (ready' => grouped' = {})
    <2>1. CASE \E prev : UpdateFrom(prev)
      BY <1>2, <2>1 DEF UpdateFrom, Batch
    <2>2. CASE UNCHANGED <<ready, published>>
      BY <1>2, <2>2 DEF Batch
    <2> QED
      BY <1>1, <2>1, <2>2
      DEF Step, NextChange, EndChange, TryMatchInterval, BeginUnmatched, AddInterval,
          ProcessAlertsBatch, AssignAlertsToGroups, UpdateHealthMap, SilencedAlertsError,
          Shutdown, vars, boot
  <1> QED
    BY <1>3 DEF FoundInv, SettledInv

LEMMA LiveStable ==
    ASSUME TypeInv, GroupsInv, CreatedInv', NEW a \in Alerts, Distinctive(a),
           FoundInv(a), SettledInv(a), Step, ready
    PROVE  FoundInv(a)' /\ SettledInv(a)'
  <1> USE DEF TypeInv, GroupsInv
  <1>1. now \in Nat /\ \A p \in published : p.at \in Nat
    BY DEF EngineTypeOK
  <1>2. CASE \E i \in todo : TryMatchInterval(i)
    BY <1>2, TryMatchStable
  <1>3. CASE \E i \in todo : AddInterval(i)
    BY <1>3, AddStable
  <1>4. CASE BeginUnmatched
    <2>1. /\ pc = "match" /\ pc' = "group" /\ fresh = {} /\ todo' = unmatched /\ unmatched' = {}
          /\ UNCHANGED <<now, groups, grouped, history, ready, published>>
          /\ Batch
      BY <1>4 DEF BeginUnmatched, boot, RefInv, IdleInv, Batch
    <2>2. \A g \in fresh' : g.distance = Root
      BY <1>4, <2>1 DEF BeginUnmatched, RootGroup, Group
    <2>3. \A g \in fresh' : ~Of(g, a)
      BY <2>2, RootIsNotOf
    <2>4. \A g : Of(g, a) => (g \in groups \cup fresh <=> g \in groups \cup fresh')
      BY <2>1, <2>3
    <2>5. FoundInv(a)'
      <3>1. Latest(now, groups \cup fresh', a)
        BY <2>1, <2>4, OnlyOwnMatter DEF FoundInv
      <3>2. Unfound(a)' => Unfound(a)
        BY <2>1, <2>3 DEF Unfound
      <3> QED
        BY <2>1, <3>1, <3>2 DEF FoundInv
    <2>6. SettledInv(a)'
      <3>1. \A id, t : Settled(history, groups \cup fresh, a, id, t)
                         => Settled(history, groups \cup fresh', a, id, t)
        BY <2>4, OnlyOwnMatter
      <3> QED
        BY <2>1, <3>1 DEF SettledInv, HistoryIsRecent
    <2> QED
      BY <2>5, <2>6
  <1>5. ASSUME NEW alerts \in SUBSET Alerts, NEW gap \in Gaps, ProcessAlertsBatch(alerts, gap)
        PROVE  FoundInv(a)' /\ SettledInv(a)'
    <2>1. /\ fresh = {} /\ unmatched = {} /\ grouped = {} /\ pc' = "match"
          /\ UNCHANGED <<groups, fresh, unmatched, grouped, history, ready, published>>
      BY <1>5 DEF ProcessAlertsBatch, boot, RefInv, IdleInv
    <2>2. now' \in Nat /\ now < now'
      BY <1>1, <1>5, ClockAssumption DEF ProcessAlertsBatch
    <2>3. \A g \in groups \cup fresh : LastSeen(g) \in Nat /\ LastSeen(g) <= now
      BY SoundInv, SoundTimes
    <2>4. FoundInv(a)'
      <3>1. Latest(now', groups \cup fresh, a)
        BY <1>1, <2>2, <2>3 DEF Latest
      <3>2. ~Unfound(a)'
        BY <2>1 DEF Unfound
      <3> QED
        BY <2>1, <3>1, <3>2 DEF FoundInv
    <2>5. SettledInv(a)'
      <3>1. HistoryIsRecent(a)' => HistoryIsRecent(a)
        <4> SUFFICES ASSUME HistoryIsRecent(a)', NEW i \in history, i.metric = a
                     PROVE  now - i.start <= LongDelta
          BY DEF HistoryIsRecent
        <4>1. i.start \in Nat /\ now' - i.start <= LongDelta
          BY <2>1 DEF HistoryIsRecent, EngineTypeOK, Intervals
        <4> QED
          BY <1>1, <2>2, <4>1, DeltasAssumption
      <3>2. \A p \in published : now' - p.at <= FuzzyDelta => now - p.at <= FuzzyDelta
        BY <1>1, <2>2, DeltasAssumption
      <3> QED
        BY <2>1, <3>1, <3>2 DEF SettledInv
    <2> QED
      BY <2>4, <2>5
  <1>6. CASE AssignAlertsToGroups
    <2>1. /\ UNCHANGED <<now, history, ready, published, grouped>> /\ fresh' = {} /\ ~Batch'
      BY <1>6 DEF AssignAlertsToGroups, boot, Batch
    <2>2. now - now <= FuzzyDelta /\ groups' \cup fresh' = groups'
      BY <1>1, <2>1, DeltasAssumption
    <2>3. ASSUME HistoryIsRecent(a), NEW p \in published, p.metric = a, now - p.at <= FuzzyDelta
          PROVE  Settled(history, groups', a, p.id, p.at)
      BY <1>1, <1>6, <2>3, AssignStable DEF SettledInv
    <2>4. ASSUME HistoryIsRecent(a), NEW q \in grouped, q.metric = a
          PROVE  Settled(history, groups', a, q.id, now)
      BY <1>1, <1>6, <2>2, <2>4, AssignStable DEF SettledInv
    <2>5. SettledInv(a)'
      BY <2>1, <2>2, <2>3, <2>4 DEF SettledInv, HistoryIsRecent
    <2> QED
      BY <2>1, <2>5 DEF FoundInv
  <1>7. CASE UpdateHealthMap
    <2>1. /\ UNCHANGED <<now, groups, fresh, history, ready>> /\ grouped' = {} /\ ~Batch'
          /\ \A p \in published' :
                \/ p \in published
                \/ \E q \in grouped : p = [metric |-> q.metric, id |-> q.id, at |-> now]
      BY <1>7 DEF UpdateHealthMap, boot, Batch
    <2>2. ASSUME HistoryIsRecent(a), NEW p \in published', p.metric = a, now - p.at <= FuzzyDelta
          PROVE  Settled(history, groups \cup fresh, a, p.id, p.at)
      BY <2>1, <2>2 DEF SettledInv
    <2>3. SettledInv(a)'
      BY <2>1, <2>2 DEF SettledInv, HistoryIsRecent
    <2> QED
      BY <2>1, <2>3 DEF FoundInv
  <1>8. CASE SilencedAlertsError \/ Shutdown
    <2>1. /\ UNCHANGED <<now, groups, fresh, history, ready, published>>
          /\ grouped' \subseteq grouped /\ ~Batch'
      BY <1>8 DEF SilencedAlertsError, Shutdown, boot, Batch
    <2> QED
      BY <2>1 DEF FoundInv, SettledInv, HistoryIsRecent
  <1>9. CASE UNCHANGED vars
    BY <1>9 DEF vars, boot, FoundInv, SettledInv, HistoryIsRecent, Batch, Unfound
  <1>10. ~NextChange /\ ~EndChange /\ \A prev : ~UpdateFrom(prev)
    BY DEF NextChange, EndChange, UpdateFrom, RefInv, IdleInv
  <1> QED
    BY <1>2, <1>3, <1>4, <1>5, <1>6, <1>7, <1>8, <1>9, <1>10 DEF Step

\* The invariant of StableGroupID
StableInv ==
    /\ GroupsInv
    /\ \A a \in Alerts : Distinctive(a) => FoundInv(a) /\ SettledInv(a)

LEMMA StableInvInit ==
    ASSUME Init
    PROVE  StableInv
  <1>1. RefInv /\ OneMatcherInv /\ MadeInv
    BY RefInvInit DEF Init, OneMatcherInv, MadeInv
  <1>2. TimelyInv
    BY RangesAssumption DEF Init, TimelyInv, Batch
  <1>3. CreatedInv
    BY DEF Init, CreatedInv
  <1>4. \A a \in Alerts : FoundInv(a) /\ SettledInv(a)
    BY DEF Init, FoundInv, SettledInv, Batch
  <1> QED
    BY <1>1, <1>2, <1>3, <1>4 DEF StableInv, GroupsInv

LEMMA StableInvInductive ==
    ASSUME TypeInv, StableInv, Step
    PROVE  StableInv'
  <1>1. GroupsInv'
    BY RefInvInductive, OneMatcherInductive, TimelyInvInductive, MadeInvInductive,
       CreatedInvInductive DEF StableInv, GroupsInv
  <1>2. ASSUME NEW a \in Alerts, Distinctive(a)
        PROVE  FoundInv(a)' /\ SettledInv(a)'
    <2>1. CASE ready
      BY <1>1, <1>2, <2>1, LiveStable DEF StableInv, GroupsInv
    <2>2. CASE ~ready
      BY <2>2, ReplayStable DEF StableInv
    <2>3. ready \in BOOLEAN
      BY DEF TypeInv, EngineTypeOK
    <2> QED
      BY <2>1, <2>2
  <1> QED
    BY <1>1, <1>2 DEF StableInv

\* An alert that is exported again within FuzzyDelta is exported with the id it
\* had: its exact or its main group has seen to it.
LEMMA StableStep ==
    ASSUME TypeInv, StableInv, Step,
           NEW p \in published, NEW q \in published', p.metric = q.metric,
           q.at - p.at <= FuzzyDelta, Distinctive(p.metric), HistoryIsRecent(p.metric)
    PROVE  p.id = q.id
  <1> USE DEF TypeInv
  <1> DEFINE a == p.metric
  <1>1. /\ now \in Nat /\ a \in Alerts /\ p.at \in Nat /\ groups \cup fresh \subseteq GroupsBelow(nextID)
    BY DEF EngineTypeOK
  <1>2. /\ \A r, s \in published : r.metric = s.metric => r = s
        /\ FoundInv(a) /\ SettledInv(a)
    BY <1>1 DEF StableInv, GroupsInv, TimelyInv
  <1>3. CASE q \in published
    BY <1>2, <1>3
  <1>4. CASE q \notin published
    <2>1. UpdateHealthMap
      BY <1>4 DEF Step, NextChange, EndChange, UpdateFrom, TryMatchInterval, BeginUnmatched,
                  AddInterval, ProcessAlertsBatch, AssignAlertsToGroups, SilencedAlertsError,
                  Shutdown, vars, boot
    <2>2. PICK r \in grouped : q = [metric |-> r.metric, id |-> r.id, at |-> now]
      BY <1>4, <2>1 DEF UpdateHealthMap
    <2>3. ready
      BY <2>1 DEF UpdateHealthMap, StableInv, GroupsInv, RefInv, IdleInv
    <2>4. Settled(history, groups \cup fresh, a, r.id, now)
      BY <1>2, <2>2, <2>3 DEF SettledInv
    <2>5. now - p.at <= FuzzyDelta /\ Settled(history, groups \cup fresh, a, p.id, p.at)
      BY <1>2, <2>2 DEF SettledInv
    <2>6. \A g \in groups \cup fresh : LastSeen(g) <= now
      BY SoundInv, SoundTimes DEF StableInv, GroupsInv
    <2>7. p.id = r.id
      BY <1>1, <2>4, <2>5, <2>6, WitnessesAgree
    <2> QED
      BY <2>2, <2>7
  <1> QED
    BY <1>3, <1>4

\* An alert keeps its incident: whatever else fires, in whatever order a batch
\* is worked off and however many iterations are abandoned, an alert no other
\* is taken for has, within FuzzyDelta of its last export, the same group_id.
THEOREM StableCorrect == Spec => StableGroupID
  <1>1. Init => StableInv
    BY StableInvInit
  <1>2. TypeInv /\ StableInv /\ [Next]_vars => StableInv'
    BY SpecSteps, StableInvInductive
  <1>3. TypeInv /\ StableInv /\ [Next]_vars =>
          [\A p \in published, q \in published' :
              /\ p.metric = q.metric
              /\ q.at - p.at <= FuzzyDelta
              /\ Distinctive(p.metric)
              /\ HistoryIsRecent(p.metric)
              => p.id = q.id]_vars
    BY SpecSteps, StableStep
  <1> QED
    BY <1>1, <1>2, <1>3, TypeInvCorrect, PTL DEF Spec, StableGroupID

---------------------------------------------------------------------------
(* The ids after the replay *)

\* An exact group of the interval's alert has followed it to its end.
Followed(gs, i) == \E g \in gs : g.distance = Exact /\ Of(g, i.metric) /\ i.end <= g.end

Pending == changes \cup todo \cup unmatched

ReplayInv ==
    /\ StartTime <= now
    /\ now = StartTime /\ ready => pc \in {"idle", "stopped"}
    /\ ~ready =>
          /\ \A i, j \in history : i.metric = j.metric /\ i.start = j.start => i = j
          /\ \A i, j \in todo \cup unmatched : i.start = j.start
          /\ \A i \in history \ Pending : Distinctive(i.metric) => Followed(groups \cup fresh, i)
          /\ pc = "group" => \A i \in todo, g \in fresh : Distinctive(i.metric) => ~Of(g, i.metric)
    /\ OngoingIncidentKeepsUUID

\* A group that was followed stays so when it is touched.
LEMMA FollowedKept ==
    ASSUME NEW n \in Nat, NEW gs, gs \subseteq GroupsBelow(n), NEW j \in Intervals, Followed(gs, j),
           NEW i \in Intervals, NEW g, NEW gs2,
           \A k \in gs : k \in gs2 \/ (k = g /\ Touch(g, i) \in gs2)
    PROVE  Followed(gs2, j)
  <1>1. PICK k \in gs : k.distance = Exact /\ Of(k, j.metric) /\ j.end <= k.end
    BY DEF Followed
  <1>2. CASE k \in gs2
    BY <1>1, <1>2 DEF Followed
  <1>3. CASE k = g /\ Touch(g, i) \in gs2
    <2> DEFINE u == Touch(g, i)
    <2>1. /\ u.distance = g.distance /\ u.matchers = g.matchers
          /\ u.end = IF g.end < i.end THEN i.end ELSE g.end
      BY <1>1, <1>3, TouchFields
    <2>2. u \in gs2
      BY <1>3
    <2> HIDE DEF u
    <2>3. Of(u, j.metric)
      BY <1>1, <1>3, <2>1, OfKept
    <2>4. j.end <= u.end
      BY <1>1, <1>3, <2>1 DEF GroupsBelow, Intervals
    <2> QED
      BY <1>1, <1>3, <2>1, <2>2, <2>3, <2>4 DEF Followed
  <1> QED
    BY <1>1, <1>2, <1>3

\* An alert that joins a group that is not exact is given an exact group.
LEMMA ExactGroupAdded ==
    ASSUME NEW g, NEW i, g.distance # Exact
    PROVE  \E c \in AddedGroups(g, i) :
              c.distance = Exact /\ Of(c, i.metric) /\ c.end = i.end
  <1> DEFINE c == MatcherGroup(g.root, i, Exact, i.metric)
  <1>1. c.distance = Exact /\ c.matchers = {i.metric} /\ c.end = i.end
    BY DEF MatcherGroup, Group
  <1>2. c \in AlertGroups(g.root, i)
    BY DEF AlertGroups
  <1>3. c \in AddedGroups(g, i)
    BY <1>1, <1>2 DEF AddedGroups, Covers
  <1> QED
    BY <1>1, <1>3 DEF Of

LEMMA TryMatchReplay ==
    ASSUME TypeInv, GroupsInv, ReplayInv, ~ready, NEW i \in todo, TryMatchInterval(i)
    PROVE  ReplayInv'
  <1> USE DEF TypeInv, GroupsInv
  <1>1. /\ nextID \in Nat /\ groups \subseteq GroupsBelow(nextID)
        /\ history \subseteq Intervals /\ i \in Intervals /\ i.end \in Nat
    BY DEF EngineTypeOK, Intervals
  <1>2. /\ pc = "match" /\ fresh = {} /\ fresh' = {} /\ todo' = todo \ {i}
        /\ unmatched' \in {unmatched, unmatched \cup {i}}
        /\ UNCHANGED <<now, history, changes, ready, pc>>
    BY DEF TryMatchInterval, boot, RefInv, IdleInv
  <1>3. \A j \in history \ Pending : Distinctive(j.metric) => Followed(groups, j)
    BY <1>2 DEF ReplayInv
  <1>4. /\ \A j, k \in todo' \cup unmatched' : j.start = k.start
        /\ \A j, k \in history : j.metric = k.metric /\ j.start = k.start => j = k
    BY <1>2 DEF ReplayInv
  <1>5. ASSUME NEW j \in history, j \notin Pending', Distinctive(j.metric)
        PROVE  Followed(groups', j)
    <2>1. CASE UNCHANGED groups /\ unmatched' = unmatched \cup {i}
      <3>1. j \notin Pending
        BY <1>2, <1>5, <2>1 DEF Pending
      <3> QED
        BY <1>3, <1>5, <2>1, <3>1
    <2>2. ASSUME NEW g \in BestMatches(groups, i),
                 groups' = Join((groups \ {g}) \cup {Touch(g, i)}, Touch(g, i), i)
          PROVE  Followed(groups', j)
      <3>1. g \in groups /\ OneMatcher(g) /\ Matching(g, i)
        BY BestMatchIsAGroup
        DEF OneMatcherInv, BestMatches, Closest, ShortCandidates, LongCandidates
      <3>2. groups' = (groups \ {g}) \cup {Touch(g, i)} \cup AddedGroups(g, i)
        BY <1>1, <2>2, <3>1, MatchJoin
      <3>3. CASE j = i
        <4>1. CASE g.distance = Exact
          <5>1. AllSound(groups) /\ i.metric \in Alerts
            BY <1>1, <1>2, SoundInv DEF Intervals, AllSound
          <5>2. Of(g, i.metric)
            BY <1>5, <3>1, <3>3, <4>1, <5>1, NearMatchIsOwn DEF AllSound
          <5> DEFINE u == Touch(g, i)
          <5>3. /\ u.distance = g.distance /\ u.matchers = g.matchers
                /\ u.end = IF g.end < i.end THEN i.end ELSE g.end
            BY <1>1, <3>1, TouchFields
          <5>4. u \in groups'
            BY <3>2
          <5> HIDE DEF u
          <5>5. Of(u, i.metric) /\ i.end <= u.end
            <6>1. g.end \in Nat
              BY <1>1, <3>1 DEF GroupsBelow
            <6> QED
              BY <1>1, <5>2, <5>3, <6>1, OfKept
          <5> QED
            BY <3>3, <4>1, <5>3, <5>4, <5>5 DEF Followed
        <4>2. CASE g.distance # Exact
          BY <1>1, <3>2, <3>3, <4>2, ExactGroupAdded DEF Followed
        <4> QED
          BY <4>1, <4>2
      <3>4. CASE j # i
        <4>1. j \notin Pending
          BY <1>2, <1>5, <3>4 DEF Pending
        <4>2. Followed(groups, j) /\ j \in Intervals
          BY <1>1, <1>3, <1>5, <4>1
        <4> QED
          BY <1>1, <3>2, <4>2, FollowedKept
      <3> QED
        BY <3>3, <3>4
    <2> QED
      BY <2>1, <2>2 DEF TryMatchInterval
  <1>6. groups' \cup fresh' = groups'
    BY <1>2
  <1> QED
    BY <1>2, <1>4, <1>5, <1>6 DEF ReplayInv, OngoingIncidentKeepsUUID

LEMMA AddReplay ==
    ASSUME TypeInv, GroupsInv, ReplayInv, ~ready, NEW i \in todo, AddInterval(i)
    PROVE  ReplayInv'
  <1> USE DEF TypeInv, GroupsInv
  <1>1. /\ nextID \in Nat /\ groups \cup fresh \subseteq GroupsBelow(nextID)
        /\ history \subseteq Intervals /\ i \in Intervals /\ i.end \in Nat /\ i.metric \in Alerts
    BY DEF EngineTypeOK, Intervals
  <1>2. /\ pc = "group" /\ todo' = todo \ {i}
        /\ UNCHANGED <<now, groups, history, changes, unmatched, ready, pc>>
    BY DEF AddInterval, boot
  <1>3. /\ \A j \in history \ Pending : Distinctive(j.metric) => Followed(groups \cup fresh, j)
        /\ \A j \in todo, k \in fresh : Distinctive(j.metric) => ~Of(k, j.metric)
        /\ \A j, k \in todo \cup unmatched : j.start = k.start
        /\ \A j, k \in history : j.metric = k.metric /\ j.start = k.start => j = k
        /\ todo \subseteq history
    BY <1>2 DEF ReplayInv, TimelyInv
  <1>4. PICK g, h : Joined(i, g, h)
    BY AddTurn
  <1>5. /\ h = g \/ h = Touch(g, i)
        /\ g.distance = Exact \/ g.distance = Root => h = g
        /\ fresh' = (fresh \ {g}) \cup {h} \cup AddedGroups(g, i)
        /\ g \in fresh \/ g.distance = Root
        /\ g \in BestMatches(fresh, i) \/ g.distance = Root
    BY <1>4 DEF Joined, RootGroup, Group
  <1>6. ASSUME NEW j \in history, j \notin Pending', Distinctive(j.metric)
        PROVE  Followed(groups \cup fresh', j)
    <2>1. CASE j = i
      <3>1. g.distance # Exact
        <4> SUFFICES ASSUME g.distance = Exact PROVE FALSE
          OBVIOUS
        <4>1. g \in fresh /\ Matching(g, i)
          BY <1>5 DEF BestMatches, Closest, ShortCandidates, LongCandidates, Exact, Root
        <4>2. AllSound(groups \cup fresh)
          BY SoundInv
        <4>3. Of(g, i.metric)
          BY <1>1, <1>6, <2>1, <4>1, <4>2, NearMatchIsOwn DEF AllSound
        <4> QED
          BY <1>3, <1>6, <2>1, <4>1, <4>3
      <3>2. PICK c \in AddedGroups(g, i) : c.distance = Exact /\ Of(c, i.metric) /\ c.end = i.end
        BY <3>1, ExactGroupAdded
      <3>3. c \in groups \cup fresh' /\ j.end <= c.end
        BY <1>1, <1>5, <2>1, <3>2
      <3> QED
        BY <2>1, <3>2, <3>3 DEF Followed
    <2>2. CASE j # i
      <3>1. Followed(groups \cup fresh, j) /\ j \in Intervals
        BY <1>1, <1>2, <1>3, <1>6, <2>2 DEF Pending
      <3>2. \A k \in groups \cup fresh :
              k \in groups \cup fresh' \/ (k = g /\ Touch(g, i) \in groups \cup fresh')
        BY <1>5
      <3> QED
        BY <1>1, <3>1, <3>2, FollowedKept
    <2> QED
      BY <2>1, <2>2
  <1>7. ASSUME NEW j \in todo', NEW k \in fresh', Distinctive(j.metric), Of(k, j.metric)
        PROVE  FALSE
    <2>1. j \in todo /\ j # i /\ j.metric # i.metric /\ j.metric \in Alerts
      BY <1>1, <1>2, <1>3 DEF Intervals
    <2>2. k \notin AddedGroups(g, i)
      BY <1>1, <1>7, <2>1, AddedFields, AddedNotOf
    <2>3. CASE k \in fresh
      BY <1>3, <1>7, <2>1, <2>3
    <2>4. CASE k = h /\ g \in fresh
      <3>1. h.distance = g.distance /\ h.matchers = g.matchers
        BY <1>1, <1>5, <2>4, TouchFields
      <3> QED
        BY <1>3, <1>7, <2>1, <2>4, <3>1, OfKept
    <2>5. CASE k = h /\ g.distance = Root
      BY <1>5, <1>7, <2>5, RootIsNotOf
    <2> QED
      BY <1>5, <2>2, <2>3, <2>4, <2>5
  <1>8. \A j, k \in todo' \cup unmatched' : j.start = k.start
    BY <1>2, <1>3
  <1> QED
    BY <1>2, <1>3, <1>6, <1>7, <1>8 DEF ReplayInv, OngoingIncidentKeepsUUID

\* A group that a previous incident covers, within the tolerance, claims its id.
LEMMA ClaimsExist ==
    ASSUME NEW prev, \A p \in prev : p.start \in Nat /\ p.end \in Nat,
           NEW g, g.end \in Nat, NEW m \in g.matchers, NEW p \in prev, p.labels \subseteq m,
           p.start < g.end + Tolerance, g.end - Tolerance < p.end
    PROVE  Claims(prev, g) # {}
  <1> DEFINE ps == {q \in AtTime(prev, g.end) : \E n \in g.matchers : q.labels \subseteq n}
             ts == {q.start : q \in ps}
  <1>1. p \in ps
    BY DeltasAssumption DEF AtTime
  <1>2. ps \subseteq prev
    BY DEF AtTime
  <1>3. ts \subseteq Nat /\ ts # {}
    BY <1>1, <1>2
  <1>4. PICK t \in ts : \A u \in ts : t <= u
    BY <1>3, LeastTime
  <1>5. PICK q \in ps : q.start = t
    OBVIOUS
  <1>6. \A r \in ps : q.start <= r.start
    BY <1>4, <1>5
  <1>7. Claims(prev, g) = {r \in ps : \A s \in ps : r.start <= s.start}
    BY DEF Claims
  <1> QED
    BY <1>5, <1>6, <1>7

\* UpdateGroupUUIDs gives the root of such a group the id of a previous incident.
LEMMA ClaimedRoot ==
    ASSUME NEW prev, NEW g \in groups, Claims(prev, g) # {}, NEW id \in UUIDs(prev, g.root)
    PROVE  \E p \in prev : id = p.uuid
  <1> DEFINE claimants == {h \in groups : h.root = g.root /\ Claims(prev, h) # {}}
             first == {h \in claimants : \A k \in claimants : ~Before(k, h)}
  <1>1. g \in claimants
    OBVIOUS
  <1>2. UUIDs(prev, g.root) = {p.uuid : p \in UNION {Claims(prev, h) : h \in first}}
    BY <1>1 DEF UUIDs
  <1>3. \A h : Claims(prev, h) \subseteq prev
    BY DEF Claims, AtTime
  <1>4. PICK p \in UNION {Claims(prev, h) : h \in first} : id = p.uuid
    BY <1>2
  <1> QED
    BY <1>3, <1>4

\* A group renamed is the same but for its root.
LEMMA RenamedFields ==
    ASSUME NEW n \in Nat, NEW g \in GroupsBelow(n), NEW r
    PROVE  LET h == [g EXCEPT !.root = r]
           IN  /\ h.root = r /\ h.start = g.start /\ h.modified = g.modified
               /\ h.end = g.end /\ h.distance = g.distance /\ h.matchers = g.matchers
  BY DEF GroupsBelow

LEMMA FollowedRenamed ==
    ASSUME NEW n \in Nat, NEW gs, gs \subseteq GroupsBelow(n), NEW i, Followed(gs, i),
           NEW gs2, \A g \in gs : \E r : [g EXCEPT !.root = r] \in gs2
    PROVE  Followed(gs2, i)
  <1>1. PICK x \in gs : x.distance = Exact /\ Of(x, i.metric) /\ i.end <= x.end
    BY DEF Followed
  <1>2. PICK r : [x EXCEPT !.root = r] \in gs2
    BY <1>1
  <1> DEFINE y == [x EXCEPT !.root = r]
  <1>3. y \in gs2 /\ y.distance = Exact /\ y.matchers = x.matchers /\ y.end = x.end
    BY <1>1, <1>2, RenamedFields
  <1> HIDE DEF y
  <1>4. Of(y, i.metric)
    BY <1>1, <1>3, OfKept
  <1> QED
    BY <1>1, <1>3, <1>4 DEF Followed

\* A distinctive alert that fires now, and was followed, is found under an exact
\* group of its own that was seen now.
LEMMA FiringIsExact ==
    ASSUME TypeInv, NEW gs, AllSound(gs), NEW i \in Intervals, i.end = now,
           Distinctive(i.metric), Followed(gs, i),
           NEW k \in BestMatches(gs, [i EXCEPT !.start = now])
    PROVE  k \in gs /\ k.distance = Exact /\ Of(k, i.metric) /\ k.end = now
  <1> DEFINE j == [i EXCEPT !.start = now]
             a == i.metric
  <1>1. /\ gs \subseteq GroupsBelow(nextID) /\ nextID \in Nat /\ now \in Nat
        /\ \A h \in gs : LastSeen(h) \in Nat /\ LastSeen(h) <= now /\ h.start <= now
    BY SoundTimes DEF AllSound, Sound, Made
  <1>2. j \in Intervals /\ j.metric = a /\ j.start = now /\ a \in Alerts
    BY <1>1 DEF Intervals
  <1>3. PICK y \in gs : y.distance = Exact /\ Of(y, a) /\ i.end <= y.end
    BY DEF Followed
  <1> HIDE DEF j
  <1>4. Matching(y, j)
    BY <1>1, <1>2, <1>3, OwnGroupMatches
  <1>5. TimeDist(y, j) = 0
    <2>1. y.end \in Nat /\ y.end <= now
      BY <1>1, <1>3 DEF LastSeen
    <2> QED
      BY <1>1, <1>2, <1>3, <2>1 DEF TimeDist
  <1>6. /\ k \in gs /\ Matching(k, j) /\ k.distance <= y.distance
        /\ y.distance = k.distance => TimeDist(k, j) <= TimeDist(y, j)
    <2>1. k \in BestMatches(gs, j)
      BY DEF j
    <2>2. TimeDist(y, j) <= FuzzyDelta
      BY <1>5, DeltasAssumption
    <2> QED
      BY <1>1, <1>2, <1>3, <1>4, <2>1, <2>2, BestIsClosest
  <1>7. k.distance = Exact
    BY <1>1, <1>3, <1>6 DEF GroupsBelow, Exact, Main, Fuzzy, Root
  <1>8. Of(k, a)
    BY <1>2, <1>6, <1>7, NearMatchIsOwn DEF AllSound
  <1>9. k.end = now
    <2>1. k.end \in Nat /\ k.end <= now
      BY <1>1, <1>6, <1>7 DEF LastSeen
    <2>2. TimeDist(k, j) = now - k.end
      BY <1>2, <1>7 DEF TimeDist
    <2> QED
      BY <1>1, <1>3, <1>5, <1>6, <1>7, <2>1, <2>2
  <1> QED
    BY <1>6, <1>7, <1>8, <1>9

LEMMA UpdateReplay ==
    ASSUME TypeInv, GroupsInv, ReplayInv, ~ready, TypeInv', GroupsInv',
           NEW prev, Known(prev), UpdateFrom(prev)
    PROVE  ReplayInv'
  <1> USE DEF TypeInv, GroupsInv
  <1>1. /\ nextID \in Nat /\ now \in Nat /\ groups \subseteq GroupsBelow(nextID)
        /\ history \subseteq Intervals
    BY DEF EngineTypeOK
  <1>2. /\ pc = "history" /\ changes = {} /\ todo = {} /\ unmatched = {} /\ fresh = {}
        /\ health' = prev /\ ready' /\ pc' = "idle"
        /\ UNCHANGED <<now, nextID, history, fresh>>
    BY DEF UpdateFrom, RefInv, IdleInv
  <1> DEFINE roots == {g.root : g \in groups}
  <1>3. PICK new \in [roots -> roots \cup {p.uuid : p \in prev}] :
          /\ \A r \in roots : new[r] \in UUIDs(prev, r)
          /\ groups' = {[g EXCEPT !.root = new[g.root]] : g \in groups}
    BY DEF UpdateFrom
  <1>4. \A i \in history : Distinctive(i.metric) => Followed(groups, i)
    BY <1>2 DEF ReplayInv, Pending
  <1>6. AllSound(groups')
    <2>1. OneMatcherInv' /\ MadeInv' /\ EngineTypeOK'
      OBVIOUS
    <2> QED
      BY <1>2, <2>1 DEF EngineTypeOK, OneMatcherInv, MadeInv, AllSound, Sound
  <1>5. \A i \in history : Followed(groups, i) => Followed(groups', i)
    <2>1. \A g \in groups : \E r : [g EXCEPT !.root = r] \in groups'
      BY <1>3
    <2> QED
      BY <1>1, <2>1, FollowedRenamed
  <1>7. ASSUME now = StartTime, NEW i \in history, i.end = StartTime, Distinctive(i.metric),
               NEW p \in prev, p.labels \subseteq i.metric, p.start <= i.end, i.end <= p.end,
               NEW k \in BestMatches(groups', [i EXCEPT !.start = StartTime])
        PROVE  k.root <= PrevUUIDs
    <2>1. k \in groups' /\ k.distance = Exact /\ Of(k, i.metric) /\ k.end = now
      BY <1>1, <1>4, <1>5, <1>6, <1>7, FiringIsExact
    <2>2. PICK g \in groups : k = [g EXCEPT !.root = new[g.root]]
      BY <1>3, <2>1
    <2>3. k.root = new[g.root] /\ g.end = now /\ g.matchers = {i.metric}
      <3>1. k.root = new[g.root] /\ k.end = g.end /\ k.matchers = g.matchers
        BY <1>1, <2>2, RenamedFields
      <3>2. k.matchers = {i.metric}
        BY <2>1 DEF Of, Exact, Main
      <3> QED
        BY <2>1, <3>1, <3>2
    <2>4. Claims(prev, g) # {}
      <3>1. i.metric \in g.matchers
        BY <2>3
      <3>2. g.end \in Nat /\ \A q \in prev : q.start \in Nat /\ q.end \in Nat
        BY <1>1, <2>3 DEF Known
      <3>3. p.start < g.end + Tolerance /\ g.end - Tolerance < p.end
        BY <1>7, <2>3, <3>2, DeltasAssumption
      <3> QED
        BY <1>7, <3>1, <3>2, <3>3, ClaimsExist
    <2>5. k.root \in UUIDs(prev, g.root)
      BY <1>3, <2>3
    <2>6. \E q \in prev : k.root = q.uuid
      BY <2>4, <2>5, ClaimedRoot
    <2> QED
      BY <1>7, <2>6, ClockAssumption DEF Known
  <1>8. OngoingIncidentKeepsUUID'
    BY <1>2, <1>7 DEF OngoingIncidentKeepsUUID
  <1> QED
    BY <1>2, <1>8 DEF ReplayInv

\* The other steps of the start-up
LEMMA StartReplay ==
    ASSUME TypeInv, GroupsInv, ReplayInv, ~ready, NextChange \/ EndChange \/ BeginUnmatched
    PROVE  ReplayInv'
  <1> USE DEF TypeInv, GroupsInv
  <1>1. CASE NextChange
    <2>1. /\ pc' = "match" /\ unmatched = {} /\ todo = {} /\ Pending' = Pending
          /\ UNCHANGED <<now, groups, fresh, history, ready, unmatched>>
      BY <1>1 DEF NextChange, RefInv, IdleInv, Pending
    <2>2. \A i, j \in todo' : i.start = j.start
      <3>1. \A i \in todo' : i.start \in Nat
        BY <1>1 DEF NextChange, EngineTypeOK, Intervals
      <3>2. \A i, j \in todo' : i.start <= j.start
        BY <1>1 DEF NextChange
      <3> QED
        BY <3>1, <3>2
    <2> QED
      BY <2>1, <2>2 DEF ReplayInv, OngoingIncidentKeepsUUID
  <1>2. CASE EndChange
    <2>1. /\ pc' = "history" /\ groups' \cup fresh' = groups \cup fresh /\ Pending' = Pending
          /\ UNCHANGED <<now, history, ready, todo, unmatched>>
      BY <1>2 DEF EndChange, boot, Pending
    <2> QED
      BY <2>1 DEF ReplayInv, OngoingIncidentKeepsUUID
  <1>3. CASE BeginUnmatched
    <2>1. /\ fresh = {} /\ todo' = unmatched /\ unmatched' = {} /\ Pending' = Pending
          /\ UNCHANGED <<now, groups, history, ready>>
      BY <1>3 DEF BeginUnmatched, boot, RefInv, IdleInv, Pending
    <2>2. \A g \in fresh' : g.distance = Root
      BY <1>3, <2>1 DEF BeginUnmatched, RootGroup, Group
    <2>3. \A g \in fresh' : \A a : ~Of(g, a)
      BY <2>2, RootIsNotOf
    <2>4. \A i : Followed(groups \cup fresh, i) => Followed(groups \cup fresh', i)
      BY <2>1 DEF Followed
    <2> QED
      BY <2>1, <2>3, <2>4 DEF ReplayInv, OngoingIncidentKeepsUUID
  <1> QED
    BY <1>1, <1>2, <1>3

LEMMA ReplayInvInductive ==
    ASSUME TypeInv, GroupsInv, ReplayInv, TypeInv', GroupsInv', Step
    PROVE  ReplayInv'
  <1>1. now \in Nat /\ StartTime \in Nat /\ ready \in BOOLEAN /\ StartTime <= now
    BY ClockAssumption DEF TypeInv, EngineTypeOK, ReplayInv
  <1>2. CASE ready
    <2>1. ready'
      BY <1>2 DEF Step, NextChange, EndChange, UpdateFrom, TryMatchInterval, BeginUnmatched,
                  AddInterval, ProcessAlertsBatch, AssignAlertsToGroups, UpdateHealthMap,
                  SilencedAlertsError, Shutdown, vars, boot
    <2>2. CASE \E alerts \in SUBSET Alerts, gap \in Gaps : ProcessAlertsBatch(alerts, gap)
      <3>1. now' \in Nat /\ now < now'
        BY <1>1, <2>2, ClockAssumption DEF ProcessAlertsBatch
      <3> QED
        BY <1>1, <2>1, <3>1 DEF ReplayInv, OngoingIncidentKeepsUUID
    <2>3. CASE ~(\E alerts \in SUBSET Alerts, gap \in Gaps : ProcessAlertsBatch(alerts, gap))
      <3>1. UNCHANGED now
        BY <2>3 DEF Step, NextChange, EndChange, UpdateFrom, TryMatchInterval, BeginUnmatched,
                    AddInterval, AssignAlertsToGroups, UpdateHealthMap, SilencedAlertsError,
                    Shutdown, vars
      <3>2. CASE now # StartTime
        BY <1>1, <2>1, <3>1, <3>2 DEF ReplayInv, OngoingIncidentKeepsUUID
      <3>3. CASE now = StartTime
        <4>1. pc \in {"idle", "stopped"} /\ todo = {} /\ unmatched = {}
          BY <1>2, <3>3 DEF ReplayInv, GroupsInv, RefInv, IdleInv
        <4>2. Shutdown \/ UNCHANGED vars
          BY <2>3, <4>1 DEF Step, NextChange, EndChange, UpdateFrom, TryMatchInterval,
                            BeginUnmatched, AddInterval, BatchDone, AssignAlertsToGroups,
                            UpdateHealthMap, SilencedAlertsError
        <4>3. pc' \in {"idle", "stopped"} /\ UNCHANGED <<now, groups, history, health, ready>>
          BY <4>1, <4>2 DEF Shutdown, vars, boot
        <4> QED
          BY <1>2, <3>3, <4>3 DEF ReplayInv, OngoingIncidentKeepsUUID
      <3> QED
        BY <3>2, <3>3
    <2> QED
      BY <2>2, <2>3
  <1>3. CASE ~ready
    <2>1. pc \notin {"idle", "silences", "stopped"}
      BY <1>3 DEF GroupsInv, RefInv, IdleInv
    <2>2. CASE UNCHANGED vars
      BY <2>2 DEF vars, boot, ReplayInv, OngoingIncidentKeepsUUID, Pending
    <2> QED
      BY <1>3, <2>1, <2>2, TryMatchReplay, AddReplay, UpdateReplay, StartReplay
      DEF Step, ProcessAlertsBatch, AssignAlertsToGroups, UpdateHealthMap, SilencedAlertsError,
          Shutdown
  <1> QED
    BY <1>1, <1>2, <1>3

LEMMA ReplayInvInit ==
    ASSUME Init
    PROVE  ReplayInv
  <1>1. \A i, j \in history : i.metric = j.metric /\ i.start = j.start => i = j
    BY RangesAssumption DEF Init
  <1> QED
    BY <1>1, ClockAssumption DEF Init, ReplayInv, Pending, OngoingIncidentKeepsUUID

\* After the replay an alert that still fires, and that a previous incident
\* covers at that moment, is found under an id of the previous process.
THEOREM OngoingCorrect == Spec => []OngoingIncidentKeepsUUID
  <1>1. Init => StableInv /\ ReplayInv
    BY StableInvInit, ReplayInvInit
  <1>2. TypeInv /\ StableInv /\ ReplayInv /\ [Next]_vars => StableInv' /\ ReplayInv'
    BY SpecSteps, TypeInvInductive, StableInvInductive, ReplayInvInductive DEF StableInv
  <1>3. ReplayInv => OngoingIncidentKeepsUUID
    BY DEF ReplayInv
  <1> QED
    BY <1>1, <1>2, <1>3, TypeInvCorrect, PTL DEF Spec

---------------------------------------------------------------------------
(* Exact groups of one alert *)

ExactOf(g, a) == g.distance = Exact /\ g.matchers = {a}

SameExact(g, h) == g.distance = Exact /\ h.distance = Exact /\ g.matchers = h.matchers

\* Two groups of one incident, or one was seen last before the other was made.
ApartFrom(g, h) == g.root = h.root \/ g.end < h.start \/ h.end < g.start

\* The intervals that nothing was found for
Waiting == unmatched \cup (IF pc = "group" THEN todo ELSE {})

\* While the history is replayed, exact groups of one alert in different
\* incidents follow one another.  For this the intervals must come in the
\* order of their starts, and an interval that waits for a new group must come
\* after all that was seen of its alert.
ApartInv ==
    ~ready =>
        /\ todo \cap unmatched = {}
        /\ \A i \in todo \cup unmatched, j \in changes : i.start <= j.start
        /\ \A g \in groups \cup fresh, i \in Pending : g.start <= i.start
        /\ \A g \in groups \cup fresh : g.start <= g.end
        /\ \A g, h \in groups \cup fresh : SameExact(g, h) => ApartFrom(g, h)
        /\ \A i \in Waiting, g \in groups : ExactOf(g, i.metric) => g.end + LongDelta < i.start
        /\ pc = "group" => \A i \in todo, g \in fresh : ~ExactOf(g, i.metric)

\* The exact group an interval adds is its alert's.
LEMMA AddedIsExactOf ==
    ASSUME NEW g, NEW i, NEW c \in AddedGroups(g, i), c.distance = Exact
    PROVE  c.matchers = {i.metric}
  BY AddedFields DEF IsFrom, Exact, Main, Fuzzy

LEMMA TryMatchApart ==
    ASSUME TypeInv, GroupsInv, ReplayInv, ApartInv, ~ready, NEW i \in todo, TryMatchInterval(i)
    PROVE  ApartInv'
  <1> USE DEF TypeInv, GroupsInv
  <1>1. /\ nextID \in Nat /\ now \in Nat /\ groups \subseteq GroupsBelow(nextID)
        /\ todo \subseteq Intervals /\ unmatched \subseteq Intervals /\ changes \subseteq Intervals
        /\ i \in Intervals /\ i.start \in Nat /\ i.end \in Nat
    BY DEF EngineTypeOK, Intervals
  <1>2. /\ pc = "match" /\ fresh = {} /\ fresh' = {} /\ todo' = todo \ {i}
        /\ unmatched' \in {unmatched, unmatched \cup {i}}
        /\ UNCHANGED <<history, changes, ready, pc>>
    BY DEF TryMatchInterval, boot, RefInv, IdleInv
  <1>3. /\ todo \cap unmatched = {}
        /\ \A k \in todo \cup unmatched, j \in changes : k.start <= j.start
        /\ \A g \in groups, k \in Pending : g.start <= k.start
        /\ \A g \in groups : g.start <= g.end
        /\ \A g, h \in groups : SameExact(g, h) => ApartFrom(g, h)
        /\ \A k \in unmatched, g \in groups : ExactOf(g, k.metric) => g.end + LongDelta < k.start
    BY <1>2 DEF ApartInv, Waiting
  <1>4. /\ \A j \in todo \cup unmatched : j.start = i.start
        /\ \A j \in unmatched : j.metric # i.metric
        /\ i.start <= i.end
    <2>1. /\ \A j, k \in history : j.metric = k.metric /\ j.start = k.start => j = k
          /\ \A j, k \in todo \cup unmatched : j.start = k.start
          /\ todo \cup unmatched \subseteq history
          /\ \A j \in history : j.start <= j.end
      BY DEF ReplayInv, TimelyInv
    <2> QED
      BY <1>3, <2>1
  <1>5. /\ Pending' \subseteq Pending /\ Waiting' = unmatched' /\ i \in Pending
        /\ todo' \cap unmatched' = {}
        /\ \A k \in todo' \cup unmatched', j \in changes' : k.start <= j.start
        /\ \A k \in Pending : i.start <= k.start
    BY <1>1, <1>2, <1>3, <1>4 DEF Pending, Waiting, Intervals
  <1>6. \A g \in groups : g.start <= i.start
    BY <1>3, <1>5
  <1>7. ASSUME NEW g \in groups, ExactOf(g, i.metric)
        PROVE  Matching(g, i)
    BY <1>6, <1>7, OwnGroupMatches DEF ExactOf, Of
  <1>8. CASE BestMatches(groups, i) = {} /\ UNCHANGED groups
    <2>1. ASSUME NEW g \in groups, ExactOf(g, i.metric)
          PROVE  g.end + LongDelta < i.start
      <3>1. \A h \in groups : LastSeen(h) <= now
        BY SoundInv, SoundTimes DEF AllSound
      <3>2. i.start - LastSeen(g) > LongDelta
        BY <1>1, <1>7, <1>8, <2>1, <3>1, NoMatch DEF ExactOf
      <3>3. LastSeen(g) = g.end /\ g.end \in Nat
        BY <1>1, <2>1 DEF LastSeen, ExactOf, GroupsBelow
      <3> QED
        BY <1>1, <3>2, <3>3, DeltasAssumption
    <2> QED
      BY <1>2, <1>3, <1>5, <1>8, <2>1 DEF ApartInv
  <1>9. ASSUME NEW g \in BestMatches(groups, i), UNCHANGED unmatched,
               groups' = Join((groups \ {g}) \cup {Touch(g, i)}, Touch(g, i), i)
        PROVE  ApartInv'
    <2> DEFINE u == Touch(g, i)
    <2>1. g \in groups /\ OneMatcher(g)
      BY BestMatchIsAGroup DEF OneMatcherInv
    <2>2. groups' = (groups \ {g}) \cup {u} \cup AddedGroups(g, i)
      BY <1>1, <1>9, <2>1, MatchJoin
    <2>3. /\ u.root = g.root /\ u.start = g.start /\ u.distance = g.distance
          /\ u.matchers = g.matchers
          /\ u.end = IF g.end < i.end THEN i.end ELSE g.end
          /\ g.end \in Nat /\ g.start \in Nat
      BY <1>1, <2>1, TouchFields DEF GroupsBelow
    <2> HIDE DEF u
    <2>4. \A c \in AddedGroups(g, i) :
            /\ c.start = i.start /\ c.end = i.end /\ c.root = g.root /\ g.distance # Exact
            /\ c.distance = Exact => c.matchers = {i.metric}
      BY AddedFields, AddedIsExactOf
    <2>5. ASSUME NEW h \in groups, Matching(h, i)
          PROVE  /\ h.distance = g.distance => TimeDist(g, i) <= TimeDist(h, i)
                 /\ TimeDist(h, i) <= FuzzyDelta => g.distance <= h.distance
                 /\ Matching(g, i)
                 /\ \/ TimeDist(g, i) <= FuzzyDelta
                    \/ TimeDist(g, i) <= LongDelta
      BY <1>1, <2>5, BestIsClosest
    <2>6. Matching(g, i)
      BY DEF BestMatches, Closest, ShortCandidates, LongCandidates
    <2>7. ASSUME NEW h \in groups, SameExact(g, h)
          PROVE  h.end <= g.end /\ h.end \in Nat
      <3>1. Matching(h, i)
        BY <1>6, <2>6, <2>7 DEF Matching, LabelsFor, SameExact, Exact, Fuzzy, Root
      <3>2. TimeDist(g, i) <= TimeDist(h, i)
        BY <2>5, <2>7, <3>1 DEF SameExact
      <3>3. h.end \in Nat
        BY <1>1 DEF GroupsBelow
      <3> QED
        BY <1>1, <2>3, <2>7, <3>2, <3>3 DEF TimeDist, SameExact
    <2>8. ASSUME NEW h \in groups, ExactOf(h, i.metric), g.distance # Exact
          PROVE  h.end < i.start
      <3>1. ~(TimeDist(h, i) <= FuzzyDelta)
        BY <1>1, <1>7, <2>1, <2>5, <2>8 DEF ExactOf, GroupsBelow, Exact, Main, Fuzzy, Root
      <3>2. h.end \in Nat
        BY <1>1 DEF GroupsBelow
      <3> QED
        BY <1>1, <2>8, <3>1, <3>2, DeltasAssumption DEF TimeDist, ExactOf
    <2>9. \A x \in groups' : x \in groups \/ x = u \/ x \in AddedGroups(g, i)
      BY <2>2
    <2>10. \A x \in groups', k \in Pending' : x.start <= k.start
      BY <1>3, <1>5, <2>1, <2>3, <2>4, <2>9
    <2>11. \A x \in groups' : x.start <= x.end
      <3>1. u.start <= u.end
        BY <1>1, <1>3, <2>1, <2>3
      <3> QED
        BY <1>3, <1>4, <2>4, <2>9, <3>1
    <2>12. ASSUME NEW x \in groups, SameExact(u, x)
           PROVE  ApartFrom(u, x) /\ ApartFrom(x, u)
      <3>1. SameExact(g, x) /\ x.start \in Nat
        BY <1>1, <2>3, <2>12 DEF SameExact, GroupsBelow
      <3>2. x.end <= g.end /\ x.end \in Nat /\ ApartFrom(g, x) /\ x.start <= x.end
        BY <1>3, <2>1, <2>7, <3>1
      <3> QED
        BY <2>3, <3>1, <3>2 DEF ApartFrom
    <2>13. ASSUME NEW c \in AddedGroups(g, i), NEW x \in groups, SameExact(c, x)
           PROVE  ApartFrom(c, x) /\ ApartFrom(x, c)
      <3>1. ExactOf(x, i.metric)
        BY <2>4, <2>13 DEF SameExact, ExactOf
      <3> QED
        BY <2>4, <2>8, <2>13, <3>1 DEF ApartFrom
    <2>14. ASSUME NEW x \in groups', NEW y \in groups', SameExact(x, y)
           PROVE  ApartFrom(x, y)
      <3>1. \A c \in AddedGroups(g, i) : c.root = u.root
        BY <2>3, <2>4
      <3>2. CASE x \notin groups /\ y \notin groups
        <4>1. x.root = u.root /\ y.root = u.root
          BY <2>9, <3>1, <3>2
        <4> QED
          BY <4>1 DEF ApartFrom
      <3>3. SameExact(y, x)
        BY <2>14 DEF SameExact
      <3>4. CASE x \in groups /\ y \in groups
        BY <1>3, <2>14, <3>4
      <3>5. CASE x \in groups /\ y \notin groups
        BY <2>9, <2>12, <2>13, <3>3, <3>5
      <3>6. CASE x \notin groups /\ y \in groups
        BY <2>9, <2>12, <2>13, <2>14, <3>6
      <3> QED
        BY <3>2, <3>4, <3>5, <3>6
    <2>15. ASSUME NEW k \in unmatched, NEW x \in groups', ExactOf(x, k.metric)
           PROVE  x.end + LongDelta < k.start
      <3>1. CASE x \in groups
        BY <1>3, <2>15, <3>1
      <3>2. CASE x \in AddedGroups(g, i)
        <4>1. k.metric = i.metric
          BY <2>4, <2>15, <3>2 DEF ExactOf
        <4> QED
          BY <1>4, <4>1
      <3>3. CASE x = u
        <4>1. ExactOf(g, k.metric)
          BY <2>3, <2>15, <3>3 DEF ExactOf
        <4>2. g.end + LongDelta < k.start /\ k.start = i.start
          BY <1>3, <1>4, <2>1, <4>1
        <4>3. TimeDist(g, i) = i.start - g.end
          BY <4>1 DEF TimeDist, ExactOf
        <4>4. TimeDist(g, i) <= FuzzyDelta \/ TimeDist(g, i) <= LongDelta
          BY <2>1, <2>5, <2>6
        <4> QED
          BY <1>1, <2>3, <4>2, <4>3, <4>4, DeltasAssumption
      <3> QED
        BY <2>9, <3>1, <3>2, <3>3
    <2>16. groups' \cup fresh' = groups'
      BY <1>2
    <2> QED
      BY <1>2, <1>5, <1>9, <2>10, <2>11, <2>14, <2>15, <2>16 DEF ApartInv
  <1> QED
    BY <1>8, <1>9 DEF TryMatchInterval

LEMMA AddApart ==
    ASSUME TypeInv, GroupsInv, ReplayInv, ApartInv, ~ready, NEW i \in todo, AddInterval(i)
    PROVE  ApartInv'
  <1> USE DEF TypeInv, GroupsInv
  <1>1. /\ nextID \in Nat /\ groups \cup fresh \subseteq GroupsBelow(nextID)
        /\ todo \subseteq Intervals /\ unmatched \subseteq Intervals /\ changes \subseteq Intervals
        /\ i \in Intervals /\ i.start \in Nat /\ i.end \in Nat
    BY DEF EngineTypeOK, Intervals
  <1>2. /\ pc = "group" /\ todo' = todo \ {i}
        /\ UNCHANGED <<groups, history, changes, unmatched, ready, pc>>
    BY DEF AddInterval, boot
  <1>3. /\ todo \cap unmatched = {}
        /\ \A k \in todo \cup unmatched, j \in changes : k.start <= j.start
        /\ \A g \in groups \cup fresh, k \in Pending : g.start <= k.start
        /\ \A g \in groups \cup fresh : g.start <= g.end
        /\ \A g, h \in groups \cup fresh : SameExact(g, h) => ApartFrom(g, h)
        /\ \A k \in Waiting, g \in groups : ExactOf(g, k.metric) => g.end + LongDelta < k.start
        /\ \A k \in todo, g \in fresh : ~ExactOf(g, k.metric)
    BY <1>2 DEF ApartInv
  <1>4. /\ \A j \in todo \cup unmatched : j.start = i.start
        /\ \A j \in todo' : j.metric # i.metric
        /\ i.start <= i.end
    <2>1. /\ \A j, k \in history : j.metric = k.metric /\ j.start = k.start => j = k
          /\ \A j, k \in todo \cup unmatched : j.start = k.start
          /\ todo \cup unmatched \subseteq history
          /\ \A j \in history : j.start <= j.end
      BY DEF ReplayInv, TimelyInv
    <2> QED
      BY <1>2, <2>1
  <1>5. /\ Pending' \subseteq Pending /\ Waiting' \subseteq Waiting /\ i \in Pending /\ i \in Waiting
        /\ todo' \cap unmatched' = {}
        /\ \A k \in todo' \cup unmatched', j \in changes' : k.start <= j.start
        /\ \A k \in Pending : i.start <= k.start
    BY <1>1, <1>2, <1>3, <1>4 DEF Pending, Waiting, Intervals
  <1>6. PICK g, h : Joined(i, g, h)
    BY AddTurn
  <1>7. /\ h = g \/ (h = Touch(g, i) /\ g \in fresh)
        /\ g.distance = Exact => h = g /\ g \in fresh
        /\ fresh' = (fresh \ {g}) \cup {h} \cup AddedGroups(g, i)
        /\ g \in fresh \/ (g.start = i.start /\ g.end = i.end /\ g.distance = Root)
    BY <1>6 DEF Joined, RootGroup, Group, Exact, Root
  <1>8. /\ h.start = g.start /\ h.distance = g.distance /\ h.start <= h.end
        /\ \A k \in Pending : h.start <= k.start
    <2>1. CASE g \in fresh
      <3>1. g.start \in Nat /\ g.end \in Nat /\ g \in GroupsBelow(nextID)
        BY <1>1, <2>1 DEF GroupsBelow
      <3>2. /\ Touch(g, i).start = g.start /\ Touch(g, i).distance = g.distance
            /\ Touch(g, i).end = IF g.end < i.end THEN i.end ELSE g.end
        BY <1>1, <3>1, TouchFields
      <3>3. g.start <= g.end /\ \A k \in Pending : g.start <= k.start
        BY <1>3, <2>1
      <3> QED
        BY <1>1, <1>7, <3>1, <3>2, <3>3
    <2>2. CASE g \notin fresh
      BY <1>4, <1>5, <1>7, <2>2
    <2> QED
      BY <2>1, <2>2
  <1>9. \A c \in AddedGroups(g, i) :
          /\ c.start = i.start /\ c.end = i.end /\ c.root = g.root
          /\ c.distance = Exact => c.matchers = {i.metric}
    BY AddedFields, AddedIsExactOf
  <1>10. \A x \in groups \cup fresh', k \in Pending' : x.start <= k.start
    BY <1>3, <1>5, <1>7, <1>8, <1>9
  <1>11. \A x \in groups \cup fresh' : x.start <= x.end
    BY <1>3, <1>4, <1>7, <1>8, <1>9
  <1>12. \A x \in fresh' : x.distance = Exact => x \in fresh \/ x \in AddedGroups(g, i)
    BY <1>7, <1>8
  <1>13. ASSUME NEW c \in AddedGroups(g, i), NEW x \in groups \cup fresh, SameExact(c, x)
         PROVE  ApartFrom(c, x) /\ ApartFrom(x, c)
    <2>1. ExactOf(x, i.metric)
      BY <1>9, <1>13 DEF SameExact, ExactOf
    <2>2. x \in groups /\ x.end + LongDelta < i.start /\ x.end \in Nat
      BY <1>1, <1>3, <1>5, <2>1 DEF GroupsBelow
    <2>3. x.end < c.start
      BY <1>1, <1>9, <2>2, DeltasAssumption
    <2> QED
      BY <2>3 DEF ApartFrom
  <1>14. ASSUME NEW x \in groups \cup fresh', NEW y \in groups \cup fresh', SameExact(x, y)
         PROVE  ApartFrom(x, y)
    <2>1. /\ x \in groups \cup fresh \/ x \in AddedGroups(g, i)
          /\ y \in groups \cup fresh \/ y \in AddedGroups(g, i)
          /\ SameExact(y, x)
      BY <1>12, <1>14 DEF SameExact
    <2>2. CASE x \in AddedGroups(g, i) /\ y \in AddedGroups(g, i)
      BY <1>9, <2>2 DEF ApartFrom
    <2> QED
      BY <1>3, <1>13, <1>14, <2>1, <2>2
  <1>15. ASSUME NEW k \in todo', NEW x \in fresh', ExactOf(x, k.metric)
         PROVE  FALSE
    BY <1>2, <1>3, <1>4, <1>9, <1>12, <1>15 DEF ExactOf
  <1> QED
    BY <1>2, <1>3, <1>5, <1>10, <1>11, <1>14, <1>15 DEF ApartInv

LEMMA ApartInvInductive ==
    ASSUME TypeInv, GroupsInv, ReplayInv, ApartInv, Step
    PROVE  ApartInv'
  <1> USE DEF TypeInv, GroupsInv
  <1>1. CASE ready
    <2>1. ready'
      BY <1>1 DEF Step, NextChange, EndChange, UpdateFrom, TryMatchInterval, BeginUnmatched,
                  AddInterval, ProcessAlertsBatch, AssignAlertsToGroups, UpdateHealthMap,
                  SilencedAlertsError, Shutdown, vars, boot
    <2> QED
      BY <2>1 DEF ApartInv
  <1>2. CASE ~ready /\ NextChange
    <2>1. /\ todo = {} /\ unmatched = {} /\ unmatched' = {} /\ pc' = "match" /\ Pending' = Pending
          /\ UNCHANGED <<groups, fresh, ready>> /\ Waiting' = {}
      BY <1>2 DEF NextChange, RefInv, IdleInv, Pending, Waiting
    <2>2. \A i \in todo', j \in changes' : i.start <= j.start
      BY <1>2 DEF NextChange
    <2> QED
      BY <1>2, <2>1, <2>2 DEF ApartInv
  <1>3. CASE ~ready /\ EndChange
    <2>1. /\ todo = {} /\ unmatched = {} /\ pc' = "history" /\ groups' \cup fresh' = groups \cup fresh
          /\ UNCHANGED <<todo, unmatched, changes, ready>> /\ Pending' = Pending /\ Waiting' = {}
      BY <1>3 DEF EndChange, BatchDone, boot, Pending, Waiting
    <2> QED
      BY <1>3, <2>1 DEF ApartInv
  <1>4. CASE ~ready /\ BeginUnmatched
    <2>1. /\ todo = {} /\ todo' = unmatched /\ unmatched' = {} /\ fresh = {} /\ pc' = "group"
          /\ Pending' = Pending /\ Waiting' = unmatched /\ unmatched \subseteq Waiting
          /\ UNCHANGED <<groups, changes, ready>>
      BY <1>4 DEF BeginUnmatched, boot, RefInv, IdleInv, Pending, Waiting
    <2>2. \A g \in fresh' : g.distance = Root /\ \E i \in unmatched : g.start = i.start /\ g.end = i.end
      BY <1>4, <2>1 DEF BeginUnmatched, RootGroup, Group
    <2>3. \A i \in unmatched : i.start <= i.end /\ \A k \in Pending : i.start <= k.start
      <3>1. /\ \A i, j \in todo \cup unmatched : i.start = j.start
            /\ \A i \in todo \cup unmatched, j \in changes : i.start <= j.start
            /\ unmatched \subseteq history /\ \A i \in history : i.start <= i.end
        BY <1>4 DEF ReplayInv, TimelyInv, ApartInv
      <3>2. \A i \in unmatched : i.start \in Nat
        BY DEF EngineTypeOK, Intervals
      <3> QED
        BY <2>1, <3>1, <3>2 DEF Pending
    <2>4. \A g \in fresh' : g.distance # Exact /\ g.start <= g.end /\ \A k \in Pending : g.start <= k.start
      BY <2>2, <2>3 DEF Exact, Root
    <2> QED
      BY <1>4, <2>1, <2>4 DEF ApartInv, SameExact, ExactOf
  <1>5. CASE \E prev : UpdateFrom(prev)
    BY <1>5 DEF UpdateFrom, ApartInv
  <1>6. CASE UNCHANGED vars
    BY <1>6 DEF vars, boot, ApartInv, Pending, Waiting
  <1>7. ~ready => pc \notin {"idle", "silences", "stopped"}
    BY DEF RefInv, IdleInv
  <1> QED
    BY <1>1, <1>2, <1>3, <1>4, <1>5, <1>6, <1>7, TryMatchApart, AddApart
    DEF Step, ProcessAlertsBatch, AssignAlertsToGroups, UpdateHealthMap, SilencedAlertsError,
        Shutdown

---------------------------------------------------------------------------
(* Restarts *)

\* What is known of what Prometheus and the metric set hold
RecordedInv ==
    /\ scenario \in Scenarios
    /\ alerting \subseteq [metric : Alerts, at : {t \in Nat : LongDelta < t /\ t <= now}]
    /\ exported \subseteq [metric : Alerts, id : 1..(nextID - 1)]
    /\ scraped \subseteq [metric : Alerts, id : 1..(nextID - 1), at : {t \in Nat : t <= now}]
    /\ now = StartTime => scraped = {}

RestartInv == TypeInv /\ StableInv /\ ReplayInv /\ ApartInv /\ WatchdogInv /\ RecordedInv

\* The intervals cut from a range of samples begin and end at samples.
LEMMA AlertIntervalsTimes ==
    ASSUME NEW T, T \subseteq Nat, NEW samples, samples \subseteq [metric : Alerts, at : T]
    PROVE  \A i \in AlertIntervals(samples) :
              i \in Intervals /\ i.start \in T /\ i.end \in T /\ i.start <= i.end
  <1> SUFFICES ASSUME NEW i \in AlertIntervals(samples)
               PROVE  i \in Intervals /\ i.start \in T /\ i.end \in T /\ i.start <= i.end
    OBVIOUS
  <1> DEFINE times(a) == {s.at : s \in {q \in samples : q.metric = a}}
  <1>1. PICK a \in {s.metric : s \in samples} :
          i \in {[metric |-> a, start |-> r[1], end |-> r[2]] : r \in Runs(times(a))}
    BY DEF AlertIntervals
  <1>2. PICK r \in Runs(times(a)) : i = [metric |-> a, start |-> r[1], end |-> r[2]]
    BY <1>1
  <1>3. a \in Alerts /\ times(a) \subseteq T
    OBVIOUS
  <1>4. r \in times(a) \X times(a) /\ r[1] <= r[2]
    BY DEF Runs
  <1> QED
    BY <1>2, <1>3, <1>4 DEF Intervals

\* The intervals cut from one series are apart: none starts where another does.
LEMMA AlertIntervalsApart ==
    ASSUME NEW samples, samples \subseteq [metric : Alerts, at : Nat],
           NEW i \in AlertIntervals(samples), NEW j \in AlertIntervals(samples),
           i.metric = j.metric, i.start = j.start
    PROVE  i = j
  <1> DEFINE times(a) == {s.at : s \in {q \in samples : q.metric = a}}
  <1>1. ASSUME NEW k \in AlertIntervals(samples)
        PROVE  \E r \in Runs(times(k.metric)) :
                  k = [metric |-> k.metric, start |-> r[1], end |-> r[2]]
    <2>1. PICK a \in {s.metric : s \in samples} :
            k \in {[metric |-> a, start |-> r[1], end |-> r[2]] : r \in Runs(times(a))}
      BY DEF AlertIntervals
    <2> HIDE DEF times
    <2>2. PICK r \in Runs(times(a)) : k = [metric |-> a, start |-> r[1], end |-> r[2]]
      BY <2>1
    <2>3. k.metric = a
      BY <2>2
    <2> QED
      BY <2>2, <2>3
  <1>2. PICK q \in Runs(times(i.metric)) : i = [metric |-> i.metric, start |-> q[1], end |-> q[2]]
    BY <1>1
  <1>3. PICK r \in Runs(times(i.metric)) : j = [metric |-> i.metric, start |-> r[1], end |-> r[2]]
    BY <1>1
  <1>4. q[1] = r[1]
    BY <1>2, <1>3
  <1>5. ASSUME NEW x \in Runs(times(i.metric)), NEW y \in Runs(times(i.metric)), x[1] = y[1]
        PROVE  ~(x[2] < y[2])
    <2>1. times(i.metric) \subseteq Nat
      OBVIOUS
    <2> HIDE DEF times
    <2>2. /\ x[1] \in Nat /\ x[2] \in Nat /\ y[2] \in Nat /\ x[1] <= x[2]
          /\ x[2] \in times(i.metric)
          /\ \A t \in times(i.metric) : ~(x[2] < t /\ t <= x[2] + QueryStep)
      BY <2>1 DEF Runs
    <2>3. \A t \in times(i.metric) : y[1] <= t /\ t < y[2] =>
            \E u \in times(i.metric) : t < u /\ u <= t + QueryStep
      BY DEF Runs
    <2> QED
      BY <1>5, <2>2, <2>3
  <1>6. q[2] = r[2]
    <2>1. q[2] \in Nat /\ r[2] \in Nat
      BY DEF Runs
    <2>2. ~(q[2] < r[2]) /\ ~(r[2] < q[2])
      BY <1>4, <1>5
    <2> QED
      BY <2>1, <2>2
  <1> QED
    BY <1>2, <1>3, <1>4, <1>6

\* The rows found were scraped, under ids that were handed out.
LEMMA FoundRowsTimes ==
    ASSUME RecordedInv
    PROVE  \A q \in FoundRows : q.uuid \in 1..(nextID - 1) /\ q.at \in Nat /\ q.at <= now
  BY DEF RecordedInv, FoundRows, Since

\* So do the incidents found in the health map, whose ids were handed out.
LEMMA RecordedAreKnown ==
    ASSUME TypeInv, RecordedInv, NEW prev \in PreviousFound
    PROVE  Known(prev)
  <1>1. CASE now = StartTime
    <2>1. prev \in HealthMaps
      BY <1>1, ScenariosAssumption DEF PreviousFound, RecordedInv
    <2>2. \A p \in prev : p.uuid \in 1..PrevUUIDs /\ p.start \in Nat /\ p.end \in Nat
      BY <2>1, RangesAssumption DEF PreviousIncidents
    <2> QED
      BY <2>2, ClockAssumption DEF Known, TypeInv, EngineTypeOK
  <1>2. CASE now # StartTime
    <2> SUFFICES ASSUME NEW p \in RecordedIncidents
                 PROVE  p.uuid \in 1..(nextID - 1) /\ p.start \in Nat /\ p.end \in Nat
      BY <1>2 DEF Known, PreviousFound
    <2> DEFINE times(q) == {o.at : o \in {u \in FoundRows : u.labels = q.labels /\ u.uuid = q.uuid}}
    <2>1. PICK q \in FoundRows :
            p \in {[labels |-> q.labels, uuid |-> q.uuid, start |-> r[1], end |-> r[2]] :
                     r \in Runs(times(q))}
      BY DEF RecordedIncidents
    <2>2. PICK r \in Runs(times(q)) :
            p = [labels |-> q.labels, uuid |-> q.uuid, start |-> r[1], end |-> r[2]]
      BY <2>1
    <2>3. q.uuid \in 1..(nextID - 1) /\ times(q) \subseteq Nat
      BY FoundRowsTimes
    <2>4. r \in times(q) \X times(q)
      BY DEF Runs
    <2> QED
      BY <2>2, <2>3, <2>4
  <1> QED
    BY <1>1, <1>2

\* Between two restarts a process does what it does alone.
LEMMA RestartSteps ==
    ASSUME TypeInv, RecordedInv, [RestartNext]_<<vars, recorded>>
    PROVE  \/ Step
           \/ \E alerts \in SUBSET Alerts, gap \in Gaps : Crash(alerts, gap)
  <1>1. scenario.alerts \subseteq Alerts /\ scenario.gaps \subseteq Gaps
    BY ScenariosAssumption DEF RecordedInv
  <1>2. CASE Work \/ Export \/ Abandon \/ Shutdown \/ UNCHANGED <<vars, recorded>>
    BY <1>2 DEF Work, Internal, Stopped, Export, Abandon, Step
  <1>3. CASE \E alerts \in SUBSET scenario.alerts, gap \in scenario.gaps : Iterate(alerts, gap)
    <2>1. PICK alerts \in SUBSET scenario.alerts, gap \in scenario.gaps : ProcessAlertsBatch(alerts, gap)
      BY <1>3 DEF Iterate
    <2>2. alerts \in SUBSET Alerts /\ gap \in Gaps
      BY <1>1
    <2> QED
      BY <2>1, <2>2 DEF Step
  <1>4. CASE Update
    BY <1>4, RecordedAreKnown DEF Update, Step
  <1>5. CASE \E alerts \in SUBSET scenario.alerts, gap \in scenario.gaps : Crash(alerts, gap)
    BY <1>1, <1>5
  <1> QED
    BY <1>2, <1>3, <1>4, <1>5 DEF RestartNext

\* The invariant starts anew with every process.
LEMMA CrashInv ==
    ASSUME RestartInv, NEW alerts \in SUBSET Alerts, NEW gap \in Gaps, Crash(alerts, gap)
    PROVE  RestartInv'
  <1> USE DEF RestartInv
  <1>1. /\ now \in Nat /\ now' \in Nat /\ now < now' /\ LongDelta < now /\ StartTime <= now
        /\ LongDelta \in Nat /\ StartTime \in Nat /\ nextID' = nextID
    BY ClockAssumption, DeltasAssumption
    DEF Crash, TypeInv, EngineTypeOK, WatchdogInv, TimesInv, ReplayInv
  <1> DEFINE T == {t \in Nat : LongDelta < t /\ t <= now'}
  <1>2. alerting' \subseteq [metric : Alerts, at : T]
    <2>1. alerting \subseteq [metric : Alerts, at : T]
      BY <1>1 DEF RecordedInv
    <2>2. now' \in T
      BY <1>1
    <2> QED
      BY <2>1, <2>2 DEF Crash
  <1> DEFINE found == Since(alerting', now')
  <1>3. found \subseteq [metric : Alerts, at : T] /\ history' = AlertIntervals(found)
    BY <1>2 DEF Since, Crash
  <1> HIDE DEF found
  <1>4. \A i \in history' : /\ i \in Intervals /\ i.start <= i.end /\ i.end <= now'
                            /\ LongDelta < i.start
    <2>1. T \subseteq Nat
      OBVIOUS
    <2> HIDE DEF T
    <2>2. \A i \in AlertIntervals(found) :
            i \in Intervals /\ i.start \in T /\ i.end \in T /\ i.start <= i.end
      BY <1>3, <2>1, AlertIntervalsTimes
    <2> USE DEF T
    <2> QED
      BY <1>3, <2>2
  <1>5. TypeInv'
    BY <1>1, <1>4 DEF Crash, TypeInv, EngineTypeOK
  <1>6. StableInv'
    <2>1. RefInv' /\ OneMatcherInv' /\ MadeInv' /\ CreatedInv'
      BY DEF Crash, RefInv, IdleInv, BatchInv, SharedInv, KeptInv, OneMatcherInv, MadeInv, CreatedInv
    <2>2. TimelyInv'
      BY <1>4 DEF Crash, TimelyInv, Batch
    <2>3. \A a \in Alerts : FoundInv(a)' /\ SettledInv(a)'
      BY DEF Crash, FoundInv, SettledInv, Batch
    <2> QED
      BY <2>1, <2>2, <2>3 DEF StableInv, GroupsInv
  <1>7. ReplayInv'
    <2>1. \A i, j \in history' : i.metric = j.metric /\ i.start = j.start => i = j
      BY <1>3, AlertIntervalsApart
    <2> QED
      BY <1>1, <2>1 DEF Crash, ReplayInv, OngoingIncidentKeepsUUID, Pending
  <1>8. WatchdogInv'
    BY <1>1, <1>4 DEF Crash, WatchdogInv, TimesInv, MatchedInv, WatchdogBatchLinked
  <1>9. RecordedInv'
    <2>1. scraped' \subseteq [metric : Alerts, id : 1..(nextID - 1), at : {t \in Nat : t <= now'}]
      <3>1. now \in {t \in Nat : t <= now'} /\ {t \in Nat : t <= now} \subseteq {t \in Nat : t <= now'}
        BY <1>1
      <3> QED
        BY <3>1 DEF Crash, Scrape, RecordedInv
    <2> QED
      BY <1>1, <1>2, <2>1 DEF Crash, RecordedInv
  <1>10. ApartInv'
    BY DEF Crash, ApartInv, Waiting, Pending
  <1> QED
    BY <1>5, <1>6, <1>7, <1>8, <1>9, <1>10

\* No step takes an id back.
LEMMA NextIDGrows ==
    ASSUME TypeInv, Step
    PROVE  nextID \in Nat /\ nextID' \in Nat /\ nextID <= nextID' /\ now \in Nat /\ now' \in Nat /\ now <= now'
  <1>1. nextID \in Nat /\ now \in Nat
    BY DEF TypeInv, EngineTypeOK
  <1>2. nextID' \in {nextID, nextID + 1}
    BY DEF Step, NextChange, EndChange, UpdateFrom, TryMatchInterval, BeginUnmatched,
           AddInterval, ProcessAlertsBatch, AssignAlertsToGroups, UpdateHealthMap,
           SilencedAlertsError, Shutdown, vars
  <1>3. now' = now \/ \E gap \in Gaps : now' = now + gap
    BY DEF Step, NextChange, EndChange, UpdateFrom, TryMatchInterval, BeginUnmatched,
           AddInterval, ProcessAlertsBatch, AssignAlertsToGroups, UpdateHealthMap,
           SilencedAlertsError, Shutdown, vars
  <1> QED
    BY <1>1, <1>2, <1>3, ClockAssumption

LEMMA RecordedInductive ==
    ASSUME TypeInv, TimesInv, ReplayInv, RecordedInv, [RestartNext]_<<vars, recorded>>, Step
    PROVE  RecordedInv'
  <1>1. /\ nextID \in Nat /\ nextID' \in Nat /\ nextID <= nextID'
        /\ now \in Nat /\ now' \in Nat /\ now <= now'
    BY NextIDGrows
  <1> DEFINE T == {t \in Nat : LongDelta < t /\ t <= now'}
             ids == 1..(nextID' - 1)
             past == {t \in Nat : t <= now'}
  <1>2. /\ alerting \subseteq [metric : Alerts, at : T]
        /\ exported \subseteq [metric : Alerts, id : ids]
        /\ scraped \subseteq [metric : Alerts, id : ids, at : past]
        /\ now' = StartTime => scraped = {}
    <2>1. {t \in Nat : LongDelta < t /\ t <= now} \subseteq T
      BY <1>1, DeltasAssumption
    <2>2. 1..(nextID - 1) \subseteq ids
      <3> SUFFICES ASSUME NEW m \in Nat, NEW n \in Nat, m <= n
                   PROVE  1..(m - 1) \subseteq 1..(n - 1)
        BY <1>1
      <3> QED
        OBVIOUS
    <2>3. {t \in Nat : t <= now} \subseteq past
      BY <1>1
    <2>4. now' = StartTime => now = StartTime
      BY <1>1, ClockAssumption DEF ReplayInv
    <2> QED
      BY <2>1, <2>2, <2>3, <2>4 DEF RecordedInv
  <1>3. grouped \subseteq [metric : Alerts, id : ids]
    BY <1>1 DEF TypeInv, EngineTypeOK
  <1> HIDE DEF ids
  <1>4. CASE UNCHANGED recorded
    BY <1>2, <1>4 DEF recorded, RecordedInv, ids
  <1>5. ASSUME NEW alerts \in SUBSET scenario.alerts, NEW gap \in scenario.gaps, Iterate(alerts, gap)
        PROVE  RecordedInv'
    <2>1. alerts \subseteq Alerts /\ gap \in Gaps
      BY ScenariosAssumption DEF RecordedInv
    <2>2. now' \in T
      BY <1>1, DeltasAssumption DEF TimesInv
    <2>3. alerting' \subseteq [metric : Alerts, at : T]
      BY <1>2, <1>5, <2>1, <2>2 DEF Iterate
    <2>4. scraped' \subseteq [metric : Alerts, id : ids, at : past]
      <3>1. now \in past
        BY <1>1
      <3> QED
        BY <1>2, <1>5, <3>1 DEF Iterate, Scrape
    <2>5. now' # StartTime
      <3>1. now < now'
        BY <1>1, <1>5, <2>1, ClockAssumption DEF Iterate, ProcessAlertsBatch
      <3> QED
        BY <1>1, <3>1, ClockAssumption DEF ReplayInv
    <2> QED
      BY <1>2, <1>5, <2>3, <2>4, <2>5 DEF Iterate, RecordedInv, ids
  <1>6. CASE Export \/ Abandon
    BY <1>2, <1>3, <1>6 DEF Export, Abandon, RecordedInv, ids
  <1>7. CASE \E alerts \in SUBSET scenario.alerts, gap \in scenario.gaps : Crash(alerts, gap)
    <2>1. ready /\ pc' = "history" /\ ~ready' /\ now' # now
      <3>1. PICK alerts \in SUBSET scenario.alerts, gap \in scenario.gaps : Crash(alerts, gap)
        BY <1>7
      <3>2. gap \in Nat \ {0}
        BY ScenariosAssumption, ClockAssumption DEF RecordedInv
      <3> QED
        BY <1>1, <3>1, <3>2 DEF Crash
    <2> QED
      BY <2>1 DEF Step, NextChange, EndChange, UpdateFrom, TryMatchInterval, BeginUnmatched,
                  AddInterval, ProcessAlertsBatch, AssignAlertsToGroups, UpdateHealthMap,
                  SilencedAlertsError, Shutdown, vars, boot
  <1> QED
    BY <1>4, <1>5, <1>6, <1>7 DEF RestartNext, Work, Update, vars

LEMMA RestartInvInductive ==
    ASSUME RestartInv, [RestartNext]_<<vars, recorded>>
    PROVE  RestartInv'
  <1>1. CASE Step
    BY <1>1, TypeInvInductive, StableInvInductive, ReplayInvInductive, WatchdogInvInductive,
       ApartInvInductive, RecordedInductive DEF RestartInv, StableInv, WatchdogInv
  <1>2. CASE \E alerts \in SUBSET Alerts, gap \in Gaps : Crash(alerts, gap)
    BY <1>2, CrashInv
  <1> QED
    BY <1>1, <1>2, RestartSteps DEF RestartInv

LEMMA RestartInvCorrect == RestartSpec => []RestartInv
  <1>1. RestartInit => RestartInv
    <2> SUFFICES ASSUME RestartInit PROVE RestartInv
      OBVIOUS
    <2>1. Init
      BY DEF RestartInit
    <2>2. RecordedInv
      BY DEF RestartInit, RecordedInv
    <2>3. ApartInv
      BY <2>1 DEF Init, ApartInv, Waiting, Pending
    <2> QED
      BY <2>1, <2>2, <2>3, TypeInvInit, StableInvInit, ReplayInvInit, WatchdogInvInit DEF RestartInv
  <1>2. RestartInv /\ [RestartNext]_<<vars, recorded>> => RestartInv'
    BY RestartInvInductive
  <1> QED
    BY <1>1, <1>2, PTL DEF RestartSpec

\* Across restarts too, a Watchdog batch puts together only what a label links.
THEOREM RestartWatchdogCorrect == RestartSpec => []WatchdogBatchLinked
  <1>1. RestartInv => WatchdogBatchLinked
    BY DEF RestartInv, WatchdogInv
  <1> QED
    BY <1>1, RestartInvCorrect, PTL

\* With whatever alerts and previous incidents the first process finds, an
\* alert that a previous incident covers has the id of one after the replay.
THEOREM RestartOngoingCorrect == RestartSpec => []OngoingIncidentKeepsUUID
  <1>1. RestartInv => OngoingIncidentKeepsUUID
    BY DEF RestartInv, ReplayInv
  <1> QED
    BY <1>1, RestartInvCorrect, PTL

\* Processes that end at any moment, with lost scrapes and abandoned iterations,
\* keep the group_id of an alert as long as each of them lives.
THEOREM RestartStableCorrect == RestartSpec => StableGroupID
  <1>1. RestartInv /\ [RestartNext]_<<vars, recorded>> =>
          [\A p \in published, q \in published' :
              /\ p.metric = q.metric
              /\ q.at - p.at <= FuzzyDelta
              /\ Distinctive(p.metric)
              /\ HistoryIsRecent(p.metric)
              => p.id = q.id]_vars
    <2>1. ASSUME NEW alerts, NEW gap, Crash(alerts, gap)
          PROVE  published' = {}
      BY <2>1 DEF Crash
    <2> QED
      BY <2>1, RestartSteps, StableStep DEF RestartInv
  <1> QED
    BY <1>1, RestartInvCorrect, PTL DEF RestartSpec, StableGroupID

\* One process after the other behaves as Assignment promises: none hands out
\* an id that another had, except those it finds recorded.
THEOREM RestartImplementsAssignment == RestartSpec => ImplementsAssignment
  <1>1. RestartInit => A!Init
    BY AssignmentInit DEF RestartInit
  <1>2. RestartInv /\ [RestartNext]_<<vars, recorded>> => [A!Next]_(A!vars)
    <2> SUFFICES ASSUME RestartInv, [RestartNext]_<<vars, recorded>>
                 PROVE  [A!Next]_(A!vars)
      OBVIOUS
    <2>1. CASE Step
      BY <2>1, StepIsAssignmentStep DEF RestartInv, StableInv, GroupsInv
    <2>2. ASSUME NEW alerts \in SUBSET Alerts, NEW gap \in Gaps, Crash(alerts, gap)
          PROVE  A!Restart
      <3>1. now' > now
        BY <2>2, ClockAssumption DEF Crash, RestartInv, TypeInv, EngineTypeOK
      <3>2. Roots(groups' \cup fresh') = {}
        BY <2>2 DEF Crash, Roots
      <3> QED
        BY <2>2, <3>1, <3>2 DEF Crash, A!Restart, Roots
    <2> QED
      BY <2>1, <2>2, RestartSteps DEF RestartInv, A!Next
  <1> QED
    BY <1>1, <1>2, RestartInvCorrect, PTL DEF RestartSpec, ImplementsAssignment, A!Spec

---------------------------------------------------------------------------
(* Identity across a restart *)

\* A set of times that has a bound has a greatest element.
LEMMA GreatestTime ==
    ASSUME NEW S, S \subseteq Nat, S # {}, NEW b \in Nat, \A t \in S : t <= b
    PROVE  \E k \in S : \A j \in S : j <= k
  <1> DEFINE D == {b - t : t \in S}
  <1>1. D \subseteq Nat /\ D # {}
    <2>1. PICK t \in S : TRUE
      OBVIOUS
    <2>2. b - t \in D
      OBVIOUS
    <2>3. \A u \in S : b - u \in Nat
      OBVIOUS
    <2> QED
      BY <2>2, <2>3
  <1>2. PICK d \in D : \A e \in D : d <= e
    BY <1>1, LeastTime
  <1>3. PICK k \in S : d = b - k
    OBVIOUS
  <1>4. ASSUME NEW j \in S PROVE j <= k
    <2>1. b - j \in D
      OBVIOUS
    <2> QED
      BY <1>2, <1>3, <2>1
  <1> QED
    BY <1>4

\* No gap is in the samples from u to v.
Gapless(times, u, v) ==
    \A t \in times : u <= t /\ t < v => \E w \in times : t < w /\ w <= t + QueryStep

\* Every sample of a series lies in a run of it: the one that begins with the
\* first and ends with the last sample that no gap keeps apart from it.
LEMMA RunOfSample ==
    ASSUME NEW times, times \subseteq Nat, NEW b \in Nat, \A t \in times : t <= b,
           NEW x \in times
    PROVE  \E r \in Runs(times) : r[1] <= x /\ x <= r[2]
  <1> DEFINE lower == {u \in times : u <= x /\ Gapless(times, u, x)}
             upper == {v \in times : x <= v /\ Gapless(times, x, v)}
  <1>1. x \in Nat /\ QueryStep \in Nat
    BY ScenariosAssumption
  <1>2. x \in lower /\ x \in upper
    BY <1>1 DEF Gapless
  <1>3. PICK u \in lower : \A j \in lower : u <= j
    BY <1>2, LeastTime
  <1>4. PICK v \in upper : \A j \in upper : j <= v
    <2>1. upper \subseteq Nat /\ upper # {} /\ \A t \in upper : t <= b
      BY <1>2
    <2> HIDE DEF upper
    <2> QED
      BY <2>1, GreatestTime
  <1>5. /\ u \in times /\ v \in times /\ u \in Nat /\ v \in Nat /\ u <= x /\ x <= v
        /\ Gapless(times, u, x) /\ Gapless(times, x, v)
    OBVIOUS
  <1>6. ASSUME NEW t \in times, u - QueryStep <= t, t < u
        PROVE  FALSE
    <2>1. t \in Nat /\ t <= x
      BY <1>5, <1>6
    <2>2. ASSUME NEW s \in times, t <= s, s < x
          PROVE  \E w \in times : s < w /\ w <= s + QueryStep
      <3>1. s \in Nat
        OBVIOUS
      <3>2. CASE s < u
        <4>1. s < u /\ u <= s + QueryStep
          BY <1>1, <1>5, <1>6, <2>1, <2>2, <3>1, <3>2
        <4> QED
          BY <1>5, <4>1
      <3>3. CASE u <= s
        BY <1>5, <2>2, <3>3 DEF Gapless
      <3> QED
        BY <1>5, <3>1, <3>2, <3>3
    <2>3. t \in lower
      BY <2>1, <2>2 DEF Gapless
    <2>4. u <= t
      BY <1>3, <2>3
    <2> QED
      BY <1>5, <1>6, <2>1, <2>4
  <1>7. ASSUME NEW t \in times, v < t, t <= v + QueryStep
        PROVE  FALSE
    <2>1. t \in Nat /\ x <= t
      BY <1>5, <1>7
    <2>2. ASSUME NEW s \in times, x <= s, s < t
          PROVE  \E w \in times : s < w /\ w <= s + QueryStep
      <3>1. s \in Nat
        OBVIOUS
      <3>2. CASE v <= s
        <4>1. t <= s + QueryStep
          BY <1>1, <1>5, <1>7, <2>1, <3>1, <3>2
        <4> QED
          BY <2>2, <4>1
      <3>3. CASE s < v
        BY <1>5, <2>2, <3>3 DEF Gapless
      <3> QED
        BY <1>5, <3>1, <3>2, <3>3
    <2>3. t \in upper
      BY <2>1, <2>2 DEF Gapless
    <2>4. t <= v
      BY <1>4, <2>3
    <2> QED
      BY <1>5, <1>7, <2>1, <2>4
  <1>8. ASSUME NEW t \in times, u <= t, t < v
        PROVE  \E w \in times : t < w /\ w <= t + QueryStep
    <2>1. t \in Nat
      OBVIOUS
    <2>2. t < x \/ x <= t
      BY <1>1, <2>1
    <2> QED
      BY <1>5, <1>8, <2>2 DEF Gapless
  <1> HIDE DEF lower, upper
  <1>9. u <= v
    BY <1>1, <1>5
  <1>10. <<u, v>> \in Runs(times)
    BY <1>5, <1>6, <1>7, <1>8, <1>9 DEF Runs
  <1> QED
    BY <1>5, <1>10

\* What was scraped within the look-back is found as a previous incident that
\* was there when it was.
LEMMA ScrapedIsRecorded ==
    ASSUME TypeInv, RecordedInv, NEW s \in scraped, now - Lookback <= s.at
    PROVE  \E p \in RecordedIncidents :
              /\ p.uuid = s.id /\ p.labels = SrcLabels(s.metric)
              /\ p.start \in Nat /\ p.end \in Nat /\ p.start <= s.at /\ s.at <= p.end
  <1> DEFINE times(q) == {o.at : o \in {u \in FoundRows : u.labels = q.labels /\ u.uuid = q.uuid}}
             row == [labels |-> SrcLabels(s.metric), uuid |-> s.id, at |-> s.at]
  <1>1. /\ now \in Nat /\ times(row) \subseteq Nat /\ \A t \in times(row) : t <= now
    BY FoundRowsTimes DEF TypeInv, EngineTypeOK
  <1>2. row \in FoundRows
    BY DEF FoundRows, Since
  <1>3. /\ row.uuid = s.id /\ row.labels = SrcLabels(s.metric) /\ row.at = s.at
    OBVIOUS
  <1> HIDE DEF row
  <1>4. s.at \in times(row)
    BY <1>2, <1>3
  <1> HIDE DEF times
  <1>5. PICK r \in Runs(times(row)) : r[1] <= s.at /\ s.at <= r[2]
    BY <1>1, <1>4, RunOfSample
  <1>6. r[1] \in Nat /\ r[2] \in Nat
    BY <1>1 DEF Runs
  <1> DEFINE p == [labels |-> row.labels, uuid |-> row.uuid, start |-> r[1], end |-> r[2]]
  <1>7. p \in RecordedIncidents
    <2>1. p \in {[labels |-> row.labels, uuid |-> row.uuid, start |-> q[1], end |-> q[2]] :
                    q \in Runs(times(row))}
      OBVIOUS
    <2> HIDE DEF p
    <2> QED
      BY <1>2, <2>1 DEF RecordedIncidents, times
  <1>8. p.uuid = s.id /\ p.labels = SrcLabels(s.metric) /\ p.start = r[1] /\ p.end = r[2]
    BY <1>3
  <1> HIDE DEF p
  <1> QED
    BY <1>5, <1>6, <1>7, <1>8

\* The id that UpdateGroupUUIDs gives to a root is one that it is offered, if
\* there is any.
LEMMA GivenIsOffered ==
    ASSUME NEW prev, NEW g \in groups, Claims(prev, g) # {}, NEW id \in UUIDs(prev, g.root),
           \A p \in prev : p.start \in Nat /\ p.end \in Nat,
           NEW n \in Nat, groups \subseteq GroupsBelow(n)
    PROVE  id \in Offered(prev, g.root)
  <1> DEFINE claimants == {h \in groups : h.root = g.root /\ Claims(prev, h) # {}}
             first == {h \in claimants : \A k \in claimants : ~Before(k, h)}
  <1>1. UUIDs(prev, g.root) = {p.uuid : p \in UNION {Claims(prev, h) : h \in first}}
    <2>1. g \in claimants
      OBVIOUS
    <2> QED
      BY <2>1 DEF UUIDs
  <1>2. PICK p \in UNION {Claims(prev, h) : h \in first} : id = p.uuid
    BY <1>1
  <1>3. PICK h \in first : p \in Claims(prev, h)
    BY <1>2
  <1>4. h \in groups /\ h.root = g.root
    OBVIOUS
  <1> HIDE DEF first
  <1>5. /\ p \in prev /\ p.start < h.end + Tolerance /\ h.end - Tolerance < p.end
        /\ \E m \in h.matchers : p.labels \subseteq m
    BY <1>3, <1>4 DEF Claims, AtTime
  <1>6. p.start - Tolerance < h.end /\ h.end < p.end + Tolerance
    <2>1. p.start \in Nat /\ p.end \in Nat /\ h.end \in Nat
      BY <1>4, <1>5 DEF GroupsBelow
    <2> QED
      BY <1>5, <2>1, DeltasAssumption
  <1> QED
    BY <1>2, <1>4, <1>5, <1>6 DEF Offered

\* A distinctive alert that fires until the restart was offered the id that it
\* was scraped under, and has one of those that were offered to its root.
LEMMA UpdateIdentity ==
    ASSUME RestartInv, RestartInv', Update,
           NEW i \in history, NEW s \in scraped, Distinctive(i.metric), i.end = now,
           s.metric = i.metric, now - s.at < Tolerance,
           NEW g \in BestMatches(groups, [i EXCEPT !.start = now]),
           NEW h \in BestMatches(groups', [i EXCEPT !.start = now])
    PROVE  {s.id, h.root} \subseteq Offered(RecordedIncidents, g.root)
  <1> USE DEF RestartInv, StableInv, GroupsInv, TypeInv
  <1> DEFINE prev == RecordedIncidents
             roots == {k.root : k \in groups}
  <1>1. /\ nextID \in Nat /\ now \in Nat /\ groups \subseteq GroupsBelow(nextID)
        /\ i \in Intervals /\ s.at \in Nat /\ s.at <= now
    BY DEF EngineTypeOK, RecordedInv
  <1>2. now # StartTime
    BY DEF RecordedInv
  <1>3. prev \in PreviousFound /\ UpdateFrom(prev)
    BY <1>2 DEF Update, PreviousFound
  <1>4. Known(prev)
    BY <1>3, RecordedAreKnown
  <1> HIDE DEF prev
  <1>5. /\ ~ready /\ changes = {} /\ todo = {} /\ unmatched = {} /\ fresh = {} /\ fresh' = {}
        /\ UNCHANGED <<now, nextID, history>>
    BY <1>3 DEF UpdateFrom, RefInv, IdleInv
  <1>6. PICK new \in [roots -> roots \cup {p.uuid : p \in prev}] :
          /\ \A r \in roots : new[r] \in UUIDs(prev, r)
          /\ groups' = {[k EXCEPT !.root = new[k.root]] : k \in groups}
    BY <1>3 DEF UpdateFrom
  <1>7. AllSound(groups) /\ AllSound(groups')
    <2>1. OneMatcherInv' /\ MadeInv' /\ EngineTypeOK'
      OBVIOUS
    <2> QED
      BY <1>1, <1>5, <2>1, SoundInv DEF EngineTypeOK, OneMatcherInv, MadeInv, AllSound, Sound
  <1>8. Followed(groups, i)
    BY <1>5 DEF ReplayInv, Pending
  <1>9. Followed(groups', i)
    <2>1. \A x \in groups : \E r : [x EXCEPT !.root = r] \in groups'
      BY <1>6
    <2> QED
      BY <1>1, <1>8, <2>1, FollowedRenamed
  <1>10. /\ g \in groups /\ ExactOf(g, i.metric) /\ g.end = now
         /\ h \in groups' /\ ExactOf(h, i.metric) /\ h.end = now
    BY <1>1, <1>7, <1>8, <1>9, FiringIsExact DEF ExactOf, Of, Exact, Main
  <1>11. PICK k \in groups : h = [k EXCEPT !.root = new[k.root]]
    BY <1>6, <1>10
  <1>12. h.root = new[k.root] /\ ExactOf(k, i.metric) /\ k.end = now
    <2>1. h.root = new[k.root] /\ h.distance = k.distance /\ h.matchers = k.matchers /\ h.end = k.end
      BY <1>1, <1>11, RenamedFields
    <2> QED
      BY <1>10, <2>1 DEF ExactOf
  <1>13. k.root = g.root
    <2>1. ApartFrom(g, k) /\ g.start <= g.end /\ k.start <= k.end
      BY <1>5, <1>10, <1>12 DEF ApartInv, SameExact, ExactOf
    <2>2. g.start \in Nat /\ k.start \in Nat
      BY <1>1, <1>10 DEF GroupsBelow
    <2> QED
      BY <1>1, <1>10, <1>12, <2>1, <2>2 DEF ApartFrom
  <1>14. now - Lookback <= s.at
    BY <1>1, DeltasAssumption, ScenariosAssumption
  <1>15. PICK p \in prev : /\ p.uuid = s.id /\ p.labels = SrcLabels(i.metric)
                           /\ p.start \in Nat /\ p.end \in Nat /\ p.start <= s.at /\ s.at <= p.end
    BY <1>14, ScrapedIsRecorded DEF prev
  <1>16. p.start < now + Tolerance /\ now - Tolerance < p.end
    BY <1>1, <1>15, DeltasAssumption
  <1>17. p.labels \subseteq i.metric /\ i.metric \in g.matchers /\ i.metric \in k.matchers
    BY <1>10, <1>12, <1>15 DEF SrcLabels, Project, ExactOf
  <1>18. s.id \in Offered(prev, g.root)
    <2>1. p.start - Tolerance < g.end /\ g.end < p.end + Tolerance
      BY <1>1, <1>10, <1>15, <1>16, DeltasAssumption
    <2> QED
      BY <1>10, <1>15, <1>17, <2>1 DEF Offered
  <1>19. Claims(prev, k) # {}
    BY <1>1, <1>4, <1>12, <1>15, <1>16, <1>17, ClaimsExist DEF Known
  <1>20. h.root \in Offered(prev, g.root)
    <2>1. new[k.root] \in UUIDs(prev, k.root)
      BY <1>6
    <2> QED
      BY <1>1, <1>4, <1>12, <1>13, <1>19, <2>1, GivenIsOffered DEF Known
  <1> QED
    BY <1>18, <1>20 DEF prev

\* A distinctive alert that fires through a restart and was scraped shortly
\* before it has an id of the recorded incidents that the replay has put
\* together under its root, the one it was scraped under if that is the only.
THEOREM RestartIdentityCorrect == RestartSpec => IncidentsKeepIdentity
  <1>1. RestartInv /\ [RestartNext]_<<vars, recorded>> =>
          [Update => \A i \in history, s \in scraped :
              /\ Distinctive(i.metric)
              /\ i.end = now
              /\ s.metric = i.metric
              /\ now - s.at < Tolerance
              /\ i.start <= s.at
              => \A g \in BestMatches(groups, [i EXCEPT !.start = now]) :
                    \A h \in BestMatches(groups', [i EXCEPT !.start = now]) :
                        {s.id, h.root} \subseteq Offered(RecordedIncidents, g.root)]_<<vars, recorded>>
    BY RestartInvInductive, UpdateIdentity
  <1> QED
    BY <1>1, RestartInvCorrect, PTL DEF RestartSpec, IncidentsKeepIdentity
=============================================================================
