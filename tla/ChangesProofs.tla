--------------------------- MODULE ChangesProofs ---------------------------
(***************************************************************************)
(* Theorems about Changes: the intervals MetricsIntervals returns are the  *)
(* maximal runs of samples, and the changes MetricsChanges returns hold    *)
(* them in order, for every range vector and every step.                   *)
(***************************************************************************)
EXTENDS Changes, TLAPS, WellFoundedInduction

\* A set of samples that is not empty has a first one.
LEMMA FirstSample ==
    ASSUME NEW S, S \subseteq Nat, S # {}
    PROVE  First(S) \in S /\ \A u \in S : First(S) <= u
  <1> DEFINE R == OpToRel(<, Nat)
  <1>1. PICK t \in S : \A u \in S : ~(<<u, t>> \in R)
    BY WFMin, NatLessThanWellFounded
  <1>2. ASSUME NEW u \in S, u < t
        PROVE  <<u, t>> \in R
    <2>1. <<u, t>> \in Nat \X Nat /\ <<u, t>>[1] < <<u, t>>[2]
      BY <1>2
    <2> QED
      BY <2>1, Zenon DEF OpToRel
  <1> HIDE DEF R
  <1>3. \A u \in S : ~(u < t)
    BY <1>1, <1>2, Zenon
  <1>4. \A u \in S : t <= u
    BY <1>3
  <1>5. \E v \in S : \A u \in S : v <= u
    BY <1>4
  <1> QED
    BY <1>5, Zenon DEF First

---------------------------------------------------------------------------
(* The invariant of the scan *)

\* A sample lies in an interval found so far.
Covered(m, t) == \E i \in ret : i.metric = m /\ t \in Samples(i)

\* The samples of the current interval
Current == {t \in rv[metric] : start <= t /\ t <= end}

\* While a series is scanned, its samples up to end have been read, those
\* before start are in intervals already found, and the current interval is a
\* run as far as it goes.
ScanOK ==
    /\ metric \notin left
    /\ start \in rv[metric] /\ end \in rv[metric] /\ start <= end
    /\ unread = {t \in rv[metric] : end < t}
    /\ Gapless(Current)
    /\ \A t \in rv[metric] : t < start => t < start - Step /\ Covered(metric, t)

Inv ==
    /\ rv \in [Series -> SUBSET Times]
    /\ left \subseteq Series
    /\ metric \in Series
    /\ pc \in {"series", "scan", "gather", "done"}
    /\ \A i \in ret : i \in Intervals /\ IsRun(i)
    /\ pc = "scan" => ScanOK
    /\ \A m \in Series \ left :
          (pc = "scan" /\ m = metric) \/ \A t \in rv[m] : Covered(m, t)
    /\ pc \in {"gather", "done"} => left = {}

\* Where the samples stop, or the next one is further than a step away, the
\* current interval is a maximal run, and it covers all that was read.
LEMMA CurrentIsRun ==
    ASSUME Inv, pc = "scan", \A t \in unread : end + Step < t
    PROVE  LET i == Interval(metric, start, end)
           IN  /\ i \in Intervals
               /\ IsRun(i)
               /\ Samples(i) = Current
  <1> DEFINE i == Interval(metric, start, end)
  <1>1. i.metric = metric /\ i.start = start /\ i.end = end
    BY DEF Interval
  <1>2. rv[metric] \subseteq Nat /\ start \in Nat /\ end \in Nat
    BY TimesAssumption DEF Inv, ScanOK
  <1>3. i \in Intervals
    BY DEF Inv, ScanOK, Intervals, Interval
  <1>4. Samples(i) = Current
    BY <1>1 DEF Samples, Current
  <1>5. {i.start, i.end} \subseteq Samples(i)
    BY <1>1, <1>2, <1>4 DEF Inv, ScanOK, Current
  <1>6. \A t \in rv[metric] \ Current : t < start - Step \/ t > end + Step
    BY <1>2, StepAssumption DEF Inv, ScanOK, Current
  <1> QED
    BY <1>1, <1>3, <1>4, <1>5, <1>6 DEF IsRun, Inv, ScanOK

\* An interval stays a run, and a sample covered, when intervals are added.
LEMMA CoveredMonotonic ==
    ASSUME UNCHANGED rv, ret \subseteq ret', NEW m, NEW t, Covered(m, t)
    PROVE  Covered(m, t)'
  BY DEF Covered, Samples

LEMMA NextSeriesInv ==
    ASSUME Inv, NextSeries
    PROVE  Inv'
  <1>1. PICK m \in left :
          /\ left' = left \ {m}
          /\ IF rv[m] = {}
               THEN UNCHANGED <<metric, unread, start, end, pc>>
               ELSE /\ metric' = m
                    /\ start' = First(rv[m])
                    /\ end' = start'
                    /\ unread' = rv[m] \ {start'}
                    /\ pc' = "scan"
    BY DEF NextSeries
  <1>2. pc = "series" /\ UNCHANGED <<rv, ret>>
    BY DEF NextSeries
  <1>3. m \in Series /\ rv[m] \subseteq Nat
    BY <1>1, TimesAssumption DEF Inv
  <1>4. /\ rv' \in [Series -> SUBSET Times]
        /\ left' \subseteq Series
        /\ \A i \in ret' : i \in Intervals /\ IsRun(i)'
    BY <1>1, <1>2 DEF Inv, IsRun, Samples, Gapless
  <1>5. \A n \in Series \ left : \A t \in rv[n] : Covered(n, t)'
    BY <1>2 DEF Inv, Covered, Samples
  <1>6. CASE rv[m] = {}
    BY <1>1, <1>2, <1>3, <1>4, <1>5, <1>6 DEF Inv
  <1>7. CASE rv[m] # {}
    <2>1. start' \in rv[m] /\ \A u \in rv[m] : start' <= u
      BY <1>1, <1>3, <1>7, FirstSample
    <2>2. Current' = {start'}
      BY <1>1, <1>2, <1>3, <1>7, <2>1 DEF Current
    <2>3. Gapless(Current)'
      BY <1>3, <2>1, <2>2 DEF Gapless
    <2>4. ScanOK'
      BY <1>1, <1>2, <1>3, <1>7, <2>1, <2>3 DEF ScanOK
    <2> QED
      BY <1>1, <1>2, <1>3, <1>4, <1>5, <1>7, <2>4 DEF Inv
  <1> QED
    BY <1>6, <1>7

LEMMA NextSampleInv ==
    ASSUME Inv, NextSample
    PROVE  Inv'
  <1> DEFINE t == First(unread)
  <1>1. /\ pc = "scan" /\ unread # {}
        /\ UNCHANGED <<rv, left, metric, pc>>
        /\ unread' = unread \ {t} /\ end' = t
    BY DEF NextSample, gatherVars
  <1>2. /\ rv[metric] \subseteq Nat /\ start \in Nat /\ end \in Nat
        /\ unread = {u \in rv[metric] : end < u}
        /\ ScanOK
    BY <1>1, TimesAssumption DEF Inv, ScanOK
  <1>3. t \in unread /\ \A u \in unread : t <= u
    BY <1>1, <1>2, FirstSample
  <1>4. t \in rv[metric] /\ end < t /\ t \in Nat
    BY <1>2, <1>3
  <1>5. unread' = {u \in rv[metric] : t < u}
    BY <1>1, <1>2, <1>3, <1>4
  <1>6. ret \subseteq ret'
    BY DEF NextSample
  <1>7. \A m \in Series \ left' :
          (pc' = "scan" /\ m = metric') \/ \A u \in rv'[m] : Covered(m, u)'
    BY <1>1, <1>6, CoveredMonotonic DEF Inv
  <1>8. CASE IsGap(end, t)
    <2> DEFINE i == Interval(metric, start, end)
    <2>1. ret' = ret \cup {i} /\ start' = t
      BY <1>8 DEF NextSample
    <2>2. \A u \in unread : end + Step < u
      BY <1>2, <1>3, <1>8, StepAssumption DEF IsGap
    <2>3. i \in Intervals /\ IsRun(i) /\ Samples(i) = Current
      BY <1>1, <2>2, CurrentIsRun
    <2>4. \A j \in ret' : j \in Intervals /\ IsRun(j)'
      BY <1>1, <2>1, <2>3 DEF Inv, IsRun, Samples, Gapless
    <2>5. \A u \in rv[metric] : u < t => u <= end
      BY <1>2, <1>3
    <2>6. ASSUME NEW u \in rv[metric], u < t
          PROVE  Covered(metric, u)'
      <3>1. CASE u < start
        BY <1>1, <1>2, <1>6, <3>1, CoveredMonotonic DEF ScanOK
      <3>2. CASE start <= u
        <4>1. u \in Samples(i)
          BY <2>3, <2>5, <2>6, <3>2 DEF Current
        <4>2. i.metric = metric
          BY DEF Interval
        <4> QED
          BY <1>1, <2>1, <4>1, <4>2 DEF Covered, Samples
      <3> QED
        BY <1>2, <3>1, <3>2
    <2>7. \A u \in rv[metric] : u < t => u < t - Step
      BY <1>2, <1>4, <1>8, <2>5, StepAssumption DEF IsGap
    <2>8. Current' = {t}
      BY <1>1, <1>2, <1>4, <2>1 DEF Current
    <2>9. Gapless(Current)'
      BY <1>4, <2>8 DEF Gapless
    <2>10. ScanOK'
      BY <1>1, <1>2, <1>4, <1>5, <2>1, <2>6, <2>7, <2>9 DEF ScanOK
    <2> QED
      BY <1>1, <1>7, <2>4, <2>10 DEF Inv
  <1>9. CASE ~IsGap(end, t)
    <2>1. UNCHANGED <<ret, start>>
      BY <1>9 DEF NextSample
    <2>2. t - end <= Step
      BY <1>2, <1>4, <1>9, StepAssumption DEF IsGap
    <2>3. Current' = Current \cup {t}
      <3>1. start <= t /\ end <= t
        BY <1>2, <1>4 DEF ScanOK
      <3>2. \A u \in rv[metric] : u <= t <=> u <= end \/ u = t
        BY <1>2, <1>3, <1>4, <3>1
      <3> QED
        BY <1>1, <1>4, <2>1, <3>1, <3>2 DEF Current
    <2>4. end \in Current /\ \A u \in Current : u <= end
      BY <1>2 DEF Current, ScanOK
    <2>5. Gapless(Current)'
      <3> SUFFICES ASSUME NEW u \in Current \cup {t}, NEW v \in Current \cup {t}, u < v
                   PROVE  \E w \in Current \cup {t} : u < w /\ w - u <= Step
        BY <1>1, <2>3, Zenon DEF Gapless
      <3>1. Current \subseteq Nat
        BY <1>2 DEF Current
      <3>2. u \in Current
        BY <1>2, <1>4, <2>4, <3>1
      <3>3. CASE u = end
        BY <1>4, <2>2, <3>3
      <3>4. CASE u # end
        <4>1. u < end
          BY <1>2, <2>4, <3>1, <3>2, <3>4
        <4>2. \E w \in Current : u < w /\ w - u <= Step
          BY <1>2, <2>4, <3>2, <4>1 DEF ScanOK, Gapless
        <4> QED
          BY <4>2
      <3> QED
        BY <3>3, <3>4
    <2>6. \A u \in rv[metric] : u < start => Covered(metric, u)'
      BY <1>1, <1>2, <1>6, CoveredMonotonic DEF ScanOK
    <2>7. ScanOK'
      BY <1>1, <1>2, <1>4, <1>5, <2>1, <2>5, <2>6 DEF ScanOK
    <2>8. \A j \in ret' : j \in Intervals /\ IsRun(j)'
      BY <1>1, <2>1 DEF Inv, IsRun, Samples, Gapless
    <2> QED
      BY <1>1, <1>7, <2>7, <2>8 DEF Inv
  <1> QED
    BY <1>8, <1>9

LEMMA EndSeriesInv ==
    ASSUME Inv, EndSeries
    PROVE  Inv'
  <1> DEFINE i == Interval(metric, start, end)
  <1>1. /\ pc = "scan" /\ unread = {} /\ pc' = "series"
        /\ ret' = ret \cup {i}
        /\ UNCHANGED <<rv, left, metric>>
    BY DEF EndSeries
  <1>2. i \in Intervals /\ IsRun(i) /\ Samples(i) = Current
    BY <1>1, CurrentIsRun
  <1>3. \A j \in ret' : j \in Intervals /\ IsRun(j)'
    BY <1>1, <1>2 DEF Inv, IsRun, Samples, Gapless
  <1>4. ASSUME NEW u \in rv[metric]
        PROVE  Covered(metric, u)'
    <2>1. u \in Nat /\ start \in Nat /\ end \in Nat /\ u <= end
      <3>1. rv[metric] \subseteq Nat /\ start \in Nat /\ end \in Nat
        BY <1>1, TimesAssumption DEF Inv, ScanOK
      <3>2. u \notin unread
        BY <1>1
      <3> QED
        BY <1>1, <3>1, <3>2 DEF Inv, ScanOK
    <2>2. CASE u < start
      BY <1>1, <2>2, CoveredMonotonic DEF Inv, ScanOK
    <2>3. CASE start <= u
      <3>1. u \in Samples(i) /\ i.metric = metric
        BY <1>2, <2>1, <2>3 DEF Current, Interval
      <3> QED
        BY <1>1, <3>1 DEF Covered, Samples
    <2> QED
      BY <2>1, <2>2, <2>3
  <1>5. \A m \in Series \ left' : \A u \in rv'[m] : Covered(m, u)'
    BY <1>1, <1>4, CoveredMonotonic DEF Inv
  <1> QED
    BY <1>1, <1>3, <1>5 DEF Inv

\* The second loop does not touch the intervals found.
LEMMA GatherInv ==
    ASSUME Inv, Sort \/ GatherInterval \/ SaveLastGroup \/ UNCHANGED vars
    PROVE  Inv'
  <1>1. UNCHANGED <<rv, left, metric, unread, start, end, ret>>
    BY DEF Sort, GatherInterval, SaveLastGroup, vars, scanVars
  <1>2. \/ pc = "series" /\ left = {} /\ pc' \in {"gather", "done"}
        \/ pc \in {"gather", "done"} /\ pc' \in {"gather", "done"}
        \/ pc' = pc
    BY DEF Sort, GatherInterval, SaveLastGroup, vars
  <1>3. \A i : IsRun(i)' <=> IsRun(i)
    BY <1>1 DEF IsRun, Samples, Gapless
  <1>4. \A m, t : Covered(m, t)' <=> Covered(m, t)
    BY <1>1 DEF Covered, Samples
  <1>5. ScanOK' <=> ScanOK
    BY <1>1, <1>4 DEF ScanOK, Current, Gapless
  <1> QED
    BY <1>1, <1>2, <1>3, <1>4, <1>5 DEF Inv

\* MetricsIntervals returns the maximal runs of samples of every series, and
\* no sample is left out, whatever the samples and the step.
THEOREM IntervalsCorrect == Spec => []IntervalsAreRuns
  <1>1. Init => Inv
    BY DEF Init, Inv
  <1>2. Inv /\ [Next]_vars => Inv'
    BY NextSeriesInv, NextSampleInv, EndSeriesInv, GatherInv DEF Next, Done
  <1>3. Inv => IntervalsAreRuns
    BY DEF Inv, IntervalsAreRuns, Covered
  <1> QED
    BY <1>1, <1>2, <1>3, PTL DEF Spec

---------------------------------------------------------------------------
(* The invariant of the second loop *)

ChangeSet == [timestamp : Nat, intervals : SUBSET Intervals]

\* The changes made so far are in order, before t, and complete.
InOrder(cs, t) ==
    /\ cs \in Seq(ChangeSet)
    /\ \A j, k \in 1..Len(cs) : j < k => cs[j].timestamp < cs[k].timestamp
    /\ \A k \in 1..Len(cs) : cs[k].timestamp < t
    /\ \A k \in 1..Len(cs) : cs[k].intervals = {i \in ret : i.start = cs[k].timestamp}

\* An interval is in one of the changes.
In(i, cs) == \E k \in 1..Len(cs) : i \in cs[k].intervals

\* The intervals not gathered start at currTime or later; those gathered are in
\* the changes or in the current group.
GatherOK ==
    /\ sorted \subseteq ret
    /\ currTime \in Nat
    /\ \A i \in sorted : currTime <= i.start
    /\ currGroup = {i \in ret \ sorted : i.start = currTime}
    /\ InOrder(changes, currTime)
    /\ \A i \in ret \ sorted : i.start = currTime \/ In(i, changes)

ChangesInv ==
    /\ pc \in {"series", "scan"} => changes = <<>> /\ currGroup = {}
    /\ pc = "gather" => GatherOK
    /\ ChangesAreOrdered

\* The current group completes the changes up to a later time.
LEMMA AppendChange ==
    ASSUME Inv, GatherOK, NEW t \in Nat, currTime < t,
           \A i \in sorted : currTime # i.start
    PROVE  LET cs == Append(changes, Change(currTime, currGroup))
           IN  InOrder(cs, t) /\ \A i \in ret \ sorted : In(i, cs)
  <1> DEFINE c == Change(currTime, currGroup)
             cs == Append(changes, c)
  <1>1. currGroup = {i \in ret : i.start = currTime}
    BY DEF GatherOK
  <1>2. c \in ChangeSet /\ c.timestamp = currTime /\ c.intervals = currGroup
    BY <1>1 DEF Change, ChangeSet, GatherOK, Inv
  <1>3. changes \in Seq(ChangeSet) /\ currTime \in Nat
    BY DEF GatherOK, InOrder
  <1> HIDE DEF c
  <1>4. /\ cs \in Seq(ChangeSet)
        /\ Len(cs) = Len(changes) + 1 /\ Len(changes) \in Nat
        /\ cs[Len(changes) + 1] = c
        /\ \A k \in 1..Len(changes) : cs[k] = changes[k]
    BY <1>2, <1>3
  <1>5. \A k \in 1..Len(changes) : changes[k].timestamp \in Nat /\ changes[k].timestamp < currTime
    <2> TAKE k \in 1..Len(changes)
    <2>1. changes[k] \in ChangeSet
      BY <1>3
    <2>2. changes[k].timestamp \in Nat
      BY <2>1 DEF ChangeSet
    <2> QED
      BY <2>2 DEF GatherOK, InOrder
  <1> HIDE DEF cs
  <1>6. InOrder(cs, t)
    <2>1. ASSUME NEW j \in 1..Len(cs), NEW k \in 1..Len(cs), j < k
          PROVE  cs[j].timestamp < cs[k].timestamp
      <3>1. j \in 1..Len(changes)
        BY <1>4, <2>1
      <3>2. CASE k = Len(changes) + 1
        BY <1>2, <1>4, <1>5, <3>1, <3>2
      <3>3. CASE k \in 1..Len(changes)
        BY <1>4, <2>1, <3>1, <3>3 DEF GatherOK, InOrder
      <3> QED
        BY <1>4, <3>2, <3>3
    <2>2. ASSUME NEW k \in 1..Len(cs)
          PROVE  /\ cs[k].timestamp < t
                 /\ cs[k].intervals = {i \in ret : i.start = cs[k].timestamp}
      <3>1. CASE k = Len(changes) + 1
        BY <1>1, <1>2, <1>4, <3>1
      <3>2. CASE k \in 1..Len(changes)
        BY <1>3, <1>4, <1>5, <3>2 DEF GatherOK, InOrder
      <3> QED
        BY <1>4, <3>1, <3>2
    <2> QED
      BY <1>4, <2>1, <2>2 DEF InOrder
  <1>7. ASSUME NEW i \in ret \ sorted
        PROVE  In(i, cs)
    <2>1. CASE i.start = currTime
      <3>1. i \in cs[Len(changes) + 1].intervals
        BY <1>1, <1>2, <1>4, <2>1
      <3> QED
        BY <1>4, <3>1 DEF In
    <2>2. CASE In(i, changes)
      BY <1>4, <2>2 DEF In
    <2> QED
      BY <2>1, <2>2 DEF GatherOK
  <1> QED
    BY <1>6, <1>7 DEF cs, c

LEMMA SortChanges ==
    ASSUME Inv, ChangesInv, Sort
    PROVE  ChangesInv'
  <1>1. ret' = ret /\ changes' = changes /\ currGroup' = currGroup /\ pc = "series"
    BY DEF Sort, scanVars
  <1>2. CASE ret = {}
    BY <1>1, <1>2 DEF Sort, ChangesInv, ChangesAreOrdered
  <1>3. CASE ret # {}
    <2>1. sorted' = ret /\ currTime' = First({i.start : i \in ret}) /\ pc' = "gather"
      BY <1>3 DEF Sort
    <2>2. {i.start : i \in ret} \subseteq Nat /\ {i.start : i \in ret} # {}
      <3>1. \A i \in ret : i \in Intervals
        BY DEF Inv
      <3>2. \A i \in ret : i.start \in Nat
        BY <3>1, TimesAssumption DEF Intervals
      <3> QED
        BY <1>3, <3>2
    <2>3. currTime' \in Nat /\ \A i \in ret : currTime' <= i.start
      BY <2>1, <2>2, FirstSample
    <2>4. changes' = <<>> /\ currGroup' = {}
      BY <1>1 DEF ChangesInv
    <2>5. InOrder(changes, currTime)'
      BY <2>4 DEF InOrder
    <2>6. GatherOK'
      BY <1>1, <2>1, <2>3, <2>4, <2>5 DEF GatherOK
    <2> QED
      BY <2>1, <2>6 DEF ChangesInv, ChangesAreOrdered
  <1> QED
    BY <1>2, <1>3

LEMMA GatherChanges ==
    ASSUME Inv, ChangesInv, GatherInterval
    PROVE  ChangesInv'
  <1>1. GatherOK /\ pc' = "gather" /\ ret' = ret
    BY DEF GatherInterval, ChangesInv, scanVars
  <1>2. PICK i \in NextInSort :
          /\ sorted' = sorted \ {i}
          /\ IF i.start = currTime
               THEN /\ currGroup' = currGroup \cup {i}
                    /\ UNCHANGED <<currTime, changes>>
               ELSE /\ changes' = Append(changes, Change(currTime, currGroup))
                    /\ currGroup' = {i}
                    /\ currTime' = i.start
    BY DEF GatherInterval
  <1>3. i \in sorted /\ i \in ret /\ \A j \in sorted : i.start <= j.start
    BY <1>1, <1>2 DEF NextInSort, GatherOK
  <1>4. \A j \in ret : j.start \in Nat
    BY TimesAssumption DEF Inv, Intervals
  <1>5. CASE i.start = currTime
    <2>1. /\ currGroup' = currGroup \cup {i} /\ currTime' = currTime /\ changes' = changes
      BY <1>2, <1>5
    <2>2. InOrder(changes, currTime)'
      BY <1>1, <2>1 DEF GatherOK, InOrder
    <2>3. currGroup' = {j \in ret \ sorted' : j.start = currTime}
      BY <1>1, <1>2, <1>3, <1>5, <2>1 DEF GatherOK
    <2>4. \A j \in ret \ sorted' : j.start = currTime \/ In(j, changes)'
      BY <1>1, <1>2, <1>3, <1>5, <2>1 DEF GatherOK, In
    <2>5. GatherOK'
      BY <1>1, <1>2, <2>1, <2>2, <2>3, <2>4 DEF GatherOK
    <2> QED
      BY <1>1, <2>5 DEF ChangesInv, ChangesAreOrdered
  <1>6. CASE i.start # currTime
    <2>1. /\ changes' = Append(changes, Change(currTime, currGroup))
          /\ currGroup' = {i} /\ currTime' = i.start
      BY <1>2, <1>6
    <2>2. currTime \in Nat /\ currTime < i.start /\ \A j \in sorted : currTime # j.start
      BY <1>1, <1>3, <1>4, <1>6 DEF GatherOK
    <2>3. InOrder(changes', i.start) /\ \A j \in ret \ sorted : In(j, changes')
      BY <1>1, <1>3, <1>4, <2>1, <2>2, AppendChange
    <2>4. \A j \in ret \ sorted : j.start < i.start
      <3> TAKE j \in ret \ sorted
      <3>1. PICK k \in 1..Len(changes') : j \in changes'[k].intervals
        BY <2>3 DEF In
      <3>2. j.start = changes'[k].timestamp /\ changes'[k].timestamp < i.start
        BY <2>3, <3>1 DEF InOrder
      <3> QED
        BY <3>2
    <2>5. currGroup' = {j \in ret \ sorted' : j.start = i.start}
      BY <1>2, <1>3, <1>4, <2>1, <2>4
    <2>6. InOrder(changes, currTime)' /\ \A j \in ret \ sorted : In(j, changes)'
      BY <1>1, <2>1, <2>3 DEF InOrder, In
    <2>7. GatherOK'
      BY <1>1, <1>2, <1>3, <1>4, <2>1, <2>5, <2>6 DEF GatherOK
    <2> QED
      BY <1>1, <2>7 DEF ChangesInv, ChangesAreOrdered
  <1> QED
    BY <1>5, <1>6

LEMMA SaveChanges ==
    ASSUME Inv, ChangesInv, SaveLastGroup
    PROVE  ChangesInv'
  <1>1. GatherOK /\ pc' = "done" /\ ret' = ret /\ sorted = {}
    BY DEF SaveLastGroup, ChangesInv, scanVars
  <1>2. changes' = Append(changes, Change(currTime, currGroup))
    BY DEF SaveLastGroup, SavedLast
  <1>3. currTime \in Nat /\ currTime + 1 \in Nat /\ currTime < currTime + 1
    BY <1>1 DEF GatherOK
  <1>4. InOrder(changes', currTime + 1) /\ \A j \in ret \ sorted : In(j, changes')
    BY <1>1, <1>2, <1>3, AppendChange
  <1>5. ChangesAreOrdered'
    BY <1>1, <1>4 DEF ChangesAreOrdered, InOrder, In
  <1> QED
    BY <1>1, <1>5 DEF ChangesInv

\* The changes come in order of time, each with the intervals that start then,
\* and no interval is left out.
THEOREM ChangesCorrect == Spec => []ChangesAreOrdered
  <1>1. Init => Inv /\ ChangesInv
    BY DEF Init, Inv, ChangesInv, ChangesAreOrdered
  <1>2. Inv /\ [Next]_vars => Inv'
    BY NextSeriesInv, NextSampleInv, EndSeriesInv, GatherInv DEF Next, Done
  <1>3. Inv /\ ChangesInv /\ [Next]_vars => ChangesInv'
    <2> SUFFICES ASSUME Inv, ChangesInv, [Next]_vars
                 PROVE  ChangesInv'
      OBVIOUS
    <2>1. CASE NextSeries \/ NextSample \/ EndSeries
      BY <2>1 DEF NextSeries, NextSample, EndSeries, gatherVars, ChangesInv, ChangesAreOrdered
    <2>2. CASE UNCHANGED vars
      BY <2>2 DEF vars, scanVars, gatherVars, ChangesInv, ChangesAreOrdered, GatherOK, InOrder, In
    <2> QED
      BY <2>1, <2>2, SortChanges, GatherChanges, SaveChanges DEF Next, Done
  <1>4. ChangesInv => ChangesAreOrdered
    BY DEF ChangesInv
  <1> QED
    BY <1>1, <1>2, <1>3, <1>4, PTL DEF Spec
=============================================================================
