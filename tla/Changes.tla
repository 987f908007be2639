------------------------------ MODULE Changes ------------------------------
(***************************************************************************)
(* MetricsIntervals and MetricsChanges (pkg/processor/incidents.go): a     *)
(* range vector is cut into intervals, one for each run of samples with no *)
(* gap above the query step, and the intervals are gathered by their start *)
(* time, in order.  Both the alert history and the previous incidents go   *)
(* through them at start-up.                                               *)
(*                                                                         *)
(* The two loops are written as they run, a sample and an interval at a    *)
(* time.  A series is the set of the times of its samples, which           *)
(* Prometheus returns in increasing order.                                 *)
(***************************************************************************)
EXTENDS Integers, Sequences, FiniteSets

CONSTANTS
    Series,  \* the label sets of the range vector
    Times,   \* the times a sample may have
    Step     \* the step of the query, the same for every series

ASSUME StepAssumption == Step \in Nat \ {0}
ASSUME TimesAssumption == Times \subseteq Nat

VARIABLES
    rv,         \* the range vector: the samples of each series
    left,       \* the series not scanned yet
    metric,     \* the series being scanned
    unread,     \* its samples not yet reached
    start,      \* the start and ...
    end,        \* ... the end of its current interval
    ret,        \* the intervals found
    sorted,     \* the intervals in order, not yet gathered
    currGroup,  \* the intervals gathered that start at ...
    currTime,   \* ... currTime
    changes,    \* the changes so far
    pc          \* "series", "scan", "gather", "done"

scanVars == <<left, metric, unread, start, end, ret>>
gatherVars == <<sorted, currGroup, currTime, changes>>
vars == <<rv, scanVars, gatherVars, pc>>

Interval(m, s, e) == [metric |-> m, start |-> s, end |-> e]

First(S) == CHOOSE t \in S : \A u \in S : t <= u

---------------------------------------------------------------------------
(* MetricsIntervals *)

\* The next series of the range vector; one without samples is skipped.
NextSeries ==
    /\ pc = "series"
    /\ \E m \in left :
         /\ left' = left \ {m}
         /\ IF rv[m] = {}
              THEN UNCHANGED <<metric, unread, start, end, pc>>
              ELSE /\ metric' = m
                   /\ start' = First(rv[m])
                   /\ end' = start'
                   /\ unread' = rv[m] \ {start'}
                   /\ pc' = "scan"
    /\ UNCHANGED <<rv, ret, gatherVars>>

\* Mutant of IsGap: the samples of a gapless series are one step apart.
IsGapInclusive(from, to) == to - from >= Step

\* The samples are further apart than the step.
IsGap(from, to) == to - from > Step

NextSample ==
    /\ pc = "scan"
    /\ unread # {}
    /\ LET t == First(unread)
       IN  /\ unread' = unread \ {t}
           /\ end' = t
           /\ IF IsGap(end, t)
                THEN ret' = ret \cup {Interval(metric, start, end)} /\ start' = t
                ELSE UNCHANGED <<ret, start>>
    /\ UNCHANGED <<rv, left, metric, gatherVars, pc>>

\* The last interval of a series
EndSeries ==
    /\ pc = "scan"
    /\ unread = {}
    /\ ret' = ret \cup {Interval(metric, start, end)}
    /\ pc' = "series"
    /\ UNCHANGED <<rv, left, metric, unread, start, end, gatherVars>>

---------------------------------------------------------------------------
(* MetricsChanges *)

\* The intervals are sorted by start; currTime is the first of them.  Without
\* intervals there are no changes.
Sort ==
    /\ pc = "series"
    /\ left = {}
    /\ IF ret = {}
         THEN pc' = "done" /\ UNCHANGED <<sorted, currTime>>
         ELSE /\ sorted' = ret
              /\ currTime' = First({i.start : i \in ret})
              /\ pc' = "gather"
    /\ UNCHANGED <<rv, scanVars, currGroup, changes>>

Change(t, is) == [timestamp |-> t, intervals |-> is]

\* The intervals that may come next: sort.Slice leaves intervals with equal
\* starts in any order.
NextInSort == {i \in sorted : \A j \in sorted : i.start <= j.start}

GatherInterval ==
    /\ pc = "gather"
    /\ \E i \in NextInSort :
         /\ sorted' = sorted \ {i}
         /\ IF i.start = currTime
              THEN /\ currGroup' = currGroup \cup {i}
                   /\ UNCHANGED <<currTime, changes>>
              ELSE /\ changes' = Append(changes, Change(currTime, currGroup))
                   /\ currGroup' = {i}
                   /\ currTime' = i.start
    /\ UNCHANGED <<rv, scanVars, pc>>

\* Mutant of SavedLast: the last group is not saved.
SavedLastDropped == changes

\* The changes with the last group saved
SavedLast == Append(changes, Change(currTime, currGroup))

SaveLastGroup ==
    /\ pc = "gather"
    /\ sorted = {}
    /\ changes' = SavedLast
    /\ pc' = "done"
    /\ UNCHANGED <<rv, scanVars, sorted, currGroup, currTime>>

Done == pc = "done" /\ UNCHANGED vars

---------------------------------------------------------------------------
Init ==
    /\ rv \in [Series -> SUBSET Times]
    /\ left = Series
    /\ metric \in Series
    /\ unread = {} /\ start = 0 /\ end = 0 /\ ret = {}
    /\ sorted = {} /\ currGroup = {} /\ currTime = 0 /\ changes = <<>>
    /\ pc = "series"

Next ==
    \/ NextSeries
    \/ NextSample
    \/ EndSeries
    \/ Sort
    \/ GatherInterval
    \/ SaveLastGroup
    \/ Done

Spec == Init /\ [][Next]_vars

---------------------------------------------------------------------------
(* What the two functions promise *)

Intervals == [metric : Series, start : Times, end : Times]

Samples(i) == {t \in rv[i.metric] : i.start <= t /\ t <= i.end}

\* Consecutive samples of a set are at most a step apart.
Gapless(S) ==
    \A t \in S : (\E u \in S : t < u) => \E u \in S : t < u /\ u - t <= Step

\* An interval is a maximal run: it starts and ends with a sample, has no gap,
\* and no other sample of its series comes within a step of it.
IsRun(i) ==
    /\ {i.start, i.end} \subseteq Samples(i)
    /\ Gapless(Samples(i))
    /\ \A t \in rv[i.metric] \ Samples(i) :
          t < i.start - Step \/ t > i.end + Step

\* Once the series are scanned, every interval is a maximal run of samples and
\* every sample lies in an interval: no gap above the step is bridged, nothing
\* is cut short, and no run is lost.
IntervalsAreRuns ==
    pc \in {"gather", "done"} =>
        /\ \A i \in ret : IsRun(i)
        /\ \A m \in Series : \A t \in rv[m] :
              \E i \in ret : i.metric = m /\ t \in Samples(i)

\* The changes come in order of time, each holds the intervals that start
\* then, and every interval is in one.
ChangesAreOrdered ==
    pc = "done" =>
        /\ \A j, k \in 1..Len(changes) :
              j < k => changes[j].timestamp < changes[k].timestamp
        /\ \A k \in 1..Len(changes) :
              changes[k].intervals = {i \in ret : i.start = changes[k].timestamp}
        /\ \A i \in ret : \E k \in 1..Len(changes) : i \in changes[k].intervals
=============================================================================
