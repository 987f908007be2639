------------------------- MODULE AlertMatcherProofs -------------------------
(***************************************************************************)
(* What evaluateAlerts finds, for any alerts and any lists of selectors,   *)
(* whichever label comes first and whatever starts or ends between the     *)
(* calls.                                                                  *)
(***************************************************************************)
EXTENDS AlertMatcher, TLAPS

\* Alert a has one of the values selector s asks for under label k.
Has(a, s, k) == k \in DOMAIN a /\ a[k] \in Elems(s[k])

\* The alerts there were and are
AlertsInv ==
    /\ ever \subseteq Alerts
    /\ active \subseteq Alerts
    /\ pc # "idle" => throughout \subseteq active /\ active \subseteq ever

\* An evaluation is at one of its selectors, or through.
PositionInv ==
    /\ pc \in {"idle", "key", "query", "done", "failed"}
    /\ pc \in {"key", "query", "done"} =>
          selectors \in Selectors /\ current \in 1..(Len(selectors) + 1)
    /\ pc \in {"key", "query"} => current <= Len(selectors)
    /\ pc = "done" => current = Len(selectors) + 1

\* What the selectors before have found
CleanedInv ==
    pc \in {"key", "query", "done"} =>
        /\ \A c \in cleaned :
              c.alert \in ever /\ \E i \in DOMAIN selectors : Selects(selectors[i], c.alert)
        /\ \A i \in 1..(current - 1), a \in throughout :
              Selects(selectors[i], a) => \E c \in cleaned : c.alert = a

\* Between two labels, matching holds the alerts that have the labels looked
\* at; until one has been looked at it is empty, and from then on never.
KeyInv ==
    pc = "key" =>
        /\ keys \subseteq DOMAIN Selector
        /\ matching \subseteq ever
        /\ \A a \in matching, k \in DOMAIN Selector \ keys : Has(a, Selector, k)
        /\ matching = {} <=> keys = DOMAIN Selector
        /\ keys # DOMAIN Selector =>
              \A a \in throughout : Selects(Selector, a) => a \in matching

\* While the first label is queried, matching holds the alerts with one of the
\* values asked for so far.
QueryInv ==
    pc = "query" =>
        /\ key \in DOMAIN Selector
        /\ keys = DOMAIN Selector \ {key}
        /\ values \in Seq(STRING)
        /\ Elems(values) \subseteq Elems(Selector[key])
        /\ matching \subseteq ever
        /\ \A a \in matching : Has(a, Selector, key)
        /\ \A a \in throughout :
              Has(a, Selector, key) => a \in matching \/ a[key] \in Elems(values)
        /\ matchFound <=> matching # {}

Inv == AlertsInv /\ PositionInv /\ CleanedInv /\ KeyInv /\ QueryInv

---------------------------------------------------------------------------
\* The elements of a sequence are its head and those of its tail.
LEMMA ElemsOfTail ==
    ASSUME NEW S, NEW seq \in Seq(S), seq # <<>>
    PROVE  /\ Head(seq) \in Elems(seq)
           /\ Tail(seq) \in Seq(S)
           /\ Elems(seq) = {Head(seq)} \cup Elems(Tail(seq))
  <1>1. Len(seq) \in Nat \ {0} /\ DOMAIN seq = 1..Len(seq) /\ Head(seq) = seq[1]
    OBVIOUS
  <1>2. /\ Tail(seq) \in Seq(S)
        /\ DOMAIN Tail(seq) = 1..(Len(seq) - 1)
        /\ \A i \in 1..(Len(seq) - 1) : Tail(seq)[i] = seq[i + 1]
    BY <1>1
  <1>3. ASSUME NEW i \in DOMAIN seq
        PROVE  seq[i] = Head(seq) \/ seq[i] \in Elems(Tail(seq))
    <2>1. CASE i = 1
      BY <1>1, <2>1
    <2>2. CASE i # 1
      <3>1. i - 1 \in 1..(Len(seq) - 1) /\ seq[i] = Tail(seq)[i - 1]
        BY <1>1, <1>2, <2>2
      <3> QED
        BY <1>2, <3>1 DEF Elems
    <2> QED
      BY <2>1, <2>2
  <1>4. ASSUME NEW i \in DOMAIN Tail(seq)
        PROVE  Tail(seq)[i] \in Elems(seq)
    <2>1. i + 1 \in DOMAIN seq /\ Tail(seq)[i] = seq[i + 1]
      BY <1>1, <1>2, <1>4
    <2> QED
      BY <2>1 DEF Elems
  <1>5. Head(seq) \in Elems(seq)
    BY <1>1 DEF Elems
  <1>6. Elems(Tail(seq)) \subseteq Elems(seq)
    BY <1>4 DEF Elems
  <1>7. Elems(seq) \subseteq {Head(seq)} \cup Elems(Tail(seq))
    BY <1>3 DEF Elems
  <1> QED
    BY <1>2, <1>5, <1>6, <1>7

\* What is assumed of a list of selectors
LEMMA SelectorLists ==
    ASSUME NEW list \in Selectors
    PROVE  /\ Len(list) \in Nat
           /\ DOMAIN list = 1..Len(list)
           /\ \A i \in 1..Len(list) : DOMAIN list[i] # {}
           /\ \A i \in 1..Len(list) : \A k \in DOMAIN list[i] :
                 list[i][k] \in Seq(STRING) /\ "" \notin Elems(list[i][k])
  BY SelectorsAssumption

\* The selector of an evaluation that is not through
LEMMA SelectorOfList ==
    ASSUME PositionInv, pc \in {"key", "query"}
    PROVE  /\ selectors \in Selectors
           /\ Len(selectors) \in Nat
           /\ current \in 1..Len(selectors)
           /\ DOMAIN Selector # {}
           /\ \A k \in DOMAIN Selector :
                 Selector[k] \in Seq(STRING) /\ "" \notin Elems(Selector[k])
  <1>1. selectors \in Selectors /\ current \in 1..(Len(selectors) + 1) /\ current <= Len(selectors)
    BY DEF PositionInv
  <1>2. Len(selectors) \in Nat
    BY <1>1, SelectorLists
  <1>3. current \in 1..Len(selectors)
    BY <1>1, <1>2
  <1> QED
    BY <1>1, <1>2, <1>3, SelectorLists DEF Selector

\* Where the next selector begins, the invariant holds if what the selectors
\* up to now should have found has been found.
LEMMA BeginInv ==
    ASSUME NEW list \in Selectors, NEW n \in 1..(Len(list) + 1),
           selectors' = list, Begin(list, n),
           AlertsInv', throughout' \subseteq active', active' \subseteq ever',
           \A c \in cleaned' :
              c.alert \in ever' /\ \E i \in DOMAIN list : Selects(list[i], c.alert),
           \A i \in 1..(n - 1), a \in throughout' :
              Selects(list[i], a) => \E c \in cleaned' : c.alert = a
    PROVE  Inv'
  <1>1. Len(list) \in Nat /\ DOMAIN list = 1..Len(list)
    BY SelectorLists
  <1>2. current' = n /\ matching' = {}
    BY DEF Begin
  <1>3. CASE n > Len(list)
    <2>1. pc' = "done"
      BY <1>3 DEF Begin
    <2>2. n = Len(list) + 1
      BY <1>1, <1>3
    <2> QED
      BY <1>1, <1>2, <2>1, <2>2 DEF Inv, PositionInv, CleanedInv, KeyInv, QueryInv
  <1>4. CASE n <= Len(list)
    <2>1. pc' = "key" /\ keys' = DOMAIN list[n]
      <3>1. ~(n > Len(list))
        BY <1>1, <1>4
      <3> QED
        BY <3>1 DEF Begin
    <2>2. Selector' = list[n]
      BY <1>2 DEF Selector
    <2>3. PositionInv' /\ CleanedInv' /\ QueryInv'
      BY <1>1, <1>2, <1>4, <2>1 DEF PositionInv, CleanedInv, QueryInv
    <2>4. KeyInv'
      BY <1>2, <2>1, <2>2 DEF KeyInv
    <2> QED
      BY <2>3, <2>4 DEF Inv
  <1> QED
    BY <1>1, <1>3, <1>4

\* A selector that has matched nothing is left behind: it selects no alert
\* that has been active all along.
LEMMA NoMatchInv ==
    ASSUME Inv, pc \in {"key", "query"}, NoMatch,
           UNCHANGED <<active, throughout, ever, selectors>>,
           \A a \in throughout : ~Selects(Selector, a)
    PROVE  Inv'
  <1>1. /\ selectors \in Selectors /\ current \in 1..Len(selectors)
        /\ Len(selectors) \in Nat
    BY SelectorOfList DEF Inv
  <1>2. Begin(selectors, current + 1) /\ cleaned' = cleaned
    BY DEF NoMatch, BeginNext
  <1>3. /\ AlertsInv' /\ throughout' \subseteq active' /\ active' \subseteq ever'
    BY DEF Inv, AlertsInv
  <1>4. \A c \in cleaned' :
            c.alert \in ever' /\ \E i \in DOMAIN selectors : Selects(selectors[i], c.alert)
    BY <1>2 DEF Inv, CleanedInv
  <1>5. ASSUME NEW i \in 1..((current + 1) - 1), NEW a \in throughout', Selects(selectors[i], a)
        PROVE  \E c \in cleaned' : c.alert = a
    <2>1. i # current
      BY <1>5 DEF Selector
    <2>2. i \in 1..(current - 1)
      BY <1>1, <2>1
    <2> QED
      BY <1>2, <1>5, <2>2 DEF Inv, CleanedInv
  <1> DEFINE n == current + 1
  <1>6. n \in 1..(Len(selectors) + 1)
    BY <1>1
  <1>7. Begin(selectors, n) /\ \A i \in 1..(n - 1), a \in throughout' :
            Selects(selectors[i], a) => \E c \in cleaned' : c.alert = a
    BY <1>2, <1>5
  <1>8. selectors' = selectors
    OBVIOUS
  <1> HIDE DEF n
  <1> QED
    BY <1>1, <1>3, <1>4, <1>6, <1>7, <1>8, BeginInv

---------------------------------------------------------------------------
\* Alerts that start or end leave the invariant alone: throughout only
\* shrinks, ever only grows.
LEMMA AlertsChangeInv ==
    ASSUME Inv, AlertsChange
    PROVE  Inv'
  <1>1. /\ throughout' \subseteq throughout /\ throughout' \subseteq active'
        /\ ever \subseteq ever' /\ active' \subseteq ever'
        /\ active' \subseteq Alerts /\ ever' \subseteq Alerts
        /\ UNCHANGED <<selectors, current, keys, key, values, matchFound, matching, cleaned, pc>>
    BY DEF AlertsChange, queryVars, Inv, AlertsInv
  <1>2. Selector' = Selector
    BY <1>1 DEF Selector
  <1>3. AlertsInv' /\ PositionInv'
    BY <1>1 DEF Inv, AlertsInv, PositionInv
  <1>4. CleanedInv'
    BY <1>1 DEF Inv, CleanedInv
  <1>5. KeyInv'
    BY <1>1, <1>2 DEF Inv, KeyInv
  <1>6. QueryInv'
    BY <1>1, <1>2 DEF Inv, QueryInv
  <1> QED
    BY <1>3, <1>4, <1>5, <1>6 DEF Inv

\* A new evaluation
LEMMA EvaluateAlertsInv ==
    ASSUME Inv, EvaluateAlerts
    PROVE  Inv'
  <1>1. /\ selectors' \in Selectors /\ Begin(selectors', 1) /\ cleaned' = {}
        /\ throughout' = active /\ ever' = active /\ active' = active
    BY DEF EvaluateAlerts
  <1>2. AlertsInv'
    BY <1>1 DEF Inv, AlertsInv
  <1>3. Len(selectors') \in Nat
    BY <1>1, SelectorLists
  <1> DEFINE list == selectors'
  <1>4. /\ list \in Selectors /\ 1 \in 1..(Len(list) + 1) /\ Begin(list, 1)
        /\ selectors' = list /\ 1..(1 - 1) = {}
    BY <1>1, <1>3
  <1> HIDE DEF list
  <1> QED
    BY <1>1, <1>2, <1>4, BeginInv

\* The end of a selector: all its labels have been looked at.
LEMMA EndSelectorInv ==
    ASSUME Inv, EndSelector
    PROVE  Inv'
  <1>1. /\ pc = "key" /\ keys = {} /\ Begin(selectors, current + 1)
        /\ cleaned' = cleaned \cup {Clean(a) : a \in matching}
        /\ UNCHANGED <<active, throughout, ever, selectors>>
    BY DEF EndSelector, BeginNext
  <1>2. /\ selectors \in Selectors /\ current \in 1..Len(selectors)
        /\ Len(selectors) \in Nat /\ DOMAIN selectors = 1..Len(selectors)
        /\ DOMAIN Selector # {}
    BY <1>1, SelectorOfList, SelectorLists DEF Inv
  <1>3. AlertsInv' /\ throughout' \subseteq active' /\ active' \subseteq ever'
    BY <1>1 DEF Inv, AlertsInv
  <1>4. \A a : Clean(a).alert = a
    BY DEF Clean
  <1>5. \A a \in matching : a \in ever /\ Selects(selectors[current], a)
    BY <1>1 DEF Inv, KeyInv, Has, Selects, Selector
  <1>6. ASSUME NEW c \in cleaned'
        PROVE  c.alert \in ever' /\ \E i \in DOMAIN selectors : Selects(selectors[i], c.alert)
    <2>1. CASE c \in cleaned
      BY <1>1, <2>1 DEF Inv, CleanedInv
    <2>2. ASSUME NEW a \in matching, c = Clean(a)
          PROVE  c.alert \in ever' /\ \E i \in DOMAIN selectors : Selects(selectors[i], c.alert)
      BY <1>1, <1>2, <1>4, <1>5, <2>2
    <2> QED
      BY <1>1, <2>1, <2>2
  <1>7. ASSUME NEW i \in 1..((current + 1) - 1), NEW a \in throughout', Selects(selectors[i], a)
        PROVE  \E c \in cleaned' : c.alert = a
    <2>1. CASE i = current
      <3>1. a \in matching
        BY <1>1, <1>2, <1>7, <2>1 DEF Inv, KeyInv, Selector
      <3> QED
        BY <1>1, <1>4, <3>1
    <2>2. CASE i # current
      <3>1. i \in 1..(current - 1)
        BY <1>2, <2>2
      <3> QED
        BY <1>1, <1>7, <3>1 DEF Inv, CleanedInv
    <2> QED
      BY <2>1, <2>2
  <1> DEFINE n == current + 1
  <1>8. n \in 1..(Len(selectors) + 1)
    BY <1>2
  <1>9. Begin(selectors, n) /\ \A i \in 1..(n - 1), a \in throughout' :
            Selects(selectors[i], a) => \E c \in cleaned' : c.alert = a
    BY <1>1, <1>7
  <1>10. selectors' = selectors
    BY <1>1
  <1> HIDE DEF n
  <1> QED
    BY <1>2, <1>3, <1>6, <1>8, <1>9, <1>10, BeginInv

\* The first label, whichever it is
LEMMA FirstKeyInv ==
    ASSUME Inv, FirstKey
    PROVE  Inv'
  <1>1. PICK k \in keys : keys' = keys \ {k} /\ key' = k /\ values' = Selector[k]
    BY DEF FirstKey
  <1>2. /\ pc = "key" /\ pc' = "query" /\ matching = {} /\ matching' = {}
        /\ matchFound' = FALSE
        /\ UNCHANGED <<active, throughout, ever, selectors, current, cleaned>>
    BY DEF FirstKey
  <1>3. keys = DOMAIN Selector /\ Selector' = Selector
    BY <1>2 DEF Inv, KeyInv, Selector
  <1>4. values' \in Seq(STRING)
    BY <1>1, <1>2, <1>3, SelectorOfList DEF Inv
  <1>5. AlertsInv' /\ PositionInv' /\ CleanedInv' /\ KeyInv'
    BY <1>2 DEF Inv, AlertsInv, PositionInv, CleanedInv, KeyInv
  <1>6. QueryInv'
    BY <1>1, <1>2, <1>3, <1>4 DEF QueryInv, Has
  <1> QED
    BY <1>5, <1>6 DEF Inv

\* Another label: the alerts without it go, or with the last of them the
\* selector.
LEMMA FilterKeyInv ==
    ASSUME Inv, FilterKey
    PROVE  Inv'
  <1> DEFINE filtered(k) == {a \in matching : k \in DOMAIN a /\ a[k] \in Accepted(k)}
  <1>1. PICK k \in keys :
          \/ filtered(k) = {} /\ NoMatch
          \/ /\ filtered(k) # {} /\ matching' = filtered(k) /\ keys' = keys \ {k}
             /\ UNCHANGED <<current, key, values, matchFound, cleaned, pc>>
    BY DEF FilterKey
  <1>2. /\ pc = "key" /\ matching # {}
        /\ UNCHANGED <<active, throughout, ever, selectors>>
    BY DEF FilterKey
  <1>3. k \in DOMAIN Selector /\ keys # DOMAIN Selector
    BY <1>2 DEF Inv, KeyInv
  <1>4. \A a \in throughout : Selects(Selector, a) => a \in filtered(k)
    BY <1>2, <1>3 DEF Inv, KeyInv, Selects, Accepted
  <1>5. CASE filtered(k) = {} /\ NoMatch
    <2>1. \A a \in throughout : ~Selects(Selector, a)
      BY <1>4, <1>5
    <2> QED
      BY <1>2, <1>5, <2>1, NoMatchInv
  <1>6. CASE /\ filtered(k) # {} /\ matching' = filtered(k) /\ keys' = keys \ {k}
             /\ UNCHANGED <<current, key, values, matchFound, cleaned, pc>>
    <2>1. Selector' = Selector
      BY <1>2, <1>6 DEF Selector
    <2>2. AlertsInv' /\ PositionInv' /\ CleanedInv' /\ QueryInv'
      BY <1>2, <1>6 DEF Inv, AlertsInv, PositionInv, CleanedInv, QueryInv
    <2>3. \A a \in matching', j \in DOMAIN Selector \ keys' : Has(a, Selector, j)
      BY <1>2, <1>6 DEF Inv, KeyInv, Has, Accepted
    <2>4. matching' # {} /\ matching' \subseteq ever' /\ keys' \subseteq DOMAIN Selector /\ keys' # DOMAIN Selector
      BY <1>2, <1>3, <1>6 DEF Inv, KeyInv
    <2>5. \A a \in throughout' : Selects(Selector, a) => a \in matching'
      BY <1>2, <1>4, <1>6
    <2>6. KeyInv'
      <3>1. \A a : Selects(Selector, a)' = Selects(Selector, a)
        BY <2>1 DEF Selects
      <3> QED
        BY <2>1, <2>3, <2>4, <2>5, <3>1 DEF KeyInv
    <2> QED
      BY <2>2, <2>6 DEF Inv
  <1> QED
    BY <1>1, <1>5, <1>6

\* One answer of Alertmanager
LEMMA QueryValueInv ==
    ASSUME Inv, QueryValue
    PROVE  Inv'
  <1> DEFINE v == Head(values)
             found == {a \in active : Label(a, key) = v}
  <1>1. /\ pc = "query" /\ values # <<>> /\ values' = Tail(values)
        /\ matching' = matching \cup found
        /\ matchFound' = (matchFound \/ found # {})
        /\ UNCHANGED <<active, throughout, ever, selectors, current, keys, key, cleaned, pc>>
    BY DEF QueryValue
  <1>2. Selector' = Selector
    BY <1>1 DEF Selector
  <1>3. /\ v \in Elems(values) /\ Tail(values) \in Seq(STRING)
        /\ Elems(values) = {v} \cup Elems(Tail(values))
        /\ Elems(values) \subseteq Elems(Selector[key])
    BY <1>1, ElemsOfTail DEF Inv, QueryInv
  <1>4. v # ""
    <2>1. "" \notin Elems(Selector[key])
      BY <1>1, SelectorOfList DEF Inv, QueryInv
    <2> QED
      BY <1>3, <2>1
  <1>5. \A a \in found : key \in DOMAIN a /\ a[key] = v
    BY <1>4 DEF Label
  <1>6. \A a \in active : key \in DOMAIN a /\ a[key] = v => a \in found
    BY DEF Label
  <1> HIDE DEF found, v
  <1>7. AlertsInv' /\ PositionInv' /\ CleanedInv' /\ KeyInv'
    BY <1>1 DEF Inv, AlertsInv, PositionInv, CleanedInv, KeyInv
  <1>8. found \subseteq ever /\ throughout \subseteq active
    BY <1>1 DEF Inv, AlertsInv, found
  <1>9. \A a \in matching' : Has(a, Selector, key)
    BY <1>1, <1>3, <1>5 DEF Inv, QueryInv, Has
  <1>10. ASSUME NEW a \in throughout, Has(a, Selector, key)
         PROVE  a \in matching' \/ a[key] \in Elems(values')
    BY <1>1, <1>3, <1>6, <1>8, <1>10 DEF Inv, QueryInv, Has
  <1>11. \A a, s, k : Has(a, s, k)' = Has(a, s, k)
    OBVIOUS
  <1>12. QueryInv'
    <2>1. /\ key' \in DOMAIN Selector' /\ keys' = DOMAIN Selector' \ {key'}
          /\ values' \in Seq(STRING) /\ Elems(values') \subseteq Elems(Selector'[key'])
          /\ matching' \subseteq ever'
      BY <1>1, <1>2, <1>3, <1>8 DEF Inv, QueryInv
    <2>2. matchFound' <=> matching' # {}
      BY <1>1 DEF Inv, QueryInv
    <2>3. \A a \in matching' : Has(a, Selector', key')
      BY <1>1, <1>2, <1>9
    <2>4. \A a \in throughout' :
              Has(a, Selector', key') => a \in matching' \/ a[key'] \in Elems(values')
      BY <1>1, <1>2, <1>10
    <2> QED
      BY <2>1, <2>2, <2>3, <2>4 DEF QueryInv
  <1> QED
    BY <1>7, <1>12 DEF Inv

\* The last answer has come: some alert has the label, or the selector is
\* left behind.
LEMMA EndQueryInv ==
    ASSUME Inv, EndQuery
    PROVE  Inv'
  <1>1. /\ pc = "query" /\ values = <<>>
        /\ UNCHANGED <<active, throughout, ever, selectors>>
    BY DEF EndQuery
  <1>2. Elems(values) = {}
    BY <1>1 DEF Elems
  <1>3. \A a \in throughout : Selects(Selector, a) => a \in matching
    BY <1>1, <1>2 DEF Inv, QueryInv, Selects, Has
  <1>4. CASE matchFound
    <2>1. /\ pc' = "key"
          /\ UNCHANGED <<current, keys, key, values, matchFound, matching, cleaned>>
      BY <1>4 DEF EndQuery, queryVars
    <2>2. Selector' = Selector
      BY <1>1, <2>1 DEF Selector
    <2>3. AlertsInv' /\ PositionInv' /\ CleanedInv' /\ QueryInv'
      BY <1>1, <2>1 DEF Inv, AlertsInv, PositionInv, CleanedInv, QueryInv
    <2>4. /\ keys # DOMAIN Selector /\ keys \subseteq DOMAIN Selector
          /\ matching # {} /\ matching \subseteq ever
          /\ \A a \in matching, k \in DOMAIN Selector \ keys : Has(a, Selector, k)
      BY <1>1, <1>4 DEF Inv, QueryInv
    <2>5. KeyInv'
      BY <1>1, <1>3, <2>1, <2>2, <2>4 DEF KeyInv
    <2> QED
      BY <2>3, <2>5 DEF Inv
  <1>5. CASE ~matchFound
    <2>1. NoMatch
      BY <1>5 DEF EndQuery
    <2>2. \A a \in throughout : ~Selects(Selector, a)
      BY <1>1, <1>3, <1>5 DEF Inv, QueryInv
    <2> QED
      BY <1>1, <2>1, <2>2, NoMatchInv
  <1> QED
    BY <1>4, <1>5

---------------------------------------------------------------------------
\* Whatever label comes first and whatever starts or ends between the calls,
\* an alert that is active all along and that a selector means is found, and
\* what is found is meant by a selector and was active at some time.
THEOREM FindsSelectedCorrect == Spec => []FindsSelected
  <1>1. Init => Inv
    BY DEF Init, Inv, AlertsInv, PositionInv, CleanedInv, KeyInv, QueryInv
  <1>2. Inv /\ [Next]_vars => Inv'
    <2> SUFFICES ASSUME Inv, [Next]_vars
                 PROVE  Inv'
      OBVIOUS
    <2>1. CASE QueryError
      BY <2>1 DEF QueryError, queryVars, Inv, AlertsInv, PositionInv, CleanedInv, KeyInv, QueryInv
    <2>2. CASE UNCHANGED vars
      <3>1. Selector' = Selector
        BY <2>2 DEF vars, Selector
      <3> QED
        BY <2>2, <3>1 DEF vars, queryVars, Inv, AlertsInv, PositionInv, CleanedInv, KeyInv, QueryInv
    <2> QED
      BY <2>1, <2>2, AlertsChangeInv, EvaluateAlertsInv, EndSelectorInv, FirstKeyInv,
         FilterKeyInv, QueryValueInv, EndQueryInv DEF Next, Return
  <1>3. Inv => FindsSelected
    <2> SUFFICES ASSUME Inv, pc = "done"
                 PROVE  FindsSelected
      BY DEF FindsSelected
    <2>1. selectors \in Selectors /\ current = Len(selectors) + 1
      BY DEF Inv, PositionInv
    <2>2. Len(selectors) \in Nat /\ DOMAIN selectors = 1..Len(selectors)
      BY <2>1, SelectorLists
    <2>3. current - 1 = Len(selectors)
      BY <2>1, <2>2
    <2>4. DOMAIN selectors = 1..(current - 1)
      BY <2>2, <2>3
    <2> QED
      BY <2>4 DEF FindsSelected, Inv, CleanedInv, AlertsInv
  <1> QED
    BY <1>1, <1>2, <1>3, PTL DEF Spec
=============================================================================
