------------------------ MODULE ComponentHealthProofs ------------------------
(***************************************************************************)
(* What the exported tree says, for any configuration of components, any   *)
(* cluster operators and any changes and outages while it is evaluated:    *)
(* problems reach the top, an object has one status, and every operator is *)
(* watched.                                                                *)
(***************************************************************************)
EXTENDS ComponentHealth, SequenceTheorems, TLAPS

Query == [name : STRING, matches : SUBSET Objects]

Finding == [object : Objects \cup STRING, status : Statuses, answered : BOOLEAN]

\* The tree is closed under ancestors.
Closed(S) ==
    \A c \in S : /\ c \in Seq(STRING) /\ c # <<>>
                 /\ \A k \in 1..Len(c) : SubSeq(c, 1, k) \in S

\* No problem known of a leaf below c is lost, and none of c is made up.
Lower(c) == \A e \in Subtree(c) : Leaf(e) => \A v \in Known(e) : v <= OK \/ v <= status[c]

Upper(c) == status[c] <= OK \/ \E e \in Subtree(c) : \E v \in Known(e) : status[c] <= v

\* Of the answers about an object only the first counts.
OneStatus(F) ==
    /\ \A f, g \in F : f.answered /\ g.answered /\ f.object = g.object => f.status = g.status
    /\ \A f \in F : f.answered \/ f.status = Unknown

\* The query q has been answered or has left its name as unknown.
Answered(q, F) ==
    \/ \A o \in q.matches : \E f \in F : f.object = o
    \/ \E f \in F : f.object = q.name

\* A component that has been evaluated
Evaluated(c) ==
    /\ c \in DOMAIN objects /\ c \in DOMAIN alerts /\ c \in DOMAIN alertsErr /\ c \in DOMAIN status
    /\ objects[c] \subseteq Finding /\ alerts[c] \subseteq OK..Error
    /\ alertsErr[c] \in BOOLEAN /\ status[c] \in Statuses
    /\ OneStatus(objects[c])
    /\ \A i \in DOMAIN queries[c] : Answered(queries[c][i], objects[c])
    /\ Subtree(c) \subseteq done
    /\ Lower(c) /\ Upper(c)

---------------------------------------------------------------------------
WorldInv ==
    /\ alertWorld \in [AlertSources -> AlertValues]
    /\ objectWorld \in [Objects -> Statuses]

TreeInv ==
    /\ pc = "finalize" => done = {} /\ objectMetrics = {}
    /\ pc # "finalize" =>
          /\ Closed(Components)
          /\ \A c \in Components : queries[c] \in Seq(Query)
          /\ ControlPlaneOperators \in Configured =>
                \A n \in Operators :
                   /\ OperatorComponent(n) \in Components
                   /\ \E i \in DOMAIN queries[OperatorComponent(n)] :
                         queries[OperatorComponent(n)][i] = OperatorObject(n)

\* Every component evaluated has its results.
DoneInv == done \subseteq Components /\ \A c \in done : Evaluated(c)

\* The queries of the component at hand are answered but for those to do.
AtInv ==
    pc = "objects" =>
        /\ at \in Ready /\ at \in DOMAIN objects
        /\ objects[at] \subseteq Finding /\ OneStatus(objects[at])
        /\ todo \in Seq(Query)
        /\ \A i \in DOMAIN queries[at] :
              \/ \E j \in DOMAIN todo : todo[j] = queries[at][i]
              \/ Answered(queries[at][i], objects[at])

PublishInv ==
    /\ pc \in {"publishAlerts", "publishObjects", "publishComponents", "select"} => done = Components
    /\ pc \in {"publishComponents", "select"} => objectMetrics = ObjectMetrics
    /\ pc = "select" => componentMetrics = ComponentMetrics
    /\ ObjectsOnce

Inv == WorldInv /\ TreeInv /\ DoneInv /\ AtInv /\ PublishInv

---------------------------------------------------------------------------
(* Trees of paths *)

LEMMA PrefixPointwise ==
    ASSUME NEW s \in Seq(STRING), NEW t \in Seq(STRING)
    PROVE  IsPrefix(s, t) <=> Len(s) <= Len(t) /\ \A i \in 1..Len(s) : s[i] = t[i]
  <1>1. Len(s) \in Nat /\ Len(t) \in Nat
    OBVIOUS
  <1>2. CASE Len(s) <= Len(t)
    <2>1. /\ SubSeq(s, 1, Len(s)) \in Seq(STRING) /\ Len(SubSeq(s, 1, Len(s))) = Len(s)
          /\ \A i \in 1..Len(s) : SubSeq(s, 1, Len(s))[i] = s[i]
      BY <1>1
    <2>2. /\ SubSeq(t, 1, Len(s)) \in Seq(STRING) /\ Len(SubSeq(t, 1, Len(s))) = Len(s)
          /\ \A i \in 1..Len(s) : SubSeq(t, 1, Len(s))[i] = t[i]
      BY <1>1, <1>2
    <2> DEFINE u == SubSeq(s, 1, Len(s))
               w == SubSeq(t, 1, Len(s))
    <2> HIDE DEF u, w
    <2>3. (u = w) <=> \A i \in 1..Len(s) : u[i] = w[i]
      BY <1>1, <2>1, <2>2 DEF u, w
    <2>4. (u = w) <=> \A i \in 1..Len(s) : s[i] = t[i]
      BY <2>1, <2>2, <2>3 DEF u, w
    <2> QED
      BY <1>2, <2>4 DEF IsPrefix, u, w
  <1>3. CASE ~ (Len(s) <= Len(t))
    BY <1>3 DEF IsPrefix
  <1> QED
    BY <1>2, <1>3

\* A component is in its own subtree; what is below a child is below its
\* parent, and what is below a component is below one of its children.
LEMMA TreeShape ==
    ASSUME Closed(Components), NEW c \in Components
    PROVE  /\ c \in Subtree(c)
           /\ \A d \in Children(c) : d \in Components /\ Subtree(d) \subseteq Subtree(c)
           /\ \A e \in Subtree(c) : e = c \/ \E d \in Children(c) : e \in Subtree(d)
           /\ c \notin Children(c)
  <1>1. \A d \in Components : d \in Seq(STRING) /\ Len(d) \in Nat /\ Len(d) >= 1
    BY DEF Closed
  <1>2. c \in Subtree(c)
    BY <1>1, PrefixPointwise DEF Subtree
  <1>3. ASSUME NEW d \in Components, Len(d) > 1
        PROVE  /\ Front(d) \in Seq(STRING) /\ Len(Front(d)) = Len(d) - 1
               /\ \A i \in 1..(Len(d) - 1) : Front(d)[i] = d[i]
    BY <1>1, <1>3 DEF Front
  <1>4. ASSUME NEW d \in Children(c)
        PROVE  /\ d \in Components /\ c # d
               /\ \A e \in Subtree(d) : e \in Subtree(c)
    <2>1. /\ d \in Components /\ Len(c) = Len(d) - 1
          /\ \A i \in 1..Len(c) : c[i] = d[i]
      BY <1>3, <1>4 DEF Children
    <2>2. ASSUME NEW e \in Subtree(d)
          PROVE  e \in Subtree(c)
      <3>1. e \in Components /\ Len(d) <= Len(e) /\ \A i \in 1..Len(d) : d[i] = e[i]
        BY <1>1, <2>1, PrefixPointwise DEF Subtree
      <3>2. Len(c) <= Len(e) /\ \A i \in 1..Len(c) : c[i] = e[i]
        BY <1>1, <2>1, <3>1
      <3> QED
        BY <1>1, <3>1, <3>2, PrefixPointwise DEF Subtree
    <2> QED
      BY <1>1, <2>1, <2>2
  <1>5. ASSUME NEW e \in Subtree(c), e # c
        PROVE  \E d \in Children(c) : e \in Subtree(d)
    <2>1. e \in Components /\ Len(c) <= Len(e) /\ \A i \in 1..Len(c) : c[i] = e[i]
      BY <1>1, <1>5, PrefixPointwise DEF Subtree
    <2>2. Len(c) < Len(e)
      <3>1. Len(c) = Len(e) => c = e
        BY <1>1, <2>1
      <3> QED
        BY <1>1, <1>5, <2>1, <3>1
    <2> DEFINE d == SubSeq(e, 1, Len(c) + 1)
    <2>3. /\ d \in Components /\ Len(d) = Len(c) + 1
          /\ \A i \in 1..(Len(c) + 1) : d[i] = e[i]
      <3>1. Len(c) + 1 \in 1..Len(e)
        BY <1>1, <2>1, <2>2
      <3> QED
        BY <1>1, <2>1, <3>1 DEF Closed
    <2> HIDE DEF d
    <2>4. Front(d) = c
      <3>1. /\ Front(d) \in Seq(STRING) /\ Len(Front(d)) = Len(c)
            /\ \A i \in 1..Len(c) : Front(d)[i] = c[i]
        BY <1>1, <1>3, <2>1, <2>3
      <3> QED
        BY <1>1, <3>1
    <2>5. d \in Children(c)
      BY <1>1, <2>3, <2>4 DEF Children
    <2>6. e \in Subtree(d)
      BY <1>1, <2>1, <2>2, <2>3, PrefixPointwise DEF Subtree
    <2> QED
      BY <2>5, <2>6
  <1> QED
    BY <1>2, <1>4, <1>5

LEMMA StatusesAre ==
    /\ OK = 0 /\ Unknown = -1 /\ Error = 2
    /\ Statuses = Unknown..Error /\ OK..Error \subseteq Statuses
    /\ Statuses \subseteq Int /\ Unknown \in Statuses /\ OK \in Statuses
    /\ \A v \in OK..Error : OK <= v /\ v \in Int
    /\ Unknown <= OK
  BY DEF Statuses, OK, Unknown, Error

\* The worst of some statuses is one of them, or OK, and none is worse.
LEMMA WorstIs ==
    ASSUME NEW S \in SUBSET Statuses
    PROVE  /\ Worst(S) \in OK..Error
           /\ \A v \in S : v <= Worst(S)
           /\ Worst(S) = OK \/ Worst(S) \in S
  <1> DEFINE T == {OK} \cup S
  <1>1. \A v \in T : v \in {-1, 0, 1, 2}
    BY DEF Statuses, OK, Unknown, Error
  <1>2. \E x \in T : \A y \in T : x >= y
    <2>1. CASE 2 \in T
      BY <1>1, <2>1
    <2>2. CASE 2 \notin T /\ 1 \in T
      BY <1>1, <2>2
    <2>3. CASE 2 \notin T /\ 1 \notin T
      BY <1>1, <2>3 DEF OK
    <2> QED
      BY <2>1, <2>2, <2>3
  <1> HIDE DEF T
  <1>3. Max(T) \in T /\ \A y \in T : Max(T) >= y
    BY <1>2, Zenon DEF Max
  <1>4. /\ Worst(S) \in T /\ \A y \in T : Worst(S) >= y
    BY <1>3 DEF Worst, T
  <1>5. OK \in T /\ S \subseteq T /\ \A v \in T : v = OK \/ v \in S
    BY DEF T
  <1>6. Worst(S) \in {-1, 0, 1, 2} /\ Worst(S) >= 0
    BY <1>1, <1>4, <1>5 DEF OK
  <1>7. Worst(S) \in OK..Error
    BY <1>6 DEF OK, Error
  <1>8. \A v \in S : v <= Worst(S)
    BY <1>1, <1>4, <1>5, <1>6
  <1> QED
    BY <1>4, <1>5, <1>7, <1>8

---------------------------------------------------------------------------
(* The steps *)

LEMMA InvInit == Init => Inv
  <1> SUFFICES ASSUME Init
               PROVE  Inv
    OBVIOUS
  <1>1. WorldInv
    BY DEF Init, WorldInv
  <1>2. TreeInv /\ DoneInv /\ AtInv
    BY DEF Init, TreeInv, DoneInv, AtInv
  <1>3. PublishInv
    BY DEF Init, PublishInv, ObjectsOnce
  <1> QED
    BY <1>1, <1>2, <1>3 DEF Inv

\* What is evaluated stays so while its results stay.
LEMMA EvaluatedStays ==
    ASSUME DoneInv, UNCHANGED queries, done \subseteq done',
           \A c \in done :
              /\ c \in DOMAIN objects' /\ c \in DOMAIN alerts'
              /\ c \in DOMAIN alertsErr' /\ c \in DOMAIN status'
              /\ objects'[c] = objects[c] /\ alerts'[c] = alerts[c]
              /\ alertsErr'[c] = alertsErr[c] /\ status'[c] = status[c]
    PROVE  \A c \in done : Evaluated(c)'
  <1> SUFFICES ASSUME NEW c \in done
               PROVE  Evaluated(c)'
    OBVIOUS
  <1>1. Evaluated(c)
    BY DEF DoneInv
  <1>2. Subtree(c)' = Subtree(c) /\ \A e : Leaf(e)' = Leaf(e)
    BY DEF Subtree, Leaf, Children, Components
  <1>3. \A e \in Subtree(c) : Known(e)' = Known(e)
    BY <1>1 DEF Evaluated, Known
  <1>4. Lower(c)'
    BY <1>1, <1>2, <1>3 DEF Evaluated, Lower
  <1>5. Upper(c)'
    BY <1>1, <1>2, <1>3 DEF Evaluated, Upper
  <1>6. (Subtree(c) \subseteq done)'
    BY <1>1, <1>2 DEF Evaluated
  <1>7. /\ objects'[c] \subseteq Finding /\ alerts'[c] \subseteq OK..Error
        /\ alertsErr'[c] \in BOOLEAN /\ status'[c] \in Statuses
        /\ OneStatus(objects'[c])
        /\ \A i \in DOMAIN queries'[c] : Answered(queries'[c][i], objects'[c])
    BY <1>1 DEF Evaluated
  <1>8. OneStatus(objects[c])' /\ (\A i \in DOMAIN queries[c] : Answered(queries[c][i], objects[c]))'
    BY <1>7 DEF OneStatus, Answered
  <1> QED
    BY <1>4, <1>5, <1>6, <1>7, <1>8 DEF Evaluated

\* The tree does not change once it is finalized.
LEMMA TreeStays ==
    ASSUME TreeInv, pc # "finalize", pc' # "finalize", UNCHANGED queries
    PROVE  TreeInv'
  <1>1. Closed(Components) <=> Closed(Components)'
    BY DEF Closed, Components
  <1> QED
    BY <1>1 DEF TreeInv, Components

LEMMA MetricsStay ==
    ASSUME UNCHANGED <<queries, objects, status, objectMetrics>>
    PROVE  /\ ObjectMetrics' = ObjectMetrics /\ ComponentMetrics' = ComponentMetrics
           /\ ObjectsOnce' <=> ObjectsOnce
  BY DEF ObjectMetrics, ComponentMetrics, ObjectsOnce, HasChildren, Children, Components

LEMMA WorldStep ==
    ASSUME Inv, AlertsChange \/ ObjectsChange \/ OutageChange \/ Cancel \/ UNCHANGED vars
    PROVE  Inv'
  <1>1. UNCHANGED <<local, metrics, pc>>
    BY DEF AlertsChange, ObjectsChange, OutageChange, Cancel, vars
  <1>2. WorldInv'
    <2>1. CASE AlertsChange
      BY <2>1 DEF Inv, WorldInv, AlertsChange
    <2>2. CASE ObjectsChange
      <3>1. PICK o \in Objects : \E v \in ObjectValues[o] : objectWorld' = [objectWorld EXCEPT ![o] = v]
        BY <2>2 DEF ObjectsChange
      <3>2. alertWorld' = alertWorld /\ ObjectValues[o] \subseteq Statuses
        BY <2>2, TreeAssumption DEF ObjectsChange
      <3> QED
        BY <3>1, <3>2 DEF Inv, WorldInv
    <2>3. CASE UNCHANGED <<alertWorld, objectWorld>>
      BY <2>3 DEF Inv, WorldInv
    <2> QED
      BY <2>1, <2>2, <2>3 DEF OutageChange, Cancel, vars, world
  <1>3. TreeInv'
    <2>1. CASE pc = "finalize"
      BY <1>1, <2>1 DEF Inv, TreeInv, local, metrics
    <2>2. CASE pc # "finalize"
      BY <1>1, <2>2, TreeStays DEF Inv, local
    <2> QED
      BY <2>1, <2>2
  <1>4. DoneInv'
    <2>1. \A c \in done : Evaluated(c)'
      BY <1>1, EvaluatedStays DEF Inv, DoneInv, Evaluated, local, found
    <2> QED
      BY <1>1, <2>1 DEF Inv, DoneInv, Components, local
  <1>5. AtInv'
    BY <1>1 DEF Inv, AtInv, OneStatus, Answered, Ready, Components, Children, local, found
  <1>6. PublishInv'
    BY <1>1, MetricsStay DEF Inv, PublishInv, Components, local, found, metrics
  <1> QED
    BY <1>2, <1>3, <1>4, <1>5, <1>6 DEF Inv

\* With the operators the tree is still one, and each has its object.
LEMMA FinalizeStep ==
    ASSUME Inv, FinalizeComponentTree
    PROVE  Inv'
  <1> DEFINE added == IF ControlPlaneOperators \in Configured
                        THEN {OperatorComponent(n) : n \in Operators} ELSE {}
  <1>1. /\ pc = "finalize" /\ pc' = "evaluate"
        /\ queries' = [c \in Configured \cup added |->
                         IF c \in added THEN OperatorQueries(c) ELSE Queries[c]]
        /\ UNCHANGED <<world, done, objectMetrics>>
    BY DEF FinalizeComponentTree, metrics
  <1>2. done = {} /\ objectMetrics = {}
    BY <1>1 DEF Inv, TreeInv
  <1>3. Components' = Configured \cup added
    BY <1>1 DEF Components
  <1>4. ASSUME ControlPlaneOperators \in Configured, NEW n \in Operators
        PROVE  /\ OperatorComponent(n) \in Seq(STRING)
               /\ Len(OperatorComponent(n)) = 3 /\ Last(OperatorComponent(n)) = n
               /\ \A k \in 1..2 : SubSeq(OperatorComponent(n), 1, k) = SubSeq(ControlPlaneOperators, 1, k)
               /\ SubSeq(OperatorComponent(n), 1, 3) = OperatorComponent(n)
               /\ OperatorObject(n) \in Query
    <2>1. n \in STRING /\ n \in Objects
      BY TreeAssumption
    <2>0. ControlPlaneOperators \in Seq(STRING) /\ Len(ControlPlaneOperators) = 2
      <3>1. ControlPlaneOperators \in Seq(STRING)
        BY <1>4, TreeAssumption
      <3>2. Len(ControlPlaneOperators) = 2
        BY DEF ControlPlaneOperators
      <3> QED
        BY <3>1, <3>2
    <2> DEFINE s == OperatorComponent(n)
    <2>2. /\ s \in Seq(STRING) /\ Len(s) = 3
          /\ s[3] = n /\ \A i \in 1..2 : s[i] = ControlPlaneOperators[i]
      <3>1. /\ Append(ControlPlaneOperators, n) \in Seq(STRING)
            /\ Len(Append(ControlPlaneOperators, n)) = 3
            /\ Append(ControlPlaneOperators, n)[3] = n
            /\ \A i \in 1..2 : Append(ControlPlaneOperators, n)[i] = ControlPlaneOperators[i]
        <4> DEFINE S == STRING
                   t == ControlPlaneOperators
        <4>1. n \in S /\ t \in Seq(S)
          BY <2>0, <2>1
        <4>0. Len(t) = 2
          BY <2>0
        <4> HIDE DEF S, t
        <4>2. /\ Append(t, n) \in Seq(S) /\ Len(Append(t, n)) = Len(t) + 1
              /\ \A i \in 1..Len(t) : Append(t, n)[i] = t[i]
              /\ Append(t, n)[Len(t) + 1] = n
          BY <4>1
        <4>3. /\ Len(Append(t, n)) = 3 /\ Append(t, n)[3] = n
              /\ \A i \in 1..2 : Append(t, n)[i] = t[i]
          BY <4>0, <4>2
        <4> QED
          BY <4>2, <4>3 DEF S, t
      <3>2. s = Append(ControlPlaneOperators, n)
        BY Zenon DEF OperatorComponent
      <3> HIDE DEF s
      <3> QED
        BY <3>1, <3>2
    <2> HIDE DEF s
    <2>3. SubSeq(s, 1, 3) = s
      BY <2>2
    <2>4. ASSUME NEW k \in 1..2
          PROVE  SubSeq(s, 1, k) = SubSeq(ControlPlaneOperators, 1, k)
      BY <2>0, <2>2
    <2>5. OperatorObject(n) \in Query
      BY <2>1 DEF OperatorObject, Query
    <2> QED
      BY <2>2, <2>3, <2>4, <2>5 DEF s, Last
  <1>5. Closed(Components')
    <2>1. ASSUME NEW c \in Configured
          PROVE  /\ c \in Seq(STRING) /\ c # <<>>
                 /\ \A k \in 1..Len(c) : SubSeq(c, 1, k) \in Components'
      BY <1>3, TreeAssumption
    <2>2. ASSUME NEW c \in added
          PROVE  /\ c \in Seq(STRING) /\ c # <<>>
                 /\ \A k \in 1..Len(c) : SubSeq(c, 1, k) \in Components'
      <3>1. PICK n \in Operators : c = OperatorComponent(n)
        BY <2>2
      <3>2. ControlPlaneOperators \in Configured
        BY <2>2
      <3>3. \A k \in 1..2 : SubSeq(ControlPlaneOperators, 1, k) \in Configured
        BY <3>2, TreeAssumption DEF ControlPlaneOperators
      <3>4. c \in Seq(STRING) /\ Len(c) = 3
        BY <1>4, <3>1, <3>2
      <3>5. SubSeq(c, 1, 1) \in Components' /\ SubSeq(c, 1, 2) \in Components'
        <4>1. SubSeq(c, 1, 1) \in Configured
          <5>1. 1 \in 1..2
            OBVIOUS
          <5>2. SubSeq(OperatorComponent(n), 1, 1) = SubSeq(ControlPlaneOperators, 1, 1)
            BY <1>4, <3>2, <5>1, Zenon
          <5> QED
            BY <3>1, <3>3, <5>1, <5>2
        <4>2. SubSeq(c, 1, 2) \in Configured
          <5>1. 2 \in 1..2
            OBVIOUS
          <5>2. SubSeq(OperatorComponent(n), 1, 2) = SubSeq(ControlPlaneOperators, 1, 2)
            BY <1>4, <3>2, <5>1, Zenon
          <5> QED
            BY <3>1, <3>3, <5>1, <5>2
        <4> QED
          BY <1>3, <4>1, <4>2
      <3>6. SubSeq(c, 1, 3) \in Components'
        BY <1>3, <1>4, <2>2, <3>1, <3>2
      <3>7. \A k \in 1..3 : k = 1 \/ k = 2 \/ k = 3
        OBVIOUS
      <3> HIDE DEF added
      <3> QED
        BY <3>4, <3>5, <3>6, <3>7
    <2> QED
      BY <1>3, <2>1, <2>2 DEF Closed
  <1>6. \A c \in Configured : Queries[c] \in Seq(Query)
    BY TreeAssumption DEF Query
  <1>7. ASSUME ControlPlaneOperators \in Configured, NEW n \in Operators, NEW c, c = OperatorComponent(n)
        PROVE  /\ OperatorQueries(c) \in Seq(Query)
               /\ \E i \in DOMAIN OperatorQueries(c) : OperatorQueries(c)[i] = OperatorObject(n)
    <2>1. Last(c) = n /\ OperatorObject(n) \in Query
      BY <1>4, <1>7
    <2>2. CASE c \in Configured
      <3>1. OperatorQueries(c) = Append(Queries[c], OperatorObject(n))
        BY <2>1, <2>2 DEF OperatorQueries
      <3>2. OperatorQueries(c)[Len(Queries[c]) + 1] = OperatorObject(n)
        BY <1>6, <2>1, <2>2, <3>1
      <3>3. Len(Queries[c]) + 1 \in DOMAIN OperatorQueries(c)
        BY <1>6, <2>1, <2>2, <3>1
      <3> QED
        BY <1>6, <2>1, <2>2, <3>1, <3>2, <3>3
    <2>3. CASE c \notin Configured
      <3>1. OperatorQueries(c) = <<OperatorObject(n)>>
        BY <2>1, <2>3 DEF OperatorQueries
      <3> QED
        BY <2>1, <3>1
    <2> QED
      BY <2>2, <2>3
  <1>8. ASSUME NEW c \in Components'
        PROVE  queries'[c] \in Seq(Query)
    <2>1. CASE c \in added
      BY <1>1, <1>7, <2>1
    <2>2. CASE c \notin added
      BY <1>1, <1>3, <1>6, <2>2
    <2> QED
      BY <2>1, <2>2
  <1>9. ASSUME ControlPlaneOperators \in Configured, NEW n \in Operators
        PROVE  /\ OperatorComponent(n) \in Components'
               /\ \E i \in DOMAIN queries'[OperatorComponent(n)] :
                     queries'[OperatorComponent(n)][i] = OperatorObject(n)
    <2>1. OperatorComponent(n) \in added
      BY <1>9
    <2>2. queries'[OperatorComponent(n)] = OperatorQueries(OperatorComponent(n))
      BY <1>1, <2>1
    <2> QED
      BY <1>3, <1>7, <2>1, <2>2
  <1>10. TreeInv'
    <2>1. Closed(Components)'
      BY <1>5 DEF Closed
    <2> QED
      BY <1>1, <1>8, <1>9, <2>1 DEF TreeInv
  <1>11. WorldInv' /\ DoneInv' /\ AtInv' /\ PublishInv'
    BY <1>1, <1>2 DEF Inv, WorldInv, DoneInv, AtInv, PublishInv, ObjectsOnce, world
  <1> QED
    BY <1>10, <1>11 DEF Inv

LEMMA BeginComponentStep ==
    ASSUME Inv, BeginComponent
    PROVE  Inv'
  <1>1. /\ pc = "evaluate" /\ pc' = "objects"
        /\ at' \in Ready /\ todo' = queries[at'] /\ objects' = Put(objects, at', {})
        /\ UNCHANGED <<world, queries, done, alerts, alertsErr, status, metrics>>
    BY DEF BeginComponent
  <1>2. at' \in Components \ done /\ Ready' = Ready
    BY <1>1 DEF Ready, Components, Children
  <1>3. /\ at' \in DOMAIN objects' /\ objects'[at'] = {}
        /\ \A c \in done : c \in DOMAIN objects => c \in DOMAIN objects' /\ objects'[c] = objects[c]
    BY <1>1, <1>2 DEF Put
  <1>4. WorldInv' /\ TreeInv'
    BY <1>1, TreeStays DEF Inv, WorldInv, world
  <1>5. DoneInv'
    <2>1. \A c \in done : Evaluated(c)'
      BY <1>1, <1>3, EvaluatedStays DEF Inv, DoneInv, Evaluated
    <2> QED
      BY <1>1, <2>1 DEF Inv, DoneInv, Components
  <1>6. AtInv'
    <2>1. todo' \in Seq(Query) /\ queries'[at'] = todo'
      BY <1>1, <1>2 DEF Inv, TreeInv
    <2>2. OneStatus(objects[at])'
      BY <1>3 DEF OneStatus
    <2> QED
      BY <1>1, <1>2, <1>3, <2>1, <2>2 DEF AtInv
  <1>7. PublishInv'
    BY <1>1 DEF Inv, PublishInv, ObjectsOnce, metrics
  <1> QED
    BY <1>4, <1>5, <1>6, <1>7 DEF Inv

\* One query is answered, or leaves its name.
LEMMA EvalResourceStep ==
    ASSUME Inv, EvalResource
    PROVE  Inv'
  <1> DEFINE F == objects[at]
             G == objects'[at]
             new == {Found(o, objectWorld[o]) : o \in Head(todo).matches}
  <1>1. /\ pc = "objects" /\ pc' = "objects" /\ todo # <<>> /\ todo' = Tail(todo)
        /\ UNCHANGED <<world, queries, done, alerts, alertsErr, status, at, metrics>>
        /\ \/ objects' = [objects EXCEPT ![at] = Aggregated(F, new)]
           \/ objects' = [objects EXCEPT ![at] = F \cup {NotFound(Head(todo).name)}]
    BY DEF EvalResource
  <1>2. /\ at \in Ready /\ at \in DOMAIN objects /\ F \subseteq Finding /\ OneStatus(F)
        /\ todo \in Seq(Query)
        /\ \A i \in DOMAIN queries[at] :
              \/ \E j \in DOMAIN todo : todo[j] = queries[at][i]
              \/ Answered(queries[at][i], F)
    BY <1>1 DEF Inv, AtInv
  <1>3. /\ DOMAIN objects' = DOMAIN objects
        /\ \A c \in DOMAIN objects : c # at => objects'[c] = objects[c]
        /\ G = Aggregated(F, new) \/ G = F \cup {NotFound(Head(todo).name)}
    BY <1>1, <1>2
  <1>4. Head(todo) \in Query /\ Head(todo) = todo[1]
    BY <1>1, <1>2
  <1>5. /\ F \subseteq G /\ G \subseteq Finding /\ OneStatus(G) /\ Answered(Head(todo), G)
    <2>1. CASE G = Aggregated(F, new)
      <3>1. new \subseteq Finding /\ \A f \in new : f.answered
        <4> SUFFICES ASSUME NEW o \in Head(todo).matches
                     PROVE  Found(o, objectWorld[o]) \in Finding /\ Found(o, objectWorld[o]).answered
          OBVIOUS
        <4>1. o \in Objects
          BY <1>4 DEF Query
        <4>2. objectWorld[o] \in Statuses
          BY <4>1 DEF Inv, WorldInv
        <4> QED
          BY <4>1, <4>2 DEF Found, Finding
      <3>2. \A f, g \in new : f.object = g.object => f.status = g.status
        BY DEF Found
      <3>3. F \subseteq G /\ G \subseteq Finding
        BY <1>2, <2>1, <3>1 DEF Aggregated
      <3>4. OneStatus(G)
        <4>1. ASSUME NEW f \in G, NEW g \in G, f.answered, g.answered, f.object = g.object
              PROVE  f.status = g.status
          BY <1>2, <2>1, <3>2, <4>1 DEF Aggregated, OneStatus
        <4>2. \A f \in G : f.answered \/ f.status = Unknown
          BY <1>2, <2>1, <3>1 DEF Aggregated, OneStatus
        <4> QED
          BY <4>1, <4>2 DEF OneStatus
      <3>5. ASSUME NEW o \in Head(todo).matches
            PROVE  \E f \in G : f.object = o
        <4>1. Found(o, objectWorld[o]) \in new /\ Found(o, objectWorld[o]).object = o
          BY DEF Found
        <4> HIDE DEF new
        <4> QED
          BY <2>1, <4>1 DEF Aggregated
      <3> QED
        BY <3>3, <3>4, <3>5 DEF Answered
    <2>2. CASE G = F \cup {NotFound(Head(todo).name)}
      <3>1. /\ NotFound(Head(todo).name) \in Finding /\ NotFound(Head(todo).name).object = Head(todo).name
            /\ ~ NotFound(Head(todo).name).answered /\ NotFound(Head(todo).name).status = Unknown
        BY <1>4 DEF NotFound, Finding, Query, Statuses, Unknown, Error
      <3>2. OneStatus(G)
        BY <1>2, <2>2, <3>1 DEF OneStatus
      <3> QED
        BY <1>2, <2>2, <3>1, <3>2 DEF Answered
    <2> QED
      BY <1>3, <2>1, <2>2
  <1> HIDE DEF F, G, new
  <1>6. at \notin done
    BY <1>2 DEF Ready
  <1>7. WorldInv' /\ TreeInv'
    BY <1>1, TreeStays DEF Inv, WorldInv, world
  <1>8. DoneInv'
    <2>1. \A c \in done : Evaluated(c)'
      BY <1>1, <1>3, <1>6, EvaluatedStays DEF Inv, DoneInv, Evaluated
    <2> QED
      BY <1>1, <2>1 DEF Inv, DoneInv, Components
  <1>9. AtInv'
    <2>1. Ready' = Ready
      BY <1>1 DEF Ready, Components, Children
    <2>2. todo' \in Seq(Query)
      BY <1>1, <1>2
    <2>3. ASSUME NEW i \in DOMAIN queries[at]
          PROVE  \/ \E j \in DOMAIN todo' : todo'[j] = queries[at][i]
                 \/ Answered(queries[at][i], G)
      <3>1. CASE Answered(queries[at][i], F)
        BY <1>5, <3>1 DEF Answered
      <3>2. CASE \E j \in DOMAIN todo : todo[j] = queries[at][i]
        <4>1. PICK j \in DOMAIN todo : todo[j] = queries[at][i]
          BY <3>2
        <4>2. CASE j = 1
          BY <1>4, <1>5, <4>1, <4>2
        <4>3. CASE j # 1
          <5>1. j - 1 \in DOMAIN todo' /\ todo'[j - 1] = todo[j]
            BY <1>1, <1>2, <4>3
          <5> QED
            BY <4>1, <5>1
        <4> QED
          BY <4>2, <4>3
      <3> QED
        BY <1>2, <3>1, <3>2
    <2>4. (\A i \in DOMAIN queries[at] :
              \/ \E j \in DOMAIN todo : todo[j] = queries[at][i]
              \/ Answered(queries[at][i], objects[at]))'
      BY <1>1, <2>3 DEF G, Answered
    <2>5. OneStatus(objects[at])'
      BY <1>1, <1>5 DEF G, OneStatus
    <2>6. (at \in Ready /\ at \in DOMAIN objects /\ objects[at] \subseteq Finding)'
      BY <1>1, <1>2, <1>3, <1>5, <2>1 DEF G
    <2> QED
      BY <2>2, <2>4, <2>5, <2>6 DEF AtInv
  <1>10. PublishInv'
    BY <1>1 DEF Inv, PublishInv, ObjectsOnce, metrics
  <1> QED
    BY <1>7, <1>8, <1>9, <1>10 DEF Inv

\* The status of a component is that of its worst child, if that is worse than
\* OK, and else its own.
LEMMA EvaluateAlertsStep ==
    ASSUME Inv, EvaluateAlerts
    PROVE  Inv'
  <1>1. PICK err \in {FALSE, outage /\ at \in AlertSources} :
           LET as == IF err \/ at \notin AlertSources THEN {} ELSE alertWorld[at]
           IN  /\ alerts' = Put(alerts, at, as)
               /\ alertsErr' = Put(alertsErr, at, err)
               /\ status' = Put(status, at, CalculateHealthStatus(at, as, err))
    BY DEF EvaluateAlerts
  <1> DEFINE as == IF err \/ at \notin AlertSources THEN {} ELSE alertWorld[at]
             own == IF err THEN Unknown ELSE Worst(as \cup {f.status : f \in objects[at]})
             kids == {status[d] : d \in Children(at)}
             new == ChildrenStatus(Worst(kids), own)
  <1>2. /\ pc = "objects" /\ todo = <<>> /\ done' = done \cup {at}
        /\ pc' = IF done' = Components THEN "publishAlerts" ELSE "evaluate"
        /\ UNCHANGED <<world, queries, objects, at, todo, metrics>>
    BY DEF EvaluateAlerts
  <1>3. err \in BOOLEAN
    OBVIOUS
  <1>4. /\ at \in Components \ done /\ Children(at) \subseteq done
        /\ at \in DOMAIN objects /\ objects[at] \subseteq Finding /\ OneStatus(objects[at])
        /\ \A i \in DOMAIN queries[at] : Answered(queries[at][i], objects[at])
    BY <1>2 DEF Inv, AtInv, Ready
  <1>5. /\ at \in DOMAIN alerts' /\ at \in DOMAIN alertsErr' /\ at \in DOMAIN status'
        /\ alerts'[at] = as /\ alertsErr'[at] = err /\ status'[at] = new
    BY <1>1 DEF Put, CalculateHealthStatus
  <1>6. ASSUME NEW c \in done
        PROVE  /\ c \in DOMAIN alerts' /\ c \in DOMAIN alertsErr' /\ c \in DOMAIN status'
               /\ alerts'[c] = alerts[c] /\ alertsErr'[c] = alertsErr[c] /\ status'[c] = status[c]
    <2>1. c # at /\ Evaluated(c)
      BY <1>4 DEF Inv, DoneInv
    <2> QED
      BY <1>1, <2>1 DEF Put, Evaluated
  <1>7. as \subseteq OK..Error
    BY TreeAssumption DEF Inv, WorldInv
  <1>8. {f.status : f \in objects[at]} \subseteq Statuses
    BY <1>4 DEF Finding
  <1>9. as \cup {f.status : f \in objects[at]} \subseteq Statuses
    BY <1>7, <1>8 DEF Statuses, OK, Unknown, Error
  <1>10. kids \subseteq Statuses
    BY <1>4 DEF Inv, DoneInv, Evaluated
  <1> HIDE DEF as, kids
  <1>11. /\ Worst(kids) \in OK..Error /\ \A v \in kids : v <= Worst(kids)
         /\ Worst(kids) = OK \/ Worst(kids) \in kids
    BY <1>10, WorstIs
  <1>12. own \in Statuses
    <2>1. CASE err
      BY <2>1, StatusesAre
    <2>2. CASE ~err
      <3>1. Worst(as \cup {f.status : f \in objects[at]}) \in OK..Error
        BY <1>9, WorstIs
      <3> QED
        BY <2>2, <3>1, StatusesAre
    <2> QED
      BY <2>1, <2>2
  <1>13. ~err => /\ \A v \in as \cup {f.status : f \in objects[at]} : v <= own
                 /\ own = OK \/ own \in as \cup {f.status : f \in objects[at]}
    BY <1>9, WorstIs
  <1>14. err => own = Unknown
    OBVIOUS
  <1> HIDE DEF own
  <1>15. /\ new \in Statuses
         /\ Worst(kids) # OK => new = Worst(kids)
         /\ Worst(kids) = OK => new = own
    BY <1>11, <1>12 DEF ChildrenStatus, Statuses, OK, Warning, Error, Unknown
  <1> HIDE DEF new
  <1>16. WorldInv' /\ TreeInv'
    BY <1>2, TreeStays DEF Inv, WorldInv, world
  <1>17. \A c \in done : Evaluated(c)'
    BY <1>2, <1>6, EvaluatedStays DEF Inv, DoneInv, Evaluated
  <1>18. Closed(Components)
    BY <1>2 DEF Inv, TreeInv
  <1>19. /\ at \in Subtree(at)
         /\ \A d \in Children(at) : Subtree(d) \subseteq Subtree(at)
         /\ \A e \in Subtree(at) : e = at \/ \E d \in Children(at) : e \in Subtree(d)
    BY <1>4, <1>18, TreeShape
  <1>20. /\ \A c : Subtree(c)' = Subtree(c) /\ Leaf(c)' = Leaf(c)
    BY <1>2 DEF Subtree, Leaf, Children, Components
  <1>21. Subtree(at) \subseteq done \cup {at}
    BY <1>4, <1>19 DEF Inv, DoneInv, Evaluated
  <1>22. \A e : e = at => Known(e)' = IF err THEN {} ELSE as \cup {f.status : f \in objects[at]}
    BY <1>2, <1>5 DEF Known
  <1>23. ASSUME NEW d \in Children(at)
         PROVE  /\ Lower(d)' /\ Upper(d)' /\ status'[d] = status[d] /\ status[d] \in kids
                /\ status[d] <= Worst(kids)
    BY <1>4, <1>6, <1>11, <1>17 DEF Evaluated, kids
  <1>24. \A e \in Subtree(at) : Known(e)' \subseteq Statuses
    <2>1. \A e : e = at => Known(e)' \subseteq Statuses
      BY <1>9, <1>22
    <2>2. ASSUME NEW e \in done
          PROVE  Known(e)' \subseteq Statuses
      <3>1. /\ objects'[e] \subseteq Finding /\ alerts'[e] \subseteq OK..Error
        BY <1>17, <2>2 DEF Evaluated
      <3> QED
        BY <3>1 DEF Known, Finding, Statuses, OK, Unknown, Error
    <2> QED
      BY <1>21, <2>1, <2>2
  <1>0. Subtree(at)' = Subtree(at) /\ (status[at])' = new
    BY <1>2, <1>5, <1>20
  <1>25. Lower(at)'
    <2> SUFFICES ASSUME NEW e \in Subtree(at), Leaf(e), NEW v \in Known(e)'
                 PROVE  v <= OK \/ v <= new
      BY <1>0, <1>20 DEF Lower
    <2>1. v \in Statuses
      BY <1>24
    <2>2. CASE e = at
      <3>1. kids = {}
        BY <2>2 DEF Leaf, kids
      <3>2. new = own
        BY <1>11, <1>15, <3>1
      <3>3. ~err /\ v \in as \cup {f.status : f \in objects[at]}
        BY <1>22, <2>2
      <3> QED
        BY <1>13, <3>2, <3>3
    <2>3. CASE e # at
      <3>1. PICK d \in Children(at) : e \in Subtree(d)
        BY <1>19, <2>3
      <3>2. v <= OK \/ v <= status[d]
        BY <1>20, <1>23, <3>1 DEF Lower
      <3>3. status[d] <= Worst(kids) /\ status[d] \in Statuses
        BY <1>10, <1>23
      <3> QED
        BY <1>11, <1>15, <2>1, <3>2, <3>3 DEF Statuses, OK, Unknown, Error
    <2> QED
      BY <2>2, <2>3
  <1>26. Upper(at)'
    <2> SUFFICES new <= OK \/ \E e \in Subtree(at) : \E v \in Known(e)' : new <= v
      BY <1>0 DEF Upper
    <2>1. CASE Worst(kids) = OK
      <3>1. new = own
        BY <1>15, <2>1
      <3>2. own <= OK \/ \A e : e = at => own \in Known(e)'
        <4>1. CASE err
          BY <1>14, <4>1, StatusesAre
        <4>2. CASE ~err
          <5>1. CASE own = OK
            BY <5>1, StatusesAre
          <5>2. CASE own \in as \cup {f.status : f \in objects[at]}
            BY <1>22, <4>2, <5>2, Zenon
          <5> QED
            BY <1>13, <4>2, <5>1, <5>2
        <4> QED
          BY <4>1, <4>2
      <3>3. own <= own
        BY <1>12, StatusesAre
      <3> QED
        BY <1>19, <3>1, <3>2, <3>3
    <2>2. CASE Worst(kids) # OK
      <3>1. PICK d \in Children(at) : Worst(kids) = status[d]
        BY <1>11, <2>2 DEF kids
      <3>2. status[d] <= OK \/ \E e \in Subtree(d) : \E v \in Known(e)' : status[d] <= v
        BY <1>20, <1>23 DEF Upper
      <3> QED
        BY <1>15, <1>19, <2>2, <3>1, <3>2
    <2> QED
      BY <2>1, <2>2
  <1>27. Evaluated(at)'
    <2>1. /\ (at \in DOMAIN objects /\ at \in DOMAIN alerts /\ at \in DOMAIN alertsErr /\ at \in DOMAIN status)'
          /\ (objects[at] \subseteq Finding /\ alerts[at] \subseteq OK..Error)'
          /\ (alertsErr[at] \in BOOLEAN /\ status[at] \in Statuses)'
      BY <1>2, <1>3, <1>4, <1>5, <1>7, <1>15
    <2>2. OneStatus(objects[at])' /\ (\A i \in DOMAIN queries[at] : Answered(queries[at][i], objects[at]))'
      BY <1>2, <1>4 DEF OneStatus, Answered
    <2>3. (Subtree(at) \subseteq done)'
      BY <1>2, <1>20, <1>21
    <2> QED
      BY <1>25, <1>26, <2>1, <2>2, <2>3 DEF Evaluated
  <1>28. DoneInv'
    BY <1>2, <1>4, <1>17, <1>27 DEF Inv, DoneInv, Components
  <1>29. AtInv' /\ PublishInv'
    BY <1>2 DEF Inv, AtInv, PublishInv, ObjectsOnce, Components, metrics
  <1> QED
    BY <1>16, <1>28, <1>29 DEF Inv

\* The metrics are those of the finished evaluation.
LEMMA PublishStep ==
    ASSUME Inv, UpdateAlertMetrics \/ UpdateObjectMetrics \/ UpdateComponentMetrics \/ Stop
    PROVE  Inv'
  <1>1. /\ pc # "finalize" /\ pc' \notin {"finalize", "objects"}
        /\ UNCHANGED <<world, local>>
    BY DEF UpdateAlertMetrics, UpdateObjectMetrics, UpdateComponentMetrics, Stop
  <1>2. WorldInv' /\ TreeInv' /\ AtInv'
    BY <1>1, TreeStays DEF Inv, WorldInv, AtInv, world, local
  <1>3. DoneInv'
    <2>1. \A c \in done : Evaluated(c)'
      BY <1>1, EvaluatedStays DEF Inv, DoneInv, Evaluated, local, found
    <2> QED
      BY <1>1, <2>1 DEF Inv, DoneInv, Components, local
  <1>4. Components' = Components /\ done' = done
    BY <1>1 DEF Components, local
  <1>5. ObjectMetrics' = ObjectMetrics /\ ComponentMetrics' = ComponentMetrics
    BY <1>1 DEF ObjectMetrics, ComponentMetrics, HasChildren, Children, Components, local, found
  <1>6. CASE UpdateAlertMetrics \/ UpdateComponentMetrics \/ Stop
    <2>1. /\ objectMetrics' = objectMetrics
          /\ pc' \in {"publishObjects", "select", "stopped"}
          /\ pc' # "stopped" => pc \in {"publishAlerts", "publishComponents"}
          /\ pc' = "select" => pc = "publishComponents" /\ componentMetrics' = ComponentMetrics
      BY <1>6 DEF UpdateAlertMetrics, UpdateComponentMetrics, Stop, metrics
    <2>2. ObjectsOnce'
      BY <2>1 DEF Inv, PublishInv, ObjectsOnce
    <2> QED
      BY <1>2, <1>3, <1>4, <1>5, <2>1, <2>2 DEF Inv, PublishInv
  <1>7. CASE UpdateObjectMetrics
    <2>1. /\ pc = "publishObjects" /\ pc' = "publishComponents" /\ objectMetrics' = ObjectMetrics
      BY <1>7 DEF UpdateObjectMetrics
    <2>2. done = Components
      BY <2>1 DEF Inv, PublishInv
    <2>3. ASSUME NEW m \in ObjectMetrics, NEW n \in ObjectMetrics, m.component = n.component,
                 m.object = n.object, Unknown \notin {m.status, n.status}
          PROVE  m.status = n.status
      <3>1. PICK c \in Components : \E f \in objects[c] :
               m = [component |-> c, object |-> f.object, status |-> f.status]
        BY <2>3 DEF ObjectMetrics
      <3>2. PICK d \in Components : \E g \in objects[d] :
               n = [component |-> d, object |-> g.object, status |-> g.status]
        BY <2>3 DEF ObjectMetrics
      <3>3. PICK f \in objects[c] : m = [component |-> c, object |-> f.object, status |-> f.status]
        BY <3>1
      <3>4. PICK g \in objects[d] : n = [component |-> d, object |-> g.object, status |-> g.status]
        BY <3>2
      <3>5. c = d /\ f.object = g.object /\ f.status # Unknown /\ g.status # Unknown
        BY <2>3, <3>3, <3>4
      <3>6. OneStatus(objects[c])
        BY <2>2 DEF Inv, DoneInv, Evaluated
      <3>7. f.status = g.status
        BY <3>5, <3>6 DEF OneStatus
      <3> QED
        BY <3>3, <3>4, <3>7
    <2>4. ObjectsOnce'
      BY <2>1, <2>3 DEF ObjectsOnce
    <2> QED
      BY <1>2, <1>3, <1>4, <1>5, <2>1, <2>2, <2>4 DEF Inv, PublishInv
  <1> QED
    BY <1>6, <1>7

\* A new evaluation starts from nothing.
LEMMA TickStep ==
    ASSUME Inv, Tick
    PROVE  Inv'
  <1>1. /\ pc = "select" /\ pc' \in {"publishAlerts", "evaluate"} /\ done' = {}
        /\ pc' = "publishAlerts" => Components = {}
        /\ UNCHANGED <<world, queries, metrics>>
    BY DEF Tick, Unevaluated
  <1>2. WorldInv' /\ TreeInv' /\ AtInv' /\ DoneInv'
    BY <1>1, TreeStays DEF Inv, WorldInv, AtInv, DoneInv, world
  <1>3. PublishInv'
    BY <1>1 DEF Inv, PublishInv, ObjectsOnce, Components, metrics
  <1> QED
    BY <1>2, <1>3 DEF Inv

LEMMA InvCorrect == Spec => []Inv
  <1>1. Init => Inv
    BY InvInit
  <1>2. Inv /\ [Next]_vars => Inv'
    BY WorldStep, FinalizeStep, BeginComponentStep, EvalResourceStep, EvaluateAlertsStep,
       PublishStep, TickStep
    DEF Next, Evaluation
  <1> QED
    BY <1>1, <1>2, PTL DEF Spec

---------------------------------------------------------------------------
(* What is exported *)

\* Whatever changes or fails while the tree is read, a component is at least as
\* bad as what is known of the leaves below it, and no worse than anything
\* known of it and all below it.
THEOREM RollUpCorrect == Spec => []RollUp
  <1>1. Inv => RollUp
    <2> SUFFICES ASSUME Inv, pc = "select", NEW m \in componentMetrics
                 PROVE  /\ Worst(KnownIn({c \in Subtree(m.component) : Leaf(c)})) <= Worst({m.status})
                        /\ m.status <= Worst(KnownIn(Subtree(m.component)))
      BY DEF RollUp
    <2>1. componentMetrics = ComponentMetrics /\ done = Components
      BY DEF Inv, PublishInv
    <2>2. PICK c \in Components : m = [component |-> c, status |-> status[c]]
      BY <2>1 DEF ComponentMetrics
    <2>3. Evaluated(c) /\ m.component = c /\ m.status = status[c]
      BY <2>1, <2>2 DEF Inv, DoneInv
    <2>4. \A e \in Subtree(c) : Known(e) \subseteq Statuses
      <3> TAKE e \in Subtree(c)
      <3>1. Evaluated(e)
        BY <2>3 DEF Inv, DoneInv, Evaluated
      <3> QED
        BY <3>1 DEF Evaluated, Known, Finding, Statuses, OK, Unknown, Error
    <2> DEFINE leaves == KnownIn({e \in Subtree(c) : Leaf(e)})
               all == KnownIn(Subtree(c))
    <2>5. leaves \in SUBSET Statuses /\ all \in SUBSET Statuses
      BY <2>4 DEF KnownIn
    <2>6. {status[c]} \in SUBSET Statuses
      BY <2>3 DEF Evaluated
    <2>7. \A v \in leaves : v <= OK \/ v <= status[c]
      BY <2>3 DEF KnownIn, Evaluated, Lower
    <2>8. status[c] <= OK \/ \E v \in all : status[c] <= v
      BY <2>3 DEF KnownIn, Evaluated, Upper
    <2> HIDE DEF leaves, all
    <2>9. Worst(leaves) <= Worst({status[c]})
      <3>1. /\ Worst(leaves) \in OK..Error
            /\ Worst(leaves) = OK \/ Worst(leaves) \in leaves
        BY <2>5, WorstIs
      <3>2. /\ Worst({status[c]}) \in OK..Error /\ status[c] <= Worst({status[c]})
        BY <2>6, WorstIs
      <3>3. OK <= Worst({status[c]}) /\ Worst({status[c]}) \in Int /\ status[c] \in Int
        BY <2>6, <3>2, StatusesAre
      <3>4. CASE Worst(leaves) = OK
        BY <3>3, <3>4
      <3>5. CASE Worst(leaves) \in leaves
        <4>1. Worst(leaves) <= OK \/ Worst(leaves) <= status[c]
          BY <2>7, <3>5
        <4>2. Worst(leaves) \in Int
          BY <3>1, StatusesAre
        <4> QED
          BY <3>2, <3>3, <4>1, <4>2, StatusesAre
      <3> QED
        BY <3>1, <3>4, <3>5
    <2>10. status[c] <= Worst(all)
      <3>1. /\ Worst(all) \in OK..Error /\ \A v \in all : v <= Worst(all)
        BY <2>5, WorstIs
      <3> QED
        BY <2>5, <2>6, <2>8, <3>1 DEF Statuses, OK, Unknown, Error
    <2> QED
      BY <2>3, <2>9, <2>10 DEF leaves, all
  <1> QED
    BY <1>1, InvCorrect, PTL

\* However many queries match an object, and however it changes between them,
\* a component exports it with one status.
THEOREM ObjectsCorrect == Spec => []ObjectsOnce
  <1>1. Inv => ObjectsOnce
    BY DEF Inv, PublishInv
  <1> QED
    BY <1>1, InvCorrect, PTL

\* Every cluster operator has a row of its own, whether it is configured or
\* not, and whether it could be asked for or not.
THEOREM OperatorsCorrect == Spec => []OperatorsAreWatched
  <1>1. Inv => OperatorsAreWatched
    <2> SUFFICES ASSUME Inv, pc = "select", ControlPlaneOperators \in Configured,
                        NEW n \in Operators, Leaf(OperatorComponent(n))
                 PROVE  \E m \in objectMetrics : m.component = OperatorComponent(n) /\ m.object = n
      BY DEF OperatorsAreWatched
    <2> DEFINE c == OperatorComponent(n)
    <2>1. objectMetrics = ObjectMetrics /\ done = Components
      BY DEF Inv, PublishInv
    <2>2. c \in Components /\ \E i \in DOMAIN queries[c] : queries[c][i] = OperatorObject(n)
      BY DEF Inv, TreeInv
    <2>3. Answered(OperatorObject(n), objects[c])
      BY <2>1, <2>2 DEF Inv, DoneInv, Evaluated
    <2>4. PICK f \in objects[c] : f.object = n
      BY <2>3 DEF Answered, OperatorObject
    <2> HIDE DEF c
    <2>5. [component |-> c, object |-> f.object, status |-> f.status] \in ObjectMetrics
      BY <2>2, <2>4 DEF ObjectMetrics, HasChildren, Leaf, c
    <2> QED
      BY <2>1, <2>4, <2>5 DEF c
  <1> QED
    BY <1>1, InvCorrect, PTL
=============================================================================
