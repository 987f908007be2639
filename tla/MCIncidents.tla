---------------------------- MODULE MCIncidents ----------------------------
(***************************************************************************)
(* Small instances of Incidents.                                           *)
(***************************************************************************)
EXTENDS Incidents

Alert(name, ns, pod) ==
    {<<"alertname", name>>, <<"namespace", ns>>} \cup (IF pod = "" THEN {} ELSE {<<"pod", pod>>})

\* Two alerts of one namespace, the first with a label the main label set
\* leaves out, and an alert nothing links to them.
A1 == Alert("down", "etcd", "p1")
B  == Alert("slow", "etcd", "")
C  == Alert("full", "dns", "")
W  == Watchdog

NoHistory   == {{}}
NoHealthMap == {{}}

LinkedAlerts == {A1, B, C}

Interval(a, start, end) == [metric |-> a, start |-> start, end |-> end]

\* A process that starts at 6 finds nothing, or two alerts one after the other.
ShortHistories == {{}, {Interval(A1, 5, 5), Interval(C, 6, 6)}}

\* What the start-up queries may return for a process that starts at 10: A1
\* fires without a break, flaps, or is gone; B and C come before, with or after
\* it, and may still fire.
RestartAlerts == {A1, B, C, W}

RestartHistories ==
    {a \cup b \cup c :
        a \in {{}, {Interval(A1, 6, 10)}, {Interval(A1, 6, 7), Interval(A1, 9, 10)}},
        b \in {{}, {Interval(B, 7, 8)}, {Interval(B, 9, 10)}},
        c \in {{}, {Interval(C, 6, 10)}, {Interval(C, 8, 8)}}}

Previous(a, uuid, start, end) ==
    [labels |-> Project(a, {"alertname", "namespace"}), uuid |-> uuid,
     start |-> start, end |-> end]

\* The previous process may have had A1 and C in one incident or in two, and
\* may have stopped exporting before the restart.
RestartHealthMaps ==
    {{}, {Previous(A1, 1, 6, 10), Previous(C, 1, 6, 10)},
     {Previous(A1, 1, 6, 10), Previous(B, 2, 9, 10), Previous(C, 2, 6, 10)},
     {Previous(A1, 1, 6, 8), Previous(A1, 2, 9, 10), Previous(C, 2, 8, 9)}}

\* A process that starts together with the Watchdog
WatchdogHistories ==
    {{Interval(W, 9, 10)} \cup h :
        h \in SUBSET {Interval(A1, 9, 9), Interval(B, 9, 10), Interval(C, 8, 10)}}

AllHistories == RestartHistories \cup WatchdogHistories

WatchdogPair == {W, C}

\* An alert that has been firing since the start of the lookback
OldHistory == {{Interval(A1, 7, 10)}}
==============================================================================
