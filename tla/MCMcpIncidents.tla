--------------------------- MODULE MCMcpIncidents ---------------------------
EXTENDS McpIncidents, TLC

Src(name, sev) == [alertname |-> name, severity |-> sev]

Mapped(g, cluster, src, comp, health, first, last) ==
    [groupId |-> g, clusterID |-> cluster, srcLabels |-> src, component |-> comp,
     health |-> health, first |-> first, last |-> last]

\* A fleet of two clusters.  An incident of three series, one of which goes on
\* and one of which starts first, an incident of the other cluster with the
\* same source, and a series that is skipped
HealthMapSeries == {
    Mapped("g1", "c1", Src("A", "warning"), "etcd", 1, 1, 5),
    Mapped("g1", "c1", Src("A", "warning") @@ [namespace |-> "n"], "dns", 1, 0, 2),
    Mapped("g1", "c1", Src("B", "critical"), "etcd", 2, 2, 3),
    Mapped("g2", "c2", Src("A", "warning"), "etcd", 1, 3, 4),
    Mapped("g2", "c2", Src("C", "none"), "Others", 1, 0, 5)}

Firing(labels, first, last) == [labels |-> labels, first |-> first, last |-> last]

Pod(p) == Src("A", "warning") @@ [namespace |-> "n", pod |-> p, clusterID |-> "c1"]

\* Two alerts that share a row, one of them gone, and one of the other cluster
AlertsSeries == {
    Firing(Pod("p1"), 1, 5),
    Firing(Pod("p2"), 0, 2),
    Firing(Src("A", "warning") @@ [namespace |-> "n", clusterID |-> "c2"], 3, 5)}

\* Hours asked for, 0 when left out, and severities, one of them left out
\* and one with a capital
Calls == {[timeRange |-> 0, minSeverity |-> ""],
          [timeRange |-> 0, minSeverity |-> "info"],
          [timeRange |-> 3, minSeverity |-> "Critical"]}

LowerCase(s) == IF s = "Critical" THEN "critical" ELSE s

SilencedSets == {{}, {Pod("p1")}, {Pod("p1"), Pod("p2")}}

\* No answer, the console of the hub only, and the consoles of both clusters
ConsoleSeries == {
    <<>>,
    <<[clusterID |-> "", url |-> "hub"]>>,
    <<[clusterID |-> "c1", url |-> "u1"], [clusterID |-> "c2", url |-> "u2"]>>}
=============================================================================
