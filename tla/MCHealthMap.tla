---------------------------- MODULE MCHealthMap ----------------------------
EXTENDS HealthMap, Mappings, TLC

Alert(name, ns, sev) == [alertname |-> name, namespace |-> ns, severity |-> sev]

CrashLooping(pod, sev) == Alert("KubePodCrashLooping", "openshift-storage", sev) @@ [pod |-> pod]

Operator(name) == Alert("ClusterOperatorDown", "openshift-cluster-version", "critical") @@ [name |-> name]

\* A rule may write its severity with a capital.
Quay(container) == Alert("QuayDown", "default", "Info") @@ [container |-> container]

LowerCase(s) == IF s = "Info" THEN "info" ELSE s

\* Two alerts that share a row, two that share their source labels but not
\* their component, and two that share a component but no row
SilenceAlerts == {
    CrashLooping("p1", "warning"), CrashLooping("p2", "warning"),
    Operator("etcd"), Operator("dns"),
    Quay("quay-app"), Quay("quay-mirror")}

\* Incidents are only told apart.
IncidentSymmetry == Permutations(Incidents)
=============================================================================
