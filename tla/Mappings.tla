------------------------------ MODULE Mappings ------------------------------
(***************************************************************************)
(* The tables that tell the component of an alert (mappings.go,            *)
(* alerts.go).  Values are namespaces and names of alerts as the code has  *)
(* them; the pattern ^Argo is the set of the names with that prefix that   *)
(* may fire.                                                               *)
(***************************************************************************)
EXTENDS Integers, Sequences

CONSTANT ArgoAlerts

Component(name, matchers) == [component |-> name, matchers |-> matchers]

\* A matcher: the label key has one of the values.
In(key, values) == [key |-> key, values |-> values]

cvoAlerts == {"ClusterOperatorDown", "ClusterOperatorDegraded"}

nodeAlerts == {
    "NodeClockNotSynchronising", "KubeNodeNotReady", "KubeNodeUnreachable",
    "NodeSystemSaturation", "NodeFilesystemSpaceFillingUp",
    "NodeFilesystemAlmostOutOfSpace", "NodeMemoryMajorPagesFaults",
    "NodeNetworkTransmitErrs", "NodeTextFileCollectorScrapeError",
    "NodeFilesystemFilesFillingUp", "NodeNetworkReceiveErrs",
    "NodeClockSkewDetected", "NodeFilesystemAlmostOutOfFiles",
    "NodeWithoutOVNKubeNodePodRunning", "InfraNodesNeedResizingSRE",
    "NodeHighNumberConntrackEntriesUsed", "NodeMemHigh",
    "NodeNetworkInterfaceFlapping", "NodeWithoutSDNPod", "NodeCpuHigh",
    "CriticalNodeNotReady", "NodeFileDescriptorLimit", "MCCPoolAlert",
    "MCCDrainError", "MCDRebootError", "MCDPivotError"}

coreMatchers == <<
    Component("etcd", <<In("namespace", {"openshift-etcd",
        "openshift-etcd-operator"})>>),
    Component("kube-apiserver", <<In("namespace",
        {"openshift-kube-apiserver", "openshift-kube-apiserver-operator"})>>),
    Component("kube-controller-manager", <<In("namespace",
        {"openshift-kube-controller-manager",
        "openshift-kube-controller-manager-operator", "kube-system"})>>),
    Component("kube-scheduler", <<In("namespace",
        {"openshift-kube-scheduler", "openshift-kube-scheduler-operator"})>>),
    Component("machine-approver", <<In("namespace",
        {"openshift-cluster-machine-approver",
        "openshift-machine-approver-operator"})>>),
    Component("machine-config", <<In("namespace",
        {"openshift-machine-config-operator"}), In("alertname",
        {"HighOverallControlPlaneMemory",
        "ExtremelyHighIndividualControlPlaneMemory", "MissingMachineConfig",
        "MCCBootImageUpdateError", "KubeletHealthState",
        "SystemMemoryExceedsReservation"})>>),
    Component("version", <<In("namespace", {"openshift-cluster-version",
        "openshift-version-operator"}), In("alertname",
        {"ClusterNotUpgradeable", "UpdateAvailable"})>>),
    Component("dns", <<In("namespace", {"openshift-dns",
        "openshift-dns-operator"})>>),
    Component("authentication", <<In("namespace",
        {"openshift-authentication", "openshift-oauth-apiserver",
        "openshift-authentication-operator"})>>),
    Component("cert-manager", <<In("namespace", {"openshift-cert-manager",
        "openshift-cert-manager-operator"})>>),
    Component("cloud-controller-manager", <<In("namespace",
        {"openshift-cloud-controller-manager",
        "openshift-cloud-controller-manager-operator"})>>),
    Component("cloud-credential", <<In("namespace",
        {"openshift-cloud-credential-operator"})>>),
    Component("cluster-api", <<In("namespace", {"openshift-cluster-api",
        "openshift-cluster-api-operator"})>>),
    Component("config-operator", <<In("namespace",
        {"openshift-config-operator"})>>),
    Component("kube-storage-version-migrator", <<In("namespace",
        {"openshift-kube-storage-version-migrator",
        "openshift-kube-storage-version-migrator-operator"})>>),
    Component("image-registry", <<In("namespace",
        {"openshift-image-registry", "openshift-image-registry-operator"})>>),
    Component("ingress", <<In("namespace", {"openshift-ingress",
        "openshift-route-controller-manager", "openshift-ingress-canary",
        "openshift-ingress-operator"})>>),
    Component("console", <<In("namespace", {"openshift-console",
        "openshift-console-operator"})>>),
    Component("insights", <<In("namespace", {"openshift-insights",
        "openshift-insights-operator"})>>),
    Component("machine-api", <<In("namespace", {"openshift-machine-api",
        "openshift-machine-api-operator"})>>),
    Component("monitoring", <<In("namespace", {"openshift-monitoring",
        "openshift-monitoring-operator"})>>),
    Component("network", <<In("namespace", {"openshift-network-operator",
        "openshift-ovn-kubernetes", "openshift-multus",
        "openshift-network-diagnostics", "openshift-sdn"})>>),
    Component("node-tuning", <<In("namespace",
        {"openshift-cluster-node-tuning-operator",
        "openshift-node-tuning-operator"})>>),
    Component("openshift-apiserver", <<In("namespace",
        {"openshift-apiserver", "openshift-apiserver-operator"})>>),
    Component("openshift-controller-manager", <<In("namespace",
        {"openshift-controller-manager",
        "openshift-controller-manager-operator"})>>),
    Component("openshift-samples", <<In("namespace",
        {"openshift-cluster-samples-operator", "openshift-samples-operator"})>>),
    Component("operator-lifecycle-manager", <<In("namespace",
        {"openshift-operator-lifecycle-manager"})>>),
    Component("service-ca", <<In("namespace", {"openshift-service-ca",
        "openshift-service-ca-operator"})>>),
    Component("storage", <<In("namespace", {"openshift-storage",
        "openshift-cluster-csi-drivers", "openshift-cluster-storage-operator",
        "openshift-storage-operator"})>>),
    Component("vertical-pod-autoscaler", <<In("namespace",
        {"openshift-vertical-pod-autoscaler",
        "openshift-vertical-pod-autoscaler-operator"})>>),
    Component("marketplace", <<In("namespace", {"openshift-marketplace",
        "openshift-marketplace-operator"})>>)>>

workloadMatchers == <<
    Component("openshift-compliance", <<In("namespace",
        {"openshift-compliance"})>>),
    Component("openshift-file-integrity", <<In("namespace",
        {"openshift-file-integrity"})>>),
    Component("openshift-logging", <<In("namespace", {"openshift-logging"})>>),
    Component("openshift-user-workload-monitoring", <<In("namespace",
        {"openshift-user-workload-monitoring"})>>),
    Component("openshift-gitops", <<In("namespace", {"openshift-gitops",
        "openshift-gitops-operator"})>>),
    Component("openshift-operators", <<In("namespace",
        {"openshift-operators"})>>),
    Component("kubevirt", <<In("kubernetes_operator_part_of", {"kubevirt"}),
        In("namespace", {"openshift-cnv"})>>),
    Component("openshift-local-storage", <<In("namespace",
        {"openshift-local-storage"})>>),
    Component("quay", <<In("container", {"quay-app", "quay-mirror",
        "quay-app-upgrade"})>>),
    Component("Argo", <<In("alertname", ArgoAlerts)>>)>>

---------------------------------------------------------------------------
\* The order of the components is the order in which they are tried.  No
\* component is listed twice and no two claim the same value of a label, so an
\* alert goes to the first of several only if different labels of it match.
ASSUME NothingListedTwice ==
    LET all == coreMatchers \o workloadMatchers
        Values(c, key) == UNION {c.matchers[i].values : i \in {j \in DOMAIN c.matchers : c.matchers[j].key = key}}
    IN  \A i, j \in DOMAIN all : i # j =>
            /\ all[i].component # all[j].component
            /\ \A key \in {"namespace", "alertname", "container", "kubernetes_operator_part_of"} :
                  Values(all[i], key) \cap Values(all[j], key) = {}
=============================================================================
