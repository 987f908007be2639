SPECIFICATION Spec
CONSTANTS
    Alerts <- SilenceAlerts
    Incidents = {g1, g2}
    ArgoAlerts = {}
    CvoAlerts <- cvoAlerts
    NodeAlerts <- nodeAlerts
    CoreMatchers <- coreMatchers
    WorkloadMatchers <- workloadMatchers
    ToLower <- LowerCase
SYMMETRY IncidentSymmetry
INVARIANTS
    RowsAgreeOnSilence
    SilencedRowsAreSilenced
    EveryAlertHasOneRow
    CountsAreIncidents
    SourceLabelsTellComponent
    RanksFollowLayers
