SPECIFICATION RestartSpec
CONSTANTS
    Alerts <- RestartAlerts
    Histories <- AllHistories
    HealthMaps <- RestartHealthMaps
    Scenarios <- SmallScenarios
    QueryStep = 2
    Lookback = 3
    TimeDelta = 1
    FuzzyDelta = 2
    LongDelta = 5
    Tolerance = 2
    StartTime = 10
    MaxTime = 15
    Gaps = {1, 2}
    PrevUUIDs = 2
INVARIANTS
    OngoingIncidentKeepsUUID
    WatchdogBatchLinked
PROPERTIES
    StableGroupID
    ImplementsAssignment
    IncidentsKeepIdentity
