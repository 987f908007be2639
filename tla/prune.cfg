SPECIFICATION Spec
CONSTANTS
    Alerts <- LinkedAlerts
    Histories <- OldHistory
    HealthMaps <- NoHealthMap
    TimeDelta = 1
    FuzzyDelta = 2
    LongDelta = 4
    Tolerance = 1
    StartTime = 10
    MaxTime = 15
    Gaps = {1, 2}
    PrevUUIDs = 0
PROPERTIES
    PruneOnlyUnmatchable
