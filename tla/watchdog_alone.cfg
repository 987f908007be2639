SPECIFICATION Spec
CONSTANTS
    Alerts <- WatchdogPair
    Histories <- NoHistory
    HealthMaps <- NoHealthMap
    TimeDelta = 1
    FuzzyDelta = 2
    LongDelta = 4
    Tolerance = 1
    StartTime = 5
    MaxTime = 8
    Gaps = {1, 2}
    PrevUUIDs = 0
INVARIANTS
    WatchdogAlone
