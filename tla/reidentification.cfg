SPECIFICATION Spec
CONSTANTS
    Alerts <- LinkedAlerts
    Histories <- NoHistory
    HealthMaps <- NoHealthMap
    TimeDelta = 1
    FuzzyDelta = 2
    LongDelta = 4
    Tolerance = 1
    StartTime = 5
    MaxTime = 8
    Gaps = {1}
    PrevUUIDs = 0
PROPERTIES
    DirectReidentification
