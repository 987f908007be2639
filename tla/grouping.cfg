SPECIFICATION Spec
CONSTANTS
    Alerts <- LinkedAlerts
    Histories <- ShortHistories
    HealthMaps <- NoHealthMap
    TimeDelta = 1
    FuzzyDelta = 2
    LongDelta = 4
    Tolerance = 1
    StartTime = 6
    MaxTime = 10
    Gaps = {1, 2, 3}
    PrevUUIDs = 0
INVARIANTS
    TypeOK
    OneMatcherPerGroup
PROPERTIES
    StableGroupID
    ImplementsAssignment
