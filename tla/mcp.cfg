SPECIFICATION Spec
CONSTANTS
    Series <- HealthMapSeries
    AlertSeries <- AlertsSeries
    Requests <- Calls
    Silences <- SilencedSets
    Consoles <- ConsoleSeries
    Now = 5
    QueryStep = 1
    DefaultTimeRange = 360
    ToLower <- LowerCase
    None = None
INVARIANTS
    IncidentsSummarise
    RowsAreTheAlerts
    RowsAreSilencedTogether
