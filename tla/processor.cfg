SPECIFICATION Spec
CONSTANTS
    Alerts = {a}
    Scrapers = {c1, c2}
    Steps = 4
    None = None
INVARIANTS
    TypeOK
    CountsMatchMap
    CollectIsAtomic
    ServedIsFed
PROPERTIES
    StopsWithServer
    Converges
