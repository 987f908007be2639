SPECIFICATION Spec
CONSTANTS
    None = None
    Configured <- Tree
    Operators <- ClusterOperators
    AlertSources <- AlertComponents
    Queries <- ObjectQueries
    AlertValues <- NoneOrWarning
    ObjectValues <- StatusesOf
INVARIANTS
    RollUp
    ObjectsOnce
    OperatorsAreWatched
PROPERTY Converges
