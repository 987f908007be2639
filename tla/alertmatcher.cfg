SPECIFICATION Spec
CONSTANTS
    Alerts <- ActiveAlerts
    Selectors <- SelectorLists
INVARIANT FindsSelected
