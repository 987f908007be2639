SPECIFICATION Spec
CONSTANTS
    Alerts <- OneSelected
    Selectors <- TwoValues
INVARIANT ExportedLabelsAreOwn
