SPECIFICATION Spec
CONSTANTS
    Series = {s1, s2}
    Times <- SampleTimes
    Step = 2
INVARIANTS
    IntervalsAreRuns
    ChangesAreOrdered
