SPECIFICATION Spec
CONSTANTS
    Kinds = {"quality-time", "sonar"}
    Metrics = {m1, m2}
    Targets = {0, 1}
    Scales = {"count", "percentage"}
    Depth = 3
    Offset <- Behind
    MaxTime = 3
    MaxActs = 3
    MaxFails = 1
    MaxRuns = 2
SYMMETRY Symmetry
CHECK_DEADLOCK FALSE
INVARIANTS RowsAreTrue ChangesAreCollected MeasurementsAreCollected
PROPERTIES RowsAreNew
