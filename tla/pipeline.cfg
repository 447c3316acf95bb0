\* One project whose agent waits for the answer of export.py.
SPECIFICATION Spec
CONSTANTS
    p1 = p1  p2 = p2  e1 = e1  e2 = e2
    None = None
    Projects = {p1}
    Exports = {e1, e2}
    MaxVersion = 3
    Patient = TRUE
    Skipping <- AllSkip
INVARIANTS NoVersionIsSkipped ExportImportsItsData
PROPERTIES CollectsIncrementally
