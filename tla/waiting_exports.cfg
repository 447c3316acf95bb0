\* Exports that wait for each other, an agent that does not wait for them.
SPECIFICATION FairSpec
CONSTANTS
    p1 = p1  p2 = p2  e1 = e1  e2 = e2
    None = None
    Projects = {p1}
    Exports = {e1, e2}
    MaxVersion = 1
    Patient = FALSE
    Skipping <- NoneSkip
PROPERTIES EveryExportEnds
