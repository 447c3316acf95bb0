\* All review systems; a request and an issue, three seconds, one failure.
SPECIFICATION Spec
CONSTANTS
    r1 = r1  i1 = i1  Repo = Repo
    Systems <- AllSystems
    Requests = {r1}
    Issues = {i1}
    MaxTime = 3
    MaxActs = 3
    MaxFails = 1
INVARIANTS NothingQuietIsSkipped
PROPERTIES RunEnds EverythingQuietIsCollected
CHECK_DEADLOCK FALSE
