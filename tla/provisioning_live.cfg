\* Answers and leases under the fairness of processes that are not killed.
SPECIFICATION FairSpec
CONSTANTS
    r1 = r1  r2 = r2  r3 = r3  p1 = p1  p2 = p2  a1 = a1  k1 = k1  k2 = k2
    None = None
    Runs = {r1, r2}
    Projects = {p1}
    Agents = {a1}
    Keys = {k1, k2}
    ProjectOf <- TwoRunsProject
    AgentOf <- TwoRunsAgent
    KeyOf <- TwoRunsKeys
    Skipping <- NoneSkips
    Serial = FALSE
PROPERTIES EveryRequestEnds LockIsFreed
\* A run ends, and there are finitely many of them.
CHECK_DEADLOCK FALSE
