SPECIFICATION Spec
CONSTANTS
    Posts = {p1, p2, p3, p4}
    Large = {p4}
    MaxBatch = 1
    MaxImports = 2
SYMMETRY Permuted
INVARIANTS AcceptedIsStored ImportedOnce ReadIsIntact
CHECK_DEADLOCK FALSE
