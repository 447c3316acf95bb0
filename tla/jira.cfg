\* Two issues in batches of one; the first one is quiet during runs.
SPECIFICATION Spec
CONSTANTS
    MaxIssue = 2
    Quiet = {1}
    BatchSize = 1
    Maximum = 2
    Minute = 2
    Changes = {{"title", "attach"}, {"rank", "detach"}}
    MaxChanges = 2
    MaxComments = 1
    MaxTime = 5
INVARIANTS RunIsComplete NothingIsSkipped VersionsAreTrue VersionsAreStable
