\* A Git repository, which may be empty at first, and a Subversion repository
\* that does not change while it is read.
SPECIFICATION FairSpec
CONSTANTS
    git = git  svn = svn  None = None
    Sources = {git, svn}
    Subversion = {svn}
    Renamed = {}
    Fresh = {git}
    Quiet = {svn}
    BatchSize = 2
    MaxSize = 4
    MaxVersion = 3
    MaxMade = 5
INVARIANTS LatestIsCollected NoCommitIsSkipped
PROPERTIES EveryVersionIsCollected
