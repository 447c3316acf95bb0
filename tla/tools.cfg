\* Every part that is picked, on its own.
SPECIFICATION Spec
CONSTANTS
    Parts = {"tables", "links", "sprints", "svn", "jenkins", "job", "schedule", "keys"}
    TableKinds <- SomeTables
    Items = {1, 2}
    People = {"0", "p"}
    Titles = {"s", "t"}
    Zero = "0"
    MaxRows = 2
    MaxProcesses = 2
    Relations <- SomeRelations
    Within <- Occurs
    Components = {"c"}
    Others = {"i"}
    MaxChanges = 4
    SprintIds = {1, 2, 3}
    MaxMoment = 3
    MaxSprints = 3
    MaxFiles = 2
    MaxLines = 3
    Branches = {"main", "other"}
    Branch = "main"
    ListSize = 2
    MaxBuilds = 3
    Jobs <- SomeJobs
    Updated = {"project_sources.py", "git_to_json.py"}
    Always = {"project_sources.py"}
    MaxJobs = 2
    AgentKeys <- OneKey
    Days = 2
    Drift = 1
    DayLength = 2
    ApartRuns = TRUE
    Owners = {"P1", "P2"}
    ApiHosts <- SomeApiHosts
    HostOf <- SomeNames
    PathOf <- SomePaths
    MainPath = "main"
    WithToken = {"gitlab"}
    Controllers <- OneController
    DomainSections <- SomeSections
    OwnSources <- SomeSources
    PublishOptions <- SomeOptions
    KeysOfOthers <- SomeKeys
    PageSize = 1
    MaxRenewals = 1
INVARIANTS KeysAreUnique EncryptedOnce MergeKeepsBoth DatesOfLinksAreTrue SprintIsTheLatest StatisticsAddUp ArtifactWasChecked NothingIsSkipped ScheduleFollowsCollections SkewIsBounded UnreportedMeansPublished
\* Each part ends.
CHECK_DEADLOCK FALSE
