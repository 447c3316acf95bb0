\* A repository that moved, one that a team has, one with two spellings.
SPECIFICATION Spec
CONSTANTS
    Sources <- AllSources
    Listed <- SomeListed
    Dropins <- SomeDropins
    Definitions <- TheDefinitions
    JiraSources <- TheJira
    Repos <- AllRepos
    Changed <- HostChanges
    Group <- Groups
    HostClass <- Classes
    Lower <- LowerCase
    Join <- Joined
    None = None
    MaxRaises = 1
INVARIANTS IndexesAreExact NothingIsForgotten EnvironmentsOfSources
