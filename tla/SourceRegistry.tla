--------------------------- MODULE SourceRegistry ---------------------------
(***************************************************************************)
(* The sources of a project: the collection with its two indexes (Sources) *)
(* and the programs that change it one after the other, each in a process  *)
(* of its own that reads and writes data_sources.json and writes           *)
(* data_environments.json: project_sources.py, jira_to_json.py and         *)
(* environment_sources.py.                                                 *)
(*                                                                         *)
(* A source is equal to another by its type, name and plain URL, and is    *)
(* found by the URL that follows from the credentials.                     *)
(***************************************************************************)
EXTENDS Naturals

CONSTANTS
    Sources,       \* the sources that this instance speaks of
    Listed,        \* those that project definitions may list
    Dropins,       \* what a dropin file may list
    Definitions,   \* the sources of the project definitions themselves
    JiraSources,   \* those that the API of Jira may say it is
    Repos,         \* repositories that may be at the review systems
    Changed,       \* host -> host, by the credentials
    Group,         \* host -> the group of a GitLab host or None
    HostClass,     \* host -> the review system that the credentials are for
    Lower,         \* name -> name in lower case
    Join(_, _),    \* the name of a repository in a group of another
    None,
    MaxRaises      \* bound on exceptions between the two files

ASSUME BoundsAssumption == MaxRaises \in Nat
ASSUME ListedAssumption ==
    /\ Listed \subseteq Sources /\ Dropins \subseteq SUBSET Sources /\ JiraSources \subseteq Sources
    /\ Definitions \subseteq Sources /\ None \notin Sources

VARIABLES
    remote,        \* the repositories at the review systems, and those of a team
    file,          \* data_sources.json
    environmentsFile,
    inStep,        \* whether the two files were written by the same program
    pc,
    all, urls, environments,   \* the collection
    todo,          \* sources that are still to be added
    definitions,   \* definitions that are still to be collected
    pending,       \* environments that the generator has still to give
    emptied,       \* environments whose set became empty since it began
    unvisited,     \* environments with sources that the generator never gave
    raises,
    found          \* the URLs that the collection got in this process

collection == <<all, urls, environments>>
vars == <<remote, file, environmentsFile, inStep, pc, collection, todo, definitions,
          pending, emptied, unvisited, raises, found>>

-----------------------------------------------------------------------------
(***************************************************************************)
(* What follows from the plain URL and the credentials.                    *)
(***************************************************************************)
Host(s) == Changed[s.host]

\* `git' is a type of several classes, of which the first one is taken that
\* the credentials are for.
ClassOf(s) ==
    CASE s.type = "git" /\ HostClass[Host(s)] = "gitlab" -> "gitlab"
      [] s.type = "git" /\ HostClass[s.host] = "github" -> "github"
      [] s.type = "git" /\ HostClass[Host(s)] = "tfs" -> "tfs"
      [] OTHER -> s.type

\* Where GitLab has repositories of other groups in one group of its own.
InGroup(s) ==
    ClassOf(s) = "gitlab" /\ Host(s) # s.host /\ Group[s.host] \notin {None, s.space}
Namespace(s) == IF InGroup(s) THEN Group[s.host] ELSE s.space

Url(s) ==
    CASE InGroup(s) -> <<Host(s), Group[s.host], Join(s.space, s.repo)>>
      [] ClassOf(s) = "tfs" -> <<Host(s), Lower[s.space], Lower[s.repo]>>
      [] OTHER -> <<Host(s), s.space, s.repo>>

Environment(s) ==
    CASE ClassOf(s) = "gitlab" -> <<"gitlab", Host(s), Group[s.host], Namespace(s)>>
      [] ClassOf(s) = "github" -> <<"github", Host(s), s.space, s.team>>
      [] ClassOf(s) = "tfs" -> <<"tfs", Host(s), Lower[s.space], None>>
      [] ClassOf(s) = "quality-time" -> <<"quality-time", s.host, s.space, s.repo>>
      [] ClassOf(s) \in {"jira", "sonar", "jenkins"} -> <<"plain", s.host, s.space, s.repo>>
      [] OTHER -> None

Urls == {Url(s) : s \in Sources}
Environments == {Environment(s) : s \in Sources} \ {None}

\* What a review system has in the group, of the owner or in the collection of
\* a source; other types give themselves only.
GroupOf(s) == IF Group[s.host] # None THEN Group[s.host] ELSE s.space
Beside(s, r) ==
    /\ r.host = Host(s)
    /\ CASE ClassOf(s) = "gitlab" -> r.space = GroupOf(s)
         [] ClassOf(s) = "github" -> r.space = s.space /\ (s.team # None => r.team)
         [] OTHER -> r.space = s.space
SourceOf(type, r, team) ==
    [type |-> type, name |-> r.repo, host |-> r.host, space |-> r.space, repo |-> r.repo,
     team |-> team]
GetGitSources(s) ==   \* mutant: the sources lose their class
    {SourceOf("git", r, s.team) : r \in {r \in remote : Beside(s, r)}}
GetSources(s) ==
    IF ClassOf(s) \in {"gitlab", "github", "tfs"}
    THEN {SourceOf(ClassOf(s), r, s.team) : r \in {r \in remote : Beside(s, r)}}
    ELSE {s}
\* What is given where the API does not answer; GitHub raises.
Unreached(s) == IF ClassOf(s) = "gitlab" THEN {s} ELSE {}
ASSUME ClosedAssumption ==
    \A s \in Sources, r \in Repos : Beside(s, r) => SourceOf(ClassOf(s), r, s.team) \in Sources

CheckCredentialsEnvironment(s) ==
    ClassOf(s) = "gitlab" /\ Group[s.host] # None => Group[s.host] = Namespace(s)

-----------------------------------------------------------------------------
(***************************************************************************)
(* The collection.                                                         *)
(***************************************************************************)
HasSource(s) == urls[Url(s)] # None

WithEnvironment(envs, s) ==
    IF Environment(s) = None THEN envs ELSE [envs EXCEPT ![Environment(s)] = @ \cup {s}]
KeptEnvironment(envs, s) == envs   \* mutant: leaves the source in the index
WithoutEnvironment(envs, s) ==
    IF Environment(s) = None THEN envs ELSE [envs EXCEPT ![Environment(s)] = @ \ {s}]

Include(s) ==
    /\ all' = all \cup {s}
    /\ urls' = [urls EXCEPT ![Url(s)] = s]
    /\ environments' = WithEnvironment(environments, s)

ReplaceNewer(s) ==   \* mutant: adds before it removes
    LET existing == urls[Url(s)]
    IN /\ all' = (all \cup {s}) \ {existing}
       /\ urls' = [urls EXCEPT ![Url(s)] = s]
       /\ environments' = WithoutEnvironment(WithEnvironment(environments, s), existing)

\* Remove the source with this URL and include the other.
Replace(s) ==
    LET existing == urls[Url(s)]
    IN /\ all' = (all \ {existing}) \cup {s}
       /\ urls' = [urls EXCEPT ![Url(s)] = s]
       /\ environments' = WithEnvironment(WithoutEnvironment(environments, existing), s)

\* Delete one source and include another, whose URL may be the same.
DeleteAndInclude(old, s) ==
    /\ all' = (all \ {old}) \cup {s}
    /\ urls' = [urls EXCEPT ![Url(old)] = None, ![Url(s)] = s]
    /\ environments' = WithEnvironment(WithoutEnvironment(environments, old), s)

UrlsOf(sources) == {Url(s) : s \in sources}
Index(sources) == [u \in Urls |-> IF u \in UrlsOf(sources)
                                  THEN CHOOSE s \in sources : Url(s) = u ELSE None]

\* The list of a file is in no order: any of two sources with a URL is last.
LoadSources(sources) ==
    /\ all' = sources
    /\ \E last \in SUBSET sources :
          /\ UrlsOf(last) = UrlsOf(sources)
          /\ \A s, t \in last : Url(s) = Url(t) => s = t
          /\ urls' = Index(last)
    /\ environments' = [e \in Environments |-> {s \in sources : Environment(s) = e}]

Clear ==
    /\ all' = {} /\ urls' = Index({})
    /\ environments' = [e \in Environments |-> {}]

-----------------------------------------------------------------------------
Init ==
    /\ remote \in SUBSET Repos
    /\ file = {} /\ environmentsFile = {} /\ inStep = TRUE
    /\ pc = "idle"
    /\ all = {} /\ urls = Index({}) /\ environments = [e \in Environments |-> {}]
    /\ todo = {} /\ definitions = {} /\ pending = {} /\ emptied = {}
    /\ unvisited = {} /\ raises = 0 /\ found = {}

\* Repositories come and go, and data_sources.json may come with the dropins.
ChangeRemote ==
    /\ pc = "idle"
    /\ \E r \in Repos : remote' = IF r \in remote THEN remote \ {r} ELSE remote \cup {r}
    /\ UNCHANGED <<file, environmentsFile, inStep, pc, collection, todo,
                   definitions, pending, emptied, unvisited, raises, found>>

PlaceDropin ==
    /\ pc = "idle"
    /\ file = {} /\ file' \in Dropins /\ inStep' = FALSE
    /\ UNCHANGED <<remote, environmentsFile, pc, collection, todo,
                   definitions, pending, emptied, unvisited, raises, found>>

\* A program loads the file.  project_sources.py clears the sources unless
\* there is a dropin.
StartProjectSources ==
    /\ pc = "idle"
    /\ pc' = "definitions"
    /\ LoadSources(file) \/ Clear
    /\ found' = UrlsOf(all')
    /\ todo' = {} /\ definitions' = Definitions
    /\ UNCHANGED <<remote, file, environmentsFile, inStep, pending, emptied, unvisited, raises>>

\* The definitions at the URL of a source, which may be out of reach.
CollectDefinitions ==
    /\ pc = "definitions" /\ todo = {}
    /\ \E d \in definitions :
          /\ definitions' = definitions \ {d}
          /\ \/ /\ todo' \in {{d} \cup listed : listed \in SUBSET Listed}
                /\ pc' = "collecting"
             \/ UNCHANGED <<todo, pc>>
    /\ UNCHANGED <<remote, file, environmentsFile, inStep, collection, pending,
                   emptied, unvisited, raises, found>>

\* Add what the project does not have; the definitions themselves at the end.
BuildMetricSource ==
    /\ pc = "collecting"
    /\ \E s \in todo \ Definitions :
          /\ IF HasSource(s) THEN UNCHANGED collection ELSE Include(s)
          /\ todo' = todo \ {s}
          /\ found' = found \cup {Url(s)}
    /\ UNCHANGED <<remote, file, environmentsFile, inStep, pc, definitions,
                   pending, emptied, unvisited, raises>>
SetEnd ==
    /\ pc = "collecting" /\ todo \subseteq Definitions
    /\ \E d \in todo : Include(d) /\ todo' = todo \ {d} /\ found' = found \cup {Url(d)}
    /\ pc' = IF todo' = {} THEN "definitions" ELSE pc
    /\ UNCHANGED <<remote, file, environmentsFile, inStep, definitions,
                   pending, emptied, unvisited, raises>>
EndProjectSources ==
    /\ pc = "definitions" /\ definitions = {}
    /\ pc' = "export"
    /\ UNCHANGED <<remote, file, environmentsFile, inStep, collection, todo,
                   definitions, pending, emptied, unvisited, raises, found>>

\* jira_to_json.py replaces the first Jira source by what the API says it is.
StartJira ==
    /\ pc = "idle"
    /\ pc' = "jira"
    /\ LoadSources(file)
    /\ found' = {}
    /\ UNCHANGED <<remote, file, environmentsFile, inStep, todo, definitions, pending,
                   emptied, unvisited, raises>>
AddSource ==
    /\ pc = "jira"
    /\ \E s \in JiraSources :
          /\ IF \E t \in all : t.type = "jira"
             THEN \E t \in all : t.type = "jira" /\ DeleteAndInclude(t, s)
             ELSE Include(s)
          /\ found' = {Url(s)}
    /\ pc' = "export"
    /\ UNCHANGED <<remote, file, environmentsFile, inStep, todo, definitions,
                   pending, emptied, unvisited, raises>>

\* environment_sources.py: one source of each environment, from a copy of the
\* list of their sets.  A set that became empty ends the generator.
StartEnvironments ==
    /\ pc = "idle"
    /\ pc' = "environments"
    /\ LoadSources(file)
    /\ found' = UrlsOf(file)
    /\ pending' = {e \in Environments : environments'[e] # {}}
    /\ emptied' = {}
    /\ UNCHANGED <<remote, file, environmentsFile, inStep, todo, definitions, unvisited, raises>>
VisitEnvironment ==
    /\ pc = "environments" /\ todo = {}
    /\ \E e \in pending \ emptied :
          /\ pending' = pending \ {e}
          /\ \E s \in environments[e] :
                IF CheckCredentialsEnvironment(s)
                THEN \/ todo' = GetSources(s)
                     \/ ClassOf(s) \in {"gitlab", "tfs"} /\ todo' = Unreached(s)
                ELSE todo' = {}
    /\ UNCHANGED <<remote, file, environmentsFile, inStep, pc, collection, definitions,
                   emptied, unvisited, raises, found>>
MergeSource ==
    /\ pc = "environments"
    /\ \E s \in todo :
          /\ IF HasSource(s)
             THEN /\ Replace(s)
                  /\ emptied' = emptied \cup {e \in Environments : environments[e] = {urls[Url(s)]}}
             ELSE Include(s) /\ UNCHANGED emptied
          /\ todo' = todo \ {s}
          /\ found' = found \cup {Url(s)}
    /\ UNCHANGED <<remote, file, environmentsFile, inStep, pc, definitions,
                   pending, unvisited, raises>>
StopIteration ==
    /\ pc = "environments" /\ todo = {}
    /\ pending = {} \/ pending \cap emptied # {}
    /\ unvisited' = pending \ emptied /\ pending' = {} /\ emptied' = {}
    /\ pc' = "export"
    /\ UNCHANGED <<remote, file, environmentsFile, inStep, collection, todo,
                   definitions, raises, found>>

\* The two files.  The versions of the environments are asked for in between.
ExportSources ==
    /\ pc = "export"
    /\ file' = all /\ inStep' = FALSE
    /\ pc' = "exportEnvironments"
    /\ UNCHANGED <<remote, environmentsFile, collection, todo,
                   definitions, pending, emptied, unvisited, raises, found>>
Exit == /\ pc' = "idle"
        /\ Clear
        /\ todo' = {} /\ definitions' = {} /\ pending' = {} /\ emptied' = {}
        /\ unvisited' = {} /\ found' = {}
ExportEnvironments ==
    /\ pc = "exportEnvironments"
    /\ environmentsFile' = {e \in Environments : environments[e] # {}}
    /\ inStep' = TRUE
    /\ Exit
    /\ UNCHANGED <<remote, file, raises>>

\* An exception ends the program: an API out of reach, or a server without a
\* version.
Raise ==
    /\ pc # "idle"
    /\ IF pc = "exportEnvironments" THEN raises < MaxRaises /\ raises' = raises + 1
                                    ELSE UNCHANGED raises
    /\ Exit
    /\ UNCHANGED <<remote, file, environmentsFile, inStep>>

ProjectSources ==
    StartProjectSources \/ CollectDefinitions \/ BuildMetricSource \/ SetEnd \/ EndProjectSources
EnvironmentSources ==
    StartEnvironments \/ VisitEnvironment \/ MergeSource \/ StopIteration
Next ==
    \/ ChangeRemote \/ PlaceDropin
    \/ ProjectSources \/ StartJira \/ AddSource \/ EnvironmentSources
    \/ ExportSources \/ ExportEnvironments \/ Raise

Spec == Init /\ [][Next]_vars

-----------------------------------------------------------------------------
TypeOK ==
    /\ remote \subseteq Repos
    /\ file \subseteq Sources /\ environmentsFile \subseteq Environments
    /\ inStep \in BOOLEAN /\ raises \in 0..MaxRaises
    /\ pc \in {"idle", "definitions", "collecting", "jira", "environments", "export",
               "exportEnvironments"}
    /\ all \subseteq Sources
    /\ urls \in [Urls -> Sources \cup {None}]
    /\ environments \in [Environments -> SUBSET Sources]
    /\ todo \subseteq Sources /\ found \subseteq Urls
    /\ emptied \subseteq Environments /\ unvisited \subseteq Environments
    /\ pending \subseteq Environments /\ definitions \subseteq Definitions

\* The indexes are those of the collection after any of the operations of the
\* programs: a replacement finds a source to remove, and has_source
\* is right where the programs ask for it.
EnvironmentsAreExact ==
    \A e \in Environments : environments[e] = {s \in all : Environment(s) = e}
UrlsAreExact ==
    \A u \in Urls :
        IF urls[u] = None
        THEN pc \in {"definitions", "collecting", "environments"} => u \notin UrlsOf(all)
        ELSE urls[u] \in all /\ Url(urls[u]) = u
IndexesAreExact == EnvironmentsAreExact /\ UrlsAreExact

\* No URL is forgotten on the way: what a program loaded and found is in the
\* file that it writes, replaced or not.
NothingIsForgotten ==
    pc = "exportEnvironments" => found \subseteq UrlsOf(file)

\* The environments of the one file are those of the sources of the other.
EnvironmentsOfSources ==
    inStep => environmentsFile = {Environment(s) : s \in file} \ {None}

\* What makes the invariants inductive: all that was found is in the collection,
\* which is what the first file got.
FoundIsHeld ==
    /\ pc # "idle" => found \subseteq UrlsOf(all)
    /\ pc = "exportEnvironments" => file = all /\ ~inStep
IInv ==
    /\ TypeOK /\ IndexesAreExact /\ FoundIsHeld /\ NothingIsForgotten
    /\ EnvironmentsOfSources

\* get_environments is to "yield Source objects that are distinctive for each
\* environment" (sources.py:185): each environment is given once.
EachEnvironmentIsGiven == unvisited = {}
=============================================================================
