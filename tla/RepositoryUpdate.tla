-------------------------- MODULE RepositoryUpdate --------------------------
(***************************************************************************)
(* git_to_json.py: the versions of the repositories of a project since the *)
(* latest ones that were collected (Repositories_Holder).                  *)
(*                                                                         *)
(* A run goes over the sources.  A Git repository is cloned or pulled in a *)
(* directory that stays for the next run, and is left out when the remote  *)
(* branch is still at the latest version; Subversion is asked directly.    *)
(* A source that fails is left out as well, and with --force its clone is  *)
(* deleted.  Versions and the latest version of each repository are        *)
(* written at the end; a run that stops before, or whose export is lost,   *)
(* starts again from the latest versions of before.                        *)
(*                                                                         *)
(* Versions of a repository are numbered in the order they are made.  The  *)
(* history of the branch is linear; its newest version may be replaced.    *)
(* What is collected of a Subversion repository is the log of its trunk,   *)
(* but its newest version is that of the whole repository.                 *)
(***************************************************************************)
EXTENDS Naturals, FiniteSets

CONSTANTS
    Sources,     \* sources of the project with a repository
    Subversion,  \* those with a Subversion repository; the others have Git
    Renamed,     \* Git sources whose default branch is not called master
    Fresh,       \* Git sources that may have no version at first
    Quiet,       \* sources that do not change while they are processed
    BatchSize,   \* BATCH_SIZE: versions in one query
    MaxSize,     \* MAX_SIZE: versions collected from a repository in a run
    MaxVersion,  \* bound: versions made of a repository
    MaxMade,     \* bound: versions made of all repositories
    None         \* no source

ASSUME RepositoryConstants ==
    /\ Subversion \subseteq Sources /\ Renamed \subseteq Sources
    /\ Fresh \subseteq Sources /\ Quiet \subseteq Sources
    /\ Subversion \cap Fresh = {}
    /\ BatchSize \in Nat \ {0} /\ MaxSize \in Nat /\ BatchSize <= MaxSize
    /\ MaxVersion \in Nat \ {0} /\ MaxMade \in Nat
    /\ None \notin Sources

VARIABLES
    made,       \* number of versions made so far
    history,    \* versions on the default branch of the source, or on trunk
    head,       \* the newest of them, 0 when there is none; of Subversion the
                \* newest of all versions
    master,     \* version that the branch called master points at, 0: none
    clone,      \* the directory of the repository: none, good or broken
    local,      \* versions on the branch in the clone
    at,         \* the newest of them
    latest,     \* latest_vcs_versions.json, 0 when the source is not in it
    collected,  \* versions that completed runs have exported
    pc,         \* where the run is
    force,      \* option --force of the run
    todo,       \* sources that the run has yet to look at
    current,    \* source that the run works on
    newest,     \* Repositories_Holder._latest_versions
    versions    \* the table vcs_versions of the run, per source

remote == <<made, history, head, master>>
clones == <<clone, local, at>>
files == <<latest, collected>>
run == <<pc, force, todo, current, newest, versions>>
vars == <<remote, clones, files, run>>

Version == 1..MaxVersion
Places == {"idle", "loop", "source", "sourced", "data", "latest"}

TypeOK ==
    /\ made \in [Sources -> 0..MaxVersion]
    /\ history \in [Sources -> SUBSET Version]
    /\ head \in [Sources -> 0..MaxVersion]
    /\ master \in [Sources -> 0..MaxVersion]
    /\ clone \in [Sources -> {"none", "good", "broken"}]
    /\ local \in [Sources -> SUBSET Version]
    /\ at \in [Sources -> 0..MaxVersion]
    /\ latest \in [Sources -> 0..MaxVersion]
    /\ collected \in [Sources -> SUBSET Version]
    /\ pc \in Places /\ force \in BOOLEAN
    /\ todo \subseteq Sources /\ current \in Sources \cup {None}
    /\ newest \in [Sources -> 0..MaxVersion]
    /\ versions \in [Sources -> SUBSET Version]

\* Whether a source that may be without versions has one is up to it.
Init ==
    /\ made \in [Sources -> {0, 1}]
    /\ \A s \in Sources : made[s] = 0 => s \in Fresh
    /\ history = [s \in Sources |-> 1..made[s]]
    /\ head = made /\ master = made
    /\ clone = [s \in Sources |-> "none"]
    /\ local = [s \in Sources |-> {}] /\ at = [s \in Sources |-> 0]
    /\ latest = [s \in Sources |-> 0]
    /\ collected = [s \in Sources |-> {}]
    /\ pc = "idle" /\ force = FALSE /\ todo = {} /\ current = None
    /\ newest = latest /\ versions = collected

-----------------------------------------------------------------------------
AllMade == {sv \in Sources \X Version : sv[2] <= made[sv[1]]}

\* The remote repository gets a version, and its branch becomes another one.
Make(s, branch) ==
    LET v == made[s] + 1 IN
    /\ made[s] < MaxVersion /\ Cardinality(AllMade) < MaxMade
    /\ s \in Quiet => current # s
    /\ made' = [made EXCEPT ![s] = v]
    /\ history' = [history EXCEPT ![s] = branch]
    /\ head' = [head EXCEPT ![s] = v]
    /\ \E m \in {v} \cup (IF s \in Renamed THEN {master[s]} ELSE {}) :
          master' = [master EXCEPT ![s] = m]
    /\ UNCHANGED <<clones, files, run>>

Push(s) == Make(s, history[s] \cup {made[s] + 1})

\* A forced push replaces the newest version.
Rewrite(s) == s \notin Subversion /\ Make(s, (history[s] \ {head[s]}) \cup {made[s] + 1})

\* A revision of a Subversion repository in another place than its trunk.
Elsewhere(s) == s \in Subversion /\ Make(s, history[s])

-----------------------------------------------------------------------------
Start(f) ==
    /\ pc = "idle"
    /\ pc' = "loop" /\ force' = f
    /\ todo' = Sources /\ current' = None
    /\ newest' = latest /\ versions' = [s \in Sources |-> {}]
    /\ UNCHANGED <<remote, clones, files>>

\* get_repositories goes on with the next source.
Leave(s) ==
    /\ pc' = "loop" /\ current' = None /\ todo' = todo \ {s}
    /\ UNCHANGED <<force, versions>>

GoTo(s, from, to) ==
    /\ pc = from /\ current = s /\ pc' = to
    /\ UNCHANGED <<force, todo, current, newest, versions>>

\* Only Git repositories know beforehand, by git ls-remote of master.
IsUpToDate(s) ==
    s \notin Subversion /\ newest[s] # 0 /\ newest[s] = master[s]

SkipUpToDate(s) ==
    /\ pc = "loop" /\ s \in todo
    /\ IsUpToDate(s)
    /\ Leave(s)
    /\ UNCHANGED <<remote, clones, files, newest>>

Retrieve(s) ==
    /\ pc = "loop" /\ s \in todo
    /\ pc' = "source" /\ current' = s
    /\ UNCHANGED <<remote, clones, files, force, todo, newest, versions>>

RetrieveNew(s) == ~IsUpToDate(s) /\ Retrieve(s)

\* A source that does not answer is taken to be not up to date.
CheckFails(s) == IsUpToDate(s) /\ Retrieve(s)

(***************************************************************************)
(* from_source: a clone or a pull, or no more than a remote client.        *)
(***************************************************************************)
SetClone(s, state) ==
    /\ clone' = [clone EXCEPT ![s] = state]
    /\ local' = [local EXCEPT ![s] = IF state = "good" THEN history[s] ELSE {}]
    /\ at' = [at EXCEPT ![s] = IF state = "good" THEN head[s] ELSE 0]

Connect(s) ==
    /\ s \in Subversion
    /\ GoTo(s, "source", "sourced")
    /\ UNCHANGED <<remote, clones, files>>

Clone(s) ==
    /\ s \notin Subversion /\ clone[s] = "none"
    /\ GoTo(s, "source", "sourced")
    /\ SetClone(s, "good")
    /\ UNCHANGED <<remote, files>>

CloneFails(s) ==
    /\ s \notin Subversion /\ clone[s] = "none"
    /\ pc = "source" /\ current = s
    /\ Leave(s)
    /\ UNCHANGED <<remote, clones, files, newest>>

\* pull returns at once when the clone has no branch.
PullEmpty(s) ==
    /\ clone[s] = "good" /\ local[s] = {}
    /\ GoTo(s, "source", "sourced")
    /\ UNCHANGED <<remote, clones, files>>

\* git fetch does not replace versions.
CanPull(s) == clone[s] = "good" /\ at[s] \in history[s]

Pull(s) ==
    /\ CanPull(s)
    /\ GoTo(s, "source", "sourced")
    /\ SetClone(s, "good")
    /\ UNCHANGED <<remote, files>>

PullRaises(s) ==
    /\ clone[s] # "none" /\ ~(clone[s] = "good" /\ local[s] = {}) /\ ~force
    /\ pc = "source" /\ current = s
    /\ Leave(s)
    /\ UNCHANGED <<remote, clones, files, newest>>

\* With --force pull deletes the clone and returns; nothing is cloned again.
PullForced(s) ==
    /\ clone[s] # "none" /\ ~(clone[s] = "good" /\ local[s] = {}) /\ force
    /\ GoTo(s, "source", "sourced")
    /\ SetClone(s, "none")
    /\ UNCHANGED <<remote, files>>

CleanupFails(s) ==
    /\ clone[s] # "none" /\ ~(clone[s] = "good" /\ local[s] = {}) /\ force
    /\ pc = "source" /\ current = s
    /\ Leave(s)
    /\ SetClone(s, "broken")
    /\ UNCHANGED <<remote, files, newest>>

(***************************************************************************)
(* _process_repo, for a repository that is not empty                       *)
(***************************************************************************)
LooksEmpty(s) == s \notin Subversion /\ (clone[s] # "good" \/ local[s] = {})

SkipEmpty(s) ==
    /\ LooksEmpty(s)
    /\ pc = "sourced" /\ current = s
    /\ Leave(s)
    /\ UNCHANGED <<remote, clones, files, newest>>

\* svn info fails.
InfoFails(s) ==
    /\ s \in Subversion
    /\ pc = "sourced" /\ current = s
    /\ Leave(s)
    /\ UNCHANGED <<remote, clones, files, newest>>

Process(s) ==
    /\ ~LooksEmpty(s)
    /\ GoTo(s, "sourced", "data")
    /\ UNCHANGED <<remote, clones, files>>

FirstBatch(S) ==   \* mutant: the loop over the batches ends after the first
    {v \in S : Cardinality({w \in S : w >= v}) <= BatchSize}

\* git rev-list limits its output to the newest versions and then reverses it.
NewestOnly(S) == {v \in S : Cardinality({w \in S : w >= v}) <= MaxSize}

\* svn log starts at the oldest version.  A batch after the first one starts
\* with the last version of the one before, which is left out.
Batches == (MaxSize + BatchSize - 1) \div BatchSize
SubversionLimit == MaxSize - (Batches - 1)
OldestOnly(S) == {v \in S : Cardinality({w \in S : w <= v}) <= SubversionLimit}

CollectAlone(s, new) ==   \* mutant: the table of versions is made anew
    /\ pc = "data" /\ current = s /\ pc' = "latest"
    /\ versions' = [x \in Sources |-> IF x = s THEN new ELSE {}]
    /\ UNCHANGED <<remote, clones, files, force, todo, current, newest>>

Collect(s, new) ==
    /\ pc = "data" /\ current = s /\ pc' = "latest"
    /\ versions' = [versions EXCEPT ![s] = @ \cup new]
    /\ UNCHANGED <<remote, clones, files, force, todo, current, newest>>

\* The clone knows the latest version, or there is none.
KnowsLatest(s) == newest[s] = 0 \/ newest[s] \in local[s]

GetGitVersions(s) ==
    /\ s \notin Subversion /\ KnowsLatest(s)
    /\ Collect(s, NewestOnly({v \in local[s] : v > newest[s]}))

GetSubversionLog(s) ==
    /\ s \in Subversion
    /\ Collect(s, OldestOnly({v \in history[s] : v >= newest[s]}))

DataFailsSilently(s) ==   \* mutant: the latest version is kept in spite of --force
    /\ pc = "data" /\ current = s /\ force
    /\ Leave(s)
    /\ \E c \in {"none", "broken"} :
          IF s \in Subversion THEN UNCHANGED clones ELSE SetClone(s, c)
    /\ UNCHANGED <<remote, files, newest>>

DataRaises(s) ==
    /\ pc = "data" /\ current = s /\ ~force
    /\ Leave(s)
    /\ UNCHANGED <<remote, clones, files, newest>>

DataForcedNone(s) ==   \* mutant: the latest version is set to None
    /\ pc = "data" /\ current = s /\ force
    /\ Leave(s)
    /\ \E c \in {"none", "broken"} :
          IF s \in Subversion THEN UNCHANGED clones ELSE SetClone(s, c)
    /\ newest' = [newest EXCEPT ![s] = None]
    /\ UNCHANGED <<remote, files>>

\* With --force the clone is deleted, if that works, and the next run collects
\* all versions.
DataForced(s) ==
    /\ pc = "data" /\ current = s /\ force
    /\ Leave(s)
    /\ \E c \in {"none", "broken"} :
          IF s \in Subversion THEN UNCHANGED clones ELSE SetClone(s, c)
    /\ newest' = [newest EXCEPT ![s] = 0]
    /\ UNCHANGED <<remote, files>>

GetLatestVersion(s, v) ==
    /\ pc = "latest" /\ current = s
    /\ Leave(s)
    /\ newest' = [newest EXCEPT ![s] = v]
    /\ UNCHANGED <<remote, clones, files>>

\* rev-parse of the branch in the clone
GetGitLatest(s) == s \notin Subversion /\ GetLatestVersion(s, at[s])

\* svn info of the root of the repository, which is asked again
GetSubversionLatest(s) == s \in Subversion /\ GetLatestVersion(s, head[s])

\* The versions stay in the table.
LatestFails(s) ==
    /\ s \notin Subversion
    /\ pc = "latest" /\ current = s
    /\ Leave(s)
    /\ newest' = [newest EXCEPT ![s] = IF force THEN 0 ELSE @]
    /\ UNCHANGED <<remote, clones, files>>

-----------------------------------------------------------------------------
\* What the process had in memory is gone.
Stop ==
    /\ pc' = "idle" /\ force' = FALSE /\ todo' = {} /\ current' = None
    /\ newest' = [s \in Sources |-> 0]
    /\ versions' = [s \in Sources |-> {}]

Export ==
    /\ pc = "loop" /\ todo = {}
    /\ collected' = [s \in Sources |-> collected[s] \cup versions[s]]
    /\ latest' = newest
    /\ Stop
    /\ UNCHANGED <<remote, clones>>

\* Another exception, a killed process, or an export that is lost later on.  A
\* directory that git or rmtree was working on may be broken.
Abort ==
    /\ pc # "idle"
    /\ Stop
    /\ \/ UNCHANGED clones
       \/ /\ current \notin Subversion
          /\ pc = "source" \/ (pc = "data" /\ force)
          /\ SetClone(current, "broken")
    /\ UNCHANGED <<remote, files>>

Change(s) == Push(s) \/ Rewrite(s) \/ Elsewhere(s)

FromSource(s) ==
    \/ Connect(s) \/ Clone(s) \/ CloneFails(s) \/ PullEmpty(s) \/ Pull(s)
    \/ PullRaises(s) \/ PullForced(s) \/ CleanupFails(s)

ProcessRepo(s) ==
    \/ GetGitVersions(s) \/ GetSubversionLog(s) \/ DataRaises(s) \/ DataForced(s)
    \/ GetGitLatest(s) \/ GetSubversionLatest(s) \/ LatestFails(s)

Gather(s) ==
    \/ SkipUpToDate(s) \/ RetrieveNew(s) \/ CheckFails(s)
    \/ FromSource(s)
    \/ SkipEmpty(s) \/ InfoFails(s) \/ Process(s)
    \/ ProcessRepo(s)

Step == (\E s \in Sources : Gather(s)) \/ Export

Next ==
    \/ \E s \in Sources : Change(s)
    \/ \E f \in BOOLEAN : Start(f)
    \/ Step \/ Abort

Spec == Init /\ [][Next]_vars

-----------------------------------------------------------------------------
\* Steps with a source and a disk that work: what fails has to fail.
Smooth(s) ==
    \/ SkipUpToDate(s) \/ RetrieveNew(s)
    \/ Connect(s) \/ Clone(s) \/ PullEmpty(s) \/ Pull(s)
    \/ ~CanPull(s) /\ (PullRaises(s) \/ PullForced(s))
    \/ SkipEmpty(s) \/ Process(s)
    \/ GetGitVersions(s) \/ GetSubversionLog(s) \/ GetGitLatest(s) \/ GetSubversionLatest(s)
    \/ /\ s \notin Subversion /\ ~KnowsLatest(s)
       /\ DataRaises(s) \/ (DataForced(s) /\ clone'[s] = "none")

NoTrouble ==
    \/ \E s \in Sources : Change(s) \/ Smooth(s)
    \/ \E f \in BOOLEAN : Start(f)
    \/ Export

\* Runs go on, those with --force are started again and again (by run.sh; the
\* others are those of jenkins.sh), and trouble stops at some time.
FairSpec == Spec /\ WF_vars(Step) /\ SF_vars(Start(TRUE)) /\ <>[][NoTrouble]_vars

(***************************************************************************)
(* Properties                                                              *)
(***************************************************************************)
\* The next run asks for versions after the latest one: those before it have
\* been collected, whatever failed and however the clone was made.
NoCommitIsSkipped ==
    \A s \in Sources : {v \in history[s] : v <= latest[s]} \subseteq collected[s]

\* "The latest_version is an identifier of the version that has been collected
\* previously" (version_control/repo.py:134).  Not so for Subversion, of which it
\* may be a revision outside trunk.
LatestIsCollected ==
    \A s \in Sources \ Subversion : latest[s] # 0 => latest[s] \in collected[s]

\* A clone that was made when the repository had no versions.
EmptyClone(s) == clone[s] = "good" /\ local[s] = {}

\* A version that stays on the branch is collected at some time once trouble
\* stops, also after a forced push, with a broken clone or from a clone that
\* does not know the latest version.  Not so for clones that were empty, which
\* are never updated, and not always when master is another branch.
EveryVersionIsCollected ==
    \A s \in Sources \ Renamed : \A v \in Version :
        v \in history[s] ~>
            \/ v \in collected[s] \/ v \notin history[s] \/ EmptyClone(s)

\* Also without --force, from_source "returns a Git_Repository object with a
\* cloned and up-to-date repository, even if the repository already existed
\* beforehand" (git/repo.py:202-203).
SourceIsUpToDate ==
    \A s \in Sources \ Subversion :
        pc = "sourced" /\ current = s /\ ~force =>
            clone[s] = "good" /\ local[s] = history[s]

(***************************************************************************)
(* The inductive invariant.  It holds when a Subversion repository does    *)
(* not change between its log and its latest version, and when no          *)
(* repository has more versions than a run collects.                       *)
(***************************************************************************)
SubversionIsQuiet == Subversion \subseteq Quiet
NothingIsLimited == MaxVersion <= MaxSize /\ MaxVersion <= SubversionLimit

HeadIsNewest ==
    \A s \in Sources :
        /\ \A v \in history[s] : v <= head[s]
        /\ head[s] <= made[s]
        /\ s \notin Subversion /\ head[s] # 0 => head[s] \in history[s]

\* A clone has every version of the source up to its own newest one.
CloneIsOld ==
    \A s \in Sources :
        /\ \A v \in local[s] : v <= at[s]
        /\ at[s] <= made[s]
        /\ s \notin Subversion /\ at[s] # 0 => at[s] \in local[s]
        /\ clone[s] = "good" => {v \in history[s] : v <= at[s]} \subseteq local[s]

LatestIsOld == \A s \in Sources : latest[s] <= made[s] /\ newest[s] <= made[s]

\* What the run is going to write is as sound as what has been written.
NewestIsSound ==
    \A s \in Sources :
        /\ {v \in history[s] : v <= newest[s]} \subseteq collected[s] \cup versions[s]
        /\ s \notin Subversion /\ newest[s] # 0 => newest[s] \in collected[s] \cup versions[s]

DataHasClone ==
    \A s \in Sources \ Subversion :
        pc \in {"data", "latest"} /\ current = s => clone[s] = "good"

\* Between the versions and the latest version of a repository.
ReadIsComplete ==
    \A s \in Sources : pc = "latest" /\ current = s =>
        IF s \in Subversion
        THEN {v \in history[s] : v >= newest[s]} \subseteq versions[s]
        ELSE /\ {v \in local[s] : v > newest[s]} \subseteq versions[s]
             /\ newest[s] # 0 => newest[s] <= at[s]

IInv ==
    /\ TypeOK /\ HeadIsNewest /\ CloneIsOld /\ LatestIsOld /\ NewestIsSound
    /\ DataHasClone /\ ReadIsComplete /\ NoCommitIsSkipped /\ LatestIsCollected

=============================================================================
