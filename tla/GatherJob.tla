------------------------------ MODULE GatherJob ------------------------------
(***************************************************************************)
(* scraper/jenkins.sh, the job that gathers the data of all projects at    *)
(* one place and imports it, with the files that it keeps in its workspace *)
(* between runs: retrieve_dropins.py, which fetches what was archived of a *)
(* project, retrieve_update_trackers.py and update.py, which get the       *)
(* trackers of the database, and the importer, which has its own source.   *)
(*                                                                         *)
(* The data of a script is the set of the versions of a project.  A script *)
(* has one export file and at most one update file, whose contents is the  *)
(* version that it continues from; a dropin has both, up to a version.     *)
(***************************************************************************)
EXTENDS Naturals, Sequences, FiniteSets, FiniteSetsExt

CONSTANTS
    Jobs,         \* what a job is for: [projects, scripts, tasks, versions]. The
                  \* tasks are choices of importerTasks, each as the scripts whose
                  \* data it has imported, with "update" for the trackers; {} is
                  \* "skip". Bound: the number of versions of a project
    Updated,      \* those with an update file
    Always,       \* those with always_use_dropin
    MaxJobs       \* bound, and the clock of the files

ASSUME GatherJobAssumption ==
    /\ Jobs \subseteq [projects : Seq(STRING), scripts : Seq(STRING),
                      tasks : SUBSET SUBSET STRING, versions : Nat]
    \* A job has projects, and the calls of export_handler are for a script each.
    /\ \A j \in Jobs : j.projects # <<>> /\ j.scripts # <<>> /\ IsInjective(j.scripts)
    /\ Updated \in SUBSET STRING /\ Always \in SUBSET STRING
    /\ MaxJobs \in Nat

JobProjects == UNION {Range(j.projects) : j \in Jobs}
Scripts == UNION {Range(j.scripts) : j \in Jobs}
Outputs == JobProjects \X Scripts

NoTracker == [version |-> 0, at |-> 0]

VARIABLES
    lists,        \* listOfProjects, and the scripts export_handler is called for
    latest,       \* per project the latest version at its sources
    archived,     \* per project and script the version of the remote dropin, or 0
    inDatabase,   \* per project and script the versions in the database
    tracked,      \* ... and update_tracker of the database
    exportFiles,  \* ... and the export file of the workspace
    updateFiles,  \* ... and the update file of the workspace
    pcJob,        \* "idle", "dropins", "export", "trackers", "run" or "import"
    projectAt,    \* index of currentProject
    scriptAt,     \* index of the script
    selected,     \* gathererScripts
    tasks,        \* importerTasks
    ran,          \* runScripts, whose update files are restoreFiles
    dropins,      \* the fetched dropins of currentProject
    jobs,         \* number of the job
    unrestored,   \* history: outputs whose update file a job left behind, although
                  \* it did not import what comes before it
    skipped       \* history: outputs of which such a file went to the database

sources == <<lists, latest, archived>>
database == <<inDatabase, tracked>>
workspace == <<exportFiles, updateFiles>>
loop == <<projectAt, scriptAt, selected, tasks, ran, dropins, jobs>>
history == <<unrestored, skipped>>
gatherVars == <<sources, database, workspace, loop, pcJob, history>>

currentProject == lists.projects[projectAt]
thisScript == lists.scripts[scriptAt]
ListedOutputs == Range(lists.projects) \X Range(lists.scripts)
this == <<currentProject, thisScript>>
restoreFiles == ran \cap Updated
WrittenNow == {ps \in Outputs : ps[1] = currentProject /\ updateFiles[ps].at = jobs}
Restored == {ps \in Outputs : ps[1] = currentProject /\ ps[2] \in restoreFiles}

GatherInit ==
    /\ lists \in Jobs
    /\ latest = [p \in JobProjects |-> 0] /\ archived = [ps \in Outputs |-> 0]
    /\ inDatabase = [ps \in Outputs |-> {}] /\ tracked = [ps \in Outputs |-> NoTracker]
    /\ exportFiles = [ps \in Outputs |-> {}] /\ updateFiles = [ps \in Outputs |-> NoTracker]
    /\ pcJob = "idle" /\ projectAt = 1 /\ scriptAt = 1 /\ selected = {} /\ tasks = {}
    /\ ran = {} /\ dropins = [s \in Scripts |-> 0] /\ jobs = 0
    /\ unrestored = {} /\ skipped = {}

-----------------------------------------------------------------------------
(***************************************************************************)
(* Around the job                                                          *)
(***************************************************************************)
NewVersion(p) ==
    /\ p \in Range(lists.projects) /\ latest[p] < lists.versions
    /\ latest' = [latest EXCEPT ![p] = @ + 1]
    /\ UNCHANGED <<lists, archived, database, workspace, loop, pcJob, history>>

Archive(ps, v) ==
    /\ ps \in ListedOutputs /\ pcJob = "idle" /\ v # archived[ps]
    /\ archived' = [archived EXCEPT ![ps] = v]
    /\ UNCHANGED <<lists, latest, database, workspace, loop, pcJob, history>>

\* An agent of the project has continued from the tracker of the database.
AgentImports(ps) ==
    /\ ps \in ListedOutputs /\ pcJob = "idle" /\ ps[2] \in Updated
    /\ inDatabase' = [inDatabase EXCEPT ![ps] = @ \cup (tracked[ps].version + 1)..latest[ps[1]]]
    /\ tracked' = [tracked EXCEPT ![ps] = [version |-> latest[ps[1]], at |-> jobs]]
    /\ UNCHANGED <<sources, workspace, loop, pcJob, history>>

-----------------------------------------------------------------------------
(***************************************************************************)
(* The job                                                                 *)
(***************************************************************************)
StartJob(scripts, imports) ==
    /\ pcJob = "idle" /\ jobs < MaxJobs /\ scripts \subseteq Range(lists.scripts)
    /\ jobs' = jobs + 1 /\ selected' = scripts /\ tasks' = imports
    /\ projectAt' = 1 /\ scriptAt' = 1 /\ ran' = {}
    /\ pcJob' = "dropins"
    /\ UNCHANGED <<sources, database, workspace, dropins, history>>

ErrorHandlerKeeps == updateFiles   \* mutant: an error handler that keeps the update files

\* error_handler: the update files of the scripts that were run, of this project
ErrorHandler ==
    [ps \in Outputs |-> IF ps \in Restored THEN NoTracker ELSE updateFiles[ps]]

\* status_handler, after which the shell ends by its -e. What remains of the
\* dropins is removed when they are fetched again.
Fails ==
    /\ pcJob \in {"dropins", "trackers", "run"} /\ pcJob' = "idle"
    /\ updateFiles' = ErrorHandler
    /\ unrestored' = (unrestored \cup WrittenNow) \ Restored
    /\ UNCHANGED <<sources, database, exportFiles, loop, skipped>>

FetchDropins ==   \* retrieve_dropins.py
    /\ pcJob = "dropins"
    /\ dropins' = [s \in Scripts |-> archived[currentProject, s]]
    /\ pcJob' = "export"
    /\ UNCHANGED <<sources, database, workspace, projectAt, scriptAt, selected, tasks, ran, jobs, history>>

NextScript ==
    IF scriptAt = Len(lists.scripts)
    THEN scriptAt' = 1 /\ pcJob' = "import"
    ELSE scriptAt' = scriptAt + 1 /\ pcJob' = "export"

\* export_handler of a script that is not to be run
Skip ==
    /\ pcJob = "export" /\ thisScript \notin selected
    /\ exportFiles' = [exportFiles EXCEPT ![this] = {}]
    /\ updateFiles' = [updateFiles EXCEPT ![this] = NoTracker]
    /\ unrestored' = unrestored \ {this}
    /\ NextScript
    /\ UNCHANGED <<sources, database, projectAt, selected, tasks, ran, dropins, jobs, skipped>>

\* cmp of the update file of the dropin with that of the workspace
SameUpdate == dropins[thisScript] > 0 /\ dropins[thisScript] = updateFiles[this].version

\* The dropin is used if its update file differs, or always; otherwise the
\* export file is "[]". Without update files they are never found different.
UseDropin == thisScript \in Always \/ (thisScript \in Updated /\ ~SameUpdate)

Dropin ==
    /\ pcJob = "export" /\ thisScript \in selected /\ dropins[thisScript] > 0
    /\ updateFiles' = IF thisScript \notin Updated \/ SameUpdate THEN updateFiles
                      ELSE [updateFiles EXCEPT ![this] = [version |-> dropins[thisScript], at |-> jobs]]
    /\ exportFiles' = [exportFiles EXCEPT ![this] = IF UseDropin THEN 1..dropins[thisScript] ELSE {}]
    /\ NextScript
    /\ UNCHANGED <<sources, database, projectAt, selected, tasks, ran, dropins, jobs, history>>

NoDropin ==
    /\ pcJob = "export" /\ thisScript \in selected /\ dropins[thisScript] = 0
    /\ ran' = ran \cup {thisScript}
    /\ pcJob' = IF thisScript \in Updated THEN "trackers" ELSE "run"
    /\ UNCHANGED <<sources, database, workspace, projectAt, scriptAt, selected, tasks, dropins, jobs, history>>

FromDatabase == tracked[this] # NoTracker   \* Database_Tracker.retrieve

\* update_file: a local file that is as new stays.
StaysLocal == ~FromDatabase \/ updateFiles[this].at >= tracked[this].at

RetrieveTrackers ==
    /\ pcJob = "trackers" /\ pcJob' = "run"
    /\ IF StaysLocal THEN UNCHANGED <<updateFiles, unrestored>>
       ELSE /\ updateFiles' = [updateFiles EXCEPT ![this] = tracked[this]]
            /\ unrestored' = unrestored \ {this}
    /\ UNCHANGED <<sources, database, exportFiles, loop, skipped>>

\* The script exports what came after its update file, and brings that up to date.
RunScript ==
    /\ pcJob = "run"
    /\ LET head == latest[currentProject]
       IN  /\ exportFiles' = [exportFiles EXCEPT ![this] = (updateFiles[this].version + 1)..head]
           /\ updateFiles' = IF thisScript \notin Updated THEN updateFiles
                             ELSE [updateFiles EXCEPT ![this] = [version |-> head, at |-> jobs]]
    /\ NextScript
    /\ UNCHANGED <<sources, database, projectAt, selected, tasks, ran, dropins, jobs, history>>

\* Of import_handler: the data of the export files, for some of the tasks
ImportedData(done) ==
    [ps \in Outputs |-> inDatabase[ps] \cup
        IF ps[1] = currentProject /\ ps[2] \in done THEN exportFiles[ps] ELSE {}]

\* ... and the trackers of importer.update, whatever wrote the update files
ImportedTrackers ==
    [ps \in Outputs |-> IF ps \in Restored THEN updateFiles[ps] ELSE tracked[ps]]

\* Nothing is imported when importerTasks is "skip".
Import ==
    /\ pcJob = "import"
    /\ inDatabase' = ImportedData(tasks)
    /\ unrestored' = unrestored \cup {ps \in WrittenNow : ps[2] \notin tasks}
    /\ IF "update" \in tasks
       THEN tracked' = ImportedTrackers /\ skipped' = skipped \cup (unrestored' \cap Restored)
       ELSE UNCHANGED <<tracked, skipped>>
    /\ IF projectAt = Len(lists.projects)
       THEN UNCHANGED projectAt /\ pcJob' = "idle"
       ELSE projectAt' = projectAt + 1 /\ pcJob' = "dropins"
    /\ UNCHANGED <<sources, workspace, scriptAt, selected, tasks, ran, dropins, jobs>>

\* The importer does its tasks for the data before that for the trackers.
DoesSomeTasks == \E done \in SUBSET (tasks \ {"update"}) : inDatabase' = ImportedData(done)

ImporterFails ==
    /\ pcJob = "import" /\ pcJob' = "idle" /\ tasks # {}
    /\ DoesSomeTasks
    /\ updateFiles' = ErrorHandler
    /\ unrestored' = (unrestored \cup WrittenNow) \ Restored
    /\ UNCHANGED <<sources, tracked, exportFiles, loop, skipped>>

\* A command that is not called through status_handler ends the shell by its -e
\* (mkdir, list-files.sh, cp), or somebody kills the job.
Dies ==
    /\ pcJob # "idle" /\ pcJob' = "idle"
    /\ IF pcJob = "import" THEN DoesSomeTasks ELSE UNCHANGED inDatabase
    /\ unrestored' = unrestored \cup WrittenNow
    /\ UNCHANGED <<sources, tracked, workspace, loop, skipped>>

GatherNext ==
    \/ \E p \in JobProjects : NewVersion(p)
    \/ \E ps \in Outputs : \E v \in 0..latest[ps[1]] : Archive(ps, v)
    \/ \E ps \in Outputs : AgentImports(ps)
    \/ \E scripts \in SUBSET Scripts, imports \in lists.tasks : StartJob(scripts, imports)
    \/ Fails \/ Dies \/ FetchDropins \/ Skip \/ Dropin \/ NoDropin
    \/ RetrieveTrackers \/ RunScript \/ Import \/ ImporterFails

GatherSpec == GatherInit /\ [][GatherNext]_gatherVars

-----------------------------------------------------------------------------
(***************************************************************************)
(* Properties                                                              *)
(***************************************************************************)
Complete(ps, v) == 1..v \subseteq inDatabase[ps]

\* Between two jobs, a tracker, in the database or in the workspace, is never
\* past a version that was not imported, whichever of the scripts, the fetches
\* and the imports failed: what the next job continues from has been imported.
\* The exceptions are what this job itself wrote and did not import, because
\* importerTasks leaves it out, because the shell died without error_handler, or
\* because error_handler does not know of a dropin.  Such a file is trusted until
\* it is removed or something newer replaces it, and for good once the importer
\* has put it into the database.
NothingIsSkipped ==
    pcJob = "idle" => \A ps \in Outputs \ skipped :
        /\ Complete(ps, tracked[ps].version)
        /\ ps \notin unrestored => Complete(ps, updateFiles[ps].version)
=============================================================================
