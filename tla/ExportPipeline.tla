--------------------------- MODULE ExportPipeline ---------------------------
(***************************************************************************)
(* The way of collected data from an agent into the database.              *)
(*                                                                         *)
(* Per project one agent repeats scraper/agent/run.sh: it fetches the      *)
(* update tracker that the controller has put in its home directory,       *)
(* collects everything that is newer, uploads a data file and the new      *)
(* tracker file over SCP, and POSTs auth/export.py.  That starts a process *)
(* controller/export.sh, which copies the files to the controller          *)
(* directory, waits until no other import runs, imports data and then      *)
(* tracker by scraper/jenkins.sh, hands the tracker back to the agent and  *)
(* cleans up.  export.py answers when the process has ended, but an agent  *)
(* that is not Patient (a gateway time-out) does not see this and may      *)
(* start its next run while the export goes on.                            *)
(*                                                                         *)
(* A source has versions 1..head; a data file is the set of versions in    *)
(* it, a tracker file the newest version seen (0: there is no such file).  *)
(***************************************************************************)
EXTENDS Naturals, FiniteSets

CONSTANTS
    Projects,    \* project keys, each with an agent of its own
    Exports,     \* processes of export.sh that can exist at the same time
    MaxVersion,  \* bound: newest version of a source
    None,        \* no process, no project
    Patient,     \* TRUE: agents wait for the answer of export.py
    Skipping     \* projects whose runs have preflight option --skip

ASSUME PipelineConstants ==
    /\ MaxVersion \in Nat
    /\ Patient \in BOOLEAN
    /\ Skipping \subseteq Projects
    /\ None \notin Projects \cup Exports

VARIABLES
    head,      \* newest version at the sources of a project
    imported,  \* versions of a project in the database
    tracker,   \* update tracker of a project in the database
    agentDir,  \* files in the export directory of the agent, on the controller
    update,    \* tracker file in the update directory of the agent
    workDir,   \* files in the export directory of the controller
    cl,        \* where the run of a project is
    got,       \* what the run of a project has fetched or collected
    waitsFor,  \* the export process whose end answers the run
    ex,        \* where an export process is
    exFor,     \* the project of an export process
    copied,    \* the versions that an export process took from the agent
    failed,    \* export processes whose copy or import failed
    undone,    \* export processes whose import died before its data was in
    offered,   \* history: what the tracker in the update directory of the agent
               \* goes past, although the import of these versions died
    dropped    \* history: the versions that a run has been led past by such a
               \* tracker, or by one whose data got lost while it was copied

client    == <<cl, got, waitsFor>>
export    == <<ex, exFor, copied, failed, undone>>
db        == <<imported, tracker, dropped>>
updateDir == <<update, offered>>
vars      == <<head, db, agentDir, updateDir, workDir, client, export>>

Versions == 1..MaxVersion

\* What the history variables of the exports keep (copied, failed, undone, offered,
\* dropped): they are there for the properties of agents that wait for the answer,
\* and no step depends on them.
Noted(things) == IF Patient THEN things ELSE {}
Files == [data : SUBSET Versions, tracker : 0..MaxVersion]
NoFiles == [data |-> {}, tracker |-> 0]

ClientPlaces == {"idle", "preflight", "fetch", "collect", "uploadData",
                 "uploadTracker", "post", "waiting"}
Importing == {"importData", "importTracker"}
ExportPlaces == {"idle", "copy", "clear", "check", "wait", "start", "clearUpdate",
                 "pushTracker", "cleanup", "done"} \cup Importing

Init ==
    /\ head = [p \in Projects |-> 0]
    /\ imported = [p \in Projects |-> {}]
    /\ tracker = [p \in Projects |-> 0]
    /\ agentDir = [p \in Projects |-> NoFiles]
    /\ update = [p \in Projects |-> 0]
    /\ workDir = [p \in Projects |-> NoFiles]
    /\ cl = [p \in Projects |-> "idle"]
    /\ got = [p \in Projects |-> NoFiles]
    /\ waitsFor = [p \in Projects |-> None]
    /\ ex = [e \in Exports |-> "idle"]
    /\ exFor = [e \in Exports |-> None]
    /\ copied = [e \in Exports |-> {}]
    /\ failed = {}
    /\ undone = {}
    /\ offered = [p \in Projects |-> {}]
    /\ dropped = [p \in Projects |-> {}]

\* External: somebody works on the project.
Commit(p) ==
    /\ head[p] < MaxVersion
    /\ head' = [head EXCEPT ![p] = @ + 1]
    /\ UNCHANGED <<db, agentDir, updateDir, workDir, client, export>>

(***************************************************************************)
(* The agent                                                               *)
(***************************************************************************)
ClientStep(p, from, to) ==
    /\ cl[p] = from
    /\ cl' = [cl EXCEPT ![p] = to]
    /\ UNCHANGED <<head, db, workDir, export>>

\* The request to agent.py replaces the directories of the agent and puts the
\* tracker of the database there; see AgentProvisioning for its steps.
Provision(p) ==
    /\ ClientStep(p, "idle", "preflight")
    /\ agentDir' = [agentDir EXCEPT ![p] = NoFiles]
    /\ update' = [update EXCEPT ![p] = tracker[p]]
    /\ offered' = [offered EXCEPT ![p] = {}]
    /\ UNCHANGED <<got, waitsFor>>

\* The request fails before it changes anything: the run goes on regardless.
ProvisionRefused(p) ==
    /\ ClientStep(p, "idle", "preflight")
    /\ UNCHANGED <<agentDir, updateDir, got, waitsFor>>

\* The request fails half-way: the directories are empty and no login works.
ProvisionBreaks(p) ==
    /\ ClientStep(p, "idle", "idle")
    /\ agentDir' = [agentDir EXCEPT ![p] = NoFiles]
    /\ update' = [update EXCEPT ![p] = 0]
    /\ offered' = [offered EXCEPT ![p] = {}]
    /\ UNCHANGED <<got, waitsFor>>

\* preflight.py: a run does not start during an import, unless it skips this.
Preflight(p) ==
    /\ ClientStep(p, "preflight", "fetch")
    /\ p \in Skipping \/ \A e \in Exports : ex[e] \notin Importing
    /\ UNCHANGED <<agentDir, updateDir, got, waitsFor>>

\* retrieve_update_trackers.py: the local trackers were removed, and a missing
\* remote one means that everything is collected.
Fetch(p) ==
    /\ cl[p] = "fetch"
    /\ cl' = [cl EXCEPT ![p] = "collect"]
    /\ got' = [got EXCEPT ![p] = [data |-> {}, tracker |-> update[p]]]
    /\ dropped' = [dropped EXCEPT ![p] = @ \cup offered[p]]
    /\ UNCHANGED <<head, imported, tracker, agentDir, updateDir, workDir, waitsFor, export>>

CollectNext(p) ==   \* mutant: the tracker is the first version of the next batch
    /\ ClientStep(p, "collect", "uploadData")
    /\ got' = [got EXCEPT ![p] = [data |-> (@.tracker + 1)..head[p],
                                  tracker |-> head[p] + 1]]
    /\ UNCHANGED <<agentDir, updateDir, waitsFor>>

\* The gathering scripts collect everything after the tracker.
Collect(p) ==
    /\ ClientStep(p, "collect", "uploadData")
    /\ got' = [got EXCEPT ![p] = [data |-> (@.tracker + 1)..head[p],
                                  tracker |-> head[p]]]
    /\ UNCHANGED <<agentDir, updateDir, waitsFor>>

\* export_files.py: one scp for the data files, followed by the trackers.
UploadData(p) ==
    /\ ClientStep(p, "uploadData", "uploadTracker")
    /\ agentDir' = [agentDir EXCEPT ![p].data = got[p].data]
    /\ UNCHANGED <<updateDir, got, waitsFor>>

UploadTracker(p) ==
    /\ ClientStep(p, "uploadTracker", "post")
    /\ agentDir' = [agentDir EXCEPT ![p].tracker = got[p].tracker]
    /\ UNCHANGED <<updateDir, got, waitsFor>>

\* A check, a script or an upload fails and ends the run.
StopRun(p) ==
    /\ \E from \in ClientPlaces \ {"idle", "waiting"} : ClientStep(p, from, "idle")
    /\ UNCHANGED <<agentDir, updateDir, got, waitsFor>>

\* POST export.py: the exporter daemon starts a process for the upload.
Post(p) ==
    /\ cl[p] = "post"
    /\ cl' = [cl EXCEPT ![p] = "waiting"]
    /\ \E e \in Exports :
          /\ ex[e] = "idle"
          /\ ex' = [ex EXCEPT ![e] = "copy"]
          /\ exFor' = [exFor EXCEPT ![e] = p]
          /\ waitsFor' = [waitsFor EXCEPT ![p] = e]
    /\ UNCHANGED <<head, db, agentDir, updateDir, workDir, got, copied, failed, undone>>

Answered(p) ==
    /\ cl[p] = "waiting"
    /\ ex[waitsFor[p]] = "done"
    /\ cl' = [cl EXCEPT ![p] = "idle"]
    /\ ex' = [ex EXCEPT ![waitsFor[p]] = "idle"]
    /\ waitsFor' = [waitsFor EXCEPT ![p] = None]
    /\ UNCHANGED <<head, db, agentDir, updateDir, workDir, got, exFor, copied, failed, undone>>

\* The connection is closed before the export has ended.
GiveUp(p) ==
    /\ ~Patient
    /\ ClientStep(p, "waiting", "idle")
    /\ waitsFor' = [waitsFor EXCEPT ![p] = None]
    /\ UNCHANGED <<agentDir, updateDir, got>>

(***************************************************************************)
(* export.sh, perform_export                                               *)
(***************************************************************************)
ExportStep(e, from, to) ==
    /\ ex[e] = from
    /\ ex' = [ex EXCEPT ![e] = to]
    /\ UNCHANGED <<head, client, exFor>>

Empty(files) == files = NoFiles

\* cp -r replaces the files that are there and keeps the others.
Merge(old, new) ==
    [data    |-> IF new.data = {} THEN old.data ELSE new.data,
     tracker |-> IF new.tracker = 0 THEN old.tracker ELSE new.tracker]

Copy(e) ==
    LET p == exFor[e] IN
    /\ ExportStep(e, "copy", "clear")
    /\ workDir' = [workDir EXCEPT ![p] = Merge(@, agentDir[p])]
    /\ copied' = [copied EXCEPT ![e] = Noted(agentDir[p].data)]
    /\ UNCHANGED <<db, agentDir, updateDir, failed, undone>>

\* cp reports an error for a file and goes on, and so does export.sh, which
\* removes the files of the agent next.
CopyFails(e) ==
    LET p == exFor[e] IN
    /\ ExportStep(e, "copy", "clear")
    /\ \E data \in {{}, agentDir[p].data}, n \in {0, agentDir[p].tracker} :
          /\ workDir' = [workDir EXCEPT ![p] = Merge(@, [data |-> data, tracker |-> n])]
          /\ dropped' = [dropped EXCEPT ![p] = IF n = 0 THEN @
                                              ELSE @ \cup Noted(agentDir[p].data \ data)]
    /\ copied' = [copied EXCEPT ![e] = Noted(agentDir[p].data)]
    /\ failed' = failed \cup Noted({e})
    /\ UNCHANGED <<imported, tracker, agentDir, updateDir, undone>>

Clear(e) ==
    /\ ExportStep(e, "clear", "check")
    /\ agentDir' = [agentDir EXCEPT ![exFor[e]] = NoFiles]
    /\ UNCHANGED <<db, updateDir, workDir, copied, failed, undone>>

CheckAgentDir(e) ==   \* mutant: looks into the directory that was cleared
    /\ ExportStep(e, "check", IF Empty(agentDir[exFor[e]]) THEN "cleanup" ELSE "wait")
    /\ UNCHANGED <<db, agentDir, updateDir, workDir, copied, failed, undone>>

\* "Skipping import of $project because export directory is empty"
Check(e) ==
    /\ ExportStep(e, "check", IF Empty(workDir[exFor[e]]) THEN "cleanup" ELSE "wait")
    /\ UNCHANGED <<db, agentDir, updateDir, workDir, copied, failed, undone>>

WaitForWaiting(e) ==   \* mutant: it also waits for the other waiting exports
    /\ ExportStep(e, "wait", "start")
    /\ \A f \in Exports \ {e} : ex[f] \notin Importing \cup {"wait"}
    /\ UNCHANGED <<db, agentDir, updateDir, workDir, copied, failed, undone>>

\* pgrep finds no jenkins.sh; only then the own one is started.
Wait(e) ==
    /\ ExportStep(e, "wait", "start")
    /\ \A f \in Exports : ex[f] \notin Importing
    /\ UNCHANGED <<db, agentDir, updateDir, workDir, copied, failed, undone>>

Start(e) ==
    /\ ExportStep(e, "start", "importData")
    /\ UNCHANGED <<db, agentDir, updateDir, workDir, copied, failed, undone>>

(***************************************************************************)
(* jenkins.sh with skipGather: one importer run with the tasks for the     *)
(* data and, later, "update" for the trackers                              *)
(***************************************************************************)
ImportTrackerFirst(e) ==   \* mutant: the update task comes before the data
    LET p == exFor[e] IN
    /\ ExportStep(e, "importData", "importTracker")
    /\ tracker' = [tracker EXCEPT ![p] = IF workDir[p].tracker = 0
                                         THEN @ ELSE workDir[p].tracker]
    /\ UNCHANGED <<imported, dropped, agentDir, updateDir, workDir, copied, failed, undone>>

ImportData(e) ==
    LET p == exFor[e] IN
    /\ ExportStep(e, "importData", "importTracker")
    /\ imported' = [imported EXCEPT ![p] = @ \cup workDir[p].data]
    /\ UNCHANGED <<tracker, dropped, agentDir, updateDir, workDir, copied, failed, undone>>

ImportTracker(e) ==
    LET p == exFor[e] IN
    /\ ExportStep(e, "importTracker", "clearUpdate")
    /\ tracker' = [tracker EXCEPT ![p] = IF workDir[p].tracker = 0
                                         THEN @ ELSE workDir[p].tracker]
    /\ UNCHANGED <<imported, dropped, agentDir, updateDir, workDir, copied, failed, undone>>

\* The tasks that the importer did before it failed are in the database.
ImportPart(e) ==
    LET p == exFor[e] IN
    /\ \E part \in IF ex[e] = "importData" THEN SUBSET workDir[p].data ELSE {{}} :
          imported' = [imported EXCEPT ![p] = @ \cup part]
    /\ failed' = failed \cup Noted({e})
    /\ UNCHANGED <<tracker, dropped, agentDir, updateDir, copied>>

\* status_handler sees a failure of the importer: error_handler removes the
\* restore files.  The exit status gets lost in the pipe to tee, so export.sh
\* takes the import for a success.
ImportFailsWithTracker(e) ==   \* mutant: the restore files stay
    /\ \E from \in Importing : ExportStep(e, from, "clearUpdate")
    /\ ImportPart(e)
    /\ UNCHANGED <<workDir, undone>>

ImportFails(e) ==
    /\ \E from \in Importing : ExportStep(e, from, "clearUpdate")
    /\ ImportPart(e)
    /\ workDir' = [workDir EXCEPT ![exFor[e]].tracker = 0]
    /\ UNCHANGED undone

\* A command without status_handler ends the shell, such as the one that
\* retrieves the importer, or somebody kills it: the restore files stay.
ImportDies(e) ==
    /\ \E from \in Importing : ExportStep(e, from, "clearUpdate")
    /\ ImportPart(e)
    /\ undone' = IF ex[e] = "importData" THEN undone \cup Noted({e}) ELSE undone
    /\ UNCHANGED workDir

ClearUpdate(e) ==
    /\ ExportStep(e, "clearUpdate", "pushTracker")
    /\ update' = [update EXCEPT ![exFor[e]] = 0]
    /\ offered' = [offered EXCEPT ![exFor[e]] = {}]
    /\ UNCHANGED <<db, agentDir, workDir, copied, failed, undone>>

\* The trackers that are left go back to the agent.
PushTracker(e) ==
    LET p == exFor[e] IN
    /\ ExportStep(e, "pushTracker", "cleanup")
    /\ update' = [update EXCEPT ![p] = IF workDir[p].tracker = 0
                                       THEN @ ELSE workDir[p].tracker]
    /\ offered' = [offered EXCEPT ![p] = IF workDir[p].tracker # 0 /\ e \in undone
                                         THEN workDir[p].data ELSE @]
    /\ UNCHANGED <<db, agentDir, workDir, copied, failed, undone>>

\* CLEANUP_EXPORT: the whole export directory of the controller goes.
Cleanup(e) ==
    /\ ex[e] = "cleanup"
    /\ ex' = [ex EXCEPT ![e] = IF \E p \in Projects : waitsFor[p] = e
                               THEN "done" ELSE "idle"]
    /\ workDir' = [workDir EXCEPT ![exFor[e]] = NoFiles]
    /\ exFor' = [exFor EXCEPT ![e] = None]
    /\ copied' = [copied EXCEPT ![e] = {}]
    /\ failed' = failed \ {e}
    /\ undone' = undone \ {e}
    /\ UNCHANGED <<head, db, agentDir, updateDir, client>>

\* The agent has stopped waiting for an export that ended just now.
Forget(e) ==
    /\ \A p \in Projects : waitsFor[p] # e
    /\ ExportStep(e, "done", "idle")
    /\ UNCHANGED <<db, agentDir, updateDir, workDir, copied, failed, undone>>

(***************************************************************************)
(* Specification                                                           *)
(***************************************************************************)
Run(p) ==
    \/ Provision(p) \/ ProvisionRefused(p) \/ ProvisionBreaks(p)
    \/ Preflight(p) \/ Fetch(p) \/ Collect(p)
    \/ UploadData(p) \/ UploadTracker(p) \/ StopRun(p)
    \/ Post(p) \/ Answered(p) \/ GiveUp(p)

PerformExport(e) ==
    \/ Copy(e) \/ CopyFails(e) \/ Clear(e) \/ Check(e) \/ Wait(e) \/ Start(e)
    \/ ImportData(e) \/ ImportTracker(e) \/ ImportFails(e) \/ ImportDies(e)
    \/ ClearUpdate(e) \/ PushTracker(e) \/ Cleanup(e) \/ Forget(e)

Next ==
    \/ \E p \in Projects : Commit(p) \/ Run(p)
    \/ \E e \in Exports : PerformExport(e)

Spec == Init /\ [][Next]_vars

\* A process of export.sh goes on by itself.  It looks for other imports every
\* now and then and is assumed to find a moment without one, if there are
\* such moments again and again.
FairSpec ==
    /\ Spec
    /\ \A e \in Exports : WF_vars(PerformExport(e)) /\ SF_vars(Wait(e))

(***************************************************************************)
(* Properties                                                              *)
(***************************************************************************)
TypeOK ==
    /\ head \in [Projects -> 0..MaxVersion]
    /\ imported \in [Projects -> SUBSET Versions]
    /\ tracker \in [Projects -> 0..MaxVersion]
    /\ agentDir \in [Projects -> Files]
    /\ update \in [Projects -> 0..MaxVersion]
    /\ workDir \in [Projects -> Files]
    /\ cl \in [Projects -> ClientPlaces]
    /\ got \in [Projects -> Files]
    /\ waitsFor \in [Projects -> Exports \cup {None}]
    /\ ex \in [Exports -> ExportPlaces]
    /\ exFor \in [Exports -> Projects \cup {None}]
    /\ copied \in [Exports -> SUBSET Versions]
    /\ failed \subseteq Exports
    /\ undone \subseteq Exports
    /\ offered \in [Projects -> SUBSET Versions]
    /\ dropped \in [Projects -> SUBSET Versions]

\* No version is left out of every batch, whichever requests, scripts, uploads
\* and imports fail: the tracker of the database has everything below it, and
\* so has the one that the agent collects from next.  The exceptions are precise:
\* the data of an import that died without error_handler, for as long as the
\* agent has the tracker that was pushed all the same, and for good once a run
\* has fetched it (no provisioning put the tracker of the database in its place);
\* and data that cp did not copy along with its tracker.
NoVersionIsSkipped ==
    \A p \in Projects :
        /\ 1..tracker[p] \subseteq imported[p] \cup dropped[p]
        /\ 1..update[p] \subseteq imported[p] \cup dropped[p] \cup offered[p]

\* export.py should "import the agent's scrape data into the database"
\* (doc/source/api.md:105): an export that ends without a failure has imported
\* what it took from the agent.
ExportImportsItsData ==
    \A e \in Exports : ex[e] = "cleanup" /\ e \notin failed =>
                          copied[e] \subseteq imported[exFor[e]]

\* No export waits for good, whatever the agents do meanwhile: exports that
\* wait for the imports of each other all end (export.sh polls with pgrep).
EveryExportEnds == \A e \in Exports : ex[e] = "copy" ~> ex[e] \in {"idle", "done"}

\* The pipeline implements the collection in batches.
Collection == INSTANCE IncrementalCollection
    WITH head <- head, imported <- imported, tracker <- tracker, dropped <- dropped
CollectsIncrementally == Collection!Spec

-----------------------------------------------------------------------------
(***************************************************************************)
(* The inductive invariant behind NoVersionIsSkipped, ExportImportsItsData *)
(* and CollectsIncrementally when agents are patient.                      *)
(***************************************************************************)
Active(e) == ex[e] \notin {"idle", "done"}
Taken    == {"clear", "check", "wait", "start", "importData"}
Imported == {"importTracker", "clearUpdate", "pushTracker"}

\* A run and the export that it waits for know each other.
ExportIsAwaited ==
    \A e \in Exports : Active(e) => exFor[e] \in Projects /\ waitsFor[exFor[e]] = e
RunAwaits ==
    \A p \in Projects :
        /\ waitsFor[p] # None <=> cl[p] = "waiting"
        /\ waitsFor[p] # None =>
              /\ ex[waitsFor[p]] # "idle"
              /\ Active(waitsFor[p]) => exFor[waitsFor[p]] = p
NoSharedExport ==
    \A p, q \in Projects : waitsFor[p] # None /\ waitsFor[p] = waitsFor[q] => p = q

\* Files that may be imported, data before tracker, at any time.
Sound(p, files) ==
    /\ 1..files.tracker \subseteq imported[p] \cup dropped[p] \cup files.data
    /\ files.tracker <= head[p] /\ files.data \subseteq 1..head[p]
    /\ files.tracker # 0 => tracker[p] <= files.tracker

TrackersExist == \A p \in Projects : tracker[p] <= head[p]
FetchedIsSound ==
    \A p \in Projects : cl[p] = "collect" =>
        1..got[p].tracker \subseteq imported[p] \cup dropped[p]
CollectedIsSound ==
    \A p \in Projects : cl[p] \in {"uploadData", "uploadTracker"} =>
        /\ Sound(p, got[p])
        /\ agentDir[p].tracker <= got[p].tracker
        /\ cl[p] = "uploadTracker" => agentDir[p].data = got[p].data
FilesAreSound ==
    \A p \in Projects : Sound(p, agentDir[p]) /\ Sound(p, workDir[p])
WorkDirIsClean ==
    \A p \in Projects :
        (\A e \in Exports : Active(e) /\ exFor[e] = p => ex[e] = "copy")
            => workDir[p] = NoFiles
ExportGoesOn ==
    \A e \in Exports : Active(e) =>
        LET p == exFor[e] IN
        /\ ex[e] \notin {"copy", "clear"} => agentDir[p] = NoFiles
        /\ ex[e] \in Taken /\ e \notin failed => copied[e] = workDir[p].data
        /\ ex[e] \in Imported /\ e \notin undone =>
              1..workDir[p].tracker \subseteq imported[p] \cup dropped[p]
        /\ ex[e] \in Imported \cup {"cleanup"} /\ e \notin failed =>
              copied[e] \subseteq imported[p]
UndoneIsOver == \A e \in undone : ex[e] \in {"clearUpdate", "pushTracker", "cleanup"}
OfferedExists == \A p \in Projects : offered[p] \cup dropped[p] \subseteq 1..head[p]

IInv ==
    /\ TypeOK
    /\ ExportIsAwaited /\ RunAwaits /\ NoSharedExport
    /\ TrackersExist /\ OfferedExists /\ NoVersionIsSkipped
    /\ FetchedIsSound /\ CollectedIsSound /\ FilesAreSound
    /\ WorkDirIsClean /\ ExportGoesOn /\ UndoneIsOver

=============================================================================
