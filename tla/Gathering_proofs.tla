--------------------------- MODULE Gathering_proofs ---------------------------
(***************************************************************************)
(* Theorems about what an agent gathers and exports.                       *)
(*                                                                         *)
(* ExportPipeline: types hold in any case; that no version is skipped,     *)
(* that exports import what they took, and that the pipeline implements    *)
(* the collection in batches, is shown for agents that wait for the answer *)
(* of export.py.                                                           *)
(*                                                                         *)
(* GatherJob, JenkinsArtifact, JiraLinks and Tables: the properties that   *)
(* are checked of them, for any jobs, builds, types of relations, and      *)
(* items and people, and for any number of steps.                          *)
(***************************************************************************)
EXTENDS ExportPipeline, GatherJob, JenkinsArtifact, JiraLinks, Tables,
        WellFoundedInduction, TLAPS

-----------------------------------------------------------------------------
(***************************************************************************)
(* Types                                                                   *)
(***************************************************************************)
ExportsHaveProject == \A e \in Exports : Active(e) => exFor[e] \in Projects
TypeInv == TypeOK /\ ExportsHaveProject

LEMMA Constants ==
    /\ MaxVersion \in Nat
    /\ None \notin Projects /\ None \notin Exports
    /\ NoFiles \in Files
BY PipelineConstants DEF PipelineConstants, NoFiles, Files, Versions

LEMMA FilesData ==
    ASSUME NEW files \in Files
    PROVE  files.data \subseteq 1..MaxVersion /\ files.tracker \in 0..MaxVersion
BY DEF Files, Versions

LEMMA ChangedTracker ==
    ASSUME NEW files \in Files
    PROVE  [files EXCEPT !.tracker = 0] \in Files
BY Constants DEF Files

LEMMA MergedFiles ==
    ASSUME NEW old \in Files, NEW new \in Files
    PROVE  Merge(old, new) \in Files
BY DEF Merge, Files

\* What the run of a project preserves.
LEMMA RunTypes ==
    ASSUME TypeInv, NEW p \in Projects, Run(p)
    PROVE  TypeInv'
<1> USE Constants DEF TypeInv, TypeOK, ExportsHaveProject, Active, ClientPlaces,
                      ExportPlaces, Importing
<1> DEFINE Step == \/ Provision(p) \/ ProvisionRefused(p) \/ ProvisionBreaks(p)
                   \/ Preflight(p) \/ Fetch(p) \/ Collect(p)
                   \/ UploadData(p) \/ UploadTracker(p) \/ StopRun(p) \/ GiveUp(p)
<1>1. CASE Provision(p) \/ ProvisionRefused(p) \/ ProvisionBreaks(p)
  BY <1>1 DEF Provision, ProvisionRefused, ProvisionBreaks, ClientStep, db, updateDir, export
<1>2. CASE Preflight(p) \/ StopRun(p) \/ GiveUp(p)
  BY <1>2 DEF Preflight, StopRun, GiveUp, ClientStep, db, updateDir, export
<1>3. CASE Fetch(p)
  <2>1. [data |-> {}, tracker |-> update[p]] \in Files
    BY DEF Files, Versions
  <2> QED BY <1>3, <2>1 DEF Fetch, updateDir, export
<1>4. CASE Collect(p)
  <2>1. got[p].tracker \in 0..MaxVersion
    BY FilesData
  <2>2. [data |-> (got[p].tracker + 1)..head[p], tracker |-> head[p]] \in Files
    BY <2>1 DEF Files, Versions
  <2> QED BY <1>4, <2>2 DEF Collect, ClientStep, db, updateDir, export
<1>5. CASE UploadData(p)
  <2>1. [agentDir[p] EXCEPT !.data = got[p].data] \in Files
    BY DEF Files, Versions
  <2> QED BY <1>5, <2>1 DEF UploadData, ClientStep, db, updateDir, export
<1>6. CASE UploadTracker(p)
  <2>1. [agentDir[p] EXCEPT !.tracker = got[p].tracker] \in Files
    BY DEF Files, Versions
  <2> QED BY <1>6, <2>1 DEF UploadTracker, ClientStep, db, updateDir, export
<1>7. CASE Post(p)
  BY <1>7 DEF Post, db, updateDir
<1>8. CASE Answered(p)
  BY <1>8 DEF Answered, db, updateDir
<1> QED BY <1>1, <1>2, <1>3, <1>4, <1>5, <1>6, <1>7, <1>8 DEF Run

\* What an export process preserves.
LEMMA ExportTypes ==
    ASSUME TypeInv, NEW e \in Exports, PerformExport(e)
    PROVE  TypeInv'
<1> USE Constants DEF TypeInv, TypeOK, ExportsHaveProject, Active, ClientPlaces,
                      ExportPlaces, Importing, Versions
<1>1. CASE Copy(e)
  <2>1. exFor[e] \in Projects
    BY <1>1 DEF Copy, Noted, ExportStep
  <2>2. Merge(workDir[exFor[e]], agentDir[exFor[e]]) \in Files
    BY <2>1, MergedFiles
  <2>3. agentDir[exFor[e]].data \in SUBSET (1..MaxVersion)
    BY <2>1, FilesData
  <2> QED BY <1>1, <2>1, <2>2, <2>3 DEF Copy, Noted, ExportStep, db, updateDir, client
<1>11. CASE CopyFails(e)
  <2>1. exFor[e] \in Projects
    BY <1>11 DEF CopyFails, ExportStep
  <2> DEFINE p == exFor[e]
  <2>2. PICK data \in {{}, agentDir[p].data}, n \in {0, agentDir[p].tracker} :
           /\ workDir' = [workDir EXCEPT ![p] = Merge(@, [data |-> data, tracker |-> n])]
           /\ dropped' = [dropped EXCEPT ![p] = IF n = 0 THEN @
                                               ELSE @ \cup Noted(agentDir[p].data \ data)]
    BY <1>11 DEF CopyFails
  <2>3. agentDir[p] \in Files
    BY <2>1
  <2>4. agentDir[p].data \subseteq 1..MaxVersion /\ agentDir[p].tracker \in 0..MaxVersion
    BY <2>3, FilesData
  <2>5. [data |-> data, tracker |-> n] \in Files
    BY <2>4 DEF Files
  <2>6. workDir' \in [Projects -> Files]
    BY <2>1, <2>2, <2>5, MergedFiles
  <2>7. dropped' \in [Projects -> SUBSET (1..MaxVersion)]
    BY <2>1, <2>2, <2>4 DEF Noted
  <2> QED BY <1>11, <2>1, <2>4, <2>6, <2>7 DEF CopyFails, Noted, ExportStep, updateDir, client
<1>2. CASE Clear(e)
  BY <1>2 DEF Clear, ExportStep, db, updateDir, client
<1>3. CASE Check(e) \/ Wait(e) \/ Start(e)
  BY <1>3 DEF Check, Wait, Start, ExportStep, db, updateDir, client
<1>4. CASE ImportData(e)
  <2>1. exFor[e] \in Projects
    BY <1>4 DEF ImportData, ExportStep
  <2>2. workDir[exFor[e]].data \subseteq 1..MaxVersion
    BY <2>1, FilesData
  <2> QED BY <1>4, <2>1, <2>2 DEF ImportData, ExportStep, updateDir, client
<1>5. CASE ImportTracker(e)
  <2>1. exFor[e] \in Projects
    BY <1>5 DEF ImportTracker, ExportStep
  <2>2. workDir[exFor[e]].tracker \in 0..MaxVersion
    BY <2>1, FilesData
  <2> QED BY <1>5, <2>1, <2>2 DEF ImportTracker, ExportStep, updateDir, client
<1>6. CASE ImportFails(e) \/ ImportDies(e)
  <2>1. exFor[e] \in Projects
    BY <1>6 DEF ImportFails, ImportDies, ExportStep
  <2>2. [workDir[exFor[e]] EXCEPT !.tracker = 0] \in Files
    BY <2>1, ChangedTracker
  <2>3. workDir' \in [Projects -> Files]
    BY <1>6, <2>1, <2>2 DEF ImportFails, ImportDies
  <2>4. /\ imported' \in [Projects -> SUBSET (1..MaxVersion)] /\ failed' \subseteq Exports
        /\ UNCHANGED <<tracker, dropped, agentDir, updateDir, copied>>
    <3>1. ImportPart(e)
      BY <1>6 DEF ImportFails, ImportDies
    <3>2. PICK part \in IF ex[e] = "importData" THEN SUBSET workDir[exFor[e]].data ELSE {{}} :
             imported' = [imported EXCEPT ![exFor[e]] = @ \cup part]
      BY <3>1 DEF ImportPart
    <3>3. part \subseteq 1..MaxVersion
      BY <2>1, <3>2, FilesData
    <3> QED BY <2>1, <3>1, <3>2, <3>3 DEF ImportPart, Noted
  <2>5. /\ ex' = [ex EXCEPT ![e] = "clearUpdate"] /\ undone' \subseteq Exports
        /\ UNCHANGED <<head, client, exFor>>
    BY <1>6 DEF ImportFails, ImportDies, ExportStep, Noted
  <2> QED BY <2>1, <2>3, <2>4, <2>5 DEF updateDir, client
<1>7. CASE ClearUpdate(e)
  BY <1>7 DEF ClearUpdate, ExportStep, db, updateDir, client
<1>8. CASE PushTracker(e)
  <2>1. exFor[e] \in Projects
    BY <1>8 DEF PushTracker, ExportStep
  <2>2. workDir[exFor[e]].tracker \in 0..MaxVersion
    BY <2>1, FilesData
  <2>3. workDir[exFor[e]].data \subseteq 1..MaxVersion
    BY <2>1, FilesData
  <2> QED BY <1>8, <2>1, <2>2, <2>3 DEF PushTracker, ExportStep, db, updateDir, client
<1>9. CASE Cleanup(e)
  BY <1>9 DEF Cleanup, db, updateDir, client
<1>10. CASE Forget(e)
  BY <1>10 DEF Forget, ExportStep, db, updateDir, client
<1> QED
  BY <1>1, <1>2, <1>3, <1>4, <1>5, <1>6, <1>7, <1>8, <1>9, <1>10, <1>11 DEF PerformExport

LEMMA TypeInit == Init => TypeInv
<1>1. SUFFICES ASSUME Init PROVE TypeInv
  OBVIOUS
<1>2. 0 \in 0..MaxVersion
  BY Constants
<1> QED
  BY <1>1, <1>2, Constants DEF Init, TypeInv, TypeOK, ExportsHaveProject, Active,
     ClientPlaces, ExportPlaces, Versions

LEMMA TypeStep == TypeInv /\ [Next]_vars => TypeInv'
<1> SUFFICES ASSUME TypeInv, [Next]_vars PROVE TypeInv'
  OBVIOUS
<1>1. CASE UNCHANGED vars
  BY <1>1 DEF TypeInv, TypeOK, ExportsHaveProject, Active, vars, db, updateDir, client, export
<1>2. ASSUME NEW p \in Projects, Commit(p) PROVE TypeInv'
  BY <1>2, Constants DEF Commit, TypeInv, TypeOK, ExportsHaveProject, Active, db,
     updateDir, client, export
<1>3. ASSUME NEW p \in Projects, Run(p) PROVE TypeInv'
  BY <1>3, RunTypes
<1>4. ASSUME NEW e \in Exports, PerformExport(e) PROVE TypeInv'
  BY <1>4, ExportTypes
<1> QED BY <1>1, <1>2, <1>3, <1>4 DEF Next

\* The variables of the pipeline stay in their domains, for any agents.
THEOREM TypeCorrect == Spec => []TypeOK
<1>1. Init => TypeInv BY TypeInit
<1>2. TypeInv /\ [Next]_vars => TypeInv' BY TypeStep
<1>3. TypeInv => TypeOK BY DEF TypeInv
<1> QED BY <1>1, <1>2, <1>3, PTL DEF Spec

-----------------------------------------------------------------------------
(***************************************************************************)
(* The inductive invariant                                                 *)
(***************************************************************************)
LEMMA InvTypes == IInv => TypeInv
BY DEF IInv, TypeInv, ExportsHaveProject, ExportIsAwaited

\* A project has at most one export, and its run waits for it.
LEMMA OneExport ==
    ASSUME IInv, NEW e \in Exports, Active(e)
    PROVE  /\ exFor[e] \in Projects
           /\ waitsFor[exFor[e]] = e
           /\ cl[exFor[e]] = "waiting"
           /\ \A f \in Exports : Active(f) /\ exFor[f] = exFor[e] => f = e
BY Constants DEF IInv, ExportIsAwaited, RunAwaits

\* A run that does not wait has no export, which leaves no files behind.
LEMMA NoExport ==
    ASSUME IInv, NEW p \in Projects, cl[p] # "waiting"
    PROVE  /\ \A e \in Exports : Active(e) => exFor[e] # p
           /\ waitsFor[p] = None
           /\ workDir[p] = NoFiles
BY Constants DEF IInv, ExportIsAwaited, RunAwaits, WorkDirIsClean

LEMMA InvInit == Init => IInv
<1> SUFFICES ASSUME Init PROVE IInv
  OBVIOUS
<1>1. TypeOK BY TypeInit DEF TypeInv
<1>2. 1..0 = {} OBVIOUS
<1>3. ExportIsAwaited /\ RunAwaits /\ NoSharedExport /\ ExportGoesOn
  BY Constants DEF Init, ExportIsAwaited, RunAwaits, NoSharedExport, ExportGoesOn, Active
<1>4. TrackersExist /\ OfferedExists /\ NoVersionIsSkipped /\ UndoneIsOver
  BY <1>2 DEF Init, TrackersExist, OfferedExists, NoVersionIsSkipped, UndoneIsOver
<1>5. FetchedIsSound /\ CollectedIsSound
  BY DEF Init, FetchedIsSound, CollectedIsSound
<1>6. FilesAreSound /\ WorkDirIsClean
  BY <1>2 DEF Init, FilesAreSound, WorkDirIsClean, Sound, NoFiles
<1> QED BY <1>1, <1>3, <1>4, <1>5, <1>6 DEF IInv

LEMMA CommitKeeps ==
    ASSUME IInv, NEW p \in Projects, Commit(p)
    PROVE  IInv'
<1> USE DEF IInv
<1>1. TypeOK'
  BY InvTypes, TypeStep DEF Next, TypeInv
<1>2. \A q \in Projects : head[q] \in 0..MaxVersion /\ head[q] <= head'[q] /\ head'[q] \in Nat
  BY Constants DEF TypeOK, Commit
<1>3. \A q \in Projects, files \in Files : Sound(q, files) => Sound(q, files)'
  BY <1>2, FilesData, Constants DEF Sound, Commit, db, TypeOK
<1>4. ExportIsAwaited' /\ RunAwaits' /\ NoSharedExport' /\ ExportGoesOn'
  BY DEF Commit, ExportIsAwaited, RunAwaits, NoSharedExport, ExportGoesOn, Active, client, export, db
<1>5. TrackersExist' /\ NoVersionIsSkipped'
  BY <1>2, Constants DEF Commit, TrackersExist, NoVersionIsSkipped, db, updateDir, TypeOK
<1>9. OfferedExists'
  <2> SUFFICES ASSUME NEW q \in Projects PROVE (offered[q] \cup dropped[q] \subseteq 1..head[q])'
    BY DEF OfferedExists
  <2>1. 1..head[q] \subseteq 1..head'[q]
    BY <1>2
  <2> QED BY <2>1 DEF OfferedExists, Commit, db, updateDir
<1>10. UndoneIsOver'
  BY DEF Commit, UndoneIsOver, export
<1>6. FetchedIsSound'
  BY DEF Commit, FetchedIsSound, client, db
<1>7. CollectedIsSound'
  BY <1>3 DEF Commit, CollectedIsSound, client, db, TypeOK
<1>8. FilesAreSound' /\ WorkDirIsClean'
  BY <1>3 DEF Commit, FilesAreSound, WorkDirIsClean, Active, export, client, db, TypeOK
<1> QED BY <1>1, <1>4, <1>5, <1>6, <1>7, <1>8, <1>9, <1>10

\* The part of the invariant about the run of one project.
RunIsSound(p) ==
    /\ 1..update[p] \subseteq imported[p] \cup dropped[p] \cup offered[p]
    /\ offered[p] \cup dropped[p] \subseteq 1..head[p]
    /\ Sound(p, agentDir[p])
    /\ cl[p] = "collect" => 1..got[p].tracker \subseteq imported[p] \cup dropped[p]
    /\ cl[p] \in {"uploadData", "uploadTracker"} =>
          /\ Sound(p, got[p])
          /\ agentDir[p].tracker <= got[p].tracker
          /\ cl[p] = "uploadTracker" => agentDir[p].data = got[p].data

LEMMA RunPart ==
    ASSUME IInv, NEW p \in Projects
    PROVE  RunIsSound(p)
BY DEF IInv, RunIsSound, NoVersionIsSkipped, FetchedIsSound, CollectedIsSound,
       FilesAreSound, OfferedExists

\* A step of a run that has no export only has to keep its own part.
LEMMA QuietRun ==
    ASSUME IInv, TypeOK', NEW p \in Projects,
           cl[p] # "waiting", cl'[p] # "waiting",
           UNCHANGED <<head, imported, tracker, workDir, export, waitsFor>>,
           dropped[p] \subseteq dropped'[p],
           \A q \in Projects \ {p} :
              /\ cl'[q] = cl[q] /\ got'[q] = got[q] /\ dropped'[q] = dropped[q]
              /\ agentDir'[q] = agentDir[q] /\ update'[q] = update[q] /\ offered'[q] = offered[q],
           RunIsSound(p)'
    PROVE  IInv'
<1>1. /\ head' = head /\ imported' = imported /\ tracker' = tracker
      /\ workDir' = workDir /\ ex' = ex /\ exFor' = exFor /\ copied' = copied
      /\ failed' = failed /\ undone' = undone /\ waitsFor' = waitsFor
  BY DEF export
<1>2. \A e \in Exports : Active(e) => exFor[e] # p
  BY NoExport
<1>3. ExportIsAwaited' /\ RunAwaits' /\ NoSharedExport'
  BY <1>1 DEF IInv, ExportIsAwaited, RunAwaits, NoSharedExport, Active
<1>4. TrackersExist' /\ WorkDirIsClean' /\ UndoneIsOver'
  BY <1>1 DEF IInv, TrackersExist, WorkDirIsClean, UndoneIsOver, Active, NoFiles
<1>5. ExportGoesOn'
  BY <1>1, <1>2 DEF IInv, ExportIsAwaited, ExportGoesOn, Active, NoFiles
<1>6. NoVersionIsSkipped' /\ FetchedIsSound' /\ OfferedExists'
  BY <1>1 DEF IInv, RunIsSound, NoVersionIsSkipped, FetchedIsSound, OfferedExists
<1>7. CollectedIsSound'
  <2> SUFFICES ASSUME NEW q \in Projects, cl'[q] \in {"uploadData", "uploadTracker"}
               PROVE  /\ Sound(q, got[q])'
                      /\ agentDir'[q].tracker <= got'[q].tracker
                      /\ cl'[q] = "uploadTracker" => agentDir'[q].data = got'[q].data
    BY DEF CollectedIsSound
  <2>1. CASE q = p
    BY <2>1 DEF RunIsSound
  <2>2. CASE q # p
    BY <2>2, <1>1 DEF IInv, CollectedIsSound, Sound
  <2> QED BY <2>1, <2>2
<1>8. FilesAreSound'
  <2> SUFFICES ASSUME NEW q \in Projects
               PROVE  Sound(q, agentDir[q])' /\ Sound(q, workDir[q])'
    BY DEF FilesAreSound
  <2>1. Sound(q, workDir[q])'
    BY <1>1 DEF IInv, FilesAreSound, Sound
  <2>2. Sound(q, agentDir[q])'
    BY <1>1 DEF IInv, FilesAreSound, RunIsSound, Sound
  <2> QED BY <2>1, <2>2
<1> QED BY <1>3, <1>4, <1>5, <1>6, <1>7, <1>8 DEF IInv

LEMMA RunKeeps ==
    ASSUME IInv, Patient, NEW p \in Projects, Run(p)
    PROVE  IInv'
<1>1. TypeOK /\ TypeOK'
  BY InvTypes, RunTypes DEF TypeInv
<1>2. RunIsSound(p) /\ p \in Projects
  BY RunPart
<1>3. /\ agentDir \in [Projects -> Files] /\ got \in [Projects -> Files]
      /\ head \in [Projects -> Nat] /\ tracker \in [Projects -> Nat]
      /\ update \in [Projects -> Nat]
      /\ offered \in [Projects -> SUBSET Versions] /\ dropped \in [Projects -> SUBSET Versions]
      /\ cl \in [Projects -> ClientPlaces]
  BY <1>1, Constants DEF TypeOK
<1>4. /\ agentDir[p].tracker \in Nat /\ got[p].tracker \in Nat
      /\ tracker[p] <= head[p] /\ agentDir[p].tracker <= head[p]
  BY <1>3, <1>2, Constants DEF Files, RunIsSound, Sound, IInv, TrackersExist
<1>5. NoFiles.tracker = 0 /\ NoFiles.data = {} /\ 1..0 = {}
  BY DEF NoFiles
<1>6. CASE Provision(p)
  <2>1. RunIsSound(p)'
    BY <1>2, <1>3, <1>5, <1>6 DEF Provision, ClientStep, RunIsSound, Sound, db, IInv,
       NoVersionIsSkipped, OfferedExists, TypeOK
  <2> QED BY <1>1, <1>6, <2>1, QuietRun, <1>3 DEF Provision, ClientStep, db, updateDir
<1>7. CASE ProvisionRefused(p)
  <2>1. RunIsSound(p)'
    BY <1>2, <1>3, <1>7 DEF ProvisionRefused, ClientStep, RunIsSound, Sound, db, updateDir
  <2> QED BY <1>1, <1>7, <2>1, QuietRun, <1>3 DEF ProvisionRefused, ClientStep, db, updateDir
<1>8. CASE ProvisionBreaks(p)
  <2>1. RunIsSound(p)'
    BY <1>2, <1>3, <1>5, <1>8 DEF ProvisionBreaks, ClientStep, RunIsSound, Sound, db
  <2> QED BY <1>1, <1>8, <2>1, QuietRun, <1>3 DEF ProvisionBreaks, ClientStep, db, updateDir
<1>9. CASE Preflight(p)
  <2>1. RunIsSound(p)'
    BY <1>2, <1>3, <1>9 DEF Preflight, ClientStep, RunIsSound, Sound, db, updateDir
  <2> QED BY <1>1, <1>9, <2>1, QuietRun, <1>3 DEF Preflight, ClientStep, db, updateDir
<1>10. CASE Fetch(p)
  <2>1. RunIsSound(p)'
    BY <1>2, <1>3, <1>10 DEF Fetch, RunIsSound, Sound, updateDir
  <2>2. dropped[p] \subseteq dropped'[p]
    BY <1>3, <1>10 DEF Fetch
  <2> QED BY <1>1, <1>10, <2>1, <2>2, QuietRun, <1>3 DEF Fetch, updateDir
<1>11. CASE Collect(p)
  <2>1. /\ got'[p].data = (got[p].tracker + 1)..head[p]
        /\ got'[p].tracker = head[p] /\ head' = head
        /\ imported' = imported /\ tracker' = tracker
        /\ dropped' = dropped /\ offered' = offered
        /\ agentDir' = agentDir /\ update' = update
        /\ cl[p] = "collect" /\ cl'[p] = "uploadData"
    BY <1>3, <1>11 DEF Collect, ClientStep, db, updateDir
  <2>2. 1..got[p].tracker \subseteq imported[p] \cup dropped[p]
    BY <1>2, <2>1 DEF RunIsSound
  <2>3. 1..head[p] \subseteq imported[p] \cup dropped[p] \cup ((got[p].tracker + 1)..head[p])
    BY <1>3, <1>4, <2>2
  <2>4. (got[p].tracker + 1)..head[p] \subseteq 1..head[p]
    BY <1>3, <1>4
  <2>5. Sound(p, got[p])'
    BY <1>3, <1>4, <2>1, <2>3, <2>4 DEF Sound
  <2>6. RunIsSound(p)'
    BY <1>2, <1>4, <2>1, <2>5 DEF RunIsSound, Sound
  <2> QED BY <1>1, <1>11, <2>6, QuietRun, <1>3 DEF Collect, ClientStep, db, updateDir
<1>12. CASE UploadData(p)
  <2>1. /\ agentDir'[p].data = got[p].data
        /\ agentDir'[p].tracker = agentDir[p].tracker
        /\ head' = head /\ imported' = imported /\ tracker' = tracker
        /\ dropped' = dropped /\ offered' = offered
        /\ got' = got /\ update' = update
        /\ cl[p] = "uploadData" /\ cl'[p] = "uploadTracker"
    BY <1>3, <1>12 DEF UploadData, ClientStep, db, updateDir, Files
  <2>2. Sound(p, got[p]) /\ agentDir[p].tracker <= got[p].tracker
    BY <1>2, <2>1 DEF RunIsSound
  <2>3. Sound(p, agentDir[p])'
    BY <1>2, <1>4, <2>1, <2>2 DEF Sound, RunIsSound
  <2>4. RunIsSound(p)'
    BY <1>2, <2>1, <2>2, <2>3 DEF RunIsSound, Sound
  <2> QED BY <1>1, <1>12, <2>4, QuietRun, <1>3 DEF UploadData, ClientStep, db, updateDir
<1>13. CASE UploadTracker(p)
  <2>1. /\ agentDir'[p].data = agentDir[p].data
        /\ agentDir'[p].tracker = got[p].tracker
        /\ head' = head /\ imported' = imported /\ tracker' = tracker
        /\ dropped' = dropped /\ offered' = offered
        /\ got' = got /\ update' = update
        /\ cl[p] = "uploadTracker" /\ cl'[p] = "post"
    BY <1>3, <1>13 DEF UploadTracker, ClientStep, db, updateDir, Files
  <2>2. Sound(p, got[p]) /\ agentDir[p].data = got[p].data
    BY <1>2, <2>1 DEF RunIsSound
  <2>3. RunIsSound(p)'
    BY <1>2, <2>1, <2>2 DEF RunIsSound, Sound
  <2> QED BY <1>1, <1>13, <2>3, QuietRun, <1>3 DEF UploadTracker, ClientStep, db, updateDir
<1>14. CASE StopRun(p)
  <2>1. RunIsSound(p)'
    BY <1>2, <1>3, <1>14 DEF StopRun, ClientStep, RunIsSound, Sound, db, updateDir
  <2> QED BY <1>1, <1>14, <2>1, QuietRun, <1>3 DEF StopRun, ClientStep, db, updateDir
<1>15. CASE Post(p)
  <2>1. PICK e \in Exports :
           /\ ex[e] = "idle"
           /\ ex' = [ex EXCEPT ![e] = "copy"]
           /\ exFor' = [exFor EXCEPT ![e] = p]
           /\ waitsFor' = [waitsFor EXCEPT ![p] = e]
    BY <1>15 DEF Post
  <2>2. /\ cl[p] = "post" /\ cl' = [cl EXCEPT ![p] = "waiting"]
        /\ head' = head /\ imported' = imported /\ tracker' = tracker
        /\ dropped' = dropped /\ offered' = offered
        /\ agentDir' = agentDir /\ update' = update /\ workDir' = workDir
        /\ got' = got /\ copied' = copied /\ failed' = failed /\ undone' = undone
    BY <1>15 DEF Post, db, updateDir
  <2>3. /\ workDir[p] = NoFiles
        /\ \A f \in Exports : Active(f) => exFor[f] # p
    BY <2>2, NoExport
  <2>4. \A q \in Projects : waitsFor[q] # e
    BY <2>1, Constants DEF IInv, RunAwaits
  <2>5. ExportIsAwaited' /\ RunAwaits' /\ NoSharedExport'
    BY <1>1, <1>3, <2>1, <2>2, <2>3, <2>4, Constants
       DEF IInv, ExportIsAwaited, RunAwaits, NoSharedExport, Active, TypeOK
  <2>6. TrackersExist' /\ NoVersionIsSkipped' /\ FilesAreSound'
    BY <2>2 DEF IInv, TrackersExist, NoVersionIsSkipped, FilesAreSound, Sound
  <2>11. OfferedExists' /\ UndoneIsOver'
    BY <1>1, <2>1, <2>2 DEF IInv, OfferedExists, UndoneIsOver, TypeOK
  <2>7. FetchedIsSound'
    BY <1>3, <2>2 DEF IInv, FetchedIsSound
  <2>8. CollectedIsSound'
    BY <1>3, <2>2 DEF IInv, CollectedIsSound, Sound
  <2>9. WorkDirIsClean'
    BY <1>1, <2>1, <2>2, <2>3 DEF IInv, WorkDirIsClean, Active, TypeOK
  <2>10. ExportGoesOn'
    BY <1>1, <2>1, <2>2 DEF IInv, ExportGoesOn, Active, TypeOK, Taken, Imported
  <2> QED BY <1>1, <2>5, <2>6, <2>7, <2>8, <2>9, <2>10, <2>11 DEF IInv
<1>16. CASE Answered(p)
  <2> DEFINE e == waitsFor[p]
  <2>1. /\ cl[p] = "waiting" /\ cl' = [cl EXCEPT ![p] = "idle"]
        /\ ex[e] = "done" /\ ex' = [ex EXCEPT ![e] = "idle"]
        /\ waitsFor' = [waitsFor EXCEPT ![p] = None]
        /\ head' = head /\ imported' = imported /\ tracker' = tracker
        /\ dropped' = dropped /\ offered' = offered
        /\ agentDir' = agentDir /\ update' = update /\ workDir' = workDir
        /\ got' = got /\ exFor' = exFor /\ copied' = copied /\ failed' = failed /\ undone' = undone
    BY <1>16 DEF Answered, db, updateDir
  <2>2. e \in Exports
    BY <1>1, <2>1, Constants DEF IInv, RunAwaits, TypeOK
  <2>3. \A f \in Exports : Active(f)' <=> Active(f)
    BY <1>1, <2>1, <2>2 DEF Active, TypeOK
  <2>4. \A f \in Exports : Active(f) => ex'[f] = ex[f] /\ exFor[f] # p
    BY <1>1, <2>1, <2>2 DEF Active, TypeOK, IInv, ExportIsAwaited
  <2>5. ExportIsAwaited' /\ RunAwaits' /\ NoSharedExport'
    <3>1. ExportIsAwaited'
      BY <1>1, <2>1, <2>3, <2>4 DEF IInv, ExportIsAwaited, TypeOK
    <3>2. \A q \in Projects \ {p} : waitsFor[q] # e
      BY <2>2, Constants DEF IInv, NoSharedExport
    <3>3. RunAwaits' /\ NoSharedExport'
      BY <1>1, <1>3, <2>1, <2>2, <2>3, <3>2, Constants DEF IInv, RunAwaits, NoSharedExport, TypeOK
    <3> QED BY <3>1, <3>3
  <2>6. TrackersExist' /\ NoVersionIsSkipped' /\ FilesAreSound'
    BY <2>1 DEF IInv, TrackersExist, NoVersionIsSkipped, FilesAreSound, Sound
  <2>11. OfferedExists' /\ UndoneIsOver'
    BY <1>1, <2>1 DEF IInv, OfferedExists, UndoneIsOver, TypeOK
  <2>7. FetchedIsSound'
    BY <1>3, <2>1 DEF IInv, FetchedIsSound
  <2>8. CollectedIsSound'
    BY <1>3, <2>1 DEF IInv, CollectedIsSound, Sound
  <2>9. WorkDirIsClean'
    BY <2>1, <2>3, <2>4 DEF IInv, WorkDirIsClean
  <2>10. ExportGoesOn'
    BY <2>1, <2>3, <2>4 DEF IInv, ExportGoesOn
  <2> QED BY <1>1, <2>5, <2>6, <2>7, <2>8, <2>9, <2>10, <2>11 DEF IInv
<1>17. CASE GiveUp(p)
  BY <1>17 DEF GiveUp
<1> QED
  BY <1>6, <1>7, <1>8, <1>9, <1>10, <1>11, <1>12, <1>13, <1>14, <1>15, <1>16,
     <1>17 DEF Run

\* The parts of the invariant about a project and about an export process.
StoreIsSound(p) ==
    /\ tracker[p] <= head[p]
    /\ 1..tracker[p] \subseteq imported[p] \cup dropped[p]
    /\ 1..update[p] \subseteq imported[p] \cup dropped[p] \cup offered[p]
    /\ offered[p] \cup dropped[p] \subseteq 1..head[p]
    /\ Sound(p, agentDir[p]) /\ Sound(p, workDir[p])
ExportIsSound(e) ==
    /\ ex[e] \notin {"copy", "clear"} => agentDir[exFor[e]] = NoFiles
    /\ ex[e] \in Taken /\ e \notin failed => copied[e] = workDir[exFor[e]].data
    /\ e \in undone => ex[e] \in {"clearUpdate", "pushTracker", "cleanup"}
    /\ ex[e] \in Imported /\ e \notin undone =>
          1..workDir[exFor[e]].tracker \subseteq imported[exFor[e]] \cup dropped[exFor[e]]
    /\ ex[e] \in Imported \cup {"cleanup"} /\ e \notin failed =>
          copied[e] \subseteq imported[exFor[e]]

LEMMA StoreAndExport ==
    ASSUME IInv, NEW e \in Exports, Active(e)
    PROVE  StoreIsSound(exFor[e]) /\ ExportIsSound(e)
BY DEF IInv, ExportIsAwaited, StoreIsSound, ExportIsSound, TrackersExist,
       NoVersionIsSkipped, FilesAreSound, ExportGoesOn, OfferedExists, UndoneIsOver

\* What an export does not touch, other projects and exports, stays sound.
LEMMA OtherProjects ==
    ASSUME IInv, TypeOK', NEW e \in Exports, Active(e),
           NEW p \in Projects, p = exFor[e],
           UNCHANGED <<head, client>>,
           \A q \in Projects \ {p} :
              /\ imported'[q] = imported[q] /\ tracker'[q] = tracker[q]
              /\ agentDir'[q] = agentDir[q] /\ update'[q] = update[q]
              /\ workDir'[q] = workDir[q]
              /\ offered'[q] = offered[q] /\ dropped'[q] = dropped[q],
           StoreIsSound(p)'
    PROVE  /\ TrackersExist' /\ NoVersionIsSkipped' /\ OfferedExists' /\ FilesAreSound'
           /\ FetchedIsSound' /\ CollectedIsSound'
<1>1. p \in Projects /\ cl[p] = "waiting"
  BY OneExport
<1>2. head' = head /\ cl' = cl /\ got' = got
  BY DEF client
<1>3. TrackersExist' /\ NoVersionIsSkipped' /\ OfferedExists'
  BY <1>2 DEF IInv, TrackersExist, NoVersionIsSkipped, OfferedExists, StoreIsSound
<1>4. FetchedIsSound'
  BY <1>1, <1>2 DEF IInv, FetchedIsSound
<1>6. FilesAreSound'
  <2> SUFFICES ASSUME NEW q \in Projects
               PROVE  Sound(q, agentDir[q])' /\ Sound(q, workDir[q])'
    BY DEF FilesAreSound
  <2>1. CASE q = p
    BY <2>1 DEF StoreIsSound
  <2>2. CASE q # p
    BY <1>2, <2>2 DEF IInv, FilesAreSound, Sound
  <2> QED BY <2>1, <2>2
<1>7. CollectedIsSound'
  <2> SUFFICES ASSUME NEW q \in Projects, cl'[q] \in {"uploadData", "uploadTracker"}
               PROVE  /\ Sound(q, got[q])'
                      /\ agentDir'[q].tracker <= got'[q].tracker
                      /\ cl'[q] = "uploadTracker" => agentDir'[q].data = got'[q].data
    BY DEF CollectedIsSound
  <2>1. q # p
    BY <1>1, <1>2
  <2> QED BY <1>2, <2>1 DEF IInv, CollectedIsSound, Sound
<1> QED BY <1>3, <1>4, <1>6, <1>7

LEMMA QuietExport ==
    ASSUME IInv, TypeOK', NEW e \in Exports, Active(e),
           NEW p \in Projects, p = exFor[e],
           UNCHANGED <<head, client, exFor>>,
           \A q \in Projects \ {p} :
              /\ imported'[q] = imported[q] /\ tracker'[q] = tracker[q]
              /\ agentDir'[q] = agentDir[q] /\ update'[q] = update[q]
              /\ workDir'[q] = workDir[q]
              /\ offered'[q] = offered[q] /\ dropped'[q] = dropped[q],
           \A f \in Exports \ {e} :
              /\ ex'[f] = ex[f] /\ copied'[f] = copied[f]
              /\ f \in failed' <=> f \in failed
              /\ f \in undone' <=> f \in undone,
           ex'[e] \notin {"idle", "done", "copy"},
           StoreIsSound(p)', ExportIsSound(e)'
    PROVE  IInv'
<1>1. /\ p \in Projects /\ waitsFor[p] = e /\ cl[p] = "waiting"
      /\ \A f \in Exports : Active(f) /\ exFor[f] = p => f = e
  BY OneExport
<1>2. /\ head' = head /\ cl' = cl /\ got' = got /\ waitsFor' = waitsFor
      /\ exFor' = exFor
  BY DEF client
<1>3. /\ TrackersExist' /\ NoVersionIsSkipped' /\ OfferedExists' /\ FilesAreSound'
      /\ FetchedIsSound' /\ CollectedIsSound'
  BY OtherProjects
<1>4. \A f \in Exports : Active(f)' <=> Active(f)
  BY DEF Active
<1>5. ExportIsAwaited' /\ NoSharedExport'
  BY <1>2, <1>4 DEF IInv, ExportIsAwaited, NoSharedExport
<1>6. RunAwaits'
  BY <1>1, <1>2, <1>4, Constants DEF IInv, RunAwaits, TypeOK, Active
<1>7. WorkDirIsClean'
  <2> SUFFICES ASSUME NEW q \in Projects,
                      \A f \in Exports : Active(f)' /\ exFor'[f] = q => ex'[f] = "copy"
               PROVE  workDir'[q] = NoFiles
    BY DEF WorkDirIsClean, NoFiles
  <2>1. q # p
    BY <1>2, <1>4
  <2>2. \A f \in Exports : Active(f) /\ exFor[f] = q => ex[f] = "copy"
    BY <1>2, <1>4, <2>1
  <2> QED BY <2>1, <2>2 DEF IInv, WorkDirIsClean
<1>9. UndoneIsOver'
  BY DEF IInv, UndoneIsOver, ExportIsSound, TypeOK
<1>8. ExportGoesOn'
  <2> SUFFICES ASSUME NEW f \in Exports, Active(f)'
               PROVE  ExportIsSound(f)'
    BY DEF ExportGoesOn, ExportIsSound
  <2>1. CASE f = e
    BY <2>1
  <2>2. CASE f # e
    <3>1. Active(f) /\ exFor[f] \in Projects \ {p}
      BY <1>1, <1>4, <2>2 DEF IInv, ExportIsAwaited
    <3>2. ExportIsSound(f)
      BY <3>1, StoreAndExport
    <3> QED BY <1>2, <2>2, <3>1, <3>2 DEF ExportIsSound
  <2> QED BY <2>1, <2>2
<1> QED BY <1>3, <1>5, <1>6, <1>7, <1>8, <1>9 DEF IInv

LEMMA ExportKeeps ==
    ASSUME IInv, Patient, NEW e \in Exports, PerformExport(e)
    PROVE  IInv'
<1> DEFINE p == exFor[e]
<1>1. TypeOK /\ TypeOK'
  BY InvTypes, ExportTypes DEF TypeInv
<1>2. CASE ~Active(e)
  <2>1. PerformExport(e) => Forget(e)
    BY <1>2 DEF PerformExport, Copy, CopyFails, Clear, Check, Wait, Start, ImportData,
       ImportTracker, ImportFails, ImportDies, ClearUpdate, PushTracker, Cleanup, ExportStep,
       Active, Importing
  <2>2. /\ ex[e] = "done" /\ ex' = [ex EXCEPT ![e] = "idle"]
        /\ \A q \in Projects : waitsFor[q] # e
        /\ head' = head /\ imported' = imported /\ tracker' = tracker
        /\ agentDir' = agentDir /\ update' = update /\ workDir' = workDir
        /\ cl' = cl /\ got' = got /\ waitsFor' = waitsFor /\ exFor' = exFor
        /\ copied' = copied /\ failed' = failed /\ undone' = undone
        /\ offered' = offered /\ dropped' = dropped
    BY <2>1 DEF Forget, ExportStep, db, updateDir, client
  <2>3. \A f \in Exports : /\ Active(f)' <=> Active(f)
                           /\ Active(f) => ex'[f] = ex[f]
                           /\ f # e => ex'[f] = ex[f]
    BY <1>1, <2>2 DEF Active, TypeOK
  <2>4. ExportIsAwaited' /\ NoSharedExport'
    BY <2>2, <2>3 DEF IInv, ExportIsAwaited, NoSharedExport
  <2>5. RunAwaits'
    BY <1>1, <2>2, <2>3 DEF IInv, RunAwaits, TypeOK
  <2>6. TrackersExist' /\ NoVersionIsSkipped' /\ FilesAreSound'
    BY <2>2 DEF IInv, TrackersExist, NoVersionIsSkipped, FilesAreSound, Sound
  <2>10. OfferedExists' /\ UndoneIsOver'
    BY <1>1, <2>2 DEF IInv, OfferedExists, UndoneIsOver, TypeOK
  <2>7. FetchedIsSound' /\ CollectedIsSound'
    BY <2>2 DEF IInv, FetchedIsSound, CollectedIsSound, Sound
  <2>8. WorkDirIsClean'
    BY <2>2, <2>3 DEF IInv, WorkDirIsClean
  <2>9. ExportGoesOn'
    BY <2>2, <2>3 DEF IInv, ExportGoesOn
  <2> QED BY <1>1, <2>4, <2>5, <2>6, <2>7, <2>8, <2>9, <2>10 DEF IInv
<1>3. CASE Active(e)
  <2>1. /\ p \in Projects /\ waitsFor[p] = e /\ cl[p] = "waiting"
        /\ \A f \in Exports : Active(f) /\ exFor[f] = p => f = e
    BY <1>3, OneExport
  <2>2. StoreIsSound(p) /\ ExportIsSound(e)
    BY <1>3, StoreAndExport
  <2>3. /\ agentDir \in [Projects -> Files] /\ workDir \in [Projects -> Files]
        /\ head \in [Projects -> Nat] /\ tracker \in [Projects -> Nat]
        /\ update \in [Projects -> Nat]
        /\ imported \in [Projects -> SUBSET Versions]
        /\ ex \in [Exports -> ExportPlaces] /\ copied \in [Exports -> SUBSET Versions]
        /\ offered \in [Projects -> SUBSET Versions] /\ dropped \in [Projects -> SUBSET Versions]
    BY <1>1, Constants DEF TypeOK
  <2>4. NoFiles.tracker = 0 /\ NoFiles.data = {} /\ 1..0 = {}
    BY DEF NoFiles
  <2>5. CASE Copy(e)
    <3>1. workDir[p] = NoFiles
      BY <2>1, <2>5 DEF Copy, ExportStep, IInv, WorkDirIsClean
    <3>2. Merge(workDir[p], agentDir[p]) = agentDir[p]
      BY <2>1, <2>3, <2>4, <3>1 DEF Merge, Files
    <3>3. /\ workDir' = [workDir EXCEPT ![p] = agentDir[p]]
          /\ copied' = [copied EXCEPT ![e] = agentDir[p].data]
          /\ ex' = [ex EXCEPT ![e] = "clear"]
      BY <2>5, <3>2 DEF Copy, Noted, ExportStep
    <3>4. StoreIsSound(p)'
      BY <2>1, <2>2, <2>3, <2>5, <3>3 DEF Copy, ExportStep, StoreIsSound, Sound, db, updateDir
    <3>5. ExportIsSound(e)'
      <4>1. ex'[e] = "clear" /\ copied'[e] = workDir'[p].data
        BY <2>1, <2>3, <3>3
      <4>2. exFor' = exFor /\ failed' = failed /\ undone' = undone /\ ex[e] = "copy"
        BY <2>5 DEF Copy, ExportStep
      <4> QED BY <2>2, <4>1, <4>2 DEF ExportIsSound, Taken, Imported
    <3> QED BY <1>1, <1>3, <2>1, <2>3, <2>5, <3>3, <3>4, <3>5, QuietExport
            DEF Copy, ExportStep, db, updateDir
  <2>16. CASE CopyFails(e)
    <3>1. workDir[p] = NoFiles
      BY <2>1, <2>16 DEF CopyFails, ExportStep, IInv, WorkDirIsClean
    <3>2. PICK data \in {{}, agentDir[p].data}, n \in {0, agentDir[p].tracker} :
             /\ workDir' = [workDir EXCEPT ![p] = Merge(@, [data |-> data, tracker |-> n])]
             /\ dropped' = [dropped EXCEPT ![p] = IF n = 0 THEN @
                                                 ELSE @ \cup Noted(agentDir[p].data \ data)]
      BY <2>16 DEF CopyFails
    <3>3. Merge(workDir[p], [data |-> data, tracker |-> n]) = [data |-> data, tracker |-> n]
      BY <2>4, <3>1 DEF Merge
    <3>4. /\ workDir' = [workDir EXCEPT ![p] = [data |-> data, tracker |-> n]]
          /\ dropped'[p] = IF n = 0 THEN dropped[p] ELSE dropped[p] \cup (agentDir[p].data \ data)
          /\ \A q \in Projects \ {p} : dropped'[q] = dropped[q]
      BY <2>1, <2>3, <3>2, <3>3 DEF Noted
    <3>5. /\ head' = head /\ imported' = imported /\ tracker' = tracker /\ agentDir' = agentDir
          /\ update' = update /\ offered' = offered /\ undone' = undone
          /\ cl' = cl /\ got' = got /\ waitsFor' = waitsFor /\ exFor' = exFor
          /\ ex[e] = "copy" /\ ex' = [ex EXCEPT ![e] = "clear"] /\ failed' = failed \cup {e}
          /\ copied' = [copied EXCEPT ![e] = agentDir[p].data]
      BY <2>16 DEF CopyFails, Noted, ExportStep, updateDir, client
    <3>6. /\ workDir'[p].data = data /\ workDir'[p].tracker = n
          /\ \A q \in Projects \ {p} : workDir'[q] = workDir[q]
      BY <2>1, <2>3, <3>4
    <3>7. /\ Sound(p, agentDir[p])
          /\ agentDir[p].tracker \in Nat /\ dropped[p] \subseteq dropped'[p]
      BY <2>1, <2>2, <2>3, <3>4, Constants DEF StoreIsSound, Files
    <3>8. Sound(p, agentDir[p])'
      BY <3>5, <3>7 DEF Sound
    <3>9. Sound(p, workDir[p])'
      <4>1. CASE n = 0
        BY <2>4, <3>5, <3>6, <3>7, <4>1, <2>1, <2>3 DEF Sound
      <4>2. CASE n # 0
        <5>1. n = agentDir[p].tracker /\ dropped'[p] = dropped[p] \cup (agentDir[p].data \ data)
          BY <3>4, <4>2
        <5> QED BY <3>5, <3>6, <3>7, <5>1 DEF Sound
      <4> QED BY <4>1, <4>2
    <3>10. StoreIsSound(p)'
      <4>1. dropped'[p] \subseteq 1..head[p]
        BY <2>2, <3>4, <3>7 DEF StoreIsSound, Sound
      <4> QED BY <2>2, <3>5, <3>7, <3>8, <3>9, <4>1 DEF StoreIsSound
    <3>11. ExportIsSound(e)'
      BY <2>1, <2>2, <2>3, <3>5 DEF ExportIsSound, Taken, Imported
    <3>12. \A f \in Exports \ {e} : /\ ex'[f] = ex[f] /\ copied'[f] = copied[f]
                                    /\ f \in failed' <=> f \in failed
                                    /\ f \in undone' <=> f \in undone
      BY <2>3, <3>5
    <3>13. ex'[e] \notin {"idle", "done", "copy"}
      BY <2>3, <3>5
    <3> QED BY <1>1, <1>3, <2>1, <3>4, <3>5, <3>6, <3>10, <3>11, <3>12, <3>13, QuietExport DEF client
  <2>6. CASE Clear(e)
    <3>1. StoreIsSound(p)'
      BY <2>1, <2>2, <2>3, <2>4, <2>6 DEF Clear, ExportStep, StoreIsSound, Sound, db, updateDir
    <3>2. ExportIsSound(e)'
      BY <2>1, <2>2, <2>3, <2>6
         DEF Clear, ExportStep, ExportIsSound, Taken, Imported, NoFiles
    <3> QED BY <1>1, <1>3, <2>1, <2>3, <2>6, <3>1, <3>2, QuietExport
            DEF Clear, ExportStep, db, updateDir
  <2>7. CASE Check(e)
    <3>1. StoreIsSound(p)'
      BY <2>1, <2>2, <2>7 DEF Check, ExportStep, StoreIsSound, Sound, db, updateDir
    <3>2. ex'[e] = IF Empty(workDir[p]) THEN "cleanup" ELSE "wait"
      BY <2>3, <2>7 DEF Check, ExportStep
    <3>3. ExportIsSound(e)'
      BY <2>1, <2>2, <2>4, <2>7, <3>2
         DEF Check, ExportStep, ExportIsSound, Taken, Imported, Empty, db, updateDir, NoFiles
    <3> QED BY <1>1, <1>3, <2>1, <2>3, <2>7, <3>1, <3>2, <3>3, QuietExport
            DEF Check, ExportStep, db, updateDir
  <2>8. CASE Wait(e) \/ Start(e)
    <3>1. StoreIsSound(p)'
      BY <2>1, <2>2, <2>8 DEF Wait, Start, ExportStep, StoreIsSound, Sound, db, updateDir
    <3>2. ExportIsSound(e)'
      BY <2>1, <2>2, <2>3, <2>8
         DEF Wait, Start, ExportStep, ExportIsSound, Taken, Imported, db, updateDir, NoFiles
    <3> QED BY <1>1, <1>3, <2>1, <2>3, <2>8, <3>1, <3>2, QuietExport
            DEF Wait, Start, ExportStep, db, updateDir
  <2>9. CASE ImportData(e)
    <3>1. /\ imported'[p] = imported[p] \cup workDir[p].data
          /\ ex[e] = "importData" /\ ex'[e] = "importTracker"
          /\ head' = head /\ tracker' = tracker /\ agentDir' = agentDir
          /\ update' = update /\ workDir' = workDir /\ copied' = copied
          /\ exFor' = exFor /\ offered' = offered /\ dropped' = dropped
          /\ failed' = failed /\ undone' = undone
      BY <2>1, <2>3, <2>9 DEF ImportData, ExportStep, updateDir
    <3>2. StoreIsSound(p)'
      BY <2>1, <2>2, <3>1 DEF StoreIsSound, Sound
    <3>3. ExportIsSound(e)'
      BY <2>1, <2>2, <3>1
         DEF ExportIsSound, StoreIsSound, Sound, Taken, Imported, NoFiles
    <3> QED BY <1>1, <1>3, <2>1, <2>3, <2>9, <3>1, <3>2, <3>3, QuietExport
            DEF ImportData, ExportStep, updateDir
  <2>10. CASE ImportTracker(e)
    <3>1. /\ tracker'[p] = IF workDir[p].tracker = 0 THEN tracker[p]
                                                    ELSE workDir[p].tracker
          /\ ex[e] = "importTracker" /\ ex'[e] = "clearUpdate"
          /\ head' = head /\ imported' = imported /\ agentDir' = agentDir
          /\ update' = update /\ workDir' = workDir /\ copied' = copied
          /\ exFor' = exFor /\ failed' = failed /\ undone' = undone
          /\ offered' = offered /\ dropped' = dropped
      BY <2>1, <2>3, <2>10 DEF ImportTracker, ExportStep, updateDir
    <3>2. /\ agentDir[p] = NoFiles /\ e \notin undone
          /\ 1..workDir[p].tracker \subseteq imported[p] \cup dropped[p]
      BY <2>2, <3>1 DEF ExportIsSound, Imported
    <3>3. workDir[p].tracker \in Nat
      BY <2>1, <2>3, Constants DEF Files
    <3>4. StoreIsSound(p)'
      BY <2>1, <2>2, <2>3, <2>4, <3>1, <3>2, <3>3 DEF StoreIsSound, Sound
    <3>5. ExportIsSound(e)'
      BY <2>1, <2>2, <3>1, <3>2 DEF ExportIsSound, Taken, Imported, NoFiles
    <3> QED BY <1>1, <1>3, <2>1, <2>3, <2>10, <3>1, <3>4, <3>5, QuietExport
            DEF ImportTracker, ExportStep, updateDir
  <2>11. CASE ImportFails(e) \/ ImportDies(e)
    <3>1. /\ ex[e] \in Importing /\ ex' = [ex EXCEPT ![e] = "clearUpdate"] /\ ImportPart(e)
          /\ exFor' = exFor /\ head' = head /\ cl' = cl /\ got' = got /\ waitsFor' = waitsFor
      BY <2>11 DEF ImportFails, ImportDies, ExportStep, client
    <3>2. /\ tracker' = tracker /\ dropped' = dropped /\ agentDir' = agentDir
          /\ update' = update /\ offered' = offered /\ copied' = copied
          /\ failed' = failed \cup {e}
          /\ \E part : imported' = [imported EXCEPT ![p] = @ \cup part]
      BY <3>1 DEF ImportPart, Noted, updateDir
    <3>3. /\ imported[p] \subseteq imported'[p]
          /\ \A q \in Projects \ {p} : imported'[q] = imported[q]
      BY <2>1, <2>3, <3>2
    <3>4. /\ workDir'[p].data = workDir[p].data
          /\ workDir'[p].tracker = workDir[p].tracker \/ workDir'[p].tracker = 0
          /\ \A q \in Projects \ {p} : workDir'[q] = workDir[q]
      BY <2>1, <2>3, <2>11 DEF ImportFails, ImportDies, Files
    <3>5. \/ workDir'[p].tracker = 0 /\ undone' = undone
          \/ workDir' = workDir /\ ex[e] = "importData" /\ undone' = undone \cup {e}
          \/ workDir' = workDir /\ ex[e] = "importTracker" /\ undone' = undone
      <4>1. CASE ImportFails(e)
        <5>1. workDir' = [workDir EXCEPT ![p].tracker = 0] /\ undone' = undone
          BY <4>1 DEF ImportFails
        <5>2. workDir'[p].tracker = 0
          BY <2>1, <2>3, <5>1 DEF Files
        <5> QED BY <5>1, <5>2
      <4>2. CASE ImportDies(e)
        <5>1. /\ workDir' = workDir
              /\ undone' = IF ex[e] = "importData" THEN undone \cup {e} ELSE undone
          BY <4>2 DEF ImportDies, Noted
        <5> QED BY <3>1, <5>1 DEF Importing
      <4> QED BY <2>11, <4>1, <4>2
    <3>6. Sound(p, agentDir[p])' /\ Sound(p, workDir[p])'
      <4>1. Sound(p, agentDir[p])'
        BY <2>2, <3>1, <3>2, <3>3 DEF StoreIsSound, Sound
      <4>2. head[p] \in Nat
        BY <2>1, <2>3
      <4>3. Sound(p, workDir[p])'
        BY <2>2, <2>4, <3>1, <3>2, <3>3, <3>4, <4>2 DEF StoreIsSound, Sound
      <4> QED BY <4>1, <4>3
    <3>7. StoreIsSound(p)'
      BY <2>2, <3>1, <3>2, <3>3, <3>6 DEF StoreIsSound
    <3>8. ex'[e] = "clearUpdate"
      BY <2>3, <3>1
    <3>9. e \notin undone'  => 1..workDir'[p].tracker \subseteq imported'[p] \cup dropped'[p]
      BY <2>2, <2>4, <3>2, <3>3, <3>5 DEF ExportIsSound, Imported
    <3>10. ExportIsSound(e)'
      BY <2>2, <3>1, <3>2, <3>8, <3>9 DEF ExportIsSound, Taken, Imported, Importing
    <3>11. \A f \in Exports \ {e} : /\ ex'[f] = ex[f] /\ copied'[f] = copied[f]
                                    /\ f \in failed' <=> f \in failed
                                    /\ f \in undone' <=> f \in undone
      BY <2>3, <3>1, <3>2, <3>5
    <3> QED BY <1>1, <1>3, <2>1, <3>1, <3>2, <3>3, <3>4, <3>7, <3>8, <3>10, <3>11, QuietExport
            DEF client
  <2>12. CASE ClearUpdate(e)
    <3>1. StoreIsSound(p)'
      BY <2>1, <2>2, <2>3, <2>4, <2>12
         DEF ClearUpdate, ExportStep, StoreIsSound, Sound, db, updateDir
    <3>2. ExportIsSound(e)'
      BY <2>1, <2>2, <2>3, <2>12
         DEF ClearUpdate, ExportStep, ExportIsSound, Taken, Imported, db, updateDir, NoFiles
    <3> QED BY <1>1, <1>3, <2>1, <2>3, <2>12, <3>1, <3>2, QuietExport
            DEF ClearUpdate, ExportStep, db, updateDir
  <2>13. CASE PushTracker(e)
    <3>1. /\ ex[e] = "pushTracker" /\ ex' = [ex EXCEPT ![e] = "cleanup"]
          /\ head' = head /\ imported' = imported /\ tracker' = tracker /\ dropped' = dropped
          /\ agentDir' = agentDir /\ workDir' = workDir /\ exFor' = exFor
          /\ copied' = copied /\ failed' = failed /\ undone' = undone
          /\ cl' = cl /\ got' = got /\ waitsFor' = waitsFor
      BY <2>13 DEF PushTracker, ExportStep, db, client
    <3>2. /\ update'[p] = IF workDir[p].tracker = 0 THEN update[p] ELSE workDir[p].tracker
          /\ offered'[p] = IF workDir[p].tracker # 0 /\ e \in undone
                           THEN workDir[p].data ELSE offered[p]
          /\ \A q \in Projects \ {p} : update'[q] = update[q] /\ offered'[q] = offered[q]
      BY <2>1, <2>3, <2>13 DEF PushTracker
    <3>3. e \notin undone => 1..workDir[p].tracker \subseteq imported[p] \cup dropped[p]
      BY <2>2, <3>1 DEF ExportIsSound, Imported
    <3>4. Sound(p, workDir[p])
      BY <2>2 DEF StoreIsSound
    <3>5. /\ 1..update'[p] \subseteq imported[p] \cup dropped[p] \cup offered'[p]
          /\ offered'[p] \subseteq 1..head[p]
      BY <2>2, <3>2, <3>3, <3>4 DEF StoreIsSound, Sound
    <3>6. StoreIsSound(p)'
      BY <2>2, <3>1, <3>5 DEF StoreIsSound, Sound
    <3>7. ExportIsSound(e)'
      BY <2>1, <2>2, <2>3, <3>1 DEF ExportIsSound, Taken, Imported
    <3> QED BY <1>1, <1>3, <2>1, <2>3, <3>1, <3>2, <3>6, <3>7, QuietExport DEF client
  <2>14. CASE Cleanup(e)
    <3>1. PICK q \in Projects : q = exFor[e]
      BY <2>1
    <3>2. /\ workDir' = [workDir EXCEPT ![q] = NoFiles]
          /\ ex' = [ex EXCEPT ![e] = "done"]
          /\ exFor' = [exFor EXCEPT ![e] = None]
          /\ copied' = [copied EXCEPT ![e] = {}] /\ failed' = failed \ {e}
          /\ undone' = undone \ {e} /\ offered' = offered /\ dropped' = dropped
          /\ head' = head /\ imported' = imported /\ tracker' = tracker
          /\ agentDir' = agentDir /\ update' = update
          /\ cl' = cl /\ got' = got /\ waitsFor' = waitsFor
      BY <2>1, <2>14, <3>1 DEF Cleanup, db, updateDir, client
    <3>3. StoreIsSound(q)'
      BY <2>2, <2>3, <2>4, <3>1, <3>2 DEF StoreIsSound, Sound
    <3>4. /\ TrackersExist' /\ NoVersionIsSkipped' /\ OfferedExists' /\ FilesAreSound'
          /\ FetchedIsSound' /\ CollectedIsSound'
      BY <1>1, <1>3, <2>3, <3>1, <3>2, <3>3, OtherProjects DEF client
    <3>5. /\ ~Active(e)'
          /\ \A f \in Exports \ {e} :
                /\ Active(f)' <=> Active(f)
                /\ ex'[f] = ex[f] /\ exFor'[f] = exFor[f]
                /\ copied'[f] = copied[f] /\ f \in failed' <=> f \in failed
                /\ f \in undone' <=> f \in undone
                /\ Active(f) => exFor[f] # q
      BY <1>1, <2>1, <3>1, <3>2 DEF Active, TypeOK
    <3>6. ExportIsAwaited' /\ NoSharedExport'
      BY <3>2, <3>5 DEF IInv, ExportIsAwaited, NoSharedExport
    <3>7. RunAwaits'
      <4> SUFFICES ASSUME NEW r \in Projects
                   PROVE  /\ waitsFor'[r] # None <=> cl'[r] = "waiting"
                          /\ waitsFor'[r] # None =>
                                /\ ex'[waitsFor'[r]] # "idle"
                                /\ Active(waitsFor[r])' => exFor'[waitsFor'[r]] = r
        BY DEF RunAwaits
      <4>1. waitsFor[r] # None <=> cl[r] = "waiting"
        BY DEF IInv, RunAwaits
      <4>2. CASE waitsFor[r] = e
        <5>1. ex'[e] # "idle" /\ ~Active(e)'
          BY <1>1, <3>2 DEF TypeOK, Active
        <5> QED BY <3>2, <4>1, <4>2, <5>1
      <4>3. CASE waitsFor[r] # e /\ waitsFor[r] # None
        <5>1. waitsFor[r] \in Exports \ {e}
          BY <1>1, <4>3 DEF TypeOK
        <5>2. /\ ex[waitsFor[r]] # "idle"
              /\ Active(waitsFor[r]) => exFor[waitsFor[r]] = r
          BY <4>3 DEF IInv, RunAwaits
        <5> QED BY <3>2, <3>5, <4>1, <5>1, <5>2
      <4>4. CASE waitsFor[r] = None
        BY <3>2, <4>1, <4>4
      <4> QED BY <4>2, <4>3, <4>4
    <3>8. WorkDirIsClean'
      <4> SUFFICES ASSUME NEW r \in Projects,
                          \A f \in Exports : Active(f)' /\ exFor'[f] = r => ex'[f] = "copy"
                   PROVE  workDir'[r] = NoFiles
        BY DEF WorkDirIsClean, NoFiles
      <4>1. CASE r = q
        BY <2>3, <3>2, <4>1
      <4>2. CASE r # q
        <5>1. \A f \in Exports : Active(f) /\ exFor[f] = r => ex[f] = "copy"
          BY <3>1, <3>5, <4>2
        <5>2. workDir[r] = NoFiles
          BY <5>1 DEF IInv, WorkDirIsClean
        <5> QED BY <3>2, <4>2, <5>2, <2>3
      <4> QED BY <4>1, <4>2
    <3>9. ExportGoesOn'
      <4> SUFFICES ASSUME NEW f \in Exports, Active(f)'
                   PROVE  ExportIsSound(f)'
        BY DEF ExportGoesOn, ExportIsSound
      <4>1. f # e /\ Active(f) /\ exFor[f] \in Projects \ {q}
        BY <3>5 DEF IInv, ExportIsAwaited
      <4>2. ExportIsSound(f)
        BY <4>1, StoreAndExport
      <4>3. workDir'[exFor[f]] = workDir[exFor[f]]
        BY <2>3, <3>2, <4>1
      <4> QED BY <3>2, <3>5, <4>1, <4>2, <4>3 DEF ExportIsSound
    <3>10. UndoneIsOver'
      BY <1>1, <3>2, <3>5 DEF IInv, UndoneIsOver, TypeOK
    <3> QED BY <1>1, <3>4, <3>6, <3>7, <3>8, <3>9, <3>10 DEF IInv
  <2>15. CASE Forget(e)
    BY <1>3, <2>15 DEF Forget, ExportStep, Active
  <2> QED
    BY <2>5, <2>6, <2>7, <2>8, <2>9, <2>10, <2>11, <2>12, <2>13, <2>14, <2>15,
       <2>16
       DEF PerformExport
<1> QED BY <1>2, <1>3

LEMMA InvStep == ASSUME Patient PROVE IInv /\ [Next]_vars => IInv'
<1> SUFFICES ASSUME IInv, [Next]_vars PROVE IInv'
  OBVIOUS
<1>1. CASE UNCHANGED vars
  BY <1>1 DEF vars, db, updateDir, client, export, IInv, TypeOK, ExportIsAwaited, RunAwaits,
     NoSharedExport, TrackersExist, OfferedExists, UndoneIsOver, NoVersionIsSkipped, FetchedIsSound,
     CollectedIsSound, FilesAreSound, WorkDirIsClean, ExportGoesOn, Sound, Active
<1>2. ASSUME NEW p \in Projects, Commit(p) \/ Run(p) PROVE IInv'
  BY <1>2, CommitKeeps, RunKeeps
<1>3. ASSUME NEW e \in Exports, PerformExport(e) PROVE IInv'
  BY <1>3, ExportKeeps
<1> QED BY <1>1, <1>2, <1>3 DEF Next

\* The inductive invariant holds when agents wait for the end of their exports.
THEOREM InvariantHolds == ASSUME Patient PROVE Spec => []IInv
<1>1. Init => IInv BY InvInit
<1>2. IInv /\ [Next]_vars => IInv' BY InvStep
<1> QED BY <1>1, <1>2, PTL DEF Spec

\* Whatever fails in requests, scripts, uploads and export.sh: trackers in the
\* database and on the agent pass no version that is not imported, except those of
\* an import that died without error_handler, or of a copy that lost them, which
\* the history names.
THEOREM SkipsNothing == ASSUME Patient PROVE Spec => []NoVersionIsSkipped
<1>1. IInv => NoVersionIsSkipped BY DEF IInv
<1> QED BY <1>1, InvariantHolds, PTL

\* An export whose import does not fail imports all that it took from the agent.
THEOREM ExportsImport == ASSUME Patient PROVE Spec => []ExportImportsItsData
<1>1. IInv => ExportImportsItsData
  BY DEF IInv, ExportImportsItsData, ExportGoesOn, Active
<1> QED BY <1>1, InvariantHolds, PTL

-----------------------------------------------------------------------------
(***************************************************************************)
(* Refinement                                                              *)
(***************************************************************************)
LEMMA RefinesInit == Init => Collection!Init
BY DEF Init, Collection!Init

LEMMA DataIsImport ==
    ASSUME IInv, NEW e \in Exports, ImportData(e)
    PROVE  Collection!Next
<1> DEFINE p == exFor[e]
<1>1. Active(e)
  BY DEF ImportData, ExportStep, Active
<1>2. p \in Projects /\ workDir[p].data \subseteq 1..head[p]
  BY <1>1, OneExport DEF IInv, FilesAreSound, Sound
<1>3. /\ imported' = [imported EXCEPT ![p] = @ \cup workDir[p].data]
      /\ head' = head /\ tracker' = tracker /\ dropped' = dropped
  BY DEF ImportData, ExportStep
<1>4. Collection!Import(p)
  BY <1>2, <1>3 DEF Collection!Import
<1> QED BY <1>2, <1>4 DEF Collection!Next

LEMMA PartIsImport ==
    ASSUME IInv, NEW e \in Exports, ImportFails(e) \/ ImportDies(e)
    PROVE  Collection!Next
<1> DEFINE p == exFor[e]
<1>1. Active(e) /\ ImportPart(e) /\ head' = head
  BY DEF ImportFails, ImportDies, ExportStep, Active, Importing
<1>2. p \in Projects /\ workDir[p].data \subseteq 1..head[p]
  BY <1>1, OneExport DEF IInv, FilesAreSound, Sound
<1>3. PICK part \in SUBSET workDir[p].data : imported' = [imported EXCEPT ![p] = @ \cup part]
  BY <1>1 DEF ImportPart
<1>4. tracker' = tracker /\ dropped' = dropped
  BY <1>1 DEF ImportPart
<1>5. Collection!Import(p)
  BY <1>1, <1>2, <1>3, <1>4 DEF Collection!Import
<1> QED BY <1>2, <1>5 DEF Collection!Next

\* What the history drops is a step of the abstract specification.
LEMMA LostIsDrop ==
    ASSUME IInv, NEW p \in Projects,
           UNCHANGED <<head, imported, tracker>>,
           NEW versions \in SUBSET (1..head[p]),
           dropped' = [dropped EXCEPT ![p] = @ \cup versions]
    PROVE  Collection!Next
BY DEF Collection!Drop, Collection!Next

LEMMA FetchIsDrop ==
    ASSUME IInv, NEW p \in Projects, Fetch(p)
    PROVE  Collection!Next
<1>1. offered[p] \in SUBSET (1..head[p])
  BY DEF IInv, OfferedExists
<1> QED BY <1>1, LostIsDrop DEF Fetch

LEMMA CopyIsDrop ==
    ASSUME IInv, NEW e \in Exports, CopyFails(e)
    PROVE  Collection!Next
<1> DEFINE p == exFor[e]
<1>1. Active(e) /\ UNCHANGED <<head, imported, tracker>>
  BY DEF CopyFails, ExportStep, Active
<1>2. p \in Projects /\ agentDir[p].data \subseteq 1..head[p]
  BY <1>1, OneExport DEF IInv, FilesAreSound, Sound
<1>3. PICK data \in {{}, agentDir[p].data}, n \in {0, agentDir[p].tracker} :
         dropped' = [dropped EXCEPT ![p] = IF n = 0 THEN @
                                           ELSE @ \cup Noted(agentDir[p].data \ data)]
  BY DEF CopyFails
<1>4. Noted(agentDir[p].data \ data) \in SUBSET (1..head[p]) /\ {} \in SUBSET (1..head[p])
  BY <1>2 DEF Noted
<1>5. CASE n = 0
  <2>1. dropped' = [dropped EXCEPT ![p] = @ \cup {}]
    BY <1>3, <1>5
  <2> QED BY <1>1, <1>2, <1>4, <2>1, LostIsDrop
<1>6. CASE n # 0
  <2>1. dropped' = [dropped EXCEPT ![p] = @ \cup Noted(agentDir[p].data \ data)]
    BY <1>3, <1>6
  <2> HIDE DEF p
  <2> QED BY <1>1, <1>2, <1>4, <2>1, LostIsDrop
<1> QED BY <1>5, <1>6

LEMMA TrackerIsTrack ==
    ASSUME IInv, NEW e \in Exports, ImportTracker(e)
    PROVE  Collection!Next \/ UNCHANGED <<head, imported, tracker, dropped>>
<1> DEFINE p == exFor[e]
<1>1. Active(e) /\ ex[e] = "importTracker"
  BY DEF ImportTracker, ExportStep, Active
<1>2. /\ p \in Projects /\ Sound(p, workDir[p])
      /\ 1..workDir[p].tracker \subseteq imported[p] \cup dropped[p]
  BY <1>1, OneExport DEF IInv, FilesAreSound, ExportGoesOn, UndoneIsOver, Imported
<1>3. /\ tracker' = [tracker EXCEPT ![p] = IF workDir[p].tracker = 0
                                           THEN @ ELSE workDir[p].tracker]
      /\ head' = head /\ imported' = imported /\ dropped' = dropped
  BY DEF ImportTracker, ExportStep
<1>4. /\ workDir[p] \in Files /\ tracker \in [Projects -> Nat]
      /\ head[p] \in Nat /\ workDir[p].tracker \in Nat
  BY <1>2, Constants DEF IInv, TypeOK, Files
<1>5. CASE workDir[p].tracker = 0
  BY <1>3, <1>4, <1>5
<1>6. CASE workDir[p].tracker # 0
  <2>1. workDir[p].tracker \in tracker[p]..head[p]
    BY <1>2, <1>4, <1>6 DEF Sound
  <2>2. Collection!Track(p)
    BY <1>2, <1>3, <1>6, <2>1 DEF Collection!Track
  <2> QED BY <1>2, <2>2 DEF Collection!Next
<1> QED BY <1>5, <1>6

LEMMA RefinesStep ==
    IInv /\ [Next]_vars => [Collection!Next]_<<head, imported, tracker, dropped>>
<1> SUFFICES ASSUME IInv, [Next]_vars
             PROVE  Collection!Next \/ UNCHANGED <<head, imported, tracker, dropped>>
  OBVIOUS
<1>1. CASE UNCHANGED vars
  BY <1>1 DEF vars, db
<1>2. ASSUME NEW p \in Projects, Commit(p) PROVE Collection!Next
  BY <1>2 DEF Commit, db, Collection!Commit, Collection!Next
<1>3. ASSUME NEW p \in Projects, Run(p)
      PROVE  Collection!Next \/ UNCHANGED <<head, imported, tracker, dropped>>
  <2>1. CASE Fetch(p)
    BY <2>1, FetchIsDrop
  <2>2. CASE ~Fetch(p)
    BY <1>3, <2>2 DEF Run, Provision, ProvisionRefused, ProvisionBreaks, Preflight,
       Collect, UploadData, UploadTracker, StopRun, Post, Answered, GiveUp, ClientStep, db
  <2> QED BY <2>1, <2>2
<1>4. ASSUME NEW e \in Exports, PerformExport(e)
      PROVE  Collection!Next \/ UNCHANGED <<head, imported, tracker, dropped>>
  <2>1. CASE ImportData(e)
    BY <2>1, DataIsImport
  <2>2. CASE ImportTracker(e)
    BY <2>2, TrackerIsTrack
  <2>3. CASE ImportFails(e) \/ ImportDies(e)
    BY <2>3, PartIsImport
  <2>4. CASE CopyFails(e)
    BY <2>4, CopyIsDrop
  <2>5. CASE Copy(e) \/ Clear(e) \/ Check(e) \/ Wait(e) \/ Start(e) \/ ClearUpdate(e)
             \/ PushTracker(e) \/ Cleanup(e) \/ Forget(e)
    BY <2>5 DEF Copy, Clear, Check, Wait, Start, ClearUpdate, PushTracker, Cleanup, Forget,
       ExportStep, db
  <2> QED BY <1>4, <2>1, <2>2, <2>3, <2>4, <2>5 DEF PerformExport
<1> QED BY <1>1, <1>2, <1>3, <1>4 DEF Next

\* The pipeline implements the collection in batches: the tracker in the
\* database only moves forward, over versions that are all imported or that the
\* history named as dropped before.
THEOREM Implements == ASSUME Patient PROVE Spec => CollectsIncrementally
<1>1. Init => Collection!Init BY RefinesInit
<1>2. IInv /\ [Next]_vars => [Collection!Next]_<<head, imported, tracker, dropped>>
  BY RefinesStep
<1> QED BY <1>1, <1>2, InvariantHolds, PTL
        DEF Spec, CollectsIncrementally, Collection!Spec

-----------------------------------------------------------------------------
(***************************************************************************)
(* Types of the job that gathers                                           *)
(***************************************************************************)
JobPlaces == {"idle", "dropins", "export", "trackers", "run", "import"}
FileVersions == [version : Nat, at : Nat]

GatherTypeOK ==
    /\ lists \in Jobs /\ latest \in [JobProjects -> Nat] /\ archived \in [Outputs -> Nat]
    /\ inDatabase \in [Outputs -> SUBSET Nat] /\ tracked \in [Outputs -> FileVersions]
    /\ exportFiles \in [Outputs -> SUBSET Nat] /\ updateFiles \in [Outputs -> FileVersions]
    /\ pcJob \in JobPlaces
    /\ projectAt \in 1 .. Len(lists.projects) /\ scriptAt \in 1 .. Len(lists.scripts)
    /\ selected \subseteq Scripts /\ ran \subseteq Scripts /\ dropins \in [Scripts -> Nat]
    /\ jobs \in Nat /\ unrestored \subseteq Outputs /\ skipped \subseteq Outputs
    /\ tasks \in lists.tasks \cup {{}}

LEMMA JobLists ==
  ASSUME NEW j \in Jobs
  PROVE  /\ Len(j.projects) \in Nat \ {0} /\ Len(j.scripts) \in Nat \ {0}
         /\ DOMAIN j.projects = 1 .. Len(j.projects) /\ DOMAIN j.scripts = 1 .. Len(j.scripts)
         /\ \A n \in 1 .. Len(j.projects) : j.projects[n] \in JobProjects
         /\ \A n \in 1 .. Len(j.scripts) : j.scripts[n] \in Scripts
         /\ \A m, n \in 1 .. Len(j.scripts) : j.scripts[m] = j.scripts[n] => m = n
<1>1. /\ j.projects \in Seq(STRING) /\ j.scripts \in Seq(STRING)
      /\ j.projects # <<>> /\ j.scripts # <<>> /\ IsInjective(j.scripts)
  BY GatherJobAssumption
<1>2. /\ Len(j.projects) \in Nat \ {0} /\ Len(j.scripts) \in Nat \ {0}
      /\ DOMAIN j.projects = 1 .. Len(j.projects) /\ DOMAIN j.scripts = 1 .. Len(j.scripts)
  BY <1>1
<1>3. Range(j.projects) \subseteq JobProjects /\ Range(j.scripts) \subseteq Scripts
  BY DEF JobProjects, Scripts
<1> QED BY <1>1, <1>2, <1>3 DEF Range, IsInjective

\* What the job is at.
LEMMA JobIsAt ==
  ASSUME GatherTypeOK
  PROVE  /\ currentProject \in JobProjects /\ thisScript \in Scripts /\ this \in Outputs
         /\ this[1] = currentProject /\ this[2] = thisScript /\ Len(lists.scripts) \in Nat \ {0}
         /\ Len(lists.projects) \in Nat \ {0}
  BY JobLists DEF GatherTypeOK, currentProject, thisScript, this, Outputs

LEMMA NoTrackerType == NoTracker \in FileVersions /\ NoTracker.version = 0
  BY DEF NoTracker, FileVersions

LEMMA NextScriptType ==
  ASSUME GatherTypeOK, NextScript, UNCHANGED lists
  PROVE  scriptAt' \in 1 .. Len(lists.scripts) /\ pcJob' \in {"export", "import"}
<1>1. scriptAt \in 1 .. Len(lists.scripts) /\ Len(lists.scripts) \in Nat \ {0}
  BY JobIsAt DEF GatherTypeOK
<1>2. CASE scriptAt = Len(lists.scripts)
  BY <1>1, <1>2 DEF NextScript
<1>3. CASE scriptAt # Len(lists.scripts)
  BY <1>1, <1>3 DEF NextScript
<1> QED BY <1>2, <1>3

LEMMA ErrorHandlerType ==
  ASSUME GatherTypeOK
  PROVE  /\ ErrorHandler \in [Outputs -> FileVersions]
         /\ \A ps \in Outputs : ErrorHandler[ps] \in {NoTracker, updateFiles[ps]}
  BY NoTrackerType DEF ErrorHandler, GatherTypeOK

LEMMA ImportedType ==
  ASSUME GatherTypeOK
  PROVE  /\ \A done : ImportedData(done) \in [Outputs -> SUBSET Nat]
         /\ ImportedTrackers \in [Outputs -> FileVersions]
  BY DEF ImportedData, ImportedTrackers, GatherTypeOK

LEMMA GatherTypeInit == GatherInit => GatherTypeOK
<1> SUFFICES ASSUME GatherInit PROVE GatherTypeOK
  OBVIOUS
<1>1. lists \in Jobs /\ pcJob = "idle" /\ projectAt = 1 /\ scriptAt = 1
  BY DEF GatherInit
<1>2. 1 \in 1 .. Len(lists.projects) /\ 1 \in 1 .. Len(lists.scripts)
  BY <1>1, JobLists
<1> QED BY <1>1, <1>2, NoTrackerType DEF GatherInit, GatherTypeOK, JobPlaces

LEMMA GatherTypeStep ==
  ASSUME GatherTypeOK, [GatherNext]_gatherVars
  PROVE  GatherTypeOK'
<1> USE DEF GatherTypeOK
<1> USE DEF sources, database, workspace, loop, history, JobPlaces, WrittenNow, Restored
<1>0. this \in Outputs /\ Len(lists.scripts) \in Nat \ {0} /\ Len(lists.projects) \in Nat \ {0}
  BY JobIsAt
<1>1. CASE UNCHANGED gatherVars
  BY <1>1 DEF gatherVars
<1>2. ASSUME NEW p \in JobProjects, NewVersion(p) PROVE GatherTypeOK'
  BY <1>2 DEF NewVersion
<1>3. ASSUME NEW ps \in Outputs, NEW v \in 0 .. latest[ps[1]], Archive(ps, v) PROVE GatherTypeOK'
  BY <1>3 DEF Archive
<1>4. ASSUME NEW ps \in Outputs, AgentImports(ps) PROVE GatherTypeOK'
  <2>1. ps[1] \in JobProjects /\ latest[ps[1]] \in Nat /\ tracked[ps].version \in Nat
    BY DEF Outputs, FileVersions
  <2>2. inDatabase' \in [Outputs -> SUBSET Nat]
    BY <1>4, <2>1 DEF AgentImports
  <2>3. tracked' \in [Outputs -> FileVersions]
    <3>1. [version |-> latest[ps[1]], at |-> jobs] \in FileVersions
      BY <2>1 DEF FileVersions
    <3> QED BY <1>4, <3>1 DEF AgentImports
  <2> QED BY <1>4, <2>2, <2>3 DEF AgentImports
<1>5. ASSUME NEW scripts \in SUBSET Scripts, NEW imports \in lists.tasks, StartJob(scripts, imports)
      PROVE  GatherTypeOK'
  BY <1>0, <1>5 DEF StartJob
<1>6. CASE Fails
  BY <1>6, ErrorHandlerType DEF Fails
<1>7. CASE FetchDropins
  <2>1. \A s \in Scripts : archived[currentProject, s] \in Nat
    BY JobIsAt DEF Outputs
  <2> QED BY <1>7, <2>1 DEF FetchDropins
<1>8. CASE Skip
  BY <1>0, <1>8, NextScriptType, NoTrackerType DEF Skip
<1>9. CASE Dropin
  <2>1. dropins[thisScript] \in Nat
    BY JobIsAt
  <2>2. [version |-> dropins[thisScript], at |-> jobs] \in FileVersions
    BY <2>1 DEF FileVersions
  <2>3. updateFiles' \in [Outputs -> FileVersions]
    BY <1>0, <1>9, <2>2 DEF Dropin
  <2>4. exportFiles' \in [Outputs -> SUBSET Nat]
    BY <1>0, <1>9, <2>1 DEF Dropin
  <2> QED BY <1>9, <2>3, <2>4, NextScriptType DEF Dropin
<1>10. CASE NoDropin
  <2>1. thisScript \in Scripts
    BY JobIsAt
  <2> QED BY <1>10, <2>1 DEF NoDropin
<1>11. CASE RetrieveTrackers
  BY <1>0, <1>11 DEF RetrieveTrackers
<1>12. CASE RunScript
  <2> DEFINE first == latest[currentProject]
  <2>1. first \in Nat /\ updateFiles[this].version \in Nat
    BY <1>0, JobIsAt DEF FileVersions
  <2>2. [version |-> first, at |-> jobs] \in FileVersions
    BY <2>1 DEF FileVersions
  <2>3. /\ exportFiles' = [exportFiles EXCEPT ![this] = (updateFiles[this].version + 1) .. first]
        /\ updateFiles' = IF thisScript \notin Updated THEN updateFiles
                          ELSE [updateFiles EXCEPT ![this] = [version |-> first, at |-> jobs]]
    BY <1>12 DEF RunScript
  <2> HIDE DEF first
  <2>4. updateFiles' \in [Outputs -> FileVersions] /\ exportFiles' \in [Outputs -> SUBSET Nat]
    BY <1>0, <2>1, <2>2, <2>3
  <2> QED BY <1>12, <2>4, NextScriptType DEF RunScript
<1>13. CASE Import
  BY <1>0, <1>13, ImportedType DEF Import
<1>14. CASE ImporterFails
  BY <1>14, ImportedType, ErrorHandlerType DEF ImporterFails, DoesSomeTasks
<1>15. CASE Dies
  BY <1>15, ImportedType DEF Dies, DoesSomeTasks
<1> QED BY <1>1, <1>2, <1>3, <1>4, <1>5, <1>6, <1>7, <1>8, <1>9, <1>10, <1>11, <1>12, <1>13, <1>14,
           <1>15
     DEF GatherNext

\* The types of the gathering hold for any jobs, scripts and versions.
THEOREM GatherTypeCorrect == GatherSpec => []GatherTypeOK
  BY GatherTypeInit, GatherTypeStep, PTL DEF GatherSpec

(***************************************************************************)
(* What the next job continues from                                        *)
(***************************************************************************)
ReachedScripts ==
    IF pcJob = "import" THEN Range(lists.scripts) ELSE {lists.scripts[n] : n \in 1 .. scriptAt - 1}

\* An update file that is ahead of the database, of which the job has the data:
\* it wrote the file, so that it restores or notes it when it does not import them.
Pending(ps) ==
    /\ pcJob \in {"export", "trackers", "run", "import"}
    /\ ps[1] = currentProject /\ ps[2] \in ReachedScripts /\ updateFiles[ps].at = jobs
    /\ 1 .. updateFiles[ps].version \subseteq inDatabase[ps] \cup exportFiles[ps]

GatherInv ==
    /\ \A ps \in Outputs \ skipped :
          /\ Complete(ps, tracked[ps].version)
          /\ ps \notin unrestored => Complete(ps, updateFiles[ps].version) \/ Pending(ps)
    /\ pcJob \in {"trackers", "run"} => thisScript \in ran

LEMMA NextReaches ==
  ASSUME GatherTypeOK, NextScript, UNCHANGED lists, pcJob # "import"
  PROVE  ReachedScripts' = ReachedScripts \cup {thisScript} /\ thisScript \notin ReachedScripts
<1> DEFINE last == Len(lists.scripts)
<1>1. /\ scriptAt \in 1 .. last /\ last \in Nat \ {0} /\ DOMAIN lists.scripts = 1 .. last
      /\ \A m, n \in 1 .. last : lists.scripts[m] = lists.scripts[n] => m = n
  BY JobLists DEF GatherTypeOK
<1> HIDE DEF last
<1>2. thisScript \notin ReachedScripts
  BY <1>1 DEF thisScript, ReachedScripts
<1>3. CASE scriptAt = last
  <2>1. pcJob' = "import"
    BY <1>3 DEF NextScript, last
  <2>2. 1 .. last = 1 .. scriptAt - 1 \cup {scriptAt}
    BY <1>1, <1>3
  <2>3. Range(lists.scripts) = {lists.scripts[n] : n \in 1 .. scriptAt - 1} \cup {thisScript}
    BY <1>1, <2>2 DEF Range, thisScript
  <2> QED BY <1>2, <2>1, <2>3 DEF ReachedScripts
<1>4. CASE scriptAt # last
  <2>1. pcJob' = "export" /\ scriptAt' = scriptAt + 1
    BY <1>4 DEF NextScript, last
  <2>2. 1 .. (scriptAt + 1) - 1 = 1 .. scriptAt - 1 \cup {scriptAt}
    BY <1>1
  <2>3. {lists.scripts[n] : n \in 1 .. (scriptAt + 1) - 1} =
        {lists.scripts[n] : n \in 1 .. scriptAt - 1} \cup {thisScript}
    BY <2>2 DEF thisScript
  <2> QED BY <1>2, <2>1, <2>3 DEF ReachedScripts
<1> QED BY <1>3, <1>4

\* Nothing is pending when the job is idle or about to fetch dropins, nor for
\* another project or a script that is still to come.
LEMMA NotPending ==
  ASSUME NEW ps \in Outputs,
         pcJob \in {"idle", "dropins"} \/ ps[1] # currentProject \/ ps[2] \notin ReachedScripts
  PROVE  ~Pending(ps)
  BY DEF Pending

\* A step that changes no file and no place of the job.
LEMMA GatherSame ==
  ASSUME GatherInv, NEW ps \in Outputs \ skipped, ps \notin unrestored, UNCHANGED <<workspace, loop, pcJob, lists>>,
         inDatabase[ps] \subseteq inDatabase'[ps], Complete(ps, tracked[ps].version)',
         pcJob \in {"trackers", "run"} => thisScript \in ran
  PROVE  Complete(ps, updateFiles[ps].version)' \/ Pending(ps)'
  BY DEF GatherInv, Complete, Pending, ReachedScripts, workspace, loop, currentProject, thisScript

LEMMA GatherStep ==
  ASSUME GatherTypeOK, GatherInv, [GatherNext]_gatherVars
  PROVE  GatherInv'
<1> USE DEF sources, database, workspace, loop, history
<1>0. /\ this \in Outputs /\ this[1] = currentProject /\ this[2] = thisScript
      /\ thisScript \in Scripts
  BY JobIsAt
<1>1. CASE \/ UNCHANGED gatherVars
           \/ \E p \in JobProjects : NewVersion(p)
           \/ \E ps \in Outputs : \E v \in 0 .. latest[ps[1]] : Archive(ps, v)
  BY <1>1, GatherSame
  DEF gatherVars, NewVersion, Archive, GatherInv, Complete, thisScript
<1>2. ASSUME NEW ps \in Outputs, AgentImports(ps) PROVE GatherInv'
  <2>1. /\ latest[ps[1]] \in Nat /\ tracked[ps].version \in Nat
    BY DEF GatherTypeOK, Outputs, FileVersions
  <2>2. ASSUME NEW other \in Outputs \ skipped
        PROVE  Complete(other, tracked[other].version)' /\ inDatabase[other] \subseteq inDatabase'[other]
    <3>1. Complete(other, tracked[other].version)
      BY DEF GatherInv
    <3>2. CASE other = ps
      <4>1. /\ inDatabase'[ps] = inDatabase[ps] \cup (tracked[ps].version + 1) .. latest[ps[1]]
            /\ tracked'[ps].version = latest[ps[1]]
        BY <1>2 DEF AgentImports, GatherTypeOK
      <4>2. 1 .. latest[ps[1]] \subseteq 1 .. tracked[ps].version \cup (tracked[ps].version + 1) .. latest[ps[1]]
        BY <2>1
      <4> QED BY <3>1, <3>2, <4>1, <4>2 DEF Complete
    <3>3. CASE other # ps
      BY <1>2, <3>1, <3>3 DEF AgentImports, GatherTypeOK, Complete
    <3> QED BY <3>2, <3>3
  <2> QED BY <1>2, <2>2, GatherSame DEF AgentImports, GatherInv, thisScript
\* A failure leaves what was complete, and takes what was pending back or notes it.
<1>f. ASSUME pcJob' = "idle", UNCHANGED <<tracked, skipped>>,
             \A ps \in Outputs : inDatabase[ps] \subseteq inDatabase'[ps],
             \/ updateFiles' = updateFiles /\ unrestored' = unrestored \cup WrittenNow
             \/ updateFiles' = ErrorHandler /\ unrestored' = (unrestored \cup WrittenNow) \ Restored
      PROVE  GatherInv'
  <2>1. ASSUME NEW ps \in Outputs \ skipped
        PROVE  /\ Complete(ps, tracked[ps].version)'
               /\ ps \notin unrestored' => Complete(ps, updateFiles[ps].version)'
    <3>1. /\ Complete(ps, tracked[ps].version)
          /\ ps \notin unrestored => Complete(ps, updateFiles[ps].version) \/ Pending(ps)
      BY <1>f, <2>1 DEF GatherInv
    <3>2. Complete(ps, tracked[ps].version)'
      BY <1>f, <3>1 DEF Complete
    <3>3. CASE updateFiles'[ps] = NoTracker
      <4>1. 1 .. 0 \subseteq inDatabase'[ps]
        OBVIOUS
      <4> QED BY <3>2, <3>3, <4>1, NoTrackerType DEF Complete
    <3>4. CASE updateFiles'[ps] # NoTracker /\ ps \notin unrestored'
      <4>1. updateFiles'[ps] = updateFiles[ps] /\ ps \notin unrestored \cup WrittenNow
        BY <1>f, <3>4 DEF ErrorHandler
      <4>2. ~Pending(ps)
        BY <4>1 DEF Pending, WrittenNow
      <4> QED BY <1>f, <3>1, <3>2, <4>1, <4>2 DEF Complete
    <3> QED BY <3>2, <3>3, <3>4
  <2> QED BY <1>f, <2>1 DEF GatherInv
<1>i. ASSUME DoesSomeTasks PROVE \A ps \in Outputs : inDatabase[ps] \subseteq inDatabase'[ps]
  BY <1>i DEF DoesSomeTasks, ImportedData
<1>3. CASE Fails
  BY <1>3, <1>f DEF Fails
<1>4. CASE ImporterFails
  BY <1>4, <1>f, <1>i DEF ImporterFails
<1>12. CASE Dies
  BY <1>12, <1>f, <1>i DEF Dies
\* Where nothing is pending, everything is complete.
<1>5. CASE \/ \E scripts \in SUBSET Scripts, imports \in lists.tasks : StartJob(scripts, imports)
           \/ FetchDropins
  <2>1. pcJob \in {"idle", "dropins"} /\ pcJob' \notin {"trackers", "run"}
        /\ UNCHANGED <<database, workspace, history>>
    BY <1>5 DEF StartJob, FetchDropins
  <2> QED BY <2>1, NotPending DEF GatherInv, Complete
\* Steps to the next script: of other outputs nothing changes.
<1>n. ASSUME NextScript, pcJob \notin {"import", "idle", "dropins"},
             UNCHANGED <<sources, database, projectAt, ran, dropins, jobs, skipped>>,
             unrestored' \in {unrestored, unrestored \ {this}},
             \A ps \in Outputs \ {this} :
                updateFiles'[ps] = updateFiles[ps] /\ exportFiles'[ps] = exportFiles[ps],
             \/ this \in unrestored' \cup skipped
             \/ 1 .. updateFiles'[this].version \subseteq inDatabase[this]
             \/ /\ updateFiles'[this].at = jobs
                /\ 1 .. updateFiles'[this].version \subseteq inDatabase[this] \cup exportFiles'[this]
      PROVE  GatherInv'
  <2>1. /\ ReachedScripts' = ReachedScripts \cup {thisScript} /\ pcJob' \in {"export", "import"}
        /\ currentProject' = currentProject
    BY <1>n, NextReaches, NextScriptType DEF currentProject
  <2>2. ASSUME NEW ps \in Outputs \ skipped
        PROVE  /\ Complete(ps, tracked[ps].version)'
               /\ ps \notin unrestored' => Complete(ps, updateFiles[ps].version)' \/ Pending(ps)'
    <3>1. /\ Complete(ps, tracked[ps].version)
          /\ ps \notin unrestored => Complete(ps, updateFiles[ps].version) \/ Pending(ps)
      BY DEF GatherInv
    <3>2. CASE ps = this
      BY <1>0, <1>n, <2>1, <3>1, <3>2 DEF Complete, Pending
    <3>3. CASE ps # this
      BY <1>n, <2>1, <3>1, <3>3 DEF Complete, Pending
    <3> QED BY <3>2, <3>3
  <2> QED BY <1>n, <2>1, <2>2 DEF GatherInv
<1>t. ASSUME pcJob \notin {"import", "idle", "dropins"}, this \notin skipped
      PROVE  /\ Complete(this, tracked[this].version) /\ updateFiles[this].version \in Nat
             /\ this \notin unrestored => Complete(this, updateFiles[this].version)
  <2>1. thisScript \notin ReachedScripts
    <3>1. /\ scriptAt \in 1 .. Len(lists.scripts) /\ Len(lists.scripts) \in Nat
          /\ \A m, n \in 1 .. Len(lists.scripts) : lists.scripts[m] = lists.scripts[n] => m = n
      BY JobLists DEF GatherTypeOK
    <3> QED BY <1>t, <3>1 DEF thisScript, ReachedScripts
  <2>2. updateFiles[this].version \in Nat
    BY <1>0 DEF GatherTypeOK, FileVersions
  <2> QED BY <1>0, <1>t, <2>1, <2>2, NotPending DEF GatherInv
<1>6. CASE Skip
  <2>1. updateFiles'[this].version = 0
    BY <1>0, <1>6, NoTrackerType DEF Skip, GatherTypeOK
  <2>2. 1 .. updateFiles'[this].version \subseteq inDatabase[this]
    BY <2>1
  <2>3. /\ NextScript /\ pcJob = "export"
        /\ UNCHANGED <<sources, database, projectAt, ran, dropins, jobs, skipped>>
        /\ unrestored' = unrestored \ {this}
        /\ \A ps \in Outputs \ {this} :
              updateFiles'[ps] = updateFiles[ps] /\ exportFiles'[ps] = exportFiles[ps]
    BY <1>6 DEF Skip, GatherTypeOK
  <2> QED BY <1>n, <2>2, <2>3
<1>7. CASE Dropin
  <2>1. /\ NextScript /\ pcJob = "export" /\ dropins[thisScript] > 0
        /\ UNCHANGED <<sources, database, projectAt, ran, dropins, jobs, history>>
        /\ \A ps \in Outputs \ {this} :
              updateFiles'[ps] = updateFiles[ps] /\ exportFiles'[ps] = exportFiles[ps]
    BY <1>7 DEF Dropin, GatherTypeOK
  <2>2. CASE thisScript \notin Updated \/ SameUpdate
    BY <1>7, <1>n, <1>t, <2>1, <2>2 DEF Dropin, Complete
  <2>3. CASE thisScript \in Updated /\ ~SameUpdate
    <3>1. /\ updateFiles'[this].version = dropins[thisScript] /\ updateFiles'[this].at = jobs
          /\ exportFiles'[this] = 1 .. dropins[thisScript]
      BY <1>0, <1>7, <2>3 DEF Dropin, UseDropin, GatherTypeOK
    <3> QED BY <1>n, <2>1, <2>3, <3>1
  <2> QED BY <2>2, <2>3
\* Within a script
<1>w. ASSUME pcJob \in {"export", "trackers"}, pcJob' \in {"trackers", "run"},
             UNCHANGED <<sources, database, exportFiles, projectAt, scriptAt, dropins, jobs, skipped>>,
             ran \subseteq ran', thisScript \in ran',
             \A ps \in Outputs \ {this} : updateFiles'[ps] = updateFiles[ps],
             \/ updateFiles'[this] = updateFiles[this] /\ unrestored' = unrestored
             \/ updateFiles'[this] = tracked[this] /\ unrestored' = unrestored \ {this}
      PROVE  GatherInv'
  <2>1. /\ ReachedScripts' = ReachedScripts /\ currentProject' = currentProject
        /\ thisScript' = thisScript
    BY <1>w DEF ReachedScripts, currentProject, thisScript
  <2>2. ASSUME NEW ps \in Outputs \ skipped
        PROVE  /\ Complete(ps, tracked[ps].version)'
               /\ ps \notin unrestored' => Complete(ps, updateFiles[ps].version)' \/ Pending(ps)'
    <3>1. /\ Complete(ps, tracked[ps].version)
          /\ ps \notin unrestored => Complete(ps, updateFiles[ps].version) \/ Pending(ps)
      BY DEF GatherInv
    <3>2. CASE ps = this
      BY <1>t, <1>w, <3>1, <3>2 DEF Complete
    <3>3. CASE ps # this
      BY <1>w, <2>1, <3>1, <3>3 DEF Complete, Pending
    <3> QED BY <3>2, <3>3
  <2> QED BY <1>w, <2>1, <2>2 DEF GatherInv
<1>8. CASE NoDropin
  BY <1>8, <1>w DEF NoDropin
<1>9. CASE RetrieveTrackers
  <2>1. thisScript \in ran
    BY <1>9 DEF RetrieveTrackers, GatherInv
  <2>2. /\ \/ updateFiles'[this] = updateFiles[this] /\ unrestored' = unrestored
           \/ updateFiles'[this] = tracked[this] /\ unrestored' = unrestored \ {this}
        /\ \A ps \in Outputs \ {this} : updateFiles'[ps] = updateFiles[ps]
    BY <1>0, <1>9 DEF RetrieveTrackers, GatherTypeOK
  <2> QED BY <1>9, <1>w, <2>1, <2>2 DEF RetrieveTrackers
<1>10. CASE RunScript
  <2> DEFINE first == latest[currentProject]
  <2>1. /\ NextScript /\ pcJob = "run" /\ thisScript \in ran
        /\ UNCHANGED <<sources, database, projectAt, ran, dropins, jobs, history>>
        /\ \A ps \in Outputs \ {this} :
              updateFiles'[ps] = updateFiles[ps] /\ exportFiles'[ps] = exportFiles[ps]
    BY <1>10 DEF RunScript, GatherTypeOK, GatherInv
  <2>2. exportFiles'[this] = (updateFiles[this].version + 1) .. first /\ first \in Nat
    BY <1>0, <1>10, JobIsAt DEF RunScript, GatherTypeOK
  <2>3. CASE thisScript \notin Updated
    BY <1>10, <1>n, <1>t, <2>1, <2>3 DEF RunScript, Complete
  <2>4. CASE thisScript \in Updated
    <3>1. updateFiles'[this].version = first /\ updateFiles'[this].at = jobs
      BY <1>0, <1>10, <2>4 DEF RunScript, GatherTypeOK
    <3>2. ASSUME this \notin unrestored \cup skipped
          PROVE  1 .. first \subseteq inDatabase[this] \cup exportFiles'[this]
      <4>1. 1 .. updateFiles[this].version \subseteq inDatabase[this] /\ updateFiles[this].version \in Nat
        BY <1>t, <2>1, <3>2 DEF Complete
      <4>2. 1 .. first \subseteq 1 .. updateFiles[this].version \cup (updateFiles[this].version + 1) .. first
        BY <2>2, <4>1
      <4> QED BY <2>2, <4>1, <4>2
    <3> QED BY <1>n, <2>1, <2>4, <3>1, <3>2
  <2> QED BY <2>3, <2>4
<1>11. CASE Import
  <2>1. UNCHANGED workspace /\ pcJob = "import" /\ pcJob' \in {"idle", "dropins"}
    BY <1>11 DEF Import
  <2>2. ASSUME NEW ps \in Outputs \ skipped'
        PROVE  /\ Complete(ps, tracked[ps].version)'
               /\ ps \notin unrestored' => Complete(ps, updateFiles[ps].version)'
    <3>1. /\ Complete(ps, tracked[ps].version)
          /\ ps \notin unrestored => Complete(ps, updateFiles[ps].version) \/ Pending(ps)
      BY <1>11 DEF Import, GatherInv
    <3>2. /\ inDatabase[ps] \subseteq inDatabase'[ps]
          /\ ps[1] = currentProject /\ ps[2] \in tasks => exportFiles[ps] \subseteq inDatabase'[ps]
      BY <1>11 DEF Import, ImportedData
    <3>3. unrestored' = unrestored \cup {qs \in WrittenNow : qs[2] \notin tasks}
      BY <1>11 DEF Import
    <3>4. ASSUME ps \notin unrestored' PROVE Complete(ps, updateFiles[ps].version)'
      <4>1. Pending(ps) => ps[1] = currentProject /\ ps[2] \in tasks
        BY <3>3, <3>4 DEF Pending, WrittenNow
      <4> QED BY <2>1, <3>1, <3>2, <3>3, <3>4, <4>1 DEF Complete, Pending
    <3>5. \/ tracked'[ps] = tracked[ps]
          \/ tracked'[ps] = updateFiles[ps] /\ ps \notin unrestored'
      BY <1>11 DEF Import, ImportedTrackers
    <3> QED BY <2>1, <3>1, <3>2, <3>4, <3>5 DEF Complete
  <2> QED BY <2>1, <2>2 DEF GatherInv
<1> QED BY <1>1, <1>2, <1>3, <1>4, <1>5, <1>6, <1>7, <1>8, <1>9, <1>10, <1>11, <1>12
     DEF GatherNext

LEMMA GatherInvInit == GatherInit => GatherInv
<1> SUFFICES ASSUME GatherInit PROVE GatherInv
  OBVIOUS
<1>1. \A ps \in Outputs : tracked[ps].version = 0 /\ updateFiles[ps].version = 0
  BY NoTrackerType DEF GatherInit
<1>2. \A ps \in Outputs : 1 .. 0 \subseteq inDatabase[ps]
  OBVIOUS
<1> QED BY <1>1, <1>2 DEF GatherInit, GatherInv, Complete

\* Between two jobs of jenkins.sh, a tracker is never past a version that was not
\* imported, for any jobs, scripts, tasks and number of versions, whatever failed
\* and however the shell died, but for what such a job wrote and did not import.
THEOREM NoGap == GatherSpec => []NothingIsSkipped
<1>1. GatherTypeOK /\ GatherInv /\ [GatherNext]_gatherVars => (GatherTypeOK /\ GatherInv)'
  BY GatherTypeStep, GatherStep
<1>2. GatherTypeOK /\ GatherInv => NothingIsSkipped
  BY DEF GatherInv, NothingIsSkipped, Pending
<1> QED BY <1>1, <1>2, GatherTypeInit, GatherInvInit, PTL DEF GatherSpec

-----------------------------------------------------------------------------
(***************************************************************************)
(* Sets of numbers                                                         *)
(***************************************************************************)
LEMMA SmallestOfNumbers ==
  ASSUME NEW S \in SUBSET Nat, S # {}
  PROVE  \E x \in S : \A y \in S : x <= y
<1>1. PICK x \in S : \A y \in S : ~(<<y, x>> \in OpToRel(<, Nat))
  <2>1. S \subseteq Nat OBVIOUS
  <2> QED BY <2>1, WFMin, NatLessThanWellFounded
<1>2. ASSUME NEW y \in S PROVE x <= y
  <2>1. x \in Nat /\ y \in Nat /\ ~(y < x) BY <1>1 DEF OpToRel
  <2> QED BY <2>1
<1> QED BY <1>2

LEMMA GreatestOfNumbers ==
  ASSUME NEW N \in Nat, NEW S \in SUBSET (0 .. N), S # {}
  PROVE  \E x \in S : \A y \in S : x >= y
<1> DEFINE T == {N - x : x \in S}
<1>1. T \subseteq Nat /\ T # {}
  <2>1. \A x \in S : x \in 0 .. N /\ N - x \in Nat OBVIOUS
  <2>2. PICK x \in S : TRUE OBVIOUS
  <2>3. N - x \in T OBVIOUS
  <2> QED BY <2>1, <2>3
<1>2. PICK t \in T : \A u \in T : t <= u
  <2> HIDE DEF T
  <2> QED BY <1>1, SmallestOfNumbers
<1>3. PICK x \in S : t = N - x OBVIOUS
<1>4. ASSUME NEW y \in S PROVE x >= y
  <2>1. N - y \in T /\ x \in Nat /\ y \in Nat BY <1>1
  <2> QED BY <1>2, <1>3, <2>1
<1> QED BY <1>4

-----------------------------------------------------------------------------
(***************************************************************************)
(* Types of the Jenkins client                                             *)
(***************************************************************************)
JenkinsPlaces ==
    {"jobs", "last", "branch", "result", "download", "nodes", "post", "done", "skipped", "crashed"}
Existence == {Unknown, Yes, No}
ServerBuilds == [branch : Branches, result : {"none", "good", "bad"}]
BuildData == [number : Nat, result : {"none", "good", "bad"}, byBranch : [Branches -> Nat]]
JobObjects == [exists : Existence, has_data : BOOLEAN, builds : SUBSET Nat]
BuildObjects == [exists : Existence, data : BuildData, number : Nat, url : {"last", "number"}]

JenkinsTypeOK ==
    /\ job \in [exists : BOOLEAN, branches : BOOLEAN]
    /\ builds \in Seq(ServerBuilds) /\ kept \subseteq DOMAIN builds
    /\ script \in {"importer", "usage", "scrape"} /\ pcJenkins \in JenkinsPlaces
    /\ jobObject \in JobObjects /\ build \in BuildObjects
    /\ checked \in Nat /\ taken \in Nat /\ crumb \in {"none", "held", "absent"}

(***************************************************************************)
(* What the client knows of the builds, and what remains true of it        *)
(***************************************************************************)
OfBranch(n) == builds[n].branch = Branch \/ \A m \in 1 .. n : builds[m].branch # Branch

IsGood(n) == n \in DOMAIN builds /\ builds[n].result = "good"

\* The data of a build, of whenever it was retrieved.
DataIsTrue(d) ==
    /\ d.number \in DOMAIN builds
    /\ d.result = "good" => IsGood(d.number)
    /\ d.byBranch[Branch] = 0 => \A m \in 1 .. d.number : builds[m].branch # Branch
    /\ d.byBranch[Branch] # 0 =>
         /\ d.byBranch[Branch] \in DOMAIN builds
         /\ builds[d.byBranch[Branch]].branch = Branch

BuildIsKnown ==
    /\ build.number \in DOMAIN builds
    /\ build.data # NoData => build.data.number = build.number /\ DataIsTrue(build.data)
    /\ build.url = "last" => job.branches /\ build.data # NoData

\* Which script is where; the builds of the job that the importer looks at.
PlacesInv ==
    /\ pcJenkins \in {"last", "branch", "result", "download"} => script = "importer"
    /\ pcJenkins = "nodes" => script = "usage"
    /\ pcJenkins = "post" => script = "scrape"

ServerInv ==
    script = "importer" =>
      /\ ~job.exists => builds = <<>>
      /\ job.branches => \A n \in DOMAIN builds : builds[n].branch = Branch

JobInv ==
    /\ jobObject.builds \subseteq DOMAIN builds
    /\ pcJenkins = "jobs" => jobObject = NewJob
    /\ pcJenkins = "last" => job.branches \/ jobObject.has_data \/ ~job.exists

BuildInv ==
    /\ pcJenkins \in {"branch", "result", "download"} => BuildIsKnown
    /\ pcJenkins \in {"result", "download"} => OfBranch(build.number)
    /\ pcJenkins = "download" => checked = build.number /\ IsGood(checked)

DoneInv ==
    script = "importer" /\ pcJenkins = "done" =>
      /\ IsGood(checked)
      /\ taken \in DOMAIN builds /\ OfBranch(taken)
      /\ ~job.branches => taken = checked

JenkinsInv == JenkinsTypeOK /\ PlacesInv /\ ServerInv /\ JobInv /\ BuildInv /\ DoneInv

-----------------------------------------------------------------------------
(***************************************************************************)
(* What the server says                                                    *)
(***************************************************************************)
LEMMA MaxOfNumbers ==
  ASSUME NEW N \in Nat, NEW S \in SUBSET (0 .. N), S # {}
  PROVE  Max(S) \in S /\ \A y \in S : Max(S) >= y
  BY GreatestOfNumbers DEF Max

LEMMA DataOfIsTrue ==
  ASSUME JenkinsTypeOK, NEW n \in DOMAIN builds
  PROVE  DataOf(n) \in BuildData /\ DataOf(n) # NoData /\ DataOf(n).number = n /\ DataIsTrue(DataOf(n))
<1> DEFINE last(b) == {0} \cup {m \in 1 .. n : builds[m].branch = b}
<1>1. /\ n \in Nat \ {0} /\ n \in 1 .. Len(builds) /\ Len(builds) \in Nat
      /\ DOMAIN builds = 1 .. Len(builds)
  BY DEF JenkinsTypeOK
<1>2. ASSUME NEW b \in Branches
      PROVE  Max(last(b)) \in last(b) /\ \A m \in last(b) : Max(last(b)) >= m
  <2>1. last(b) \in SUBSET (0 .. n) /\ last(b) # {} BY <1>1
  <2> HIDE DEF last
  <2> QED BY <1>1, <2>1, MaxOfNumbers
<1>3. /\ DataOf(n).number = n /\ DataOf(n).result = builds[n].result
      /\ DataOf(n).byBranch = [b \in Branches |-> Max(last(b))]
  BY DEF DataOf
<1>4. DataOf(n) \in BuildData
  <2>1. builds[n].result \in {"none", "good", "bad"}
    <3>1. builds[n] \in ServerBuilds BY DEF JenkinsTypeOK
    <3> QED BY <3>1 DEF ServerBuilds
  <2>2. [b \in Branches |-> Max(last(b))] \in [Branches -> Nat] BY <1>1, <1>2
  <2> HIDE DEF last
  <2>3. DataOf(n) = [number |-> n, result |-> builds[n].result,
                     byBranch |-> [b \in Branches |-> Max(last(b))]]
    BY DEF DataOf, last
  <2> QED BY <1>1, <2>1, <2>2, <2>3 DEF BuildData
<1>5. DataOf(n) # NoData BY <1>1, <1>3 DEF NoData
<1>6. DataIsTrue(DataOf(n))
  <2> DEFINE k == Max(last(Branch))
  <2>1. DataOf(n).byBranch[Branch] = k BY <1>3, JenkinsAssumption
  <2>2. k \in last(Branch) /\ \A m \in last(Branch) : k >= m BY <1>2, JenkinsAssumption
  <2>3. k = 0 => \A m \in 1 .. n : builds[m].branch # Branch
    BY <1>1, <2>2
  <2>4. k # 0 => k \in DOMAIN builds /\ builds[k].branch = Branch
    BY <1>1, <2>2
  <2> HIDE DEF k
  <2> QED BY <1>1, <1>3, <2>1, <2>3, <2>4 DEF DataIsTrue, IsGood
<1> QED BY <1>3, <1>4, <1>5, <1>6

\* A retrieved build exists with its number and what is true of it, or not.
LEMMA RetrievedBuild ==
  ASSUME JenkinsTypeOK, NEW b \in BuildObjects
  PROVE  /\ Retrieved(b) \in BuildObjects /\ Retrieved(b).url = b.url
         /\ \/ Retrieved(b).exists = No
            \/ /\ Retrieved(b).exists = Yes
               /\ Retrieved(b).number \in DOMAIN builds
               /\ b.url # "last" => Retrieved(b).number = b.number
               /\ Retrieved(b).data # NoData
               /\ Retrieved(b).data.number = Retrieved(b).number
               /\ DataIsTrue(Retrieved(b).data)
<1> DEFINE n == IF b.url = "last" THEN LastBuild ELSE b.number
<1>1. CASE n \in kept
  <2>1. n \in DOMAIN builds /\ n \in Nat BY <1>1 DEF JenkinsTypeOK
  <2>2. /\ DataOf(n) \in BuildData /\ DataOf(n) # NoData /\ DataOf(n).number = n
        /\ DataIsTrue(DataOf(n))
    BY <2>1, DataOfIsTrue
  <2> DEFINE d == DataOf(n)
  <2>3. Retrieved(b) = [b EXCEPT !.exists = Yes, !.data = d, !.number = n]
    BY <1>1 DEF Retrieved
  <2>4. d \in BuildData /\ d # NoData /\ d.number = n /\ DataIsTrue(d) BY <2>2
  <2>5. b.url # "last" => n = b.number OBVIOUS
  <2> HIDE DEF d, n
  <2>6. /\ Retrieved(b).exists = Yes /\ Retrieved(b).data = d /\ Retrieved(b).number = n
        /\ Retrieved(b).url = b.url /\ Retrieved(b) \in BuildObjects
    BY <2>1, <2>3, <2>4 DEF BuildObjects, Existence
  <2> QED BY <2>1, <2>4, <2>5, <2>6
<1>2. CASE n \notin kept
  <2>1. Retrieved(b) = [b EXCEPT !.exists = No] BY <1>2 DEF Retrieved
  <2> QED BY <2>1 DEF BuildObjects, Existence
<1> QED BY <1>1, <1>2

LEMMA ListedBuilds == JenkinsTypeOK => Listed \subseteq DOMAIN builds /\ Listed \in SUBSET Nat
  BY DEF JenkinsTypeOK, Listed

LEMMA RetrievedJobType ==
  ASSUME JenkinsTypeOK, JobInv
  PROVE  RetrievedJob \in JobObjects /\ RetrievedJob.builds \subseteq DOMAIN builds
  BY ListedBuilds DEF JenkinsTypeOK, JobInv, RetrievedJob, JobObjects, Existence

LEMMA NewObjects == NewJob \in JobObjects /\ NoData \in BuildData /\ NewBuild \in BuildObjects
<1>1. NoData \in BuildData BY DEF NoData, BuildData
<1>2. NewBuild \in BuildObjects BY <1>1 DEF NewBuild, BuildObjects, Existence
<1>3. NewJob \in JobObjects BY DEF NewJob, JobObjects, Existence
<1> QED BY <1>1, <1>2, <1>3

LEMMA LastBuildType ==
  ASSUME JenkinsTypeOK, JobInv
  PROVE  /\ MakeLastBuild \in BuildObjects
         /\ MakeLastBuild.exists = Unknown => MakeLastBuild = NewBuild /\ ~jobObject.has_data
         /\ MakeLastBuild.exists = Yes =>
              /\ MakeLastBuild.data = NoData /\ MakeLastBuild.url = "number"
              /\ MakeLastBuild.number \in DOMAIN builds
<1>1. CASE ~jobObject.has_data
  BY <1>1, NewObjects DEF MakeLastBuild, NewBuild, Unknown, Yes
<1>2. CASE jobObject.has_data /\ jobObject.builds = {}
  BY <1>2, NewObjects DEF MakeLastBuild, NewBuild, BuildObjects, Existence, No, Yes, Unknown
<1>3. CASE jobObject.has_data /\ jobObject.builds # {}
  <2>1. jobObject.builds \in SUBSET (0 .. Len(builds)) /\ Len(builds) \in Nat
    BY DEF JenkinsTypeOK, JobInv
  <2> DEFINE n == Max(jobObject.builds)
  <2>2. n \in jobObject.builds BY <1>3, <2>1, MaxOfNumbers
  <2>3. n \in DOMAIN builds /\ n \in Nat BY <2>1, <2>2 DEF JobInv
  <2>4. MakeLastBuild = [NewBuild EXCEPT !.exists = Yes, !.number = n, !.url = "number"]
    BY <1>3 DEF MakeLastBuild
  <2> HIDE DEF n
  <2> QED BY <2>3, <2>4, NewObjects DEF NewBuild, BuildObjects, Existence, Yes, Unknown
<1> QED BY <1>1, <1>2, <1>3

LEMMA GetBuildType ==
  ASSUME NEW n \in Nat
  PROVE  /\ GetBuild(n) \in BuildObjects /\ GetBuild(n).number = n
         /\ GetBuild(n).data = NoData /\ GetBuild(n).url = "number"
  BY NewObjects DEF GetBuild, BuildObjects, Existence

\* A build that is known stays so when its data is retrieved.
LEMMA WithDataIsKnown ==
  ASSUME JenkinsTypeOK, BuildIsKnown
  PROVE  /\ WithData(build) \in BuildObjects /\ WithData(build).url = build.url
         /\ WithData(build).exists # No =>
              /\ WithData(build).number = build.number /\ WithData(build).data # NoData
              /\ WithData(build).data.number = build.number
              /\ DataIsTrue(WithData(build).data)
<1>1. build \in BuildObjects BY DEF JenkinsTypeOK
<1>2. CASE build.exists # No /\ build.data = NoData
  <2>1. build.url # "last" BY <1>2 DEF BuildIsKnown
  <2>2. WithData(build) = Retrieved(build) BY <1>2 DEF WithData
  <2> QED BY <1>1, <2>1, <2>2, RetrievedBuild
<1>3. CASE ~(build.exists # No /\ build.data = NoData)
  BY <1>1, <1>3 DEF WithData, BuildIsKnown
<1> QED BY <1>2, <1>3

-----------------------------------------------------------------------------
(***************************************************************************)
(* Steps of the server                                                     *)
(***************************************************************************)
\* What builds that start, end and are discarded leave as it was.
Grows ==
    /\ builds' \in Seq(ServerBuilds) /\ kept' \subseteq DOMAIN builds'
    /\ DOMAIN builds \subseteq DOMAIN builds'
    /\ \A n \in DOMAIN builds :
         /\ builds'[n].branch = builds[n].branch
         /\ builds[n].result = "good" => builds'[n].result = "good"

LEMMA StartGrows ==
  ASSUME JenkinsTypeOK, NEW b \in Branches,
         builds' = Append(builds, [branch |-> b, result |-> "none"]),
         kept' = kept \cup {Len(builds) + 1}
  PROVE  /\ Grows /\ DOMAIN builds' = DOMAIN builds \cup {Len(builds) + 1}
         /\ builds'[Len(builds) + 1].branch = b
<1> DEFINE new == [branch |-> b, result |-> "none"]
<1>1. builds \in Seq(ServerBuilds) /\ Len(builds) \in Nat /\ DOMAIN builds = 1 .. Len(builds)
  BY DEF JenkinsTypeOK
<1>2. new \in ServerBuilds /\ new.branch = b BY DEF ServerBuilds
<1>3. builds' = Append(builds, new) OBVIOUS
<1> HIDE DEF new
<1>4. /\ builds' \in Seq(ServerBuilds) /\ DOMAIN builds' = 1 .. Len(builds) + 1
      /\ \A n \in DOMAIN builds : builds'[n] = builds[n]
      /\ builds'[Len(builds) + 1] = new
  BY <1>1, <1>2, <1>3
<1> QED BY <1>1, <1>2, <1>4 DEF Grows, JenkinsTypeOK

LEMMA EndGrows ==
  ASSUME JenkinsTypeOK, NEW n \in DOMAIN builds, NEW r \in {"good", "bad"}, EndBuild(n, r)
  PROVE  /\ Grows /\ DOMAIN builds' = DOMAIN builds
<1>1. builds[n] \in ServerBuilds BY DEF JenkinsTypeOK
<1>2. /\ builds' = [builds EXCEPT ![n] = [builds[n] EXCEPT !.result = r]]
      /\ kept' = kept /\ builds[n].result = "none"
  BY DEF EndBuild
<1> DEFINE ended == [builds[n] EXCEPT !.result = r]
<1>3. ended \in ServerBuilds /\ ended.branch = builds[n].branch
  BY <1>1 DEF ServerBuilds
<1>4. builds' = [builds EXCEPT ![n] = ended] BY <1>2
<1> HIDE DEF ended
<1>5. builds' \in Seq(ServerBuilds) /\ DOMAIN builds' = DOMAIN builds
  BY <1>3, <1>4 DEF JenkinsTypeOK
<1>6. \A m \in DOMAIN builds : builds'[m] = IF m = n THEN ended ELSE builds[m]
  BY <1>4
<1> QED BY <1>2, <1>3, <1>5, <1>6 DEF Grows, JenkinsTypeOK

LEMMA OfBranchRemains ==
  ASSUME JenkinsTypeOK, Grows, NEW n \in DOMAIN builds, OfBranch(n)
  PROVE  OfBranch(n)'
<1>1. \A m \in 1 .. n : m \in DOMAIN builds
  BY DEF JenkinsTypeOK
<1>2. CASE builds[n].branch = Branch BY <1>2 DEF Grows, OfBranch
<1>3. CASE \A m \in 1 .. n : builds[m].branch # Branch BY <1>1, <1>3 DEF Grows, OfBranch
<1> QED BY <1>2, <1>3 DEF OfBranch

LEMMA DataRemainsTrue ==
  ASSUME JenkinsTypeOK, Grows, NEW d, DataIsTrue(d)
  PROVE  /\ d.number \in DOMAIN builds'
         /\ d.result = "good" => builds'[d.number].result = "good"
         /\ d.byBranch[Branch] = 0 => \A m \in 1 .. d.number : builds'[m].branch # Branch
         /\ d.byBranch[Branch] # 0 =>
              /\ d.byBranch[Branch] \in DOMAIN builds'
              /\ builds'[d.byBranch[Branch]].branch = Branch
<1>1. d.number \in DOMAIN builds /\ \A m \in 1 .. d.number : m \in DOMAIN builds
  BY DEF JenkinsTypeOK, DataIsTrue
<1> QED BY <1>1 DEF Grows, DataIsTrue, IsGood

\* Nothing that the client knows is disturbed.
LEMMA ClientRemains ==
  ASSUME JenkinsInv, Grows, UNCHANGED <<job, clientVars>>
  PROVE  JenkinsTypeOK' /\ PlacesInv' /\ JobInv' /\ BuildInv' /\ DoneInv'
<1> USE DEF JenkinsInv
<1>1. JenkinsTypeOK' BY DEF JenkinsTypeOK, Grows, clientVars
<1>2. PlacesInv' BY DEF PlacesInv, clientVars
<1>3. JobInv' BY DEF JobInv, Grows, clientVars
<1>4. ASSUME BuildIsKnown PROVE BuildIsKnown'
  <2>1. build' = build /\ job' = job BY DEF clientVars
  <2>2. build.data # NoData => DataIsTrue(build.data)'
    BY <1>4, <2>1, DataRemainsTrue DEF BuildIsKnown, DataIsTrue, IsGood
  <2> QED BY <1>4, <2>1, <2>2 DEF BuildIsKnown, Grows
<1>5. ASSUME NEW n, IsGood(n) PROVE IsGood(n)'
  BY <1>5 DEF IsGood, Grows
<1>6. BuildInv'
  <2>1. build' = build /\ checked' = checked /\ pcJenkins' = pcJenkins BY DEF clientVars
  <2>2. pcJenkins \in {"result", "download"} => OfBranch(build.number)'
    BY <2>1, OfBranchRemains DEF BuildInv, BuildIsKnown
  <2>3. pcJenkins = "download" => checked = build.number /\ IsGood(checked)'
    BY <2>1, <1>5 DEF BuildInv
  <2>4. pcJenkins \in {"branch", "result", "download"} => BuildIsKnown'
    BY <1>4 DEF BuildInv
  <2> QED BY <2>1, <2>2, <2>3, <2>4 DEF BuildInv, OfBranch
<1>7. DoneInv'
  <2>1. /\ taken' = taken /\ checked' = checked /\ pcJenkins' = pcJenkins
        /\ script' = script /\ job' = job
    BY DEF clientVars
  <2>2. ASSUME script = "importer", pcJenkins = "done"
        PROVE  IsGood(checked)' /\ taken \in DOMAIN builds' /\ OfBranch(taken)'
    BY <1>5, <2>1, <2>2, OfBranchRemains DEF DoneInv, Grows
  <2> QED BY <2>1, <2>2 DEF DoneInv, OfBranch
<1> QED BY <1>1, <1>2, <1>3, <1>6, <1>7

LEMMA StartBuildStep ==
  ASSUME JenkinsInv, NEW b \in Branches, StartBuild(b)
  PROVE  JenkinsInv'
<1>1. /\ Grows /\ UNCHANGED <<job, clientVars>>
      /\ DOMAIN builds' = DOMAIN builds \cup {Len(builds) + 1}
      /\ builds'[Len(builds) + 1].branch = b
  BY StartGrows DEF JenkinsInv, StartBuild
<1>2. ServerInv'
  <2>1. job' = job /\ script' = script /\ job.exists BY <1>1 DEF StartBuild, clientVars
  <2>2. job.branches => b = Branch BY DEF StartBuild
  <2> QED BY <1>1, <2>1, <2>2 DEF JenkinsInv, ServerInv, Grows
<1> QED BY <1>1, <1>2, ClientRemains DEF JenkinsInv

LEMMA EndBuildStep ==
  ASSUME JenkinsInv, NEW n \in DOMAIN builds, NEW r \in {"good", "bad"}, EndBuild(n, r)
  PROVE  JenkinsInv'
<1>1. Grows /\ UNCHANGED <<job, clientVars>> /\ DOMAIN builds' = DOMAIN builds
  BY EndGrows DEF JenkinsInv, EndBuild
<1>2. ServerInv'
  <2>1. job' = job /\ script' = script BY <1>1 DEF clientVars
  <2>2. builds \in Seq(ServerBuilds) /\ builds' \in Seq(ServerBuilds)
    BY <1>1 DEF JenkinsInv, JenkinsTypeOK, Grows
  <2>3. builds = <<>> => builds' = <<>> BY <1>1, <2>2
  <2> QED BY <1>1, <2>1, <2>3 DEF JenkinsInv, ServerInv, Grows
<1> QED BY <1>1, <1>2, ClientRemains DEF JenkinsInv

LEMMA DiscardStep ==
  ASSUME JenkinsInv, NEW n \in kept, Discard(n)
  PROVE  JenkinsInv'
<1>1. Grows /\ UNCHANGED <<job, clientVars, builds>>
  BY DEF JenkinsInv, JenkinsTypeOK, Discard, Grows
<1>2. ServerInv' BY <1>1 DEF JenkinsInv, ServerInv, clientVars
<1> QED BY <1>1, <1>2, ClientRemains DEF JenkinsInv

-----------------------------------------------------------------------------
(***************************************************************************)
(* Steps of the scripts                                                    *)
(***************************************************************************)
LEMMA CrumbType == JenkinsTypeOK /\ AddCrumb => crumb' \in {"none", "held", "absent"}
  BY DEF JenkinsTypeOK, AddCrumb

\* A script ends without an artifact.
LEMMA EndStep ==
  ASSUME JenkinsInv, End("crashed") \/ End("skipped"), UNCHANGED <<server, script>>,
         crumb' \in {"none", "held", "absent"}
  PROVE  JenkinsInv'
<1>1. /\ pcJenkins' \in {"crashed", "skipped"}
      /\ UNCHANGED <<job, builds, kept, script, jobObject, build, checked, taken>>
  BY DEF End, server
<1>2. JenkinsTypeOK' BY <1>1 DEF JenkinsInv, JenkinsTypeOK, JenkinsPlaces
<1>3. PlacesInv' /\ BuildInv' /\ DoneInv' BY <1>1 DEF PlacesInv, BuildInv, DoneInv
<1>4. ServerInv' /\ JobInv' BY <1>1 DEF JenkinsInv, ServerInv, JobInv
<1> QED BY <1>2, <1>3, <1>4 DEF JenkinsInv

LEMMA GetJobStep == ASSUME JenkinsInv, GetJob PROVE JenkinsInv'
<1>1. /\ script = "importer" /\ pcJenkins = "jobs" /\ pcJenkins' = "last"
      /\ UNCHANGED <<job, builds, kept, script, build, checked, taken>>
      /\ jobObject' = IF job.branches /\ job.exists THEN NewJob ELSE RetrievedJob
  BY DEF GetJob, server
<1>2. jobObject' \in JobObjects /\ jobObject'.builds \subseteq DOMAIN builds
  <2>1. NewJob.builds = {} BY DEF NewJob
  <2> QED BY <1>1, <2>1, NewObjects, RetrievedJobType DEF JenkinsInv
<1>3. job.branches \/ jobObject'.has_data \/ ~job.exists
  BY <1>1 DEF RetrievedJob
<1>4. crumb' \in {"none", "held", "absent"} BY CrumbType DEF GetJob, JenkinsInv
<1>5. JenkinsTypeOK' BY <1>1, <1>2, <1>4 DEF JenkinsInv, JenkinsTypeOK, JenkinsPlaces
<1>6. JobInv' BY <1>1, <1>2, <1>3 DEF JobInv
<1>7. PlacesInv' /\ BuildInv' /\ DoneInv' BY <1>1 DEF PlacesInv, BuildInv, DoneInv
<1>8. ServerInv' BY <1>1 DEF JenkinsInv, ServerInv
<1> QED BY <1>5, <1>6, <1>7, <1>8 DEF JenkinsInv

LEMMA GetLastBuildStep == ASSUME JenkinsInv, GetLastBuild PROVE JenkinsInv'
<1> DEFINE known == IF MakeLastBuild.exists = Unknown THEN Retrieved(MakeLastBuild)
                    ELSE MakeLastBuild
<1>1. /\ pcJenkins = "last" /\ build' = known
      /\ pcJenkins' = IF known.exists = No THEN "skipped" ELSE "branch"
      /\ UNCHANGED <<job, builds, kept, script, jobObject, checked, taken>>
  BY DEF GetLastBuild, server
<1>2. known \in BuildObjects
  BY LastBuildType, RetrievedBuild DEF JenkinsInv
<1>3. ASSUME known.exists # No PROVE BuildIsKnown'
  <2>1. CASE MakeLastBuild.exists = Unknown
    <3>1. MakeLastBuild = NewBuild /\ ~jobObject.has_data
      BY <2>1, LastBuildType DEF JenkinsInv
    <3>2. known = Retrieved(NewBuild) /\ NewBuild.url = "last" /\ NewBuild \in BuildObjects
      BY <2>1, <3>1, NewObjects DEF NewBuild
    <3>3. /\ known.url = "last" /\ known.number \in DOMAIN builds
          /\ known.data # NoData /\ known.data.number = known.number /\ DataIsTrue(known.data)
      <4> HIDE DEF known
      <4> QED BY <1>3, <3>2, RetrievedBuild DEF JenkinsInv
    <3>4. builds # <<>>
      <4> HIDE DEF known
      <4> QED BY <3>3
    <3>5. job.branches
      <4>1. script = "importer" BY <1>1 DEF JenkinsInv, PlacesInv
      <4>2. job.exists BY <3>4, <4>1 DEF JenkinsInv, ServerInv
      <4> QED BY <1>1, <3>1, <4>2 DEF JenkinsInv, JobInv
    <3> HIDE DEF known
    <3> QED BY <1>1, <3>3, <3>5 DEF BuildIsKnown, DataIsTrue, IsGood
  <2>2. CASE MakeLastBuild.exists # Unknown
    <3>1. known = MakeLastBuild BY <2>2
    <3>2. known.exists = Yes BY <1>2, <1>3, <2>2, <3>1 DEF BuildObjects, Existence
    <3>3. known.data = NoData /\ known.url = "number" /\ known.number \in DOMAIN builds
      BY <3>1, <3>2, LastBuildType DEF JenkinsInv
    <3> HIDE DEF known
    <3> QED BY <1>1, <3>3 DEF BuildIsKnown
  <2> QED BY <2>1, <2>2
<1> HIDE DEF known
<1>4. crumb' \in {"none", "held", "absent"} BY CrumbType DEF GetLastBuild, JenkinsInv
<1>5. JenkinsTypeOK' BY <1>1, <1>2, <1>4 DEF JenkinsInv, JenkinsTypeOK, JenkinsPlaces
<1>6. PlacesInv' /\ DoneInv' BY <1>1 DEF JenkinsInv, PlacesInv, DoneInv
<1>7. ServerInv' /\ JobInv' BY <1>1 DEF JenkinsInv, ServerInv, JobInv
<1>8. BuildInv' BY <1>1, <1>3 DEF BuildInv
<1> QED BY <1>5, <1>6, <1>7, <1>8 DEF JenkinsInv

LEMMA GetLastBranchBuildStep == ASSUME JenkinsInv, GetLastBranchBuild PROVE JenkinsInv'
<1> DEFINE last == WithData(build)
           n == last.data.byBranch[Branch]
<1>1. /\ pcJenkins = "branch" /\ script = "importer"
      /\ UNCHANGED <<job, builds, kept, script>>
      /\ crumb' \in {"none", "held", "absent"}
  BY CrumbType DEF GetLastBranchBuild, server, JenkinsInv, PlacesInv
<1>2. BuildIsKnown BY <1>1 DEF JenkinsInv, BuildInv
<1>3. CASE last.exists = No
  BY <1>1, <1>3, EndStep DEF GetLastBranchBuild
<1>4. CASE last.exists # No
  <2>1. /\ build' = IF n \in {0, last.number} THEN last ELSE GetBuild(n)
        /\ pcJenkins' = "result" /\ UNCHANGED <<jobObject, checked, taken>>
    BY <1>4 DEF GetLastBranchBuild
  <2>2. /\ last \in BuildObjects /\ last.url = build.url /\ last.number = build.number
        /\ last.data # NoData /\ last.data.number = build.number /\ DataIsTrue(last.data)
    BY <1>2, <1>4, WithDataIsKnown DEF JenkinsInv
  <2>3. n \in Nat
    <3>1. last.data \in BuildData BY <2>2 DEF BuildObjects
    <3> QED BY <3>1, JenkinsAssumption DEF BuildData
  <2>4. /\ n = 0 => \A m \in 1 .. build.number : builds[m].branch # Branch
        /\ n # 0 => n \in DOMAIN builds /\ builds[n].branch = Branch
    BY <2>2 DEF DataIsTrue
  <2> HIDE DEF last, n
  <2>5. build' \in BuildObjects /\ BuildIsKnown' /\ OfBranch(build.number)'
    <3>1. CASE n \in {0, last.number}
      <4>1. build' = last BY <2>1, <3>1
      <4>2. BuildIsKnown' BY <1>1, <1>2, <2>2, <4>1 DEF BuildIsKnown, DataIsTrue, IsGood
      <4>3. OfBranch(build.number)' BY <1>1, <2>2, <2>4, <3>1, <4>1 DEF OfBranch
      <4> QED BY <2>2, <4>1, <4>2, <4>3
    <3>2. CASE n \notin {0, last.number}
      <4>1. build' = GetBuild(n) BY <2>1, <3>2
      <4>2. BuildIsKnown' BY <1>1, <2>3, <2>4, <3>2, <4>1, GetBuildType DEF BuildIsKnown
      <4>3. OfBranch(build.number)'
        BY <1>1, <2>3, <2>4, <3>2, <4>1, GetBuildType DEF OfBranch
      <4> QED BY <2>3, <4>1, <4>2, <4>3, GetBuildType
    <3> QED BY <3>1, <3>2
  <2>6. JenkinsTypeOK' BY <1>1, <2>1, <2>5 DEF JenkinsInv, JenkinsTypeOK, JenkinsPlaces
  <2>7. PlacesInv' /\ DoneInv' BY <1>1, <2>1 DEF PlacesInv, DoneInv
  <2>8. ServerInv' /\ JobInv' BY <1>1, <2>1 DEF JenkinsInv, ServerInv, JobInv
  <2>9. BuildInv' BY <2>1, <2>5 DEF BuildInv
  <2> QED BY <2>6, <2>7, <2>8, <2>9 DEF JenkinsInv
<1> QED BY <1>3, <1>4

LEMMA CheckResultStep == ASSUME JenkinsInv, CheckResult PROVE JenkinsInv'
<1> DEFINE b == WithData(build)
<1>1. /\ pcJenkins = "result" /\ script = "importer"
      /\ UNCHANGED <<job, builds, kept, script>>
      /\ crumb' \in {"none", "held", "absent"}
  BY CrumbType DEF CheckResult, server, JenkinsInv, PlacesInv
<1>2. BuildIsKnown /\ OfBranch(build.number) BY <1>1 DEF JenkinsInv, BuildInv
<1>3. CASE End("crashed") \/ End("skipped")
  BY <1>1, <1>3, EndStep DEF server
<1>4. CASE ~(End("crashed") \/ End("skipped"))
  <2>1. /\ b.exists # No /\ b.data.result = "good"
        /\ build' = b /\ checked' = b.number /\ pcJenkins' = "download"
        /\ UNCHANGED <<jobObject, taken>>
    BY <1>4 DEF CheckResult
  <2>2. /\ b \in BuildObjects /\ b.url = build.url /\ b.number = build.number
        /\ b.data # NoData /\ b.data.number = build.number /\ DataIsTrue(b.data)
    BY <1>2, <2>1, WithDataIsKnown DEF JenkinsInv
  <2> HIDE DEF b
  <2>3. BuildIsKnown' BY <1>1, <1>2, <2>1, <2>2 DEF BuildIsKnown, DataIsTrue, IsGood
  <2>4. IsGood(checked)' BY <1>1, <2>1, <2>2 DEF DataIsTrue, IsGood
  <2>5. OfBranch(build.number)' BY <1>1, <1>2, <2>1, <2>2 DEF OfBranch
  <2>6. JenkinsTypeOK'
    <3>1. b.number \in Nat BY <2>2 DEF BuildObjects
    <3> QED BY <1>1, <2>1, <2>2, <3>1 DEF JenkinsInv, JenkinsTypeOK, JenkinsPlaces
  <2>7. PlacesInv' /\ DoneInv' BY <1>1, <2>1 DEF PlacesInv, DoneInv
  <2>8. ServerInv' /\ JobInv' BY <1>1, <2>1 DEF JenkinsInv, ServerInv, JobInv
  <2>9. BuildInv' BY <2>1, <2>3, <2>4, <2>5 DEF BuildInv
  <2> QED BY <2>6, <2>7, <2>8, <2>9 DEF JenkinsInv
<1> QED BY <1>3, <1>4

\* The one link that names no number is of a job of the branch.
LEMMA DownloadStep == ASSUME JenkinsInv, Download PROVE JenkinsInv'
<1> DEFINE n == IF build.url = "last" THEN LastBuild ELSE build.number
<1>1. /\ pcJenkins = "download" /\ script = "importer"
      /\ UNCHANGED <<job, builds, kept, script, crumb>>
  BY DEF Download, server, JenkinsInv, PlacesInv
<1>2. /\ BuildIsKnown /\ OfBranch(build.number)
      /\ checked = build.number /\ IsGood(checked)
  BY <1>1 DEF JenkinsInv, BuildInv
<1>3. CASE End("skipped")
  BY <1>1, <1>3, EndStep DEF JenkinsInv, JenkinsTypeOK, server
<1>4. CASE ~End("skipped")
  <2>1. n \in kept /\ taken' = n /\ pcJenkins' = "done" /\ UNCHANGED <<jobObject, build, checked>>
    BY <1>4 DEF Download
  <2>2. n \in DOMAIN builds BY <2>1 DEF JenkinsInv, JenkinsTypeOK
  <2>3. n \in Nat BY <2>2 DEF JenkinsInv, JenkinsTypeOK
  <2>4. OfBranch(n) /\ (~job.branches => n = checked)
    <3>1. CASE build.url = "last"
      BY <1>1, <1>2, <2>2, <3>1 DEF JenkinsInv, ServerInv, BuildIsKnown, OfBranch
    <3>2. CASE build.url # "last" BY <1>2, <3>2
    <3> QED BY <3>1, <3>2
  <2> HIDE DEF n
  <2>5. JenkinsTypeOK' BY <1>1, <2>1, <2>3 DEF JenkinsInv, JenkinsTypeOK, JenkinsPlaces
  <2>6. DoneInv' BY <1>1, <1>2, <2>1, <2>2, <2>4 DEF DoneInv, IsGood, OfBranch
  <2>7. PlacesInv' /\ BuildInv' BY <1>1, <2>1 DEF PlacesInv, BuildInv
  <2>8. ServerInv' /\ JobInv' BY <1>1, <2>1 DEF JenkinsInv, ServerInv, JobInv
  <2> QED BY <2>5, <2>6, <2>7, <2>8 DEF JenkinsInv
<1> QED BY <1>3, <1>4

\* The other scripts take no artifact.
LEMMA OtherScriptStep ==
  ASSUME JenkinsInv, script # "importer", CountJobs \/ CountNodes \/ StartScrape
  PROVE  JenkinsInv'
<1>1. /\ pcJenkins' \in {"nodes", "done", "crashed", "post"}
      /\ pcJenkins' = "nodes" => script = "usage"
      /\ pcJenkins' = "post" => script = "scrape"
      /\ UNCHANGED <<job, builds, kept, script, build, checked, taken>>
      /\ crumb' \in {"none", "held", "absent"}
  BY CrumbType DEF CountJobs, CountNodes, StartScrape, End, server, JenkinsInv
<1>2. jobObject' \in JobObjects /\ jobObject'.builds \subseteq DOMAIN builds
  BY RetrievedJobType
  DEF JenkinsInv, JenkinsTypeOK, JobInv, CountJobs, CountNodes, StartScrape, End
<1>3. JenkinsTypeOK' BY <1>1, <1>2 DEF JenkinsInv, JenkinsTypeOK, JenkinsPlaces
<1>4. PlacesInv' /\ BuildInv' BY <1>1 DEF PlacesInv, BuildInv
<1>5. DoneInv' /\ ServerInv' BY <1>1 DEF DoneInv, ServerInv
<1>6. JobInv' BY <1>1, <1>2 DEF JobInv
<1> QED BY <1>3, <1>4, <1>5, <1>6 DEF JenkinsInv

LEMMA BuildJobStep == ASSUME JenkinsInv, BuildJob PROVE JenkinsInv'
<1>1. /\ pcJenkins = "post" /\ script = "scrape" /\ script' = script
      /\ crumb' \in {"none", "held", "absent"}
  BY CrumbType DEF BuildJob, JenkinsInv, PlacesInv
<1>2. CASE crumb' = "none"
  BY <1>1, <1>2, EndStep DEF BuildJob
<1>3. CASE crumb' # "none"
  <2>1. PICK b \in Branches :
          /\ builds' = Append(builds, [branch |-> b, result |-> "none"])
          /\ kept' = kept \cup {Len(builds) + 1}
          /\ End("done") /\ UNCHANGED job
    BY <1>3 DEF BuildJob
  <2>2. Grows BY <2>1, StartGrows DEF JenkinsInv
  <2>3. /\ pcJenkins' = "done" /\ UNCHANGED <<job, jobObject, build, checked, taken>>
    BY <2>1 DEF End
  <2>4. JenkinsTypeOK'
    BY <1>1, <2>2, <2>3 DEF JenkinsInv, JenkinsTypeOK, JenkinsPlaces, Grows
  <2>5. PlacesInv' /\ BuildInv' /\ DoneInv' /\ ServerInv'
    BY <1>1, <2>3 DEF PlacesInv, BuildInv, DoneInv, ServerInv
  <2>6. JobInv' BY <2>2, <2>3 DEF JenkinsInv, JobInv, Grows
  <2> QED BY <2>4, <2>5, <2>6 DEF JenkinsInv
<1> QED BY <1>2, <1>3

-----------------------------------------------------------------------------
LEMMA JenkinsInvInit == JenkinsInit => JenkinsInv
<1> SUFFICES ASSUME JenkinsInit PROVE JenkinsInv OBVIOUS
<1>1. builds = <<>> /\ builds \in Seq(ServerBuilds) /\ DOMAIN builds = {} BY DEF JenkinsInit
<1>2. jobObject = NewJob /\ NewJob.builds = {} BY DEF JenkinsInit, NewJob
<1>3. JenkinsTypeOK BY <1>1, NewObjects DEF JenkinsInit, JenkinsTypeOK, JenkinsPlaces
<1>4. JobInv BY <1>1, <1>2 DEF JenkinsInit, JobInv
<1>5. PlacesInv /\ ServerInv /\ BuildInv /\ DoneInv
  BY <1>1 DEF JenkinsInit, PlacesInv, ServerInv, BuildInv, DoneInv
<1> QED BY <1>3, <1>4, <1>5 DEF JenkinsInv

LEMMA JenkinsInvStep == JenkinsInv /\ [JenkinsNext]_jenkinsVars => JenkinsInv'
<1> SUFFICES ASSUME JenkinsInv, [JenkinsNext]_jenkinsVars PROVE JenkinsInv' OBVIOUS
<1>1. CASE UNCHANGED jenkinsVars
  BY <1>1 DEF jenkinsVars, server, JenkinsInv, JenkinsTypeOK, PlacesInv, ServerInv, JobInv,
     BuildInv, DoneInv, BuildIsKnown, DataIsTrue, OfBranch, IsGood
<1>2. CASE \E b \in Branches : StartBuild(b) BY <1>2, StartBuildStep
<1>3. CASE \E n \in DOMAIN builds, r \in {"good", "bad"} : EndBuild(n, r) BY <1>3, EndBuildStep
<1>4. CASE \E n \in kept : Discard(n) BY <1>4, DiscardStep
<1>5. CASE RequestFails
  BY <1>5, EndStep, CrumbType DEF RequestFails, JenkinsInv
<1>6. CASE GetJob BY <1>6, GetJobStep
<1>7. CASE GetLastBuild BY <1>7, GetLastBuildStep
<1>8. CASE GetLastBranchBuild BY <1>8, GetLastBranchBuildStep
<1>9. CASE CheckResult BY <1>9, CheckResultStep
<1>10. CASE Download BY <1>10, DownloadStep
<1>11. CASE BuildJob BY <1>11, BuildJobStep
<1>12. CASE CountJobs \/ CountNodes \/ StartScrape
  <2>1. script # "importer"
    BY <1>12 DEF CountJobs, CountNodes, StartScrape, JenkinsInv, PlacesInv
  <2> QED BY <1>12, <2>1, OtherScriptStep
<1> QED
  BY <1>1, <1>2, <1>3, <1>4, <1>5, <1>6, <1>7, <1>8, <1>9, <1>10, <1>11, <1>12 DEF JenkinsNext

\* The artifact that replaces the importer is that of the build whose result
\* was checked, for every number of builds and of branches (get_last_branch_build
\* and the download of retrieve_importer.py).
THEOREM CheckedIsTaken == JenkinsSpec => []ArtifactWasChecked
<1>1. JenkinsInv => ArtifactWasChecked
  BY DEF JenkinsInv, DoneInv, ArtifactWasChecked, IsGood, OfBranch
<1> QED BY JenkinsInvInit, JenkinsInvStep, <1>1, PTL DEF JenkinsSpec

-----------------------------------------------------------------------------
(***************************************************************************)
(* The names of relations                                                  *)
(***************************************************************************)
LEMMA PairNumbers ==
  /\ Len(Relations) \in Nat
  /\ \A n \in Pairs : n \in Nat \ {0} /\ (n + 1) \div 2 \in 1 .. Len(Relations)
  /\ \A n \in Pairs : n % 2 = 0 => n = 2 * ((n + 1) \div 2)
  /\ \A n \in Pairs : n % 2 # 0 => n = 2 * ((n + 1) \div 2) - 1
<1>1. Len(Relations) \in Nat BY LinksAssumption
<1>2. ASSUME NEW n \in Pairs
      PROVE  /\ n \in Nat \ {0} /\ (n + 1) \div 2 \in 1 .. Len(Relations)
             /\ n % 2 = 0 => n = 2 * ((n + 1) \div 2)
             /\ n % 2 # 0 => n = 2 * ((n + 1) \div 2) - 1
  BY <1>1 DEF Pairs
<1> QED BY <1>1, <1>2

\* A name stands for one of the pairs that have it.
LEMMA CandidateIsPair ==
  ASSUME NEW x \in Names
  PROVE  \E n \in Pairs : /\ PairName(n) = x
                          /\ Candidate(x) = [type |-> (n + 1) \div 2, outward |-> n % 2 = 0]
<1> DEFINE S == {m \in Pairs : PairName(m) = x}
<1>1. S # {} BY DEF Names
<1>2. S \in SUBSET (0 .. 2 * Len(Relations)) /\ 2 * Len(Relations) \in Nat
  BY PairNumbers DEF Pairs
<1>3. PICK n \in S : \A y \in S : n >= y
  <2> HIDE DEF S
  <2> QED BY <1>1, <1>2, GreatestOfNumbers
<1>4. PairName(n) = x /\ \A k \in Pairs : PairName(k) = x => k <= n
  BY <1>2, <1>3
<1>5. \E m \in Pairs : PairName(m) = x /\ \A k \in Pairs : PairName(k) = x => k <= m
  BY <1>4
<1> QED BY <1>5 DEF Candidate

LEMMA PositionInPairs == \A x \in Names : Position(x) \in Pairs
<1> SUFFICES ASSUME NEW x \in Names PROVE Position(x) \in Pairs OBVIOUS
<1> DEFINE S == {m \in Pairs : PairName(m) = x}
<1>1. S \in SUBSET Nat /\ S # {} BY PairNumbers DEF Names
<1>2. PICK n \in S : \A y \in S : n <= y
  <2> HIDE DEF S
  <2> QED BY <1>1, SmallestOfNumbers
<1>3. \E m \in Pairs : PairName(m) = x /\ \A k \in Pairs : PairName(k) = x => m <= k
  BY <1>2
<1> QED BY <1>3 DEF Position

LEMMA NamesOfLink ==
  ASSUME NEW link \in Links, link.type # 0
  PROVE  /\ link.to \in Others /\ link.type \in 1 .. Len(Relations) /\ link.outward \in BOOLEAN
         /\ NameOf(link) \in Matching(link) /\ Matching(link) \subseteq Names
<1>1. link.to \in Others /\ link.type \in 1 .. Len(Relations) /\ link.outward \in BOOLEAN
  BY DEF Links
<1> DEFINE n == IF link.outward THEN 2 * link.type ELSE 2 * link.type - 1
<1>2. n \in Pairs /\ (n + 1) \div 2 = link.type /\ (n % 2 = 0 <=> link.outward)
  <2>1. link.type \in Nat /\ 1 <= link.type /\ link.type <= Len(Relations) /\ Len(Relations) \in Nat
    BY <1>1, PairNumbers
  <2>2. \A k \in Nat : (2 * k + 1) \div 2 = k /\ (2 * k) \div 2 = k /\ (2 * k) % 2 = 0
    OBVIOUS
  <2>3. \A k \in Nat : k >= 1 => (2 * k - 1) % 2 = 1 OBVIOUS
  <2>4. CASE link.outward BY <2>1, <2>2, <2>4 DEF Pairs
  <2>5. CASE ~link.outward
    <3>1. n = 2 * link.type - 1 /\ n + 1 = 2 * link.type BY <2>1, <2>5
    <3> QED BY <2>1, <2>2, <2>3, <2>5, <3>1 DEF Pairs
  <2> QED BY <2>4, <2>5
<1>3. n % 2 = 1 <=> ~link.outward
  <2>1. n \in Nat BY <1>2, PairNumbers
  <2> HIDE DEF n
  <2>2. n % 2 = 0 \/ n % 2 = 1 BY <2>1
  <2> QED BY <1>2, <2>2
<1>4. PairName(n) = NameOf(link)
  <2> HIDE DEF n
  <2> QED BY <1>2, <1>3 DEF PairName, NameOf
<1>5. NameOf(link) \in Names
  <2> HIDE DEF n
  <2> QED BY <1>2, <1>4 DEF Names
<1>6. Within(NameOf(link), NameOf(link))
  BY <1>1, LinksAssumption DEF NameOf
<1> QED BY <1>1, <1>5, <1>6 DEF Matching

\* The row of a change is of one of the names in its text.
LEMMA RowIsOfName ==
  ASSUME NEW link \in Links, link.type # 0
  PROVE  \E x \in Matching(link) : SearchRow(link) = RowFor(link, x)
<1> DEFINE rowed == {x \in Matching(link) : RowFor(link, x) \in DOMAIN dates}
<1>1. ASSUME NEW S \in SUBSET Matching(link), S # {}
      PROVE  /\ \E x \in S : \A y \in S : Position(x) <= Position(y)
             /\ \E x \in S : \A y \in S : Position(y) <= Position(x)
  <2>1. \A x \in S : Position(x) \in Nat BY NamesOfLink, PositionInPairs, PairNumbers
  <2> DEFINE P == {Position(x) : x \in S}
  <2>2. P \in SUBSET Nat /\ P # {} BY <1>1, <2>1
  <2>3. \E x \in S : \A y \in S : Position(x) <= Position(y)
    <3>1. PICK p \in P : \A q \in P : p <= q
      <4> HIDE DEF P
      <4> QED BY <2>2, SmallestOfNumbers
    <3> QED BY <3>1
  <2>4. \E x \in S : \A y \in S : Position(y) <= Position(x)
    <3>1. P \in SUBSET (0 .. 2 * Len(Relations)) /\ 2 * Len(Relations) \in Nat
      BY PairNumbers, PositionInPairs, NamesOfLink DEF Pairs
    <3>2. PICK p \in P : \A q \in P : p >= q
      <4> HIDE DEF P
      <4> QED BY <2>2, <3>1, GreatestOfNumbers
    <3> QED BY <2>1, <3>2
  <2> QED BY <2>3, <2>4
<1>2. CASE rowed # {}
  <2>1. SearchRow(link)
          = RowFor(link, CHOOSE x \in rowed : \A y \in rowed : Position(x) <= Position(y))
    BY <1>2 DEF SearchRow
  <2>2. \E x \in rowed : \A y \in rowed : Position(x) <= Position(y)
    BY <1>1, <1>2
  <2> DEFINE c == CHOOSE x \in rowed : \A y \in rowed : Position(x) <= Position(y)
  <2>3. c \in rowed BY <2>2
  <2> QED BY <2>1, <2>3
<1>3. CASE rowed = {}
  <2> DEFINE c == CHOOSE x \in Matching(link) : \A y \in Matching(link) : Position(y) <= Position(x)
  <2>1. SearchRow(link) = RowFor(link, c)
    BY <1>3 DEF SearchRow
  <2>2. Matching(link) # {} BY NamesOfLink
  <2>3. \E x \in Matching(link) : \A y \in Matching(link) : Position(y) <= Position(x)
    BY <1>1, <2>2
  <2>4. c \in Matching(link) BY <2>3
  <2> QED BY <2>1, <2>4
<1> QED BY <1>2, <1>3

\* The row of a link without ambiguity is its own, and of no other link.
LEMMA RowOfLink ==
  ASSUME NEW link \in Links, Unambiguous(link), NEW l \in Links
  PROVE  SearchRow(l) = link <=> l = link
<1>1. CASE l.type = 0
  BY <1>1 DEF SearchRow, SearchComponent
<1>2. CASE l.type # 0
  <2>1. PICK x \in Matching(l) : SearchRow(l) = RowFor(l, x) BY <1>2, RowIsOfName
  <2>2. x \in Names BY <1>2, NamesOfLink
  <2>3. PICK n \in Pairs : /\ PairName(n) = x
                           /\ Candidate(x) = [type |-> (n + 1) \div 2, outward |-> n % 2 = 0]
    BY <2>2, CandidateIsPair
  <2>4. /\ RowFor(l, x).to = l.to /\ RowFor(l, x).type = (n + 1) \div 2
        /\ RowFor(l, x).outward = (n % 2 = 0)
    BY <2>3 DEF RowFor
  <2>5. CASE link.type = 0
    <3>1. RowFor(l, x).type # 0 BY <2>4, PairNumbers
    <3> QED BY <1>2, <2>1, <2>5, <3>1
  <2>6. CASE link.type # 0
    <3>1. /\ Matching(link) = {NameOf(link)} /\ RowFor(link, NameOf(link)) = link
          /\ NameOf(link) \in Matching(l) => l.type = link.type /\ l.outward = link.outward
      BY <1>2, <2>6 DEF Unambiguous
    <3>2. ASSUME l = link PROVE SearchRow(l) = link
      BY <2>1, <3>1, <3>2
    <3>3. ASSUME SearchRow(l) = link PROVE l = link
      <4>1. NameOf(link) \in Names BY <2>6, NamesOfLink
      <4>2. PICK m \in Pairs : /\ PairName(m) = NameOf(link)
                /\ Candidate(NameOf(link)) = [type |-> (m + 1) \div 2, outward |-> m % 2 = 0]
        BY <4>1, CandidateIsPair
      <4>3. link.type = (m + 1) \div 2 /\ link.outward = (m % 2 = 0)
        BY <3>1, <4>2 DEF RowFor
      <4>4. link.type = (n + 1) \div 2 /\ link.outward = (n % 2 = 0) /\ l.to = link.to
        BY <2>1, <2>4, <3>3
      <4>5. m = n BY <4>3, <4>4, PairNumbers
      <4>6. NameOf(link) \in Matching(l) BY <2>3, <4>2, <4>5
      <4>7. l.type = link.type /\ l.outward = link.outward BY <3>1, <4>6
      <4>8. /\ l \in [to : Others, type : 1 .. Len(Relations), outward : BOOLEAN]
            /\ link \in [to : Others, type : 1 .. Len(Relations), outward : BOOLEAN]
        BY <1>2, <2>6 DEF Links
      <4> QED BY <4>4, <4>7, <4>8
    <3> QED BY <3>2, <3>3
  <2> QED BY <2>5, <2>6
<1> QED BY <1>1, <1>2

-----------------------------------------------------------------------------
(***************************************************************************)
(* What was read of the changelog                                          *)
(***************************************************************************)
LinkChanges == [link : Links, adds : BOOLEAN]
DateRows == [start_date : Nat, end_date : Nat]

LinksTypeOK ==
    /\ linked \subseteq Links /\ changes \in Seq(LinkChanges) /\ todo \subseteq DOMAIN changes
    /\ dates \in [DOMAIN dates -> DateRows] /\ reading \in BOOLEAN
    /\ ~reading => todo = {}

\* What is there was added, and what was removed was there.
HistoryInv ==
    \A l \in Links :
      /\ l \in linked => Dates(l, TRUE) # {}
      /\ Dates(l, FALSE) # {} => Dates(l, TRUE) # {}

ReadOf(link, adds) == Dates(link, adds) \ todo

IsFirst(date, S) == IF S = {} THEN date = 0 ELSE date \in S /\ \A n \in S : date <= n
IsLast(date, S) == IF S = {} THEN date = 0 ELSE date \in S /\ \A n \in S : n <= date

ReadInv ==
    reading => \A link \in Links : Unambiguous(link) =>
      /\ link \in DOMAIN dates <=>
           link \in linked \/ ReadOf(link, TRUE) # {} \/ ReadOf(link, FALSE) # {}
      /\ link \in DOMAIN dates =>
           /\ IsFirst(dates[link].start_date, ReadOf(link, TRUE))
           /\ IsLast(dates[link].end_date, ReadOf(link, FALSE))

LinksInv == LinksTypeOK /\ HistoryInv /\ ReadInv

LEMMA ChangeNumbers ==
  ASSUME LinksTypeOK
  PROVE  /\ \A n \in DOMAIN changes : /\ n \in Nat \ {0} /\ changes[n] \in LinkChanges
                                      /\ changes[n].link \in Links /\ changes[n].adds \in BOOLEAN
         /\ Len(changes) \in Nat /\ DOMAIN changes = 1 .. Len(changes)
<1>1. changes \in Seq(LinkChanges) BY DEF LinksTypeOK
<1>2. Len(changes) \in Nat /\ DOMAIN changes = 1 .. Len(changes)
  BY <1>1
<1>3. ASSUME NEW n \in DOMAIN changes PROVE n \in Nat \ {0} /\ changes[n] \in LinkChanges
  BY <1>1, <1>2
<1> QED BY <1>2, <1>3 DEF LinkChanges

LEMMA LinksInvInit == LinksInit => LinksInv
<1> SUFFICES ASSUME LinksInit PROVE LinksInv OBVIOUS
<1>1. changes = <<>> /\ <<>> \in Seq(LinkChanges) /\ DOMAIN changes = {} BY DEF LinksInit
<1>2. dates = <<>> /\ DOMAIN dates = {} /\ dates \in [{} -> DateRows] BY DEF LinksInit
<1>3. LinksTypeOK BY <1>1, <1>2 DEF LinksInit, LinksTypeOK
<1>4. HistoryInv /\ ReadInv BY <1>1 DEF LinksInit, HistoryInv, ReadInv, Dates
<1> QED BY <1>3, <1>4 DEF LinksInv

LEMMA ChangeLinkStep ==
  ASSUME LinksInv, NEW link \in Links, ChangeLink(link)
  PROVE  LinksInv'
<1> DEFINE change == [link |-> link, adds |-> link \notin linked]
           new == Len(changes) + 1
<1>1. /\ ~reading /\ todo = {} /\ UNCHANGED <<todo, dates, reading>>
      /\ linked' = IF link \in linked THEN linked \ {link} ELSE linked \cup {link}
      /\ changes' = Append(changes, change)
  BY DEF LinksInv, LinksTypeOK, ChangeLink
<1>2. change \in LinkChanges /\ change.link = link /\ change.adds = (link \notin linked)
  BY DEF LinkChanges
<1>3. /\ changes \in Seq(LinkChanges) /\ Len(changes) \in Nat /\ DOMAIN changes = 1 .. Len(changes)
  BY ChangeNumbers DEF LinksInv, LinksTypeOK
<1> HIDE DEF change
<1>4. /\ changes' \in Seq(LinkChanges) /\ DOMAIN changes' = DOMAIN changes \cup {new}
      /\ changes'[new] = change /\ \A n \in DOMAIN changes : changes'[n] = changes[n]
      /\ new \notin DOMAIN changes
  BY <1>1, <1>2, <1>3
<1>5. LinksTypeOK'
  BY <1>1, <1>4 DEF LinksInv, LinksTypeOK
<1>6. \A l \in Links, a \in BOOLEAN : Dates(l, a) \subseteq Dates(l, a)'
  BY <1>4 DEF Dates
<1>7. link \notin linked => new \in Dates(link, TRUE)'
  BY <1>1, <1>2, <1>4 DEF Dates
<1>8. HistoryInv'
  <2> SUFFICES ASSUME NEW l \in Links
               PROVE  /\ l \in linked' => Dates(l, TRUE)' # {}
                      /\ Dates(l, FALSE)' # {} => Dates(l, TRUE)' # {}
    BY DEF HistoryInv
  <2>1. CASE l = link
    <3>1. Dates(l, TRUE)' # {}
      BY <2>1, <1>6, <1>7 DEF LinksInv, HistoryInv
    <3> QED BY <3>1
  <2>2. CASE l # link
    <3>1. Dates(l, FALSE)' = Dates(l, FALSE)
      BY <2>2, <1>2, <1>4 DEF Dates
    <3> QED BY <2>2, <3>1, <1>1, <1>6 DEF LinksInv, HistoryInv
  <2> QED BY <2>1, <2>2
<1>9. ReadInv' BY <1>1 DEF ReadInv
<1> QED BY <1>5, <1>8, <1>9 DEF LinksInv

LEMMA CollectStep == ASSUME LinksInv, CollectLinks PROVE LinksInv'
<1>1. /\ ~reading /\ reading' = TRUE /\ UNCHANGED <<linked, changes>>
      /\ dates' = [l \in LinksOf \cup ComponentsOf |-> [start_date |-> 0, end_date |-> 0]]
      /\ todo' = DOMAIN changes
  BY DEF CollectLinks
<1>2. LinksOf \cup ComponentsOf = linked BY DEF LinksOf, ComponentsOf
<1>3. [start_date |-> 0, end_date |-> 0] \in DateRows BY DEF DateRows
<1>4. DOMAIN dates' = linked /\ \A l \in linked : dates'[l].start_date = 0 /\ dates'[l].end_date = 0
  BY <1>1, <1>2
<1>5. LinksTypeOK' BY <1>1, <1>3 DEF LinksInv, LinksTypeOK
<1>6. HistoryInv' BY <1>1 DEF LinksInv, HistoryInv, Dates
<1>7. ASSUME NEW l \in Links, NEW a \in BOOLEAN PROVE ReadOf(l, a)' = {}
  BY <1>1 DEF ReadOf, Dates
<1>8. ReadInv'
  BY <1>1, <1>4, <1>7 DEF ReadInv, IsFirst, IsLast
<1> QED BY <1>5, <1>6, <1>8 DEF LinksInv

\* The dates of a row with one more change.
LEMMA KeptDatesAre ==
  ASSUME LinksTypeOK, NEW n \in DOMAIN changes, NEW row \in DateRows,
         NEW A \in SUBSET DOMAIN changes, NEW R \in SUBSET DOMAIN changes,
         IsFirst(row.start_date, A), IsLast(row.end_date, R)
  PROVE  /\ KeptDates(row, n) \in DateRows
         /\ changes[n].adds =>
              /\ IsFirst(KeptDates(row, n).start_date, A \cup {n})
              /\ IsLast(KeptDates(row, n).end_date, R)
         /\ ~changes[n].adds =>
              /\ IsFirst(KeptDates(row, n).start_date, A)
              /\ IsLast(KeptDates(row, n).end_date, R \cup {n})
<1>1. /\ n \in Nat \ {0} /\ \A m \in A \cup R : m \in Nat \ {0}
      /\ row.start_date \in Nat /\ row.end_date \in Nat
  BY ChangeNumbers DEF DateRows
<1>2. CASE changes[n].adds
  <2>1. CASE row.start_date # 0 /\ ~(n < row.start_date)
    <3>1. KeptDates(row, n) = row BY <1>2, <2>1 DEF KeptDates
    <3>2. IsFirst(row.start_date, A \cup {n}) BY <1>1, <2>1 DEF IsFirst
    <3> QED BY <1>2, <3>1, <3>2
  <2>2. CASE ~(row.start_date # 0 /\ ~(n < row.start_date))
    <3>1. KeptDates(row, n) = [row EXCEPT !.start_date = n] BY <1>2, <2>2 DEF KeptDates
    <3>2. /\ KeptDates(row, n) \in DateRows /\ KeptDates(row, n).start_date = n
          /\ KeptDates(row, n).end_date = row.end_date
      BY <1>1, <3>1 DEF DateRows
    <3>3. IsFirst(n, A \cup {n})
      <4>1. CASE A = {} BY <1>1, <4>1 DEF IsFirst
      <4>2. CASE A # {}
        <5>1. n < row.start_date BY <1>1, <2>2, <4>2 DEF IsFirst
        <5> QED BY <1>1, <4>2, <5>1 DEF IsFirst
      <4> QED BY <4>1, <4>2
    <3> QED BY <1>2, <3>2, <3>3
  <2> QED BY <2>1, <2>2
<1>3. CASE ~changes[n].adds
  <2>1. CASE row.end_date # 0 /\ n < row.end_date
    <3>1. KeptDates(row, n) = row BY <1>3, <2>1 DEF KeptDates
    <3>2. IsLast(row.end_date, R \cup {n}) BY <1>1, <2>1 DEF IsLast
    <3> QED BY <1>3, <3>1, <3>2
  <2>2. CASE ~(row.end_date # 0 /\ n < row.end_date)
    <3>1. KeptDates(row, n) = [row EXCEPT !.end_date = n] BY <1>3, <2>2 DEF KeptDates
    <3>2. /\ KeptDates(row, n) \in DateRows /\ KeptDates(row, n).end_date = n
          /\ KeptDates(row, n).start_date = row.start_date
      BY <1>1, <3>1 DEF DateRows
    <3>3. IsLast(n, R \cup {n})
      <4>1. CASE R = {} BY <1>1, <4>1 DEF IsLast
      <4>2. CASE R # {}
        <5>1. row.end_date <= n BY <1>1, <2>2, <4>2 DEF IsLast
        <5> QED BY <1>1, <4>2, <5>1 DEF IsLast
      <4> QED BY <4>1, <4>2
    <3> QED BY <1>3, <3>2, <3>3
  <2> QED BY <2>1, <2>2
<1> QED BY <1>2, <1>3

LEMMA NewRowIs ==
  ASSUME LinksTypeOK, NEW n \in DOMAIN changes
  PROVE  /\ NewRow(n) \in DateRows
         /\ changes[n].adds => IsFirst(NewRow(n).start_date, {n}) /\ IsLast(NewRow(n).end_date, {})
         /\ ~changes[n].adds => IsFirst(NewRow(n).start_date, {}) /\ IsLast(NewRow(n).end_date, {n})
<1>1. n \in Nat BY ChangeNumbers
<1> QED BY <1>1 DEF NewRow, DateRows, IsFirst, IsLast

LEMMA CheckChangelogStep ==
  ASSUME LinksInv, NEW n \in todo, CheckChangelog(n)
  PROVE  LinksInv'
<1> DEFINE row == SearchRow(changes[n].link)
<1>1. /\ todo' = todo \ {n} /\ UNCHANGED <<linked, changes, reading>> /\ reading
      /\ dates' = [l \in DOMAIN dates \cup {row} |->
                     IF l # row THEN dates[l]
                     ELSE IF l \in DOMAIN dates THEN KeptDates(dates[l], n) ELSE NewRow(n)]
      /\ n \in DOMAIN changes
  BY DEF CheckChangelog, LinksInv, LinksTypeOK
<1>2. LinksTypeOK /\ changes[n].link \in Links /\ changes[n].adds \in BOOLEAN
  BY <1>1, ChangeNumbers DEF LinksInv
<1> HIDE DEF row
<1>3. LinksTypeOK'
  <2>1. \A l \in DOMAIN dates' : dates'[l] \in DateRows
    <3> SUFFICES ASSUME NEW l \in DOMAIN dates \cup {row}
                 PROVE  dates'[l] \in DateRows
      BY <1>1
    <3>1. CASE l # row BY <1>1, <1>2, <3>1 DEF LinksTypeOK
    <3>2. CASE l = row /\ l \notin DOMAIN dates BY <1>1, <1>2, <3>2, NewRowIs
    <3>3. CASE l = row /\ l \in DOMAIN dates
      <4>1. dates[l] \in DateRows /\ dates'[l] = KeptDates(dates[l], n)
        BY <1>1, <1>2, <3>3 DEF LinksTypeOK
      <4>2. n \in Nat BY <1>1, <1>2, ChangeNumbers
      <4> QED BY <4>1, <4>2 DEF KeptDates, DateRows
    <3> QED BY <3>1, <3>2, <3>3
  <2>2. dates' \in [DOMAIN dates' -> DateRows] BY <1>1, <2>1
  <2> QED BY <1>1, <1>2, <2>2 DEF LinksTypeOK
<1>4. HistoryInv' BY <1>1 DEF LinksInv, HistoryInv, Dates
<1>5. ASSUME NEW link \in Links, Unambiguous(link)
      PROVE  /\ link \in DOMAIN dates' <=>
                  link \in linked \/ ReadOf(link, TRUE)' # {} \/ ReadOf(link, FALSE)' # {}
             /\ link \in DOMAIN dates' =>
                  /\ IsFirst(dates'[link].start_date, ReadOf(link, TRUE)')
                  /\ IsLast(dates'[link].end_date, ReadOf(link, FALSE)')
  <2>1. row = link <=> changes[n].link = link BY <1>2, <1>5, RowOfLink DEF row
  <2>2. /\ link \in DOMAIN dates <=>
             link \in linked \/ ReadOf(link, TRUE) # {} \/ ReadOf(link, FALSE) # {}
        /\ link \in DOMAIN dates =>
             /\ IsFirst(dates[link].start_date, ReadOf(link, TRUE))
             /\ IsLast(dates[link].end_date, ReadOf(link, FALSE))
    BY <1>1, <1>5 DEF LinksInv, ReadInv
  <2>3. ASSUME NEW a \in BOOLEAN
        PROVE  /\ ReadOf(link, a) \in SUBSET DOMAIN changes
               /\ ReadOf(link, a)' = IF row = link /\ changes[n].adds = a
                                     THEN ReadOf(link, a) \cup {n} ELSE ReadOf(link, a)
    BY <1>1, <2>1 DEF ReadOf, Dates
  <2>4. CASE row # link
    <3>1. ReadOf(link, TRUE)' = ReadOf(link, TRUE) /\ ReadOf(link, FALSE)' = ReadOf(link, FALSE)
      BY <2>3, <2>4
    <3>2. /\ link \in DOMAIN dates' <=> link \in DOMAIN dates
          /\ link \in DOMAIN dates => dates'[link] = dates[link]
      BY <1>1, <2>4
    <3> QED BY <2>2, <3>1, <3>2
  <2>5. CASE row = link
    <3>1. link \in DOMAIN dates' BY <1>1, <2>5
    <3>2. ReadOf(link, TRUE)' # {} \/ ReadOf(link, FALSE)' # {}
      BY <1>2, <2>3, <2>5
    <3>3. /\ changes[n].adds => /\ ReadOf(link, TRUE)' = ReadOf(link, TRUE) \cup {n}
                                /\ ReadOf(link, FALSE)' = ReadOf(link, FALSE)
          /\ ~changes[n].adds => /\ ReadOf(link, TRUE)' = ReadOf(link, TRUE)
                                 /\ ReadOf(link, FALSE)' = ReadOf(link, FALSE) \cup {n}
      BY <1>2, <2>3, <2>5
    <3>4. CASE link \in DOMAIN dates
      <4>1. dates'[link] = KeptDates(dates[link], n) BY <1>1, <2>5, <3>4
      <4>2. dates[link] \in DateRows BY <1>2, <3>4 DEF LinksTypeOK
      <4>3. /\ ReadOf(link, TRUE) \in SUBSET DOMAIN changes
            /\ ReadOf(link, FALSE) \in SUBSET DOMAIN changes
        BY <2>3
      <4>4. /\ changes[n].adds =>
                 /\ IsFirst(KeptDates(dates[link], n).start_date, ReadOf(link, TRUE) \cup {n})
                 /\ IsLast(KeptDates(dates[link], n).end_date, ReadOf(link, FALSE))
            /\ ~changes[n].adds =>
                 /\ IsFirst(KeptDates(dates[link], n).start_date, ReadOf(link, TRUE))
                 /\ IsLast(KeptDates(dates[link], n).end_date, ReadOf(link, FALSE) \cup {n})
        BY <1>1, <1>2, <2>2, <3>4, <4>2, <4>3, KeptDatesAre
      <4>5. /\ IsFirst(dates'[link].start_date, ReadOf(link, TRUE)')
            /\ IsLast(dates'[link].end_date, ReadOf(link, FALSE)')
        BY <1>2, <3>3, <4>1, <4>4
      <4> QED BY <3>1, <3>2, <4>5
    <3>5. CASE link \notin DOMAIN dates
      <4>1. dates'[link] = NewRow(n) BY <1>1, <2>5, <3>5
      <4>2. ReadOf(link, TRUE) = {} /\ ReadOf(link, FALSE) = {} BY <2>2, <3>5
      <4>3. /\ IsFirst(dates'[link].start_date, ReadOf(link, TRUE)')
            /\ IsLast(dates'[link].end_date, ReadOf(link, FALSE)')
        BY <1>1, <1>2, <3>3, <4>1, <4>2, NewRowIs
      <4> QED BY <3>1, <3>2, <4>3
    <3> QED BY <3>4, <3>5
  <2> QED BY <2>4, <2>5
<1>6. ReadInv'
  <2>1. \A link \in Links : Unambiguous(link)' <=> Unambiguous(link)
    BY DEF Unambiguous, Matching, RowFor, Candidate, NameOf, Names, PairName, Pairs, Links
  <2> QED BY <1>1, <1>5, <2>1 DEF ReadInv
<1> QED BY <1>3, <1>4, <1>6 DEF LinksInv

LEMMA LinksInvStep == LinksInv /\ [LinksNext]_linkVars => LinksInv'
<1> SUFFICES ASSUME LinksInv, [LinksNext]_linkVars PROVE LinksInv' OBVIOUS
<1>1. CASE UNCHANGED linkVars
  BY <1>1 DEF linkVars, LinksInv, LinksTypeOK, HistoryInv, ReadInv, ReadOf, Dates
<1>2. CASE \E link \in Links : ChangeLink(link) BY <1>2, ChangeLinkStep
<1>3. CASE CollectLinks BY <1>3, CollectStep
<1>4. CASE \E n \in todo : CheckChangelog(n) BY <1>4, CheckChangelogStep
<1> QED BY <1>1, <1>2, <1>3, <1>4 DEF LinksNext

\* Once the changelog was read in any order, the dates of a link whose relation
\* has a name of its own are those of the first addition and the last removal,
\* for all types of relations and any number of changes (check_changelog).
THEOREM DatesAreKept == LinksSpec => []DatesOfLinksAreTrue
<1>1. LinksInv => DatesOfLinksAreTrue
  <2> SUFFICES ASSUME LinksInv, reading, todo = {}, NEW link \in Links, Unambiguous(link)
               PROVE  /\ link \in DOMAIN dates <=> Dates(link, TRUE) # {}
                      /\ link \in DOMAIN dates =>
                           /\ IsFirst(dates[link].start_date, Dates(link, TRUE))
                           /\ IsLast(dates[link].end_date, Dates(link, FALSE))
    BY DEF DatesOfLinksAreTrue, IsFirst, IsLast
  <2>1. \A a \in BOOLEAN : ReadOf(link, a) = Dates(link, a) BY DEF ReadOf
  <2>2. link \in DOMAIN dates <=> Dates(link, TRUE) # {}
    BY <2>1 DEF LinksInv, ReadInv, HistoryInv
  <2>3. link \in DOMAIN dates =>
          /\ IsFirst(dates[link].start_date, Dates(link, TRUE))
          /\ IsLast(dates[link].end_date, Dates(link, FALSE))
    BY <2>1 DEF LinksInv, ReadInv
  <2> QED BY <2>2, <2>3
<1> QED BY LinksInvInit, LinksInvStep, <1>1, PTL DEF LinksSpec

-----------------------------------------------------------------------------
(***************************************************************************)
(* Rows of tables                                                          *)
(***************************************************************************)
Persons == [who : People, times : Nat]
TableRows ==
    IF table.encrypts
    THEN [item : Items, person : Persons, title : Titles, encrypted : {0, 1}]
    ELSE [item : Items, person : Persons, title : Titles]

TablesTypeOK ==
    /\ table \in TableKinds /\ secrets \in BOOLEAN
    /\ rows \in Seq(TableRows) /\ exported \in Seq(TableRows)
    /\ phase \in {"gather", "load", "written"} /\ loaded \in 0 .. Len(exported)

PersonIsRight(row) ==
    row.person.times = IF IsEncrypted(row) /\ row.person.who # Zero THEN 1 ELSE 0

RowsInv ==
    \A n \in DOMAIN rows :
      /\ PersonIsRight(rows[n])
      /\ IsEncrypted(rows[n]) => secrets
      /\ table.encrypts /\ secrets => IsEncrypted(rows[n])

\* Nothing removes the secrets after a file was written with them.
FileInv ==
    /\ \A n \in DOMAIN exported :
         PersonIsRight(exported[n]) /\ (IsEncrypted(exported[n]) => secrets)
    /\ Keyed => \A m, n \in DOMAIN exported : KeyOfWho(exported[m]) = KeyOfWho(exported[n]) => m = n

(***************************************************************************)
(* Keys                                                                    *)
(***************************************************************************)
PlainKey(row) == [f \in table.key |-> IF f = "person" THEN Plain(row.person.who) ELSE row[f]]
WhoOfKey(k) == [f \in table.key |-> IF f = "person" THEN k[f].who ELSE k[f]]

\* As long as rows are gathered, each is found by its plain key.
KeysInv ==
    /\ KeysAreUnique
    /\ Keyed /\ phase = "gather" => \A n \in DOMAIN rows : PlainKey(rows[n]) \in DOMAIN keys

\* A row of the file is found if its item and person have a row in memory.
LoadInv ==
    Keyed /\ phase = "load" =>
      \A i \in loaded + 1 .. Len(exported), n \in DOMAIN rows :
        KeyOfWho(exported[i]) = KeyOfWho(rows[n]) => KeyOf(exported[i]) \in DOMAIN keys

(***************************************************************************)
(* What the merge keeps                                                    *)
(***************************************************************************)
Keeps(c) == ~Keyed \/ c \in before.memory \/ \A d \in before.memory : d.key # c.key
LoadedRows == IF table.merges THEN 1 .. loaded ELSE {}

MergeInv ==
    phase = "load" =>
      /\ ~table.merges => loaded = Len(exported)
      /\ before.memory \subseteq Contents(rows)
      /\ before.file = IF table.merges THEN Contents(exported) ELSE {}
      /\ \A n \in DOMAIN rows :
           /\ Keeps(Content(rows[n]))
           /\ Content(rows[n]) \in before.memory \/ \E i \in LoadedRows : Content(rows[n]) = Content(exported[i])
      /\ \A i \in LoadedRows : Keeps(Content(exported[i])) => Content(exported[i]) \in Contents(rows)

WrittenInv == phase = "written" => exported = rows /\ MergeKeepsBoth

TablesInv ==
    TablesTypeOK /\ RowsInv /\ FileInv /\ KeysInv /\ LoadInv /\ MergeInv /\ WrittenInv

-----------------------------------------------------------------------------
LEMMA KeyFields ==
  ASSUME TablesTypeOK
  PROVE  /\ table.key \subseteq {"item", "person"} /\ table.encrypts \in BOOLEAN
         /\ table.merges \in BOOLEAN /\ secrets \in BOOLEAN
  BY TablesAssumption DEF TablesTypeOK

LEMMA EncryptedValue ==
  ASSUME NEW v \in Persons, v.times = 0
  PROVE  /\ EncryptValue(v) \in Persons /\ EncryptValue(v).who = v.who
         /\ EncryptValue(v).times = IF v.who # Zero THEN 1 ELSE 0
<1>1. v = Plain(Zero) <=> v.who = Zero
  BY DEF Persons, Plain
<1> QED BY <1>1 DEF EncryptValue, Persons

\* Rows to append: as a script gathers them, or of the file.
GivenRows ==
    Raw \cup {row \in TableRows : PersonIsRight(row) /\ (IsEncrypted(row) => secrets)}

\* What encryption makes of a row that it changes.
EncryptedRow(row) ==
    [item |-> row.item, title |-> row.title,
     person |-> IF secrets THEN EncryptValue(row.person) ELSE row.person,
     encrypted |-> IF secrets THEN 1 ELSE 0]

LEMMA GivenRowType ==
  ASSUME TablesTypeOK, NEW row \in GivenRows
  PROVE  /\ row.item \in Items /\ row.person \in Persons /\ row.title \in Titles
         /\ DOMAIN row = {"item", "person", "title"} \/ DOMAIN row = {"item", "person", "title", "encrypted"}
         /\ PersonIsRight(row) /\ (IsEncrypted(row) => secrets)
         /\ ~table.encrypts => row \in TableRows /\ ~IsEncrypted(row)
<1>1. table.encrypts \in BOOLEAN BY KeyFields
<1>2. CASE row \in Raw
  <2>1. PICK p \in People : row \in [item : Items, person : {Plain(p)}, title : Titles]
    BY <1>2 DEF Raw
  <2>2. Plain(p) \in Persons /\ Plain(p).times = 0 BY DEF Plain, Persons
  <2>3. row.person = Plain(p) /\ DOMAIN row = {"item", "person", "title"} BY <2>1
  <2>4. ~IsEncrypted(row) BY <2>3 DEF IsEncrypted
  <2> QED BY <2>1, <2>2, <2>3, <2>4 DEF PersonIsRight, TableRows
<1>3. CASE row \in TableRows /\ PersonIsRight(row) /\ (IsEncrypted(row) => secrets)
  BY <1>1, <1>3 DEF TableRows, IsEncrypted
<1> QED BY <1>2, <1>3 DEF GivenRows

LEMMA EncryptIs ==
  ASSUME TablesTypeOK, NEW row \in GivenRows, table.encrypts, ~IsEncrypted(row)
  PROVE  Encrypt(row) = EncryptedRow(row)
<1>1. CASE secrets
  BY <1>1, GivenRowType DEF Encrypt, EncryptedRow, WithChange
<1>2. CASE ~secrets
  BY <1>2, GivenRowType DEF Encrypt, EncryptedRow, WithChange
<1> QED BY <1>1, <1>2

\* A row that is appended: of whom and what it is, stays.
LEMMA AppendedRow ==
  ASSUME TablesTypeOK, NEW row \in GivenRows
  PROVE  /\ Encrypt(row) \in TableRows /\ PersonIsRight(Encrypt(row))
         /\ IsEncrypted(Encrypt(row)) => secrets
         /\ table.encrypts /\ secrets => IsEncrypted(Encrypt(row))
         /\ Encrypt(row).item = row.item /\ Encrypt(row).title = row.title
         /\ Encrypt(row).person.who = row.person.who
<1>1. table.encrypts \in BOOLEAN /\ secrets \in BOOLEAN BY KeyFields
<1>2. CASE ~table.encrypts
  <2>1. Encrypt(row) = row BY <1>2 DEF Encrypt
  <2> QED BY <1>2, <2>1, GivenRowType
<1>3. CASE table.encrypts /\ IsEncrypted(row)
  <2>1. Encrypt(row) = row BY <1>3 DEF Encrypt
  <2>2. row \notin Raw BY <1>3 DEF Raw, IsEncrypted
  <2> QED BY <1>3, <2>1, <2>2, GivenRowType DEF GivenRows
<1>4. CASE table.encrypts /\ ~IsEncrypted(row)
  <2>1. Encrypt(row) = EncryptedRow(row) BY <1>4, EncryptIs
  <2>2. /\ row.item \in Items /\ row.person \in Persons /\ row.title \in Titles
        /\ row.person.times = 0
    BY <1>4, GivenRowType DEF PersonIsRight
  <2>3. /\ EncryptValue(row.person) \in Persons /\ EncryptValue(row.person).who = row.person.who
        /\ EncryptValue(row.person).times = IF row.person.who # Zero THEN 1 ELSE 0
    BY <2>2, EncryptedValue
  <2> DEFINE p == IF secrets THEN EncryptValue(row.person) ELSE row.person
             e == IF secrets THEN 1 ELSE 0
  <2>4. /\ p \in Persons /\ p.who = row.person.who /\ e \in {0, 1} /\ (e = 1 <=> secrets)
        /\ p.times = IF e = 1 /\ p.who # Zero THEN 1 ELSE 0
    BY <1>1, <2>2, <2>3
  <2>5. Encrypt(row) = [item |-> row.item, title |-> row.title, person |-> p, encrypted |-> e]
    BY <2>1 DEF EncryptedRow
  <2> HIDE DEF p, e
  <2>6. /\ Encrypt(row) \in TableRows /\ Encrypt(row).person = p /\ Encrypt(row).encrypted = e
        /\ Encrypt(row).item = row.item /\ Encrypt(row).title = row.title
    BY <1>4, <2>2, <2>4, <2>5 DEF TableRows
  <2>7. IsEncrypted(Encrypt(row)) <=> e = 1 BY <2>5 DEF IsEncrypted
  <2> QED BY <2>4, <2>6, <2>7 DEF PersonIsRight
<1> QED BY <1>1, <1>2, <1>3, <1>4

\* What a script updates a row with: a row of its own, or a few fields.
Changes == Raw \cup [title : Titles, person : {Plain(p) : p \in People}]

LEMMA EncryptedChange ==
  ASSUME TablesTypeOK, NEW change \in Changes
  PROVE  /\ DOMAIN Encrypt(change)
              = DOMAIN change \cup (IF table.encrypts THEN {"encrypted"} ELSE {})
         /\ DOMAIN change \in {{"item", "person", "title"}, {"person", "title"}}
         /\ Encrypt(change).title \in Titles /\ Encrypt(change).person \in Persons
         /\ Encrypt(change).person.who = change.person.who
         /\ "item" \in DOMAIN change => change.item \in Items /\ Encrypt(change).item = change.item
         /\ table.encrypts => Encrypt(change).encrypted = IF secrets THEN 1 ELSE 0
         /\ Encrypt(change).person.times
              = IF table.encrypts /\ secrets /\ change.person.who # Zero THEN 1 ELSE 0
<1>1. PICK p \in People : change \in [item : Items, person : {Plain(p)}, title : Titles]
                            \cup [title : Titles, person : {Plain(p)}]
  BY DEF Changes, Raw
<1>2. /\ DOMAIN change \in {{"item", "person", "title"}, {"person", "title"}}
      /\ change.title \in Titles /\ change.person = Plain(p)
      /\ "item" \in DOMAIN change => change.item \in Items
  BY <1>1
<1>3. Plain(p) \in Persons /\ Plain(p).times = 0 /\ Plain(p).who = p BY DEF Plain, Persons
<1>4. /\ EncryptValue(Plain(p)) \in Persons /\ EncryptValue(Plain(p)).who = p
      /\ EncryptValue(Plain(p)).times = IF p # Zero THEN 1 ELSE 0
  BY <1>3, EncryptedValue
<1>5. ~IsEncrypted(change) BY <1>2 DEF IsEncrypted
<1>6. CASE ~table.encrypts
  <2>1. Encrypt(change) = change BY <1>6 DEF Encrypt
  <2> QED BY <1>2, <1>3, <1>6, <2>1
<1>7. CASE table.encrypts /\ ~secrets
  <2>1. Encrypt(change) = WithChange(change, [encrypted |-> 0])
    BY <1>5, <1>7 DEF Encrypt
  <2>2. /\ DOMAIN Encrypt(change) = DOMAIN change \cup {"encrypted"}
        /\ Encrypt(change).encrypted = 0
        /\ \A f \in DOMAIN change : Encrypt(change)[f] = change[f]
    BY <1>2, <2>1 DEF WithChange
  <2> QED BY <1>2, <1>3, <1>7, <2>2
<1>8. CASE table.encrypts /\ secrets
  <2>1. Encrypt(change)
          = WithChange(change, [encrypted |-> 1, person |-> EncryptValue(change.person)])
    BY <1>5, <1>8 DEF Encrypt
  <2>2. /\ DOMAIN Encrypt(change) = DOMAIN change \cup {"encrypted"}
        /\ Encrypt(change).encrypted = 1
        /\ Encrypt(change).person = EncryptValue(change.person)
        /\ \A f \in DOMAIN change \ {"person"} : Encrypt(change)[f] = change[f]
    BY <1>2, <2>1 DEF WithChange
  <2> QED BY <1>2, <1>3, <1>4, <1>8, <2>2
<1>9. table.encrypts \in BOOLEAN /\ secrets \in BOOLEAN BY KeyFields
<1> QED BY <1>6, <1>7, <1>8, <1>9

LEMMA UpdatedRow ==
  ASSUME TablesTypeOK, NEW row \in TableRows, NEW change \in Changes
  PROVE  LET new == WithChange(row, Encrypt(change))
         IN  /\ new \in TableRows /\ PersonIsRight(new)
             /\ IsEncrypted(new) => secrets
             /\ table.encrypts /\ secrets => IsEncrypted(new)
             /\ new.person.who = change.person.who
             /\ new.item = IF "item" \in DOMAIN change THEN change.item ELSE row.item
<1> DEFINE e == Encrypt(change)
           new == WithChange(row, e)
           i == IF "item" \in DOMAIN change THEN change.item ELSE row.item
<1>1. /\ DOMAIN e = DOMAIN change \cup (IF table.encrypts THEN {"encrypted"} ELSE {})
      /\ DOMAIN change \in {{"item", "person", "title"}, {"person", "title"}}
      /\ e.title \in Titles /\ e.person \in Persons /\ e.person.who = change.person.who
      /\ "item" \in DOMAIN change => change.item \in Items /\ e.item = change.item
      /\ table.encrypts => e.encrypted = IF secrets THEN 1 ELSE 0
      /\ e.person.times = IF table.encrypts /\ secrets /\ change.person.who # Zero THEN 1 ELSE 0
  BY EncryptedChange
<1> HIDE DEF e
<1>2. table.encrypts \in BOOLEAN /\ secrets \in BOOLEAN BY KeyFields
<1>3. row.item \in Items /\ i \in Items BY <1>1, <1>2 DEF TableRows
<1>4. CASE table.encrypts
  <2>1. DOMAIN row = {"item", "person", "title", "encrypted"} BY <1>4 DEF TableRows
  <2>2. new = [item |-> i, person |-> e.person, title |-> e.title, encrypted |-> e.encrypted]
    BY <1>1, <1>4, <2>1 DEF WithChange
  <2> HIDE DEF new, i
  <2>3. new \in TableRows
    BY <1>1, <1>2, <1>3, <1>4, <2>2 DEF TableRows
  <2>4. new.person = e.person /\ new.item = i /\ (IsEncrypted(new) <=> secrets)
    BY <1>1, <1>2, <1>4, <2>2 DEF IsEncrypted
  <2> QED BY <1>1, <1>4, <2>3, <2>4 DEF PersonIsRight, new, i, e
<1>5. CASE ~table.encrypts
  <2>1. DOMAIN row = {"item", "person", "title"} BY <1>5 DEF TableRows
  <2>2. new = [item |-> i, person |-> e.person, title |-> e.title]
    BY <1>1, <1>5, <2>1 DEF WithChange
  <2> HIDE DEF new, i
  <2>3. new \in TableRows
    BY <1>1, <1>3, <1>5, <2>2 DEF TableRows
  <2>4. new.person = e.person /\ new.item = i /\ ~IsEncrypted(new)
    BY <2>2 DEF IsEncrypted
  <2> QED BY <1>1, <1>5, <2>3, <2>4 DEF PersonIsRight, new, i, e
<1> QED BY <1>2, <1>4, <1>5

-----------------------------------------------------------------------------
LEMMA KeysOfRow ==
  ASSUME TablesTypeOK, NEW row
  PROVE  WhoOfKey(KeyOf(row)) = KeyOfWho(row) /\ WhoOfKey(PlainKey(row)) = KeyOfWho(row)
  BY KeyFields DEF WhoOfKey, KeyOf, PlainKey, KeyOfWho, Who, Plain

LEMMA SameWho ==
  ASSUME TablesTypeOK, NEW r, NEW s, r.person.who = s.person.who,
         "item" \in table.key => r.item = s.item
  PROVE  KeyOfWho(r) = KeyOfWho(s)
  BY KeyFields DEF KeyOfWho, Who

LEMMA WhoOfSameKey ==
  ASSUME TablesTypeOK, NEW r, NEW s, KeyOfWho(r) = KeyOfWho(s)
  PROVE  /\ "item" \in table.key => r.item = s.item
         /\ "person" \in table.key => r.person.who = s.person.who
<1>1. \A f \in table.key : KeyOfWho(r)[f] = Who(r)[f] /\ KeyOfWho(s)[f] = Who(s)[f]
  BY DEF KeyOfWho
<1> QED BY <1>1 DEF Who

LEMMA SameKeys ==
  ASSUME TablesTypeOK, NEW r, NEW s, KeyOfWho(r) = KeyOfWho(s),
         r.person \in Persons, s.person \in Persons
  PROVE  /\ PlainKey(r) = PlainKey(s)
         /\ (r.person.who = s.person.who => r.person.times = s.person.times) => KeyOf(r) = KeyOf(s)
<1>1. /\ "item" \in table.key => r.item = s.item
      /\ "person" \in table.key => r.person.who = s.person.who
  BY WhoOfSameKey
<1>2. PlainKey(r) = PlainKey(s) BY <1>1, KeyFields DEF PlainKey
<1>3. ASSUME r.person.who = s.person.who => r.person.times = s.person.times
      PROVE  KeyOf(r) = KeyOf(s)
  <2>1. "person" \in table.key => r.person = s.person BY <1>1, <1>3 DEF Persons
  <2>2. \A f \in table.key : r[f] = s[f] BY <1>1, <2>1, KeyFields
  <2> QED BY <2>2 DEF KeyOf
<1> QED BY <1>2, <1>3

LEMMA PlainKeyOf ==
  ASSUME TablesTypeOK, NEW row, row.person \in Persons, row.person.times = 0
  PROVE  KeyOf(row) = PlainKey(row)
<1>1. row.person = Plain(row.person.who) BY DEF Persons, Plain
<1> QED BY <1>1, KeyFields DEF KeyOf, PlainKey

LEMMA StoredRow ==
  ASSUME TablesTypeOK
  PROVE  /\ Len(rows) \in Nat /\ DOMAIN rows = 1 .. Len(rows)
         /\ Len(exported) \in Nat /\ DOMAIN exported = 1 .. Len(exported)
         /\ \A n \in DOMAIN rows : rows[n] \in TableRows
         /\ \A n \in DOMAIN exported : exported[n] \in TableRows
         /\ \A row \in TableRows :
              /\ row.person \in Persons
              /\ IsEncrypted(row) => table.encrypts
<1>1. rows \in Seq(TableRows) /\ exported \in Seq(TableRows) BY DEF TablesTypeOK
<1>2. ASSUME NEW row \in TableRows
      PROVE  row.person \in Persons /\ (IsEncrypted(row) => table.encrypts)
  BY DEF TableRows, IsEncrypted
<1> HIDE DEF TableRows
<1> QED BY <1>1, <1>2

\* A row that is appended to rows which are found by their keys.
LEMMA AppendKeeps ==
  ASSUME TablesTypeOK, RowsInv, KeysAreUnique, NEW row \in GivenRows,
         Keyed => \A n \in DOMAIN rows :
                    KeyOfWho(rows[n]) = KeyOfWho(row) => KeyOf(row) \in DOMAIN keys,
         rows' = AppendTo(rows, keys, row).rows, keys' = AppendTo(rows, keys, row).keys,
         UNCHANGED <<table, secrets>>
  PROVE  /\ rows' \in Seq(TableRows) /\ RowsInv' /\ KeysAreUnique'
         /\ \/ Keyed /\ KeyOf(row) \in DOMAIN keys /\ rows' = rows /\ keys' = keys
            \/ /\ Keyed => KeyOf(row) \notin DOMAIN keys
               /\ rows' = Append(rows, Encrypt(row))
               /\ Keyed => DOMAIN keys' = DOMAIN keys \cup {KeyOf(row), KeyOf(Encrypt(row))}
<1>1. CASE Keyed /\ KeyOf(row) \in DOMAIN keys
  <2>1. rows' = rows /\ keys' = keys BY <1>1 DEF AppendTo
  <2>2. rows' \in Seq(TableRows) BY <2>1 DEF TablesTypeOK
  <2>3. RowsInv' BY <2>1 DEF RowsInv, PersonIsRight, IsEncrypted
  <2>4. KeysAreUnique'
    BY <2>1 DEF KeysAreUnique, Keyed, KeyOfWho, Who, KeyOf
  <2> QED BY <1>1, <2>1, <2>2, <2>3, <2>4
<1>2. CASE ~(Keyed /\ KeyOf(row) \in DOMAIN keys)
  <2> DEFINE e == Encrypt(row)
             new == Len(rows) + 1
  <2>1. /\ rows' = Append(rows, Encrypt(row))
        /\ keys' = IF Keyed THEN WithChange(keys, KeysOfNew(row, Len(rows) + 1)) ELSE keys
    BY <1>2 DEF AppendTo
  <2>2. /\ e \in TableRows /\ PersonIsRight(e) /\ (IsEncrypted(e) => secrets)
        /\ table.encrypts /\ secrets => IsEncrypted(e)
        /\ e.item = row.item /\ e.person.who = row.person.who
    BY AppendedRow
  <2>3. KeyOfWho(e) = KeyOfWho(row) BY <2>2, SameWho
  <2>4. Keyed => keys' = WithChange(keys, [k \in {KeyOf(row), KeyOf(e)} |-> new])
    BY <2>1 DEF KeysOfNew
  <2> HIDE DEF e
  <2>5. rows' = Append(rows, e) BY <2>1 DEF e
  <2>6. rows \in Seq(TableRows) BY DEF TablesTypeOK
  <2>7. /\ rows' \in Seq(TableRows) /\ DOMAIN rows' = DOMAIN rows \cup {new}
        /\ rows'[new] = e /\ \A n \in DOMAIN rows : rows'[n] = rows[n]
        /\ new \notin DOMAIN rows
    <3> HIDE DEF TableRows
    <3> QED BY <2>2, <2>5, <2>6
  <2>8. Keyed => /\ DOMAIN keys' = DOMAIN keys \cup {KeyOf(row), KeyOf(e)}
                 /\ \A k \in DOMAIN keys' :
                      keys'[k] = IF k \in {KeyOf(row), KeyOf(e)} THEN new ELSE keys[k]
    BY <2>4 DEF WithChange
  <2>9. RowsInv' BY <2>2, <2>7 DEF RowsInv, PersonIsRight, IsEncrypted
  <2>10. KeysAreUnique'
    <3>1. /\ Keyed' <=> Keyed
          /\ \A r : KeyOfWho(r)' = KeyOfWho(r) /\ KeyOf(r)' = KeyOf(r) /\ WhoOfKey(r)' = WhoOfKey(r)
      BY DEF Keyed, KeyOfWho, Who, KeyOf, WhoOfKey
    <3> SUFFICES ASSUME Keyed
                 PROVE  /\ \A m, n \in DOMAIN rows' :
                             KeyOfWho(rows'[m]) = KeyOfWho(rows'[n]) => m = n
                        /\ \A n \in DOMAIN rows' : KeyOf(rows'[n]) \in DOMAIN keys'
                        /\ \A k \in DOMAIN keys' :
                             keys'[k] \in DOMAIN rows' /\ KeyOfWho(rows'[keys'[k]]) = WhoOfKey(k)
      BY <3>1 DEF KeysAreUnique, WhoOfKey, Keyed, KeyOfWho, Who, KeyOf
    <3>2. /\ \A m, n \in DOMAIN rows : KeyOfWho(rows[m]) = KeyOfWho(rows[n]) => m = n
          /\ \A n \in DOMAIN rows : KeyOf(rows[n]) \in DOMAIN keys
          /\ \A k \in DOMAIN keys : keys[k] \in DOMAIN rows /\ KeyOfWho(rows[keys[k]]) = WhoOfKey(k)
      BY DEF KeysAreUnique, WhoOfKey
    <3>3. \A n \in DOMAIN rows : KeyOfWho(rows[n]) # KeyOfWho(e)
      BY <1>2, <2>3
    <3>4. \A k \in {KeyOf(row), KeyOf(e)} : WhoOfKey(k) = KeyOfWho(e)
      BY <2>3, KeysOfRow
    <3> QED BY <2>7, <2>8, <3>2, <3>3, <3>4
  <2>11. Keyed => DOMAIN keys' = DOMAIN keys \cup {KeyOf(row), KeyOf(Encrypt(row))}
    BY <2>8 DEF e
  <2> QED BY <1>2, <2>1, <2>7, <2>9, <2>10, <2>11
<1> QED BY <1>1, <1>2

-----------------------------------------------------------------------------
(***************************************************************************)
(* Steps                                                                   *)
(***************************************************************************)
LEMMA FileRemains ==
  ASSUME FileInv, UNCHANGED <<table, secrets, exported>>
  PROVE  FileInv'
<1>1. /\ Keyed' <=> Keyed
      /\ \A r : KeyOfWho(r)' = KeyOfWho(r) /\ IsEncrypted(r)' = IsEncrypted(r)
                /\ (PersonIsRight(r)' <=> PersonIsRight(r))
  BY DEF Keyed, KeyOfWho, Who, IsEncrypted, PersonIsRight
<1> QED BY <1>1 DEF FileInv, Keyed, KeyOfWho, Who, IsEncrypted, PersonIsRight

LEMMA AppendRowStep ==
  ASSUME TablesInv, NEW row \in Raw, AppendRow(row)
  PROVE  TablesInv'
<1> USE DEF TablesInv
<1>1. /\ phase = "gather"
      /\ rows' = AppendTo(rows, keys, row).rows /\ keys' = AppendTo(rows, keys, row).keys
      /\ UNCHANGED <<table, secrets, exported, phase, loaded, processes, before>>
  BY DEF AppendRow
<1>2. /\ row \in GivenRows /\ row.person \in Persons /\ row.person.times = 0
      /\ KeyOf(row) = PlainKey(row)
  <2>1. row \in GivenRows BY DEF GivenRows
  <2>2. row.person \in Persons BY <2>1, GivenRowType
  <2>3. row.person.times = 0 BY DEF Raw, Plain
  <2> QED BY <2>1, <2>2, <2>3, PlainKeyOf
<1>3. Keyed => \A n \in DOMAIN rows :
                 /\ PlainKey(rows[n]) \in DOMAIN keys
                 /\ KeyOfWho(rows[n]) = KeyOfWho(row) => KeyOf(row) \in DOMAIN keys
  <2> SUFFICES ASSUME Keyed, NEW n \in DOMAIN rows
               PROVE  /\ PlainKey(rows[n]) \in DOMAIN keys
                      /\ KeyOfWho(rows[n]) = KeyOfWho(row) => KeyOf(row) \in DOMAIN keys
    OBVIOUS
  <2>1. PlainKey(rows[n]) \in DOMAIN keys BY <1>1 DEF KeysInv
  <2>2. rows[n].person \in Persons BY StoredRow
  <2> QED BY <1>2, <2>1, <2>2, SameKeys
<1>4. /\ rows' \in Seq(TableRows) /\ RowsInv' /\ KeysAreUnique'
      /\ \/ rows' = rows /\ keys' = keys
         \/ /\ rows' = Append(rows, Encrypt(row))
            /\ Keyed => DOMAIN keys' = DOMAIN keys \cup {KeyOf(row), KeyOf(Encrypt(row))}
  BY <1>1, <1>2, <1>3, AppendKeeps DEF KeysInv
<1>5. TablesTypeOK' BY <1>1, <1>4 DEF TablesTypeOK, TableRows
<1>6. KeysInv'
  <2> SUFFICES ASSUME Keyed, NEW n \in DOMAIN rows'
               PROVE  PlainKey(rows'[n]) \in DOMAIN keys'
    BY <1>1, <1>4 DEF KeysInv, Keyed, PlainKey
  <2>1. CASE rows' = rows /\ keys' = keys BY <1>3, <2>1
  <2>2. CASE /\ rows' = Append(rows, Encrypt(row))
             /\ DOMAIN keys' = DOMAIN keys \cup {KeyOf(row), KeyOf(Encrypt(row))}
    <3> DEFINE e == Encrypt(row)
    <3>1. e \in TableRows /\ e.person.who = row.person.who /\ e.item = row.item
      BY <1>2, AppendedRow
    <3>2. PlainKey(e) = KeyOf(row)
      <4>1. e.person \in Persons BY <3>1, StoredRow
      <4>2. KeyOfWho(e) = KeyOfWho(row) BY <3>1, SameWho
      <4> HIDE DEF e
      <4> QED BY <1>2, <4>1, <4>2, SameKeys
    <3>3. rows \in Seq(TableRows) BY DEF TablesTypeOK
    <3> HIDE DEF e
    <3>4. rows' = Append(rows, e) BY <2>2 DEF e
    <3>5. (n \in DOMAIN rows /\ rows'[n] = rows[n]) \/ rows'[n] = e
      <4> HIDE DEF TableRows
      <4> QED BY <3>1, <3>3, <3>4
    <3> QED BY <1>3, <2>2, <3>2, <3>5
  <2> QED BY <1>4, <2>1, <2>2
<1>7. LoadInv' /\ MergeInv' /\ WrittenInv' BY <1>1 DEF LoadInv, MergeInv, WrittenInv
<1> QED BY <1>1, <1>4, <1>5, <1>6, <1>7, FileRemains

LEMMA UpdateRowStep ==
  ASSUME TablesInv, NEW row \in Raw, NEW change \in Changes, change.person = row.person,
         "item" \in DOMAIN change => change = row, UpdateRow(row, change)
  PROVE  TablesInv'
<1> USE DEF TablesInv
<1> DEFINE F == FetchRow(row)
           u == WithChange(rows[F], Encrypt(change))
<1>1. /\ phase = "gather" /\ Found(row)
      /\ rows' = [rows EXCEPT ![F] = u]
      /\ UNCHANGED <<table, secrets, keys, exported, phase, loaded, processes, before>>
  BY DEF UpdateRow
<1>2. F \in DOMAIN rows =>
        /\ u \in TableRows /\ PersonIsRight(u) /\ (IsEncrypted(u) => secrets)
        /\ table.encrypts /\ secrets => IsEncrypted(u)
        /\ u.person.who = row.person.who
        /\ u.item = IF "item" \in DOMAIN change THEN change.item ELSE rows[F].item
  BY StoredRow, UpdatedRow
<1>3. Keyed => /\ F \in DOMAIN rows /\ KeyOfWho(rows[F]) = KeyOfWho(row)
  <2>1. Keyed => F = keys[KeyOf(row)] /\ KeyOf(row) \in DOMAIN keys
    BY <1>1 DEF FetchRow, Found, Known
  <2> HIDE DEF F
  <2> QED BY <2>1, KeysOfRow DEF KeysInv, KeysAreUnique, WhoOfKey
<1> HIDE DEF F, u
<1>4. /\ DOMAIN rows' = DOMAIN rows
      /\ \A n \in DOMAIN rows : rows'[n] = IF n = F THEN u ELSE rows[n]
  BY <1>1
<1>5. rows' \in Seq(TableRows)
  <2>1. rows \in Seq(TableRows) BY DEF TablesTypeOK
  <2>2. CASE F \in DOMAIN rows
    <3>1. u \in TableRows BY <1>2, <2>2
    <3> HIDE DEF TableRows
    <3> QED BY <1>1, <2>1, <2>2, <3>1
  <2>3. CASE F \notin DOMAIN rows
    <3>1. rows' = rows BY <1>1, <2>1, <2>3
    <3> QED BY <2>1, <3>1
  <2> QED BY <2>2, <2>3
<1>6. TablesTypeOK' BY <1>1, <1>5 DEF TablesTypeOK, TableRows
<1>7. RowsInv' BY <1>1, <1>2, <1>4 DEF RowsInv, PersonIsRight, IsEncrypted
<1>8. Keyed => KeyOfWho(u) = KeyOfWho(rows[F]) /\ PlainKey(u) = PlainKey(rows[F])
               /\ KeyOf(u) = KeyOf(rows[F])
  <2> SUFFICES ASSUME Keyed
               PROVE  /\ KeyOfWho(u) = KeyOfWho(rows[F]) /\ PlainKey(u) = PlainKey(rows[F])
                      /\ KeyOf(u) = KeyOf(rows[F])
    OBVIOUS
  <2>1. /\ "item" \in table.key => row.item = rows[F].item
        /\ "person" \in table.key => row.person.who = rows[F].person.who
    BY <1>3, WhoOfSameKey
  <2>2. /\ "item" \in table.key => u.item = rows[F].item
        /\ "person" \in table.key => u.person.who = rows[F].person.who
    BY <1>2, <1>3, <2>1
  <2>3. KeyOfWho(u) = KeyOfWho(rows[F]) BY <2>2, KeyFields DEF KeyOfWho, Who
  <2>4. u.person \in Persons /\ rows[F].person \in Persons
    BY <1>2, <1>3, StoredRow
  <2>5. u.person.who = rows[F].person.who => u.person.times = rows[F].person.times
    <3>1. IsEncrypted(u) <=> IsEncrypted(rows[F])
      BY <1>2, <1>3, StoredRow DEF RowsInv
    <3> QED BY <1>2, <1>3, <3>1 DEF RowsInv, PersonIsRight
  <2> QED BY <2>3, <2>4, <2>5, SameKeys
<1>9. KeysInv'
  <2>1. /\ Keyed' <=> Keyed
        /\ \A r : /\ KeyOfWho(r)' = KeyOfWho(r) /\ KeyOf(r)' = KeyOf(r)
                  /\ WhoOfKey(r)' = WhoOfKey(r) /\ PlainKey(r)' = PlainKey(r)
    BY <1>1 DEF Keyed, KeyOfWho, Who, KeyOf, WhoOfKey, PlainKey
  <2>2. Keyed => \A n \in DOMAIN rows : /\ KeyOfWho(rows'[n]) = KeyOfWho(rows[n])
                                        /\ KeyOf(rows'[n]) = KeyOf(rows[n])
                                        /\ PlainKey(rows'[n]) = PlainKey(rows[n])
    BY <1>4, <1>8
  <2>3. KeysAreUnique'
    <3> SUFFICES ASSUME Keyed
                 PROVE  /\ \A m, n \in DOMAIN rows' :
                             KeyOfWho(rows'[m]) = KeyOfWho(rows'[n]) => m = n
                        /\ \A n \in DOMAIN rows' : KeyOf(rows'[n]) \in DOMAIN keys'
                        /\ \A k \in DOMAIN keys' :
                             keys'[k] \in DOMAIN rows' /\ KeyOfWho(rows'[keys'[k]]) = WhoOfKey(k)
      BY <2>1 DEF KeysAreUnique, WhoOfKey, Keyed, KeyOfWho, Who, KeyOf
    <3>1. /\ \A m, n \in DOMAIN rows : KeyOfWho(rows[m]) = KeyOfWho(rows[n]) => m = n
          /\ \A n \in DOMAIN rows : KeyOf(rows[n]) \in DOMAIN keys
          /\ \A k \in DOMAIN keys : keys[k] \in DOMAIN rows /\ KeyOfWho(rows[keys[k]]) = WhoOfKey(k)
      BY DEF KeysInv, KeysAreUnique, WhoOfKey
    <3> QED BY <1>1, <1>4, <2>2, <3>1
  <2>4. Keyed => \A n \in DOMAIN rows' : PlainKey(rows'[n]) \in DOMAIN keys'
    BY <1>1, <1>4, <2>2 DEF KeysInv
  <2>5. Keyed' /\ phase' = "gather" => \A n \in DOMAIN rows' : PlainKey(rows[n])' \in DOMAIN keys'
    BY <1>1, <2>1, <2>4 DEF PlainKey
  <2> QED BY <2>3, <2>5 DEF KeysInv
<1>10. LoadInv' /\ MergeInv' /\ WrittenInv' BY <1>1 DEF LoadInv, MergeInv, WrittenInv
<1> QED BY <1>1, <1>6, <1>7, <1>9, <1>10, FileRemains

LEMMA SetItemStep == ASSUME TablesInv, NEW row \in Raw, SetItem(row) PROVE TablesInv'
<1>1. CASE AppendRow(row) BY <1>1, AppendRowStep
<1>2. CASE UpdateRow(row, row)
  <2>1. row \in Changes BY DEF Changes
  <2> QED BY <1>2, <2>1, UpdateRowStep
<1> QED BY <1>1, <1>2 DEF SetItem

LEMMA WriteStep == ASSUME TablesInv, Write PROVE TablesInv'
<1> USE DEF TablesInv
<1>1. /\ phase' = "load" /\ loaded' = IF table.merges THEN 0 ELSE Len(exported)
      /\ before' = [memory |-> Contents(rows),
                    file |-> IF table.merges THEN Contents(exported) ELSE {}]
      /\ phase = "gather" /\ UNCHANGED <<table, secrets, rows, keys, exported>>
  BY DEF Write
<1>2. loaded' \in 0 .. Len(exported) BY <1>1, StoredRow
<1>3. TablesTypeOK' BY <1>1, <1>2 DEF TablesTypeOK, TableRows
<1>4. RowsInv' BY <1>1 DEF RowsInv, PersonIsRight, IsEncrypted
<1>5. KeysInv'
  BY <1>1 DEF KeysInv, KeysAreUnique, Keyed, KeyOfWho, Who, KeyOf
<1>6. ASSUME Keyed, NEW i \in DOMAIN exported, NEW n \in DOMAIN rows,
             KeyOfWho(exported[i]) = KeyOfWho(rows[n])
      PROVE  KeyOf(exported[i]) \in DOMAIN keys
  <2>1. exported[i].person \in Persons /\ rows[n].person \in Persons
    BY StoredRow
  <2>2. PlainKey(rows[n]) \in DOMAIN keys /\ KeyOf(rows[n]) \in DOMAIN keys
    BY <1>1, <1>6 DEF KeysInv, KeysAreUnique
  <2>3. CASE exported[i].person.times = 0
    <3>1. KeyOf(exported[i]) = PlainKey(exported[i]) BY <2>1, <2>3, PlainKeyOf
    <3> QED BY <1>6, <2>1, <2>2, <3>1, SameKeys
  <2>4. CASE exported[i].person.times # 0
    <3>1. IsEncrypted(exported[i]) /\ exported[i].person.times = 1 /\ exported[i].person.who # Zero
      BY <2>4 DEF FileInv, PersonIsRight
    <3>2. table.encrypts /\ secrets BY <3>1, StoredRow DEF FileInv
    <3>3. IsEncrypted(rows[n]) /\ PersonIsRight(rows[n]) BY <3>2 DEF RowsInv
    <3>4. exported[i].person.who = rows[n].person.who
            => exported[i].person.times = rows[n].person.times
      BY <3>1, <3>3 DEF PersonIsRight
    <3> QED BY <1>6, <2>1, <2>2, <3>4, SameKeys
  <2> QED BY <2>3, <2>4
<1>7. LoadInv'
  <2>1. ASSUME NEW i \in loaded' + 1 .. Len(exported) PROVE i \in DOMAIN exported
    <3> DEFINE low == loaded'  high == Len(exported)
    <3>1. high \in Nat /\ DOMAIN exported = 1 .. high BY StoredRow
    <3>2. low \in 0 .. high /\ i \in low + 1 .. high BY <1>2
    <3> HIDE DEF low, high
    <3> QED BY <3>1, <3>2
  <2> QED BY <1>1, <1>6, <2>1 DEF LoadInv, Keyed, KeyOfWho, Who, KeyOf
<1>8. MergeInv'
  <2>1. LoadedRows' = {} BY <1>1 DEF LoadedRows
  <2>2. \A r : Content(r)' = Content(r) /\ Contents(r)' = Contents(r)
    BY <1>1 DEF Contents, Content, KeyOfWho, Who
  <2>3. \A n \in DOMAIN rows : Content(rows[n]) \in Contents(rows)
    BY DEF Contents
  <2>4. \A n \in DOMAIN rows' : Content(rows[n])' = Content(rows[n]) /\ n \in DOMAIN rows
    BY <1>1 DEF Content, KeyOfWho, Who
  <2>5. before'.memory = Contents(rows) /\ Contents(rows)' = Contents(rows)
        /\ Contents(exported)' = Contents(exported)
    BY <1>1 DEF Contents, Content, KeyOfWho, Who
  <2>6. before'.file = IF table.merges THEN Contents(exported) ELSE {} BY <1>1
  <2> QED BY <1>1, <2>1, <2>3, <2>4, <2>5, <2>6 DEF MergeInv, Keeps
<1>9. WrittenInv' BY <1>1 DEF WrittenInv
<1> QED BY <1>1, <1>3, <1>4, <1>5, <1>7, <1>8, <1>9, FileRemains

LEMMA LoadRowStep == ASSUME TablesInv, LoadRow PROVE TablesInv'
<1> USE DEF TablesInv
<1> DEFINE j == loaded + 1
           f == exported[j]
           e == Encrypt(f)
<1>1. /\ phase = "load" /\ loaded < Len(exported) /\ loaded' = loaded + 1
      /\ rows' = AppendTo(rows, keys, f).rows /\ keys' = AppendTo(rows, keys, f).keys
      /\ UNCHANGED <<table, secrets, exported, phase, before>>
  BY DEF LoadRow, Loaded
<1>2. /\ loaded \in Nat /\ j \in DOMAIN exported /\ table.merges
      /\ j \in loaded + 1 .. Len(exported) /\ loaded' \in 0 .. Len(exported)
  <2>1. loaded \in Nat /\ Len(exported) \in Nat BY StoredRow DEF TablesTypeOK
  <2>2. loaded # Len(exported) BY <1>1, <2>1
  <2>3. table.merges BY <1>1, <2>2 DEF MergeInv
  <2>4. j \in DOMAIN exported BY <1>1, <2>1, StoredRow
  <2> QED BY <1>1, <2>1, <2>3, <2>4
<1>3. f \in GivenRows BY <1>2, StoredRow DEF GivenRows, FileInv
<1>4. Keyed => \A n \in DOMAIN rows : KeyOfWho(rows[n]) = KeyOfWho(f) => KeyOf(f) \in DOMAIN keys
  BY <1>1, <1>2 DEF LoadInv
<1>5. /\ e \in TableRows /\ e.item = f.item /\ e.title = f.title
      /\ e.person.who = f.person.who
  BY <1>3, AppendedRow
<1>6. KeyOfWho(e) = KeyOfWho(f) /\ Content(e) = Content(f)
  <2> HIDE DEF e, f
  <2>1. KeyOfWho(e) = KeyOfWho(f) BY <1>5, SameWho
  <2>2. Who(e) = Who(f) BY <1>5 DEF Who
  <2> QED BY <1>5, <2>1, <2>2 DEF Content
<1> HIDE DEF f
<1>7. /\ rows' \in Seq(TableRows) /\ RowsInv' /\ KeysAreUnique'
      /\ \/ Keyed /\ KeyOf(f) \in DOMAIN keys /\ rows' = rows /\ keys' = keys
         \/ /\ Keyed => KeyOf(f) \notin DOMAIN keys
            /\ rows' = Append(rows, e)
            /\ Keyed => DOMAIN keys' = DOMAIN keys \cup {KeyOf(f), KeyOf(e)}
  BY <1>1, <1>3, <1>4, AppendKeeps DEF KeysInv
<1> HIDE DEF e
<1>8. TablesTypeOK'
  BY <1>1, <1>2, <1>7 DEF TablesTypeOK, TableRows
<1>9. KeysInv' BY <1>1, <1>7 DEF KeysInv
<1>10. /\ Keyed => DOMAIN keys \subseteq DOMAIN keys'
       /\ \A n \in DOMAIN rows : n \in DOMAIN rows' /\ rows'[n] = rows[n]
       /\ \A n \in DOMAIN rows' : n \in DOMAIN rows \/ rows'[n] = e
  <2>1. rows \in Seq(TableRows) BY DEF TablesTypeOK
  <2> HIDE DEF TableRows
  <2> QED BY <1>5, <1>7, <2>1
<1>11. LoadInv'
  <2> SUFFICES ASSUME Keyed, NEW i \in loaded' + 1 .. Len(exported), NEW n \in DOMAIN rows',
                      KeyOfWho(exported[i]) = KeyOfWho(rows'[n])
               PROVE  KeyOf(exported[i]) \in DOMAIN keys'
    <3>1. UNCHANGED <<table, exported, phase>> BY <1>1
    <3>2. /\ Keyed' = Keyed
          /\ \A i \in loaded' + 1 .. Len(exported), n \in DOMAIN rows' :
                /\ KeyOf(exported[i])' = KeyOf(exported[i])
                /\ KeyOfWho(exported[i])' = KeyOfWho(exported[i])
                /\ KeyOfWho(rows[n])' = KeyOfWho(rows'[n])
      BY <3>1 DEF Keyed, KeyOfWho, Who, KeyOf
    <3> QED BY <3>1, <3>2, Zenon DEF LoadInv
  <2>1. i \in loaded + 1 .. Len(exported) /\ i # j /\ i \in DOMAIN exported
    BY <1>1, <1>2, StoredRow
  <2>2. CASE n \in DOMAIN rows
    BY <1>1, <1>10, <2>1, <2>2 DEF LoadInv
  <2>3. CASE rows'[n] = e
    BY <1>2, <1>6, <2>1, <2>3 DEF FileInv, f
  <2> QED BY <1>10, <2>2, <2>3
<1>12. MergeInv'
  <2>1. LoadedRows = 1 .. loaded /\ LoadedRows' = LoadedRows \cup {j}
    BY <1>1, <1>2 DEF LoadedRows
  <2>2. /\ Keyed' <=> Keyed
        /\ \A c : Keeps(c)' <=> Keeps(c)
    BY <1>1 DEF Keeps, Keyed
  <2>3. /\ Contents(rows)' = {Content(rows'[n]) : n \in DOMAIN rows'}
        /\ Contents(rows) = {Content(rows[n]) : n \in DOMAIN rows}
        /\ Contents(exported)' = Contents(exported)
    BY <1>1 DEF Contents, Content, KeyOfWho, Who
  <2>4. Contents(rows) \subseteq Contents(rows)' BY <1>10, <2>3
  <2>5. /\ before.memory \subseteq Contents(rows)
        /\ before.file = IF table.merges THEN Contents(exported) ELSE {}
        /\ \A n \in DOMAIN rows :
             /\ Keeps(Content(rows[n]))
             /\ Content(rows[n]) \in before.memory
                  \/ \E i \in LoadedRows : Content(rows[n]) = Content(exported[i])
        /\ \A i \in LoadedRows : Keeps(Content(exported[i])) => Content(exported[i]) \in Contents(rows)
    BY <1>1 DEF MergeInv
  <2>6. Keeps(Content(f)) => Content(f) \in Contents(rows)'
    <3>1. CASE rows' = rows /\ Keyed /\ KeyOf(f) \in DOMAIN keys
      <4>1. /\ keys[KeyOf(f)] \in DOMAIN rows
            /\ KeyOfWho(rows[keys[KeyOf(f)]]) = KeyOfWho(f)
        BY <3>1, KeysOfRow DEF KeysInv, KeysAreUnique, WhoOfKey
      <4>2. PICK n \in DOMAIN rows : KeyOfWho(rows[n]) = KeyOfWho(f) BY <4>1
      <4>3. Content(rows[n]).key = KeyOfWho(f) /\ Content(f).key = KeyOfWho(f)
        BY <4>2 DEF Content
      <4>4. ASSUME NEW i \in LoadedRows PROVE Content(rows[n]) # Content(exported[i])
        <5>1. i \in DOMAIN exported /\ i # j BY <1>1, <1>2, <2>1, StoredRow
        <5>2. KeyOfWho(exported[i]) # KeyOfWho(f)
          BY <1>2, <3>1, <5>1 DEF FileInv, f
        <5>3. Content(exported[i]).key = KeyOfWho(exported[i]) BY DEF Content
        <5> QED BY <4>3, <5>2, <5>3
      <4>5. Content(rows[n]) \in before.memory BY <2>5, <4>4
      <4>6. Keeps(Content(f)) => Content(f) \in before.memory
        BY <3>1, <4>3, <4>5 DEF Keeps
      <4> QED BY <2>4, <2>5, <4>6
    <3>2. CASE rows' = Append(rows, e)
      <4>1. rows \in Seq(TableRows) BY DEF TablesTypeOK
      <4>2. Len(rows) + 1 \in DOMAIN rows' /\ rows'[Len(rows) + 1] = e
        <5> HIDE DEF TableRows
        <5> QED BY <1>5, <3>2, <4>1
      <4> QED BY <1>6, <2>3, <4>2
    <3> QED BY <1>7, <3>1, <3>2
  <2>7. ASSUME NEW n \in DOMAIN rows'
        PROVE  /\ Keeps(Content(rows'[n]))
               /\ Content(rows'[n]) \in before.memory
                    \/ \E i \in LoadedRows' : Content(rows'[n]) = Content(exported[i])
    <3>1. CASE n \in DOMAIN rows BY <1>10, <2>1, <2>5, <3>1
    <3>2. CASE n \notin DOMAIN rows
      <4>1. rows'[n] = e /\ rows' # rows BY <1>10, <3>2
      <4>2. Keyed => KeyOf(f) \notin DOMAIN keys BY <1>7, <4>1
      <4>3. Keyed => \A d \in before.memory : d.key # Content(f).key
        <5> SUFFICES ASSUME Keyed, NEW d \in before.memory, d.key = Content(f).key PROVE FALSE
          OBVIOUS
        <5>1. PICK m \in DOMAIN rows : d = Content(rows[m]) BY <2>3, <2>5
        <5>2. d.key = KeyOfWho(rows[m]) /\ Content(f).key = KeyOfWho(f) BY <5>1 DEF Content
        <5> QED BY <1>4, <4>2, <5>2
      <4>4. Keeps(Content(f)) BY <4>3 DEF Keeps
      <4>5. Content(rows'[n]) = Content(exported[j]) BY <1>6, <4>1 DEF f
      <4> QED BY <1>6, <2>1, <4>1, <4>4, <4>5
    <3> QED BY <3>1, <3>2
  <2>8. ASSUME NEW i \in LoadedRows'
        PROVE  Keeps(Content(exported[i])) => Content(exported[i]) \in Contents(rows)'
    BY <2>1, <2>4, <2>5, <2>6 DEF f
  <2>9. UNCHANGED <<table, exported, phase, before>> BY <1>1
  <2>10. before.memory \subseteq Contents(rows)' BY <2>4, <2>5
  <2>11. before'.file = IF table'.merges THEN Contents(exported)' ELSE {} BY <2>3, <2>5, <2>9
  <2>12. \A n \in DOMAIN rows' :
           /\ Keeps(Content(rows[n]))'
           /\ Content(rows[n])' \in before'.memory
                \/ \E i \in LoadedRows' : Content(rows[n])' = Content(exported[i])'
    BY <2>7, <2>9 DEF Content, KeyOfWho, Who, Keeps, Keyed
  <2>13. \A i \in LoadedRows' : Keeps(Content(exported[i]))' => Content(exported[i])' \in Contents(rows)'
    BY <2>8, <2>9 DEF Content, KeyOfWho, Who, Keeps, Keyed
  <2> QED BY <1>2, <2>9, <2>10, <2>11, <2>12, <2>13 DEF MergeInv
<1>13. WrittenInv' BY <1>1 DEF WrittenInv
<1> QED BY <1>1, <1>7, <1>8, <1>9, <1>11, <1>12, <1>13, FileRemains

LEMMA DumpStep == ASSUME TablesInv, Dump PROVE TablesInv'
<1> USE DEF TablesInv
<1>1. /\ phase = "load" /\ loaded = Len(exported)
      /\ phase' = "written" /\ exported' = rows /\ loaded' = 0
      /\ UNCHANGED <<table, secrets, rows, keys, before>>
  BY DEF Dump
<1>2. 0 \in 0 .. Len(rows) BY StoredRow
<1>3. TablesTypeOK' BY <1>1, <1>2 DEF TablesTypeOK, TableRows
<1>4. RowsInv' BY <1>1 DEF RowsInv, PersonIsRight, IsEncrypted
<1>5. KeysInv' BY <1>1 DEF KeysInv, KeysAreUnique, Keyed, KeyOfWho, Who, KeyOf
<1>6. FileInv'
  BY <1>1 DEF RowsInv, KeysInv, KeysAreUnique, FileInv, PersonIsRight, IsEncrypted,
     Keyed, KeyOfWho, Who
<1>7. LoadInv' /\ MergeInv' BY <1>1 DEF LoadInv, MergeInv
<1>8. WrittenInv'
  <2>1. /\ Contents(exported)' = Contents(rows) /\ before' = before
        /\ Keyed' <=> Keyed
    BY <1>1 DEF Contents, Content, KeyOfWho, Who, Keyed
  <2>2. /\ before.memory \subseteq Contents(rows)
        /\ before.file = IF table.merges THEN Contents(exported) ELSE {}
        /\ \A n \in DOMAIN rows : Keeps(Content(rows[n]))
        /\ \A i \in LoadedRows : Keeps(Content(exported[i])) => Content(exported[i]) \in Contents(rows)
    BY <1>1 DEF MergeInv
  <2>3. ASSUME NEW c \in before.file PROVE c \in Contents(rows) <=> Keeps(c)
    <3>1. table.merges BY <2>2, <2>3
    <3>2. LoadedRows = DOMAIN exported BY <1>1, <3>1, StoredRow DEF LoadedRows
    <3>3. PICK i \in DOMAIN exported : c = Content(exported[i]) BY <2>2, <3>1 DEF Contents
    <3>4. c \in Contents(rows) => Keeps(c) BY <2>2 DEF Contents
    <3> QED BY <2>2, <3>2, <3>3, <3>4
  <2> QED BY <1>1, <2>1, <2>2, <2>3 DEF WrittenInv, MergeKeepsBoth, Keeps
<1> QED BY <1>3, <1>4, <1>5, <1>6, <1>7, <1>8

LEMMA NextProcessStep == ASSUME TablesInv, NextProcess PROVE TablesInv'
<1> USE DEF TablesInv
<1>1. /\ rows' = <<>> /\ keys' = <<>> /\ phase' = "gather" /\ loaded' = 0
      /\ secrets' \in {secrets, TRUE} /\ UNCHANGED <<table, exported>>
  BY DEF NextProcess
<1>2. secrets' \in BOOLEAN /\ (secrets => secrets')
  <2>1. secrets \in BOOLEAN BY KeyFields
  <2>2. CASE secrets' = secrets BY <2>1, <2>2
  <2>3. CASE secrets' = TRUE BY <2>3
  <2> QED BY <1>1, <2>2, <2>3
<1>3. <<>> \in Seq(TableRows) /\ DOMAIN <<>> = {} OBVIOUS
<1>4. 0 \in 0 .. Len(exported) BY StoredRow
<1>5. TablesTypeOK' BY <1>1, <1>2, <1>3, <1>4 DEF TablesTypeOK, TableRows
<1>6. RowsInv' BY <1>1, <1>3 DEF RowsInv
<1>7. KeysInv' BY <1>1, <1>3 DEF KeysInv, KeysAreUnique
<1>8. FileInv'
  BY <1>1, <1>2 DEF FileInv, PersonIsRight, IsEncrypted, Keyed, KeyOfWho, Who
<1>9. LoadInv' /\ MergeInv' /\ WrittenInv' BY <1>1 DEF LoadInv, MergeInv, WrittenInv
<1> QED BY <1>5, <1>6, <1>7, <1>8, <1>9

-----------------------------------------------------------------------------
LEMMA TablesInvInit == TablesInit => TablesInv
<1> SUFFICES ASSUME TablesInit PROVE TablesInv OBVIOUS
<1>1. rows = <<>> /\ keys = <<>> /\ exported = <<>> /\ phase = "gather" /\ loaded = 0
  BY DEF TablesInit
<1>2. <<>> \in Seq(TableRows) /\ DOMAIN <<>> = {} /\ Len(<<>>) = 0 OBVIOUS
<1>3. TablesTypeOK BY <1>1, <1>2 DEF TablesInit, TablesTypeOK
<1>4. RowsInv /\ FileInv /\ KeysInv
  BY <1>1, <1>2 DEF RowsInv, FileInv, KeysInv, KeysAreUnique
<1>5. LoadInv /\ MergeInv /\ WrittenInv BY <1>1 DEF LoadInv, MergeInv, WrittenInv
<1> QED BY <1>3, <1>4, <1>5 DEF TablesInv

LEMMA TablesInvStep == TablesInv /\ [TablesNext]_tableVars => TablesInv'
<1> SUFFICES ASSUME TablesInv, [TablesNext]_tableVars PROVE TablesInv' OBVIOUS
<1>1. CASE UNCHANGED tableVars
  <2>1. UNCHANGED <<table, secrets, rows, keys, exported, phase, loaded, before>>
    BY <1>1 DEF tableVars
  <2>2. TablesTypeOK' BY <2>1 DEF TablesInv, TablesTypeOK, TableRows
  <2>3. RowsInv' BY <2>1 DEF TablesInv, RowsInv, PersonIsRight, IsEncrypted
  <2>4. FileInv' BY <2>1, FileRemains DEF TablesInv
  <2>5. KeysInv'
    BY <2>1 DEF TablesInv, KeysInv, KeysAreUnique, Keyed, KeyOfWho, Who, KeyOf, PlainKey
  <2>6. LoadInv' BY <2>1 DEF TablesInv, LoadInv, Keyed, KeyOfWho, Who, KeyOf
  <2>7. MergeInv'
    <3>1. /\ LoadedRows' = LoadedRows /\ Contents(rows)' = Contents(rows)
          /\ Contents(exported)' = Contents(exported)
      BY <2>1 DEF LoadedRows, Contents, Content, KeyOfWho, Who
    <3>2. /\ \A n \in DOMAIN rows : /\ Keeps(Content(rows[n]))' <=> Keeps(Content(rows[n]))
                                    /\ Content(rows[n])' = Content(rows[n])
          /\ \A i : /\ Keeps(Content(exported[i]))' <=> Keeps(Content(exported[i]))
                   /\ Content(exported[i])' = Content(exported[i])
      BY <2>1 DEF Keeps, Content, Keyed, KeyOfWho, Who
    <3> QED BY <2>1, <3>1, <3>2 DEF TablesInv, MergeInv
  <2>8. WrittenInv'
    BY <2>1 DEF TablesInv, WrittenInv, MergeKeepsBoth, Contents, Content, Keyed, KeyOfWho, Who
  <2> QED BY <2>2, <2>3, <2>4, <2>5, <2>6, <2>7, <2>8 DEF TablesInv
<1>2. CASE \E row \in Raw : AppendRow(row) BY <1>2, AppendRowStep
<1>3. CASE \E row \in Raw, t \in Titles : UpdateRow(row, [title |-> t, person |-> row.person])
  <2>1. PICK row \in Raw, t \in Titles : UpdateRow(row, [title |-> t, person |-> row.person])
    BY <1>3
  <2> DEFINE change == [title |-> t, person |-> row.person]
  <2>2. change \in Changes BY DEF Changes, Raw
  <2>3. change.person = row.person /\ "item" \notin DOMAIN change OBVIOUS
  <2>4. UpdateRow(row, change) BY <2>1
  <2> HIDE DEF change
  <2> QED BY <2>2, <2>3, <2>4, UpdateRowStep
<1>4. CASE \E row \in Raw : SetItem(row) BY <1>4, SetItemStep
<1>5. CASE Write BY <1>5, WriteStep
<1>6. CASE LoadRow BY <1>6, LoadRowStep
<1>7. CASE Dump BY <1>7, DumpStep
<1>8. CASE NextProcess BY <1>8, NextProcessStep
<1> QED BY <1>1, <1>2, <1>3, <1>4, <1>5, <1>6, <1>7, <1>8 DEF TablesNext

LEMMA TablesInvHolds == TablesSpec => []TablesInv
  BY TablesInvInit, TablesInvStep, PTL DEF TablesSpec

\* The index of a table leads from each key to its one row, for any items and
\* people and however many rows and processes there are (Key_Table, Link_Table).
THEOREM KeysStayUnique == TablesSpec => []KeysAreUnique
<1>1. TablesInv => KeysAreUnique BY DEF TablesInv, KeysInv
<1> QED BY TablesInvHolds, <1>1, PTL

\* No name is encrypted twice, and none is left in a file that is written with
\* the secrets (_encrypt).
THEOREM EncryptsOnce == TablesSpec => []EncryptedOnce
<1>1. TablesInv => EncryptedOnce
  <2> SUFFICES ASSUME TablesInv PROVE EncryptedOnce OBVIOUS
  <2>1. \A n \in DOMAIN rows : PersonIsRight(rows[n]) BY DEF TablesInv, RowsInv
  <2>2. ASSUME phase = "written", table.encrypts, secrets
        PROVE  \A n \in DOMAIN exported : IsEncrypted(exported[n])
    BY <2>2 DEF TablesInv, WrittenInv, RowsInv
  <2> QED BY <2>1, <2>2 DEF EncryptedOnce, PersonIsRight
<1> QED BY TablesInvHolds, <1>1, PTL

\* A merge loses nothing of the memory, and of the file what the memory has a
\* row for (load).
THEOREM MergeIsComplete == TablesSpec => []MergeKeepsBoth
<1>1. TablesInv => MergeKeepsBoth
  BY DEF TablesInv, WrittenInv, MergeKeepsBoth
<1> QED BY TablesInvHolds, <1>1, PTL
=============================================================================
