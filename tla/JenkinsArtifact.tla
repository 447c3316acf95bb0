--------------------------- MODULE JenkinsArtifact ---------------------------
(***************************************************************************)
(* The Jenkins client of the library (jenkins.py: objects that keep what   *)
(* they retrieved, and whether they exist) and the scripts that use it     *)
(* while builds start, end and are discarded at the server:                *)
(* retrieve_importer.py, which takes the artifact of the last build of a   *)
(* branch if its result is good, jenkins_to_json.py, which counts, and the *)
(* exporter daemon, which starts a job.                                    *)
(*                                                                         *)
(* A build is known by its number. The server lists the newest builds of a *)
(* job only. A request of which a 404 is an answer may fail in other ways. *)
(***************************************************************************)
EXTENDS Integers, Sequences, FiniteSets, FiniteSetsExt

CONSTANTS
    Branches,
    Branch,     \* the branch of which a build is taken
    ListSize,   \* how many builds the server lists of a job
    MaxBuilds   \* bound

ASSUME JenkinsAssumption == Branch \in Branches /\ ListSize \in Nat /\ MaxBuilds \in Nat

VARIABLES
    job,        \* at the server: whether it exists, and whether its branches have jobs
    builds,     \* sequence of [branch, result], of all builds
    kept,       \* the numbers of those that were not discarded
    script,     \* "importer", "usage" or "scrape"
    pcJenkins,
    jobObject,  \* the Job: [exists, has_data, builds]
    build,      \* the Build: [exists, data, number, url], url "last" or "number"
    checked,    \* the number of the build whose result was good
    taken,      \* the number of the build of the artifact
    crumb       \* the crumb of the session: "none", "held" or "absent"

server == <<job, builds, kept>>
jenkinsVars == <<server, script, pcJenkins, jobObject, build, checked, taken, crumb>>

Unknown == "unknown"
Yes == "yes"
No == "no"
NewJob == [exists |-> Unknown, has_data |-> FALSE, builds |-> {}]
NoData == [number |-> 0, result |-> "none", byBranch |-> [b \in Branches |-> 0]]
NewBuild == [exists |-> Unknown, data |-> NoData, number |-> 0, url |-> "last"]
LastBuild == Len(builds)   \* is never discarded

-----------------------------------------------------------------------------
(***************************************************************************)
(* The server                                                              *)
(***************************************************************************)
\* What a job lists as its builds.
Listed == {n \in kept : Cardinality({m \in kept : m > n}) < ListSize}

\* The data of a build, with the last build of each branch at that time,
\* which may have been discarded.
DataOf(n) ==
    [number |-> n, result |-> builds[n].result,
     byBranch |-> [b \in Branches |-> Max({0} \cup {m \in 1..n : builds[m].branch = b})]]

clientVars == <<script, pcJenkins, jobObject, build, checked, taken, crumb>>

StartBuild(b) ==
    /\ job.exists /\ Len(builds) < MaxBuilds
    /\ job.branches => b = Branch   \* the builds of the job of the branch
    /\ builds' = Append(builds, [branch |-> b, result |-> "none"])
    /\ kept' = kept \cup {Len(builds) + 1}
    /\ UNCHANGED <<job, clientVars>>

EndBuild(n, result) ==
    /\ builds[n].result = "none"
    /\ builds' = [builds EXCEPT ![n].result = result]
    /\ UNCHANGED <<job, kept, clientVars>>

Discard(n) ==
    /\ n \in kept \ {LastBuild} /\ kept' = kept \ {n}
    /\ UNCHANGED <<job, builds, clientVars>>

-----------------------------------------------------------------------------
(***************************************************************************)
(* Objects and requests                                                    *)
(***************************************************************************)
\* The session asks for a crumb until it has one or the server has none.
AddCrumb ==
    IF crumb = "none" THEN crumb' \in {"none", "held", "absent"} ELSE UNCHANGED crumb

\* _retrieve of the job, to which a 404 is an answer
RetrievedJob ==
    IF job.exists THEN [exists |-> Yes, has_data |-> TRUE, builds |-> Listed]
    ELSE [jobObject EXCEPT !.exists = No]

\* _retrieve of a build
Retrieved(b) ==
    LET n == IF b.url = "last" THEN LastBuild ELSE b.number
    IN  IF n \in kept
        THEN [b EXCEPT !.exists = Yes, !.data = DataOf(n), !.number = n]
        ELSE [b EXCEPT !.exists = No]

\* `data' of a build
WithData(b) == IF b.exists # No /\ b.data = NoData THEN Retrieved(b) ELSE b

\* _make_last_build: from the data of the job or as a link to the last build
MakeLastBuild ==
    IF ~jobObject.has_data THEN NewBuild
    ELSE IF jobObject.builds = {} THEN [NewBuild EXCEPT !.exists = No]
    ELSE [NewBuild EXCEPT !.exists = Yes, !.number = Max(jobObject.builds), !.url = "number"]

GetBuildLast(n) ==   \* mutant: by the URL of the last build
    [exists |-> Yes, data |-> NoData, number |-> n, url |-> "last"]

GetBuild(n) ==
    [exists |-> IF ~jobObject.has_data THEN Unknown ELSE IF n \in jobObject.builds THEN Yes ELSE No,
     data |-> NoData, number |-> n, url |-> "number"]

End(outcome) == pcJenkins' = outcome /\ UNCHANGED <<jobObject, build, checked, taken>>

\* A RequestException, which is neither an EnvironmentError nor a ValueError
\* and ends each of the scripts.
RequestFails ==
    /\ pcJenkins \in {"jobs", "last", "branch", "result", "nodes", "post"}
    /\ pcJenkins \in {"branch", "result"} => WithData(build) # build
    /\ End("crashed") /\ AddCrumb
    /\ UNCHANGED <<server, script>>

JenkinsInit ==
    /\ job \in [exists : BOOLEAN, branches : BOOLEAN]
    /\ builds = <<>> /\ kept = {}
    /\ script \in {"importer", "usage", "scrape"} /\ pcJenkins = "jobs"
    /\ jobObject = NewJob /\ build = NewBuild
    /\ checked = 0 /\ taken = 0 /\ crumb = "none"

-----------------------------------------------------------------------------
(***************************************************************************)
(* retrieve_importer.py: get_jenkins_url, get_last_branch_build            *)
(***************************************************************************)
\* The job of a branch is another object, of which nothing was retrieved.
GetJob ==
    /\ script = "importer" /\ pcJenkins = "jobs" /\ pcJenkins' = "last"
    /\ jobObject' = IF job.branches /\ job.exists THEN NewJob ELSE RetrievedJob
    /\ AddCrumb /\ UNCHANGED <<server, script, build, checked, taken>>

\* That it does not exist is a ValueError.
GetLastBuild ==
    /\ pcJenkins = "last"
    /\ LET last == MakeLastBuild
           known == IF last.exists = Unknown THEN Retrieved(last) ELSE last
       IN  /\ build' = known
           /\ pcJenkins' = IF known.exists = No THEN "skipped" ELSE "branch"
    /\ AddCrumb /\ UNCHANGED <<server, script, jobObject, checked, taken>>

\* buildsByBranchName of the last build, which is taken itself if the branch
\* had no build. If it has gone there are no actions, which is a TypeError.
GetLastBranchBuild ==
    /\ pcJenkins = "branch"
    /\ LET last == WithData(build)
           n == last.data.byBranch[Branch]
       IN  IF last.exists = No THEN End("crashed")
           ELSE /\ build' = IF n \in {0, last.number} THEN last ELSE GetBuild(n)
                /\ pcJenkins' = "result" /\ UNCHANGED <<jobObject, checked, taken>>
    /\ AddCrumb /\ UNCHANGED <<server, script>>

\* A build that the job did not list has no data to find a result in (a
\* KeyError), one that has gone since has no result (a ValueError).
CheckResult ==
    /\ pcJenkins = "result"
    /\ LET b == WithData(build)
       IN  IF build.exists = No THEN End("crashed")
           ELSE IF b.exists = No \/ b.data.result # "good" THEN End("skipped")
           ELSE /\ build' = b /\ checked' = b.number /\ pcJenkins' = "download"
                /\ UNCHANGED <<jobObject, taken>>
    /\ AddCrumb /\ UNCHANGED <<server, script>>

\* Failures are caught, and the importer stays as it was.
Download ==
    /\ pcJenkins = "download"
    /\ LET n == IF build.url = "last" THEN LastBuild ELSE build.number
       IN  \/ n \in kept /\ taken' = n /\ pcJenkins' = "done" /\ UNCHANGED <<jobObject, build, checked>>
           \/ End("skipped")
    /\ UNCHANGED <<server, script, crumb>>

-----------------------------------------------------------------------------
(***************************************************************************)
(* jenkins_to_json.py and start_scrape of the exporter daemon              *)
(***************************************************************************)
\* Jobs and views are of one answer, nodes of another.
CountJobs ==
    /\ script = "usage" /\ pcJenkins = "jobs" /\ pcJenkins' = "nodes"
    /\ AddCrumb /\ UNCHANGED <<server, script, jobObject, build, checked, taken>>

CountNodes ==
    /\ pcJenkins = "nodes" /\ End("done")
    /\ AddCrumb /\ UNCHANGED <<server, script>>

\* A job that does not exist has None for its actions, which is a TypeError.
ParametersFail == RetrievedJob.exists = No

StartScrape ==
    /\ script = "scrape" /\ pcJenkins = "jobs"
    /\ jobObject' = RetrievedJob
    /\ pcJenkins' = IF ParametersFail THEN "crashed" ELSE "post"
    /\ AddCrumb /\ UNCHANGED <<server, script, build, checked, taken>>

\* Without a crumb the server refuses, if it issues crumbs.
BuildJob ==
    /\ pcJenkins = "post"
    /\ AddCrumb
    /\ IF crumb' = "none" THEN End("crashed") /\ UNCHANGED server
       ELSE \E b \in Branches :
              /\ Len(builds) < MaxBuilds
              /\ builds' = Append(builds, [branch |-> b, result |-> "none"])
              /\ kept' = kept \cup {Len(builds) + 1}
              /\ End("done") /\ UNCHANGED job
    /\ UNCHANGED script

JenkinsNext ==
    \/ \E b \in Branches : StartBuild(b)
    \/ \E n \in DOMAIN builds, r \in {"good", "bad"} : EndBuild(n, r)
    \/ \E n \in kept : Discard(n)
    \/ RequestFails
    \/ GetJob \/ GetLastBuild \/ GetLastBranchBuild \/ CheckResult \/ Download
    \/ CountJobs \/ CountNodes \/ StartScrape \/ BuildJob

JenkinsSpec == JenkinsInit /\ [][JenkinsNext]_jenkinsVars

-----------------------------------------------------------------------------
(***************************************************************************)
(* Properties                                                              *)
(***************************************************************************)
\* The artifact that replaces the importer is that of the build whose result
\* was found good, and of the branch, unless the branch had no build that the
\* last one knew of; builds that start, end or are discarded in between do not
\* change that. Jobs of a branch of their own are the exception: their last
\* build may be another one by the time of the download.
ArtifactWasChecked ==
    script = "importer" /\ pcJenkins = "done" =>
      /\ builds[checked].result = "good"
      /\ ~job.branches => taken = checked
      /\ builds[taken].branch = Branch \/ \A m \in 1..taken : builds[m].branch # Branch
=============================================================================
