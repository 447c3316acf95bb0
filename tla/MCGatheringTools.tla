-------------------------- MODULE MCGatheringTools --------------------------
(***************************************************************************)
(* The parts of the gathering that share no state with each other, in one  *)
(* instance for TLC: a behaviour picks one part, and is one of that part;  *)
(* the variables of the others stay at an initial value.                   *)
(***************************************************************************)
EXTENDS Tables, JiraLinks, SprintCalendar, SvnDifference, JenkinsArtifact, GatherJob,
        ScrapeSchedule, KeyPublishing

CONSTANT Parts  \* the parts to pick from

VARIABLE part

Kind(k, e, m) == [key |-> k, encrypts |-> e, merges |-> m]

\* Table, Key_Table and Link_Table; with fields to encrypt; files that an
\* earlier script wrote.
SomeTables ==
    {Kind({}, FALSE, TRUE), Kind({}, TRUE, FALSE),
     Kind({"item"}, FALSE, TRUE), Kind({"item"}, TRUE, FALSE),
     Kind({"person"}, TRUE, TRUE), Kind({"item", "person"}, TRUE, TRUE)}

\* importerTasks: "all", all but the trackers, and tasks for the data of one script.
All == {"project_sources.py", "jenkins_to_json.py", "git_to_json.py", "update"}
SomeTasks == {All, All \ {"update"}, {"project_sources.py", "update"}, {}}
JobFor(ps, ss, choices, n) ==
    [projects |-> ps, scripts |-> ss, tasks |-> choices, versions |-> n]

\* Two projects and one script; one script and any tasks; a script with
\* always_use_dropin; one without an update file.
SomeJobs ==
    {JobFor(<<"P1", "P2">>, <<"git_to_json.py">>, {All, {}}, 1),
     JobFor(<<"P1">>, <<"git_to_json.py">>, SomeTasks, 2),
     JobFor(<<"P1">>, <<"project_sources.py", "git_to_json.py">>, SomeTasks, 1),
     JobFor(<<"P1">>, <<"jenkins_to_json.py", "git_to_json.py">>, {All}, 2)}

\* Types of links; "is tested by" holds "tested by".
SomeRelations ==
    <<[inward |-> "is blocked by", outward |-> "blocks"],
      [inward |-> "relates to", outward |-> "relates to"],
      [inward |-> "tested by", outward |-> "is tested by"]>>
OneKey == <<"P1">>

\* A section of a changed host, GitHub, and one that make_source has no class
\* for; the main key is that of GitLab. P2 has no sources yet.
Publisher(kind, name, environment) == [kind |-> kind, name |-> name, env |-> environment]
SomeApiHosts == {"api", "gitlab", "github"}
SomeNames ==
    [name \in {"controller", "old", "new", "hub"} |->
        CASE name = "controller" -> "api" [] name = "hub" -> "github" [] OTHER -> "gitlab"]
SomePaths ==
    [h \in SomeApiHosts |-> CASE h = "api" -> NoPath [] h = "gitlab" -> "main" [] OTHER -> "source"]
OneController == <<Publisher("controller", "controller", "auth")>>
SomeSections ==
    <<[name |-> "old", has |-> {"gitlab"}], [name |-> "hub", has |-> {"github"}],
      [name |-> "hub", has |-> {}]>>
SomeSources ==
    [p \in {"P1", "P2"} |->
        IF p = "P1" THEN <<Publisher("gitlab", "new", "P1")>> ELSE <<>>]
GivenHost == <<Publisher("gitlab", "new", WholeHost)>>
Option(hosts, source, credentials, dry) ==
    [gitlab |-> hosts, noGitlab |-> FALSE, source |-> source, credentials |-> credentials,
     dry |-> dry]
\* run.sh, start.sh, and one host by hand, also with --dry-run.
SomeOptions ==
    {Option(<<>>, TRUE, TRUE, FALSE), Option(GivenHost, FALSE, TRUE, FALSE),
     Option(GivenHost, FALSE, FALSE, TRUE), Option(GivenHost, FALSE, FALSE, FALSE)}
SomeKeys ==
    [h \in SomeApiHosts |-> IF h = "gitlab" THEN <<[title |-> "person", key |-> -2]>> ELSE <<>>]

Occurs(a, b) == a = b \/ (a = "tested by" /\ b = "is tested by")

-----------------------------------------------------------------------------
Init ==
    /\ part \in Parts
    /\ TablesInit /\ LinksInit /\ CalendarInit /\ DifferenceInit /\ JenkinsInit /\ GatherInit
    /\ ScheduleInit /\ PublishInit
    /\ part # "tables" => table = CHOOSE kind \in TableKinds : TRUE
    /\ part # "tables" => secrets
    /\ part # "sprints" => boards = <<"scrum">>
    /\ part # "svn" => revisions = "to"
    /\ part # "jenkins" => job.exists /\ job.branches /\ script = "importer"
    /\ part # "job" => lists = CHOOSE l \in Jobs : TRUE
    /\ part # "schedule" => \A p \in Agents : hashed[p] = 0

Next ==
    /\ UNCHANGED part
    /\ \/ /\ part = "tables" /\ TablesNext
          /\ UNCHANGED <<linkVars, calendarVars, differenceVars, jenkinsVars,
                         gatherVars, scheduleVars, publishVars>>
       \/ /\ part = "links" /\ LinksNext
          /\ UNCHANGED <<tableVars, calendarVars, differenceVars, jenkinsVars,
                         gatherVars, scheduleVars, publishVars>>
       \/ /\ part = "sprints" /\ CalendarNext
          /\ UNCHANGED <<tableVars, linkVars, differenceVars, jenkinsVars,
                         gatherVars, scheduleVars, publishVars>>
       \/ /\ part = "svn" /\ DifferenceNext
          /\ UNCHANGED <<tableVars, linkVars, calendarVars, jenkinsVars,
                         gatherVars, scheduleVars, publishVars>>
       \/ /\ part = "jenkins" /\ JenkinsNext
          /\ UNCHANGED <<tableVars, linkVars, calendarVars, differenceVars,
                         gatherVars, scheduleVars, publishVars>>
       \/ /\ part = "job" /\ GatherNext
          /\ UNCHANGED <<tableVars, linkVars, calendarVars, differenceVars,
                         jenkinsVars, scheduleVars, publishVars>>
       \/ /\ part = "schedule" /\ ScheduleNext
          /\ UNCHANGED <<tableVars, linkVars, calendarVars, differenceVars,
                         jenkinsVars, gatherVars, publishVars>>
       \/ /\ part = "keys" /\ PublishNext
          /\ UNCHANGED <<tableVars, linkVars, calendarVars, differenceVars,
                         jenkinsVars, gatherVars, scheduleVars>>

Spec ==
    Init /\ [][Next]_<<part, tableVars, linkVars, calendarVars, differenceVars, jenkinsVars,
                      gatherVars, scheduleVars, publishVars>>
=============================================================================
