---------------------------- MODULE ReviewUpdate ----------------------------
(***************************************************************************)
(* The reviews of one repository: what GitLab_Repository, GitHub_Repository *)
(* and TFS_Repository collect from the API of a review system next to the  *)
(* versions.  A run reads some lists one after the other while people      *)
(* work, and keeps the latest date that it found over all lists together   *)
(* as the update tracker (Review_System).  What is not newer than the      *)
(* tracker is not collected again.                                         *)
(*                                                                         *)
(* Dates are seconds of a clock.  A thread is a merge or pull request or   *)
(* an issue, with notes; `bot' are notes that the code tells apart: those  *)
(* of bots for GitHub and of group accounts for TFS.                       *)
(***************************************************************************)
EXTENDS Integers

CONSTANTS
    Systems,           \* the review systems of this instance
    Requests, Issues,  \* threads that may be opened
    Repo,              \* what a row is about that belongs to no thread
    MaxTime, MaxActs, MaxFails

ASSUME SystemsAssumption == Systems \subseteq {"gitlab", "github", "tfs", "tfs2013"}
ASSUME ThreadsAssumption == Requests \cap Issues = {} /\ Repo \notin Requests \cup Issues
ASSUME BoundsAssumption == MaxTime \in Nat \ {0} /\ MaxActs \in Nat /\ MaxFails \in Nat

Threads == Requests \cup Issues
Times   == 1..MaxTime
Rows    == (Threads \cup {Repo}) \X Times

\* What happens at the system: pushes, comments on commits, changes of work
\* items and the notes of the threads.
Streams == {"push", "comment", "work", "note", "bot"}
Tables  == {"vcs_event", "commit_comment", "tfs_work_item", "merge_request",
            "merge_request_note", "github_issue", "github_issue_note"}
Listing == {"requests", "closedRequests", "issues"}
Adding  == {"addRequests", "addClosed", "addIssues"}
Places  == {"idle", "git", "events", "comments", "work", "finish"} \cup Listing \cup Adding

VARIABLES
    system,    \* the type of the source
    clock,
    made,      \* what was made when, per stream
    date,      \* when a thread was last changed, 0 when it does not exist
    closed,    \* whether a thread is closed
    late,      \* notes on a closed TFS request, which do not change its date
    dropin,    \* the dropin files of GitLab data
    tracker,   \* the update tracker of the system
    version,   \* the latest version (the date of the push it came with)
    db,        \* the exported rows
    pc, todo, trackerDate, latest, fetched, rows, known,  \* of the run
    busy,      \* seconds in which a run or the making of a dropin went on
    cut,       \* requests that a list may have been without: a page failed, or
               \* they changed between the lists of TFS 2013
    acts, fails

site == <<made, date, closed, late>>
run  == <<pc, todo, trackerDate, latest, fetched, rows, known>>
kept == <<tracker, version, db>>
vars == <<system, clock, site, dropin, kept, run, busy, cut, acts, fails>>

IsTfs == system \in {"tfs", "tfs2013"}
NoRows == [table \in Tables |-> {}]
NoDropin == [given |-> FALSE, rows |-> NoRows, until |-> 0]

Init ==
    /\ system \in Systems
    /\ clock = 1
    /\ made = [s \in Streams |-> {}]
    /\ date = [t \in Threads |-> 0] /\ closed = [t \in Threads |-> FALSE]
    /\ late = {}
    /\ dropin = NoDropin
    /\ tracker = 0 /\ version = 0 /\ db = NoRows
    /\ pc = "idle" /\ todo = {} /\ trackerDate = 0 /\ latest = 0
    /\ fetched = 0 /\ rows = NoRows /\ known = TRUE
    /\ busy = {} /\ cut = {} /\ acts = 0 /\ fails = 0

-----------------------------------------------------------------------------
(***************************************************************************)
(* The people, and the review system that dates what they do.              *)
(***************************************************************************)
Tick ==
    /\ clock < MaxTime
    /\ clock' = clock + 1
    /\ busy' = IF pc = "idle" THEN busy ELSE busy \cup {clock + 1}
    /\ UNCHANGED <<system, site, dropin, kept, run, cut, acts, fails>>

Act(s) ==
    /\ s = "push" \/ (s = "comment" /\ system = "github") \/ (s = "work" /\ IsTfs)
    /\ made' = [made EXCEPT ![s] = @ \cup {<<Repo, clock>>}]
    /\ UNCHANGED <<date, closed, late, cut>>

\* GitLab and GitHub change the date of a thread with every note.
Note(t, s) ==
    /\ date[t] # 0
    /\ made' = [made EXCEPT ![s] = @ \cup {<<t, clock>>}]
    /\ date' = IF IsTfs THEN date ELSE [date EXCEPT ![t] = clock]
    /\ late' = IF IsTfs /\ closed[t] THEN late \cup {<<t, clock>>} ELSE late
    /\ UNCHANGED <<closed, cut>>

Open(t) ==
    /\ date[t] = 0 /\ (t \in Issues => system = "github")
    /\ date' = [date EXCEPT ![t] = clock]
    /\ UNCHANGED <<made, closed, late, cut>>

CloseOrReopen(t) ==
    /\ date[t] # 0
    /\ date' = [date EXCEPT ![t] = clock]
    /\ closed' = [closed EXCEPT ![t] = ~@]
    /\ cut' = IF system = "tfs2013" /\ pc \in {"addRequests", "closedRequests"}
              THEN cut \cup {t} ELSE cut
    /\ UNCHANGED <<made, late>>

People ==
    /\ acts < MaxActs /\ acts' = acts + 1
    /\ \/ \E s \in {"push", "comment", "work"} : Act(s)
       \/ \E t \in Threads, s \in {"note", "bot"} : Note(t, s)
       \/ \E t \in Threads : Open(t) \/ CloseOrReopen(t)
    /\ UNCHANGED <<system, clock, dropin, kept, run, busy, fails>>

\* The date of the newest push, and the dates of all activity in a project.
Pushed == {x[2] : x \in made["push"]}
IsHead(d) == d \in Pushed \cup {0} /\ \A e \in Pushed : e <= d
Activity == {date[t] : t \in Threads} \cup {x[2] : x \in UNION {made[s] : s \in Streams}}

-----------------------------------------------------------------------------
(***************************************************************************)
(* What should be in the tables once it has been collected.                *)
(***************************************************************************)
Current(threads) == {<<t, date[t]>> : t \in {u \in threads : date[u] # 0}}
Due ==
    [table \in Tables |->
        CASE table = "vcs_event" -> IF system = "github" THEN {} ELSE made["push"]
          [] table = "commit_comment" -> IF system = "github" THEN made["comment"] ELSE {}
          [] table = "tfs_work_item" -> IF IsTfs THEN made["work"] ELSE {}
          [] table = "merge_request" -> Current(Requests)
          [] table = "merge_request_note" ->
                {x \in made["note"] : x[1] \in Requests /\ x \notin late}
          [] table = "github_issue" -> IF system = "github" THEN Current(Threads) ELSE {}
          [] table = "github_issue_note" ->
                IF system = "github" THEN made["note"] \cup made["bot"] ELSE {}]

\* Someone may put the files of a run at another place among the dropins, or
\* the files of other repositories only, and take them away again.
ProvideDropin ==
    /\ system = "gitlab" /\ pc = "idle" /\ ~dropin.given
    /\ \/ dropin' = [given |-> TRUE, rows |-> Due, until |-> clock]
       \/ dropin' = [NoDropin EXCEPT !.given = TRUE]
    /\ busy' = busy \cup {clock}
    /\ UNCHANGED <<system, clock, site, kept, run, cut, acts, fails>>

RemoveDropin ==
    /\ pc = "idle" /\ dropin.given
    /\ dropin' = NoDropin
    /\ UNCHANGED <<system, clock, site, kept, run, busy, cut, acts, fails>>

-----------------------------------------------------------------------------
(***************************************************************************)
(* One run of git_to_json.py for this repository.                          *)
(***************************************************************************)
UpToDateByVersion ==   \* mutant: GitLab asks for the versions only, as Git does
    /\ version # 0
    /\ IF system = "github" THEN \A d \in Pushed : d <= tracker ELSE IsHead(version)

\* Only GitLab asks for both versions and reviews.  TFS asks for the versions
\* only, as every Git repository, and GitHub for the date of the repository,
\* which is that of its newest push.
GitLabUpToDate == IsHead(version) /\ \A d \in Activity : d <= tracker
GitHubUpToDate == \A d \in Pushed : d <= tracker
UpToDate ==
    /\ version # 0
    /\ CASE system = "gitlab" -> GitLabUpToDate
         [] system = "github" -> GitHubUpToDate
         [] OTHER -> IsHead(version)

Begin ==
    /\ pc = "idle" /\ ~UpToDate
    /\ pc' = "git"
    /\ trackerDate' = tracker /\ latest' = tracker
    /\ busy' = busy \cup {clock}
    /\ UNCHANGED <<system, clock, site, dropin, kept, todo, fetched, rows, known, cut, acts, fails>>

\* The versions.  Dropin files replace the API of GitLab, and with it the
\* tracker when the update file names the repository.
HasDropins == system = "gitlab" /\ dropin.given
UpdateFileDate == IF dropin.until # 0 THEN dropin.until ELSE trackerDate

\* TFS may not know the repository: then only its work items are collected.
Known == IF IsTfs THEN BOOLEAN ELSE {TRUE}
AfterVersions(found) ==
    IF ~found THEN "work" ELSE IF system = "github" THEN "requests" ELSE "events"

GetData ==
    /\ pc = "git"
    /\ fetched' \in {d \in Pushed \cup {0} : IsHead(d)}
    /\ IF HasDropins
       THEN /\ rows' = dropin.rows
            /\ trackerDate' = UpdateFileDate /\ latest' = trackerDate'
            /\ pc' = "finish" /\ known' = known
       ELSE /\ known' \in Known
            /\ pc' = AfterVersions(known')
            /\ UNCHANGED <<rows, trackerDate, latest>>
    /\ UNCHANGED <<todo, cut>>

IsNewerThanLatest(d) == d > latest   \* mutant: compares with what it found itself

\* Whether a date is after the tracker, and the latest of those tested so far.
IsNewer(d) == d > trackerDate
Tested(dates) ==
    \E d \in {latest} \cup dates :
        /\ d >= latest /\ \A e \in dates : e <= d
        /\ latest' = IF IsNewer(d) THEN d ELSE latest
Newer(set) == {x \in set : IsNewer(x[2])}
Dates(set) == {x[2] : x \in set}
Append(table, set) == rows' = [rows EXCEPT ![table] = @ \cup set]

PushEvents == Newer(made["push"])
AddEvents ==
    /\ pc = "events"
    /\ Append("vcs_event", PushEvents)
    /\ Tested(Dates(made["push"]))
    /\ pc' = "requests"
    /\ UNCHANGED <<todo, trackerDate, fetched, known, cut>>

EntryWithoutState(t) == <<t, date[t]>>   \* mutant: the state is not looked at

\* An entry of a list: the thread, and its date and state at that moment.
Entry(t) == <<t, date[t], closed[t]>>
Listed(threads) == {Entry(t) : t \in {u \in threads : date[u] # 0}}

\* TFS 2013 gives the open requests first and the closed ones after them.
GetIssues == {e \in Listed(Threads) : e[2] >= trackerDate}
TfsRequests == {e \in Listed(Requests) : system = "tfs2013" => (e[3] <=> pc = "closedRequests")}
PullRequests ==
    IF pc = "issues" THEN GetIssues ELSE IF IsTfs THEN TfsRequests ELSE Listed(Requests)

\* An error on a page of requests of TFS counts as the end of the list.
GetList ==
    /\ pc \in Listing
    /\ \E listed \in IF IsTfs THEN SUBSET PullRequests ELSE {PullRequests} :
          /\ todo' = listed
          /\ cut' = cut \cup {e[1] : e \in PullRequests \ listed}
    /\ pc' = CASE pc = "requests" -> "addRequests"
               [] pc = "closedRequests" -> "addClosed"
               [] OTHER -> "addIssues"
    /\ UNCHANGED <<trackerDate, latest, fetched, rows, known>>

NotesOf(t, streams) == {x \in UNION {made[s] : s \in streams} : x[1] = t}

\* The notes of bots are dropped from requests of GitHub and kept for issues.
PullNotes(t)      == Newer(NotesOf(t, {"note"}))
IssueNotes(t)     == Newer(NotesOf(t, {"note", "bot"}))
ThreadComments(t) == Newer(NotesOf(t, {"note"}))

\* GitLab: all notes of a request that is newer.
AddMergeRequest(e) ==
    /\ rows' = IF IsNewer(e[2])
               THEN [rows EXCEPT !["merge_request"] = @ \cup {<<e[1], e[2]>>},
                                 !["merge_request_note"] =
                                     @ \cup NotesOf(e[1], {"note", "bot"})]
               ELSE rows
    /\ Tested({e[2]})

AddPullRequestNotes(e) ==   \* mutant: notes of every request
    /\ rows' = [rows EXCEPT !["merge_request"] =
                                 @ \cup IF IsNewer(e[2]) THEN {<<e[1], e[2]>>} ELSE {},
                             !["merge_request_note"] =
                                 @ \cup Newer(NotesOf(e[1], {"note"}))]
    /\ Tested({e[2]} \cup Dates(NotesOf(e[1], {"note", "bot"})))

\* GitHub: the newer notes of a request that is newer.  Those of bots have
\* their date looked at all the same.
AddPullRequest(e) ==
    IF IsNewer(e[2])
    THEN /\ rows' = [rows EXCEPT !["merge_request"] = @ \cup {<<e[1], e[2]>>},
                                 !["merge_request_note"] =
                                     @ \cup PullNotes(e[1])]
         /\ Tested({e[2]} \cup Dates(NotesOf(e[1], {"note", "bot"})))
    ELSE UNCHANGED <<rows, latest>>

\* TFS: the newer notes of a request that is open, or was closed after the
\* tracker.  Only the closing date is one to look at.
AddTfsRequest(e) ==
    IF e[3] /\ ~IsNewer(e[2])
    THEN UNCHANGED <<rows, latest>>
    ELSE /\ rows' = [rows EXCEPT !["merge_request"] = @ \cup {<<e[1], e[2]>>},
                                 !["merge_request_note"] =
                                     @ \cup ThreadComments(e[1])]
         /\ Tested((IF e[3] THEN {e[2]} ELSE {}) \cup Dates(NotesOf(e[1], {"note"})))

\* GitHub lists requests among the issues as well, and keeps notes of bots.
AddIssue(e) ==
    IF IsNewer(e[2])
    THEN /\ rows' = [rows EXCEPT !["github_issue"] = @ \cup {<<e[1], e[2]>>},
                                 !["github_issue_note"] =
                                     @ \cup IssueNotes(e[1])]
         /\ Tested({e[2]} \cup Dates(NotesOf(e[1], {"note", "bot"})))
    ELSE UNCHANGED <<rows, latest>>

AddEntry ==
    /\ pc \in Adding
    /\ \E e \in todo :
          /\ CASE pc = "addIssues" -> AddIssue(e)
               [] pc # "addIssues" /\ system = "gitlab" -> AddMergeRequest(e)
               [] pc # "addIssues" /\ system = "github" -> AddPullRequest(e)
               [] OTHER -> AddTfsRequest(e)
          /\ todo' = todo \ {e}
    /\ UNCHANGED <<pc, trackerDate, fetched, known, cut>>

EndOfList ==
    /\ pc \in Adding /\ todo = {}
    /\ pc' = CASE pc = "addRequests" /\ system = "github" -> "comments"
               [] pc = "addRequests" /\ system = "tfs" -> "work"
               [] pc = "addRequests" /\ system = "tfs2013" -> "closedRequests"
               [] pc = "addClosed" -> "work"
               [] OTHER -> "finish"
    /\ UNCHANGED <<todo, trackerDate, latest, fetched, rows, known, cut>>

CommitComments == Newer(made["comment"])
AddCommitComments ==
    /\ pc = "comments"
    /\ Append("commit_comment", CommitComments)
    /\ Tested(Dates(made["comment"]))
    /\ pc' = "issues"
    /\ UNCHANGED <<todo, trackerDate, fetched, known, cut>>

\* The revisions come in batches, in the order of their dates.  The run ends the
\* loop with a batch that is said to be the last and is not empty: when only
\* an empty batch is the last, it goes on asking until there is a revision.
AddBatch(revisions) ==
    LET remaining == revisions \ rows["tfs_work_item"]
    IN /\ pc = "work"
       /\ \E batch \in SUBSET remaining \ {{}} :
             /\ \A x \in batch, y \in remaining \ batch : x[2] <= y[2]
             /\ Append("tfs_work_item", batch)
             /\ pc' \in {"work"} \cup IF batch = remaining THEN {"finish"} ELSE {}
       /\ UNCHANGED <<todo, trackerDate, latest, fetched, known, cut>>

AddLaterRevisions == AddBatch(Newer(made["work"]))   \* mutant: what is after the tracker

WorkItemRevisions == {x \in made["work"] : x[2] >= trackerDate}
AddWorkItemRevisions == AddBatch(WorkItemRevisions)

\* The rows and the tracker are exported together.
Reset ==
    /\ pc' = "idle" /\ todo' = {} /\ rows' = NoRows
    /\ trackerDate' = 0 /\ latest' = 0 /\ fetched' = 0 /\ known' = TRUE
SetLatestDate ==
    /\ pc = "finish"
    /\ tracker' = latest /\ version' = fetched
    /\ db' = [table \in Tables |-> db[table] \cup rows[table]]
    /\ Reset
    /\ UNCHANGED cut

\* An exception: nothing of the repository is kept.  With --force, its
\* version is forgotten.
Fail ==
    /\ pc # "idle" /\ fails < MaxFails
    /\ fails' = fails + 1
    /\ version' \in {version, 0}
    /\ Reset
    /\ UNCHANGED <<system, clock, site, dropin, tracker, db, busy, cut, acts>>

GetReviews ==
    /\ \/ /\ GetData \/ AddEvents \/ GetList \/ AddEntry \/ EndOfList
             \/ AddCommitComments \/ AddWorkItemRevisions
          /\ UNCHANGED kept
       \/ SetLatestDate
    /\ UNCHANGED <<system, clock, site, dropin, busy, acts, fails>>

Next == Tick \/ People \/ ProvideDropin \/ RemoveDropin \/ Begin \/ GetReviews \/ Fail

\* cron starts the runs, and a run goes on while the system answers.
Spec == Init /\ [][Next]_vars /\ WF_vars(Begin) /\ WF_vars(GetReviews)

-----------------------------------------------------------------------------
TypeOK ==
    /\ system \in Systems /\ clock \in Times
    /\ made \in [Streams -> SUBSET Rows]
    /\ date \in [Threads -> 0..MaxTime] /\ closed \in [Threads -> BOOLEAN]
    /\ late \subseteq Rows
    /\ dropin \in [given : BOOLEAN, rows : [Tables -> SUBSET Rows], until : 0..MaxTime]
    /\ tracker \in 0..MaxTime /\ version \in 0..MaxTime
    /\ db \in [Tables -> SUBSET Rows]
    /\ pc \in Places /\ todo \subseteq Threads \X Times \X BOOLEAN
    /\ trackerDate \in 0..MaxTime /\ latest \in 0..MaxTime /\ fetched \in 0..MaxTime
    /\ rows \in [Tables -> SUBSET Rows] /\ known \in BOOLEAN
    /\ busy \subseteq Times /\ cut \subseteq Threads /\ acts \in 0..MaxActs /\ fails \in 0..MaxFails

\* What happened in a second in which no run went on is never behind the
\* tracker without being in the database, however the lists, the people and
\* failures interleave.  Left out are requests that a list was without, and
\* notes on closed requests of TFS, which the code does not ask for.
NothingQuietIsSkipped ==
    \A table \in Tables : \A x \in Due[table] :
        x[2] <= tracker /\ x[2] \notin busy /\ x[1] \notin cut => x \in db[table]

\* A note in the database is one of a request that is there as well.
NotesHaveRequests ==
    \A x \in db["merge_request_note"] : \E y \in db["merge_request"] : y[1] = x[1]

\* A class with auxiliary data should "override is_up_to_date to support"
\* updates of it (holder.py:111-112): a repository that is left out as up to
\* date has no reviews or events after its tracker.
UpToDateMeansNoNews ==
    pc = "idle" /\ UpToDate =>
        \A table \in {"merge_request", "merge_request_note"} :
            \A x \in Due[table] : x[2] <= tracker

\* A run ends, or it is one of TFS that has read every revision there is of a
\* work item and waits for a batch that is the last and is not empty.
RunEnds ==
    pc # "idle" ~>
        pc = "idle" \/ (pc = "work" /\ WorkItemRevisions \subseteq rows["tfs_work_item"])

\* Again and again, all that happened at GitLab outside of the runs is in the
\* database, unless there are dropins.
EverythingQuietIsCollected ==
    []<>(system = "gitlab" =>
            \/ dropin.given
            \/ \A table \in Tables : \A x \in Due[table] : x[2] \in busy \/ x \in db[table])

-----------------------------------------------------------------------------
(***************************************************************************)
(* The inductive invariant behind NothingQuietIsSkipped.                   *)
(***************************************************************************)
Safe(table, x) == x[2] \in busy \/ x[1] \in cut \/ x \in db[table] \/ x \in rows[table]

DatesArePast ==
    /\ \A s \in Streams : \A x \in made[s] : x[2] <= clock
    /\ \A t \in Threads : date[t] <= clock
    /\ tracker <= clock /\ dropin.until <= clock /\ trackerDate <= clock /\ latest <= clock
    /\ \A e \in todo : e[2] <= clock
NowIsLater == clock \notin busy => tracker < clock /\ dropin.until < clock
RunIsBusy  == pc # "idle" => clock \in busy
Resets     == pc \in {"idle", "git"} => rows = NoRows

\* The date of a thread is not before that of its notes.
NotesChangeDates ==
    /\ \A x \in made["note"] \cup made["bot"] : x[1] \in Threads /\ date[x[1]] # 0
    /\ ~IsTfs => \A x \in made["note"] \cup made["bot"] : x[2] <= date[x[1]]
    /\ IsTfs => \A x \in made["note"] : closed[x[1]] /\ x \notin late => x[2] <= date[x[1]]

DropinIsComplete ==
    dropin.given /\ dropin.until # 0 =>
        \A table \in Tables : \A x \in Due[table] :
            x[2] <= dropin.until /\ x[2] \notin busy /\ x[1] \notin cut
                => x \in dropin.rows[table]

\* What is not after the tracker that the run began with needs no list, ...
OldIsSafe ==
    pc # "idle" => \A table \in Tables : \A x \in Due[table] :
                       x[2] <= trackerDate => Safe(table, x)

\* ... and what is after it was read or is still to be read.
Listable(table, x) ==
    CASE table = "vcs_event" -> pc \in {"git", "events"}
      [] table = "commit_comment" -> pc \in {"git", "requests", "addRequests", "comments"}
      [] table = "tfs_work_item" -> pc # "finish"
      [] table = "merge_request" ->
            \/ pc \in {"git", "events", "requests"}
            \/ pc \in {"addRequests", "addClosed"} /\ \E e \in todo : e[1] = x[1] /\ e[2] = x[2]
            \/ system = "tfs2013" /\ pc \in {"addRequests", "closedRequests"} /\ closed[x[1]]
      [] table = "merge_request_note" ->
            \/ pc \in {"git", "events", "requests"}
            \/ pc \in {"addRequests", "addClosed"} /\
                  \E e \in todo : e[1] = x[1] /\ (x[2] <= e[2] \/ (IsTfs /\ ~e[3]))
            \/ system = "tfs2013" /\ pc \in {"addRequests", "closedRequests"} /\ closed[x[1]]
      [] table = "github_issue" ->
            \/ pc \notin {"addIssues", "finish"}
            \/ pc = "addIssues" /\ \E e \in todo : e[1] = x[1] /\ e[2] = x[2]
      [] table = "github_issue_note" ->
            \/ pc \notin {"addIssues", "finish"}
            \/ pc = "addIssues" /\ \E e \in todo : e[1] = x[1] /\ x[2] <= e[2]
UsesApi == known /\ ~HasDropins
NewIsReadOrListable ==
    pc # "idle" /\ UsesApi =>
        \A table \in Tables : \A x \in Due[table] : Safe(table, x) \/ Listable(table, x)

\* A run that leaves out the API or the repository finds no later date.
NothingFound ==
    /\ ~known \/ pc = "git" \/ (pc # "idle" /\ HasDropins) => latest = trackerDate
    /\ ~known => pc \in {"work", "finish"}
PlacesOfSystem ==
    /\ pc \in {"comments", "issues", "addIssues"} => system = "github"
    /\ pc \in {"closedRequests", "addClosed"} => system = "tfs2013"
    /\ pc = "work" => IsTfs
    /\ pc # "idle" /\ HasDropins => pc \in {"git", "finish"}
    /\ pc = "events" => system # "github"

IInv ==
    /\ TypeOK /\ DatesArePast /\ NowIsLater /\ RunIsBusy /\ Resets /\ NotesChangeDates
    /\ DropinIsComplete /\ OldIsSafe /\ NewIsReadOrListable /\ NothingFound
    /\ PlacesOfSystem /\ NothingQuietIsSkipped

=============================================================================
