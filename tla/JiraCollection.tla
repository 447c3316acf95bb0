--------------------------- MODULE JiraCollection ---------------------------
(***************************************************************************)
(* jira_to_json.py: the versions and comments of the issues of a project   *)
(* since the run before (Update_Tracker, Query, Collector).                *)
(*                                                                         *)
(* A run asks for the issues that were updated since the time in the       *)
(* tracker, one batch after another while people change issues, makes      *)
(* versions of them and writes the tables.  The time of the last query, in *)
(* minutes, goes into the tracker.  A run may break off at any point.      *)
(*                                                                         *)
(* Time is in seconds; the minutes of the tracker are shorter here.  A     *)
(* query without an order gives the issues with the newest key first.      *)
(***************************************************************************)
EXTENDS JiraChangelog

CONSTANTS
    MaxIssue,     \* bound: issues of the project
    Quiet,        \* issues that change only between runs, after the tracker
    BatchSize,    \* size of the Iterator_Limiter: issues in one query
    Maximum,      \* maximum of the Iterator_Limiter: issues in a run
    Minute,       \* seconds in a minute
    Changes,      \* bound: kinds of fields that one change may be about
    MaxChanges,   \* bound: changes of all issues
    MaxComments,  \* bound: comments on all issues
    MaxTime       \* bound: seconds

ASSUME JiraConstants ==
    /\ MaxIssue \in Nat /\ Quiet \subseteq 1..MaxIssue
    /\ BatchSize \in Nat \ {0} /\ Maximum \in Nat \ {0}
    /\ BatchSize <= Maximum /\ Minute \in Nat \ {0}
    /\ Changes \subseteq SUBSET Kinds
    /\ MaxChanges \in Nat /\ MaxComments \in Nat /\ MaxTime \in Nat \ {0}

Issues == 1..MaxIssue
Time == 0..MaxTime
Null == 0   \* NULL_TIMESTAMP

VARIABLES
    now,       \* the clock
    created,   \* when an issue was created, 0: it was not
    updated,   \* when an issue was last changed in any way
    data,      \* title and number of attachments of an issue
    history,   \* changelog of an issue, oldest entry first
    comments,  \* times at which comments were added to an issue
    tracker,   \* jira-updated.txt
    exported,  \* versions that completed runs have written
    remarked,  \* comments that they have written, with the issue
    pc,        \* where the run is
    started,   \* when the run started, which no property of the code keeps
    since,     \* Collector._updated_since
    latest,    \* Query._latest_update
    skip,      \* Iterator_Limiter._skip
    size,      \* Iterator_Limiter._size
    versions,  \* table issue of the run
    remarks    \* table comments of the run

jira == <<created, updated, data, history, comments>>
files == <<tracker, exported, remarked>>
query == <<since, latest, skip, size>>
tables == <<versions, remarks>>
vars == <<now, jira, files, pc, started, query, tables>>

Content == [title : Nat, attachment : Nat]

TypeOK ==
    /\ now \in Time \ {0}
    /\ created \in [Issues -> Time] /\ updated \in [Issues -> Time]
    /\ data \in [Issues -> Content]
    /\ history \in [Issues -> Seq(Entry)]
    /\ comments \in [Issues -> SUBSET Time]
    /\ tracker \in Time
    /\ \A v \in exported \cup versions : v.issue \in Issues /\ v.id \in Nat
    /\ remarked \subseteq Issues \X Time /\ remarks \subseteq Issues \X Time
    /\ pc \in {"idle", "query", "found", "written"}
    /\ started \in Time /\ since \in Time /\ latest \in Time
    /\ skip \in Nat /\ size \in Nat \ {0}

Init ==
    /\ now = 1
    /\ created = [i \in Issues |-> 0] /\ updated = [i \in Issues |-> 0]
    /\ data = [i \in Issues |-> [title |-> 0, attachment |-> 0]]
    /\ history = [i \in Issues |-> <<>>]
    /\ comments = [i \in Issues |-> {}]
    /\ tracker = Null /\ exported = {} /\ remarked = {}
    /\ pc = "idle" /\ started = 0
    /\ since = Null /\ latest = Null /\ skip = 0 /\ size = BatchSize
    /\ versions = {} /\ remarks = {}

-----------------------------------------------------------------------------
Floor(t) == t - (t % Minute)

Tick ==
    /\ now < MaxTime
    /\ now' = now + 1
    /\ UNCHANGED <<jira, files, pc, started, query, tables>>

MayChange(i) == i \in Quiet => pc = "idle" /\ now > tracker

\* Keys are given out in order.
CreateIssue(i) ==
    /\ created[i] = 0 /\ \A j \in Issues : j < i => created[j] # 0
    /\ MayChange(i)
    /\ created' = [created EXCEPT ![i] = now]
    /\ updated' = [updated EXCEPT ![i] = now]
    /\ UNCHANGED <<now, data, history, comments, files, pc, started, query, tables>>

Apply(old, kinds, number) ==
    [title |-> IF "title" \in kinds THEN number ELSE old.title,
     attachment |-> IF "attach" \in kinds THEN old.attachment + 1
                    ELSE IF "detach" \in kinds THEN old.attachment - 1
                    ELSE old.attachment]

Change(i, kinds) ==
    /\ created[i] # 0
    /\ Cardinality(UNION {{j} \X DOMAIN history[j] : j \in Issues}) < MaxChanges
    /\ MayChange(i)
    /\ "detach" \in kinds => "attach" \notin kinds /\ data[i].attachment > 0
    /\ history' = [history EXCEPT ![i] =
          Append(@, [at |-> now, kinds |-> kinds, from |-> data[i].title])]
    /\ data' = [data EXCEPT ![i] = Apply(@, kinds, Len(history[i]) + 1)]
    /\ updated' = [updated EXCEPT ![i] = now]
    /\ UNCHANGED <<now, created, comments, files, pc, started, query, tables>>

AddComment(i) ==
    /\ created[i] # 0
    /\ Cardinality(UNION {{j} \X comments[j] : j \in Issues}) < MaxComments
    /\ MayChange(i)
    /\ comments' = [comments EXCEPT ![i] = @ \cup {now}]
    /\ updated' = [updated EXCEPT ![i] = now]
    /\ UNCHANGED <<now, created, data, history, files, pc, started, query, tables>>

(***************************************************************************)
(* The run                                                                 *)
(***************************************************************************)
\* With --updated-since, all is collected again.
Start(again) ==
    /\ pc = "idle" /\ pc' = "query"
    /\ started' = now
    /\ since' = IF again THEN Null ELSE tracker
    /\ latest' = since'
    /\ skip' = 0 /\ size' = BatchSize
    /\ versions' = {} /\ remarks' = {}
    /\ UNCHANGED <<now, jira, files>>

\* JQL: updated > "YYYY-MM-DD HH:MM", and the part of the answer for a batch
Matching == {i \in Issues : created[i] # 0 /\ updated[i] > since}
Position(i) == Cardinality({j \in Matching : j > i})
Batch == {i \in Matching : skip <= Position(i) /\ Position(i) < skip + size}

ReachedLimitEarly(s, n) == s + n >= Maximum   \* mutant: one issue too early

ReachedLimit(s, n) == s + n > Maximum

NextSizeZero ==   \* mutant: nothing is left for a last query
    IF ReachedLimit(skip + size, size) THEN Maximum - (skip + size) ELSE size

\* Iterator_Limiter.update
NextSize ==
    IF ReachedLimit(skip + size, size)
    THEN IF Maximum - (skip + size) < 1 THEN 1 ELSE Maximum - (skip + size)
    ELSE size

VersionsOf(i) == GetVersions(i, history[i], data[i], created[i], updated[i], since)
RemarksOf(i) == {i} \X {t \in comments[i] : t > since}

CollectBatch ==
    /\ pc = "query" /\ ~ReachedLimit(skip, size) /\ Batch # {}
    /\ latest' = Floor(now)
    /\ versions' = versions \cup UNION {VersionsOf(i) : i \in Batch}
    /\ remarks' = remarks \cup UNION {RemarksOf(i) : i \in Batch}
    /\ skip' = skip + size /\ size' = NextSize
    /\ UNCHANGED <<now, jira, files, pc, started, since>>

\* The query that finds nothing counts for the tracker as well.
LastBatch ==
    /\ pc = "query" /\ ~ReachedLimit(skip, size) /\ Batch = {}
    /\ latest' = Floor(now) /\ pc' = "found"
    /\ UNCHANGED <<now, jira, files, started, since, skip, size, tables>>

StopAtLimit ==
    /\ pc = "query" /\ ReachedLimit(skip, size)
    /\ pc' = "found"
    /\ UNCHANGED <<now, jira, files, started, query, tables>>

WriteTables ==
    /\ pc = "found" /\ pc' = "written"
    /\ UNCHANGED <<now, jira, files, started, query, tables>>

SaveUpdatedSince ==
    /\ pc = "written" /\ pc' = "idle"
    /\ tracker' = latest
    /\ exported' = exported \cup versions
    /\ remarked' = remarked \cup remarks
    /\ started' = 0 /\ since' = Null /\ latest' = Null
    /\ skip' = 0 /\ size' = BatchSize
    /\ versions' = {} /\ remarks' = {}
    /\ UNCHANGED <<now, jira>>

AbortAndSave ==   \* mutant: the time is saved however the run ends
    /\ pc # "idle" /\ pc' = "idle"
    /\ started' = 0 /\ since' = Null /\ latest' = Null
    /\ skip' = 0 /\ size' = BatchSize
    /\ versions' = {} /\ remarks' = {}
    /\ tracker' = latest
    /\ UNCHANGED <<now, jira, exported, remarked>>

\* A query that fails, a disk that is full, a process that is killed: what it
\* wrote is not imported, and the next run writes the files anew.
Abort ==
    /\ pc # "idle" /\ pc' = "idle"
    /\ started' = 0 /\ since' = Null /\ latest' = Null
    /\ skip' = 0 /\ size' = BatchSize
    /\ versions' = {} /\ remarks' = {}
    /\ UNCHANGED <<now, jira, files>>

Touch(i) ==
    \/ CreateIssue(i) \/ AddComment(i)
    \/ \E kinds \in Changes : Change(i, kinds)

People == \E i \in Issues : Touch(i)

Run ==
    \/ \E again \in BOOLEAN : Start(again)
    \/ CollectBatch \/ LastBatch \/ StopAtLimit
    \/ WriteTables \/ SaveUpdatedSince \/ Abort

Next == Tick \/ People \/ Run

Spec == Init /\ [][Next]_vars

-----------------------------------------------------------------------------
Has(S, i, k) == \E v \in S : v.issue = i /\ v.id = k

\* Tables S and R have a version of the issue for every second of T in which
\* it was changed, its first version when it was created then, and the comments
\* that were made then; h is its changelog, c when it was created, m the times
\* of its comments.
Covers(S, R, i, h, c, m, T) ==
    /\ \A d \in Dates(h) \cap T : Has(S, i, IdOf(h, d))
    /\ c \in T \ {0} => Has(S, i, 0)
    /\ {i} \X (m \cap T) \subseteq R

Complete(S, R, i, T) == Covers(S, R, i, history[i], created[i], comments[i], T)

\* What changed after the tracker and before the run is collected by the run,
\* although issues come in while it goes through the batches.
RunIsComplete ==
    pc \in {"found", "written"} =>
        \A i \in Issues :
            Complete(versions, remarks, i, {t \in Time : since < t /\ t < started})

\* Of an issue that does not change during a run, nothing before the tracker is
\* left out, whatever breaks off.
NothingIsSkipped ==
    \A i \in Quiet : Complete(exported, remarked, i, {t \in Time : t <= tracker})

(***************************************************************************)
(* The inductive invariant                                                 *)
(***************************************************************************)
\* The project has no more issues than a run collects.
NothingIsLimited == MaxIssue <= Maximum

AgesAreRight ==
    \A i \in Issues :
        /\ created[i] <= updated[i] /\ updated[i] <= now
        /\ created[i] = 0 => updated[i] = 0
        /\ Dates(history[i]) \subseteq 1..updated[i]
        /\ comments[i] \subseteq 1..updated[i]

RunIsTimely == pc # "idle" => since <= tracker /\ started <= now

\* The limiter goes up to the maximum, or beyond all issues.
LimitIsExact == skip + size <= Maximum \/ Maximum <= skip

\* The times at which changes of an issue have to be found by the run
Window(i) == {t \in Time : since < t /\ (i \in Quiet \/ t < started)}

\* Issues that come in shift others to later batches only, so that the run has
\* yet to see those that it did not collect.
BatchesAreComplete ==
    pc # "idle" =>
        \A i \in Issues :
            \/ Complete(versions, remarks, i, Window(i))
            \/ pc = "query" /\ i \in Matching /\ skip <= Position(i)

IInv ==
    /\ TypeOK /\ AgesAreRight /\ RunIsTimely /\ LimitIsExact
    /\ BatchesAreComplete /\ NothingIsSkipped

\* The versions that are made backwards from the newest data are those that
\* the issue had, apart from seconds in which a field was changed twice.
VersionsAreTrue ==
    \A i \in Issues : created[i] # 0 /\ ~Ambiguous(history[i]) =>
        \A v \in GetVersions(i, history[i], data[i], created[i], updated[i], 0) :
            \E d \in Dates(history[i]) \cup {0} :
                LET true == TrueVersion(i, history[i], created[i], d)
                IN  \A f \in DOMAIN true : v[f] = true[f]

\* Two runs that export a version of an issue under the same number agree on
\* it, however much each of them collected, when no second has two changes.
SameSecond(h) == \E m, n \in DOMAIN h : m # n /\ h[m].at = h[n].at

VersionsAreStable ==
    \A v, w \in exported :
        v.issue = w.issue /\ v.id = w.id /\ ~SameSecond(history[v.issue]) =>
            v.data = w.data /\ v.rank = w.rank /\ v.by = w.by

\* The dates of versions are in the order of their numbers.
DatesAreOrdered ==
    \A v, w \in exported :
        v.issue = w.issue /\ v.id < w.id => v.updated <= w.updated
=============================================================================
