------------------------- MODULE ReviewUpdate_proofs -------------------------
(***************************************************************************)
(* Proofs about ReviewUpdate: what happened while no run went on is never  *)
(* behind the update tracker without being in the database.                *)
(***************************************************************************)
EXTENDS ReviewUpdate, TLAPS

USE DEF Times, Threads, Rows, Streams, Tables, Places, Listing, Adding, Known, AfterVersions,
        UpdateFileDate, PushEvents, GetIssues, TfsRequests, PullNotes, IssueNotes,
        ThreadComments, CommitComments, WorkItemRevisions

LEMMA InitHolds == Init => IInv
<1> SUFFICES ASSUME Init PROVE IInv
  OBVIOUS
<1> USE BoundsAssumption, SystemsAssumption DEF Init, NoRows, NoDropin
<1>1. TypeOK BY DEF TypeOK
<1>2. DatesArePast BY DEF DatesArePast
<1>3. NotesChangeDates BY DEF NotesChangeDates
<1>4. \A table \in Tables : Due[table] = {}
  BY DEF Due, Current
<1>5. NowIsLater /\ RunIsBusy /\ Resets /\ NothingFound /\ PlacesOfSystem
  BY DEF NowIsLater, RunIsBusy, Resets, NothingFound, PlacesOfSystem, HasDropins
<1>6. DropinIsComplete /\ OldIsSafe /\ NewIsReadOrListable /\ NothingQuietIsSkipped
  BY <1>4 DEF DropinIsComplete, OldIsSafe, NewIsReadOrListable, NothingQuietIsSkipped
<1> QED BY <1>1, <1>2, <1>3, <1>5, <1>6 DEF IInv

\* What is due depends on the site only.
LEMMA DueOfSite == ASSUME UNCHANGED <<site, system>> PROVE Due' = Due
BY DEF site, Due, Current, IsTfs

-----------------------------------------------------------------------------
(***************************************************************************)
(* Types.                                                                  *)
(***************************************************************************)
LEMMA TypeOfPeople == ASSUME TypeOK, People PROVE TypeOK'
<1> USE DEF TypeOK
<1>0. \A t \in Threads \cup {Repo} : <<t, clock>> \in Rows
  OBVIOUS
<1> DEFINE Types ==
        /\ made' \in [Streams -> SUBSET Rows] /\ date' \in [Threads -> 0..MaxTime]
        /\ closed' \in [Threads -> BOOLEAN] /\ late' \subseteq Rows /\ cut' \subseteq Threads
<1>1. Types
  <2>1. ASSUME NEW s \in {"push", "comment", "work"}, Act(s) PROVE Types
    BY <1>0, <2>1 DEF Act
  <2>2. ASSUME NEW t \in Threads, NEW s \in {"note", "bot"}, Note(t, s) PROVE Types
    <3>1. made' \in [Streams -> SUBSET Rows]
      BY <1>0, <2>2 DEF Note
    <3>2. date' \in [Threads -> 0..MaxTime]
      BY <2>2 DEF Note
    <3>3. late' \subseteq Rows /\ closed' = closed /\ cut' = cut
      BY <1>0, <2>2 DEF Note
    <3> QED BY <3>1, <3>2, <3>3
  <2>3. ASSUME NEW t \in Threads, Open(t) PROVE Types
    BY <2>3 DEF Open
  <2>4. ASSUME NEW t \in Threads, CloseOrReopen(t) PROVE Types
    BY <2>4 DEF CloseOrReopen
  <2>5. \/ \E s \in {"push", "comment", "work"} : Act(s)
        \/ \E t \in Threads, s \in {"note", "bot"} : Note(t, s)
        \/ \E t \in Threads : Open(t) \/ CloseOrReopen(t)
    BY Zenon DEF People
  <2> HIDE DEF Types
  <2> QED BY <2>1, <2>2, <2>3, <2>4, <2>5, Zenon
<1>2. /\ acts' \in 0..MaxActs
      /\ UNCHANGED <<system, clock, dropin, kept, run, busy, fails>>
  BY BoundsAssumption DEF People
<1> QED BY <1>1, <1>2 DEF kept, run

LEMMA EntriesHaveType == ASSUME TypeOK PROVE PullRequests \subseteq Threads \X Times \X BOOLEAN
BY DEF TypeOK, PullRequests, Listed, Entry

LEMMA TestedHasType ==
    ASSUME TypeOK, NEW dates \in SUBSET Times, Tested(dates)
    PROVE  latest' \in 0..MaxTime
BY DEF TypeOK, Tested, IsNewer

\* The notes of a thread are rows.
LEMMA NotesAreRows ==
    ASSUME TypeOK, NEW t, NEW streams \in SUBSET Streams
    PROVE  NotesOf(t, streams) \subseteq Rows /\ Dates(NotesOf(t, streams)) \subseteq Times
BY DEF TypeOK, NotesOf, Dates

\* What the steps of a run leave of the right type.
RunTypes ==
    /\ pc \in Places /\ todo \subseteq Threads \X Times \X BOOLEAN
    /\ trackerDate \in 0..MaxTime /\ latest \in 0..MaxTime /\ fetched \in 0..MaxTime
    /\ rows \in [Tables -> SUBSET Rows] /\ known \in BOOLEAN /\ cut \subseteq Threads

LEMMA TypeOfEntry == ASSUME TypeOK, AddEntry PROVE RunTypes'
<1> USE DEF TypeOK
<1>1. PICK e \in todo :
          /\ AddIssue(e) \/ AddMergeRequest(e) \/ AddPullRequest(e) \/ AddTfsRequest(e)
          /\ todo' = todo \ {e}
  BY DEF AddEntry
<1>2. /\ e[1] \in Threads /\ e[2] \in Times /\ <<e[1], e[2]>> \in Rows
  OBVIOUS
<1>3. /\ NotesOf(e[1], {"note"}) \subseteq Rows /\ NotesOf(e[1], {"note", "bot"}) \subseteq Rows
      /\ Dates(NotesOf(e[1], {"note"})) \subseteq Times
      /\ Dates(NotesOf(e[1], {"note", "bot"})) \subseteq Times
  BY NotesAreRows
<1> DEFINE all == {e[2]} \cup Dates(NotesOf(e[1], {"note", "bot"}))
           own == (IF e[3] THEN {e[2]} ELSE {}) \cup Dates(NotesOf(e[1], {"note"}))
<1>4. latest' \in 0..MaxTime
  <2>1. all \in SUBSET Times /\ own \in SUBSET Times /\ {e[2]} \in SUBSET Times
    BY <1>2, <1>3
  <2>2. UNCHANGED latest \/ Tested(all) \/ Tested(own) \/ Tested({e[2]})
    BY <1>1 DEF AddIssue, AddMergeRequest, AddPullRequest, AddTfsRequest
  <2> HIDE DEF all, own
  <2> QED BY <2>1, <2>2, TestedHasType
<1>6. rows' \in [Tables -> SUBSET Rows]
  <2>1. /\ {<<e[1], e[2]>>} \subseteq Rows
        /\ Newer(NotesOf(e[1], {"note"})) \subseteq Rows
        /\ Newer(NotesOf(e[1], {"note", "bot"})) \subseteq Rows
    BY <1>2, <1>3 DEF Newer
  <2> HIDE DEF Rows
  <2>2. CASE AddIssue(e)
    BY <1>3, <2>1, <2>2 DEF AddIssue
  <2>3. CASE AddMergeRequest(e)
    BY <1>3, <2>1, <2>3 DEF AddMergeRequest
  <2>4. CASE AddPullRequest(e)
    BY <1>3, <2>1, <2>4 DEF AddPullRequest
  <2>5. CASE AddTfsRequest(e)
    BY <1>3, <2>1, <2>5 DEF AddTfsRequest
  <2> QED BY <1>1, <2>2, <2>3, <2>4, <2>5
<1>5. todo' \subseteq Threads \X Times \X BOOLEAN
  BY <1>1
<1> QED BY <1>4, <1>5, <1>6 DEF AddEntry, RunTypes

LEMMA TypeOfGetReviews == ASSUME TypeOK, GetReviews PROVE TypeOK'
<1> USE DEF TypeOK
<1>1. ASSUME GetData PROVE RunTypes'
  <2>1. fetched' \in 0..MaxTime
    <3>1. fetched' \in {d \in Pushed \cup {0} : IsHead(d)}
      BY <1>1, Zenon DEF GetData
    <3>2. Pushed \subseteq Times
      BY DEF Pushed
    <3> QED BY <3>1, <3>2, BoundsAssumption
  <2>2. rows' \in [Tables -> SUBSET Rows] /\ trackerDate' \in 0..MaxTime /\ latest' \in 0..MaxTime
    BY <1>1 DEF GetData
  <2>3. known' \in BOOLEAN /\ pc' \in Places /\ todo' = todo /\ cut' = cut
    BY <1>1 DEF GetData
  <2> QED BY <2>1, <2>2, <2>3 DEF RunTypes
<1>2. ASSUME NEW table \in Tables, NEW set \in SUBSET Rows, Append(table, Newer(set))
      PROVE  rows' \in [Tables -> SUBSET Rows]
  <2>1. Newer(set) \subseteq Rows
    BY DEF Newer
  <2> HIDE DEF Tables, Rows
  <2> QED BY <1>2, <2>1 DEF Append
<1>3. \A s \in Streams : Dates(made[s]) \in SUBSET Times
  BY DEF Dates
<1>4. ASSUME AddEvents PROVE RunTypes'
  BY <1>2, <1>3, <1>4, TestedHasType DEF AddEvents, RunTypes
<1>5. ASSUME GetList PROVE RunTypes'
  BY <1>5, EntriesHaveType DEF GetList, RunTypes
<1>6. ASSUME EndOfList PROVE RunTypes'
  BY <1>6 DEF EndOfList, RunTypes
<1>7. ASSUME AddCommitComments PROVE RunTypes'
  BY <1>2, <1>3, <1>7, TestedHasType DEF AddCommitComments, RunTypes
<1>8. ASSUME AddWorkItemRevisions PROVE RunTypes'
  <2>1. PICK batch \in SUBSET Rows : Append("tfs_work_item", batch)
    BY <1>8 DEF AddWorkItemRevisions, AddBatch
  <2>2. rows' \in [Tables -> SUBSET Rows]
    BY <2>1 DEF Append
  <2>3. /\ pc' \in {"work", "finish"}
        /\ UNCHANGED <<todo, trackerDate, latest, fetched, known, cut>>
    BY <1>8 DEF AddWorkItemRevisions, AddBatch
  <2> QED BY <2>2, <2>3 DEF RunTypes
<1>9. CASE SetLatestDate
  <2>1. db' \in [Tables -> SUBSET Rows]
    BY <1>9 DEF SetLatestDate
  <2>2. tracker' \in 0..MaxTime /\ version' \in 0..MaxTime /\ cut' = cut
    BY <1>9 DEF SetLatestDate
  <2>3. Reset => /\ pc' \in Places /\ todo' = {} /\ rows' \in [Tables -> SUBSET Rows]
                 /\ trackerDate' \in 0..MaxTime /\ latest' \in 0..MaxTime
                 /\ fetched' \in 0..MaxTime /\ known' \in BOOLEAN
    BY BoundsAssumption DEF Reset, NoRows
  <2>4. RunTypes'
    BY <1>9, <2>2, <2>3 DEF SetLatestDate, RunTypes
  <2> QED BY <2>1, <2>2, <2>4 DEF GetReviews, RunTypes, site
<1>10. CASE ~SetLatestDate
  <2>1. RunTypes' /\ UNCHANGED kept
    <3>1. /\ UNCHANGED kept
          /\ \/ GetData \/ AddEvents \/ GetList \/ AddEntry \/ EndOfList
             \/ AddCommitComments \/ AddWorkItemRevisions
      BY <1>10, Zenon DEF GetReviews
    <3> HIDE DEF TypeOK
    <3> QED BY <1>1, <1>4, <1>5, <1>6, <1>7, <1>8, <3>1, TypeOfEntry
  <2> QED BY <2>1 DEF GetReviews, RunTypes, site, kept
<1> QED BY <1>9, <1>10

LEMMA DueAreRows == ASSUME TypeOK PROVE Due \in [Tables -> SUBSET Rows]
<1>1. Current(Requests) \subseteq Rows /\ Current(Threads) \subseteq Rows
  BY DEF Current, TypeOK
<1> QED BY <1>1 DEF Due, TypeOK

LEMMA TypeStep == ASSUME TypeOK, [Next]_vars PROVE TypeOK'
<1> USE DEF TypeOK
<1>1. CASE UNCHANGED vars
  BY <1>1 DEF vars, site, kept, run
<1>2. CASE Tick
  BY <1>2, BoundsAssumption DEF Tick, site, kept, run
<1>3. CASE ProvideDropin
  <2>1. dropin' \in [given : BOOLEAN, rows : [Tables -> SUBSET Rows], until : 0..MaxTime]
    <3>1. Due \in [Tables -> SUBSET Rows] /\ NoRows \in [Tables -> SUBSET Rows]
      BY DueAreRows DEF NoRows
    <3>2. clock \in 0..MaxTime /\ 0 \in 0..MaxTime
      BY BoundsAssumption
    <3>3. \/ dropin' = [given |-> TRUE, rows |-> Due, until |-> clock]
          \/ dropin' = [given |-> TRUE, rows |-> NoRows, until |-> 0]
      BY <1>3 DEF ProvideDropin, NoDropin
    <3> DEFINE T == [Tables -> SUBSET Rows]
    <3>4. Due \in T /\ NoRows \in T
      BY <3>1
    <3> HIDE DEF T, Rows, Tables, Times, NoRows, TypeOK
    <3>5. dropin' \in [given : BOOLEAN, rows : T, until : 0..MaxTime]
      <4>1. \A r \in T, n \in 0..MaxTime :
               [given |-> TRUE, rows |-> r, until |-> n]
                   \in [given : BOOLEAN, rows : T, until : 0..MaxTime]
        OBVIOUS
      <4> QED BY <3>2, <3>3, <3>4, <4>1, Zenon
    <3> QED BY <3>5 DEF T
  <2> QED BY <1>3, <2>1 DEF ProvideDropin, site, kept, run
<1>4. CASE RemoveDropin
  BY <1>4, BoundsAssumption DEF RemoveDropin, NoDropin, NoRows, site, kept, run
<1>5. CASE Begin
  BY <1>5 DEF Begin, site, kept
<1>6. CASE Fail
  BY <1>6, BoundsAssumption DEF Fail, Reset, NoRows, site
<1> QED BY <1>1, <1>2, <1>3, <1>4, <1>5, <1>6, TypeOfPeople, TypeOfGetReviews DEF Next

-----------------------------------------------------------------------------
(***************************************************************************)
(* The people: what becomes due is of this second.                         *)
(***************************************************************************)
LEMMA PeopleDue ==
    ASSUME TypeOK, People, NEW table \in Tables, NEW x \in Due'[table]
    PROVE  x \in Due[table] \/ x[2] = clock
<1> USE DEF TypeOK
<1>1. system' = system
  BY DEF People
<1>2. ASSUME NEW s \in {"push", "comment", "work"}, Act(s) PROVE x \in Due[table] \/ x[2] = clock
  BY <1>1, <1>2 DEF Act, Due, Current, IsTfs
<1>3. ASSUME NEW t \in Threads, NEW s \in {"note", "bot"}, Note(t, s)
      PROVE  x \in Due[table] \/ x[2] = clock
  BY <1>1, <1>3 DEF Note, Due, Current, IsTfs
<1>4. ASSUME NEW t \in Threads, Open(t) PROVE x \in Due[table] \/ x[2] = clock
  BY <1>1, <1>4 DEF Open, Due, Current, IsTfs
<1>5. ASSUME NEW t \in Threads, CloseOrReopen(t) PROVE x \in Due[table] \/ x[2] = clock
  BY <1>1, <1>5 DEF CloseOrReopen, Due, Current, IsTfs
<1>6. \/ \E s \in {"push", "comment", "work"} : Act(s)
      \/ \E t \in Threads, s \in {"note", "bot"} : Note(t, s)
      \/ \E t \in Threads : Open(t) \/ CloseOrReopen(t)
  BY Zenon DEF People
<1> HIDE DEF TypeOK
<1> QED BY <1>2, <1>3, <1>4, <1>5, <1>6, Zenon

LEMMA PeopleKeepDates ==
    ASSUME TypeOK, DatesArePast, NotesChangeDates, People
    PROVE  DatesArePast' /\ NotesChangeDates'
<1> USE BoundsAssumption DEF TypeOK, DatesArePast, NotesChangeDates, IsTfs
<1>1. UNCHANGED <<system, clock, dropin, tracker, trackerDate, latest, todo>>
  BY DEF People, kept, run
<1> DEFINE P == DatesArePast' /\ NotesChangeDates'
<1>2. ASSUME NEW s \in {"push", "comment", "work"}, Act(s) PROVE P
  BY <1>1, <1>2 DEF Act
<1>3. ASSUME NEW t \in Threads, NEW s \in {"note", "bot"}, Note(t, s) PROVE P
  BY <1>1, <1>3 DEF Note
<1>4. ASSUME NEW t \in Threads, Open(t) PROVE P
  BY <1>1, <1>4 DEF Open
<1>5. ASSUME NEW t \in Threads, CloseOrReopen(t) PROVE P
  BY <1>1, <1>5 DEF CloseOrReopen
<1>6. \/ \E s \in {"push", "comment", "work"} : Act(s)
      \/ \E t \in Threads, s \in {"note", "bot"} : Note(t, s)
      \/ \E t \in Threads : Open(t) \/ CloseOrReopen(t)
  BY Zenon DEF People
<1> HIDE DEF P
<1>7. P
  BY <1>2, <1>3, <1>4, <1>5, <1>6, Zenon
<1> QED BY <1>7 DEF P

LEMMA PeopleHold == ASSUME IInv, People PROVE IInv'
<1> USE DEF IInv
<1>1. TypeOK' BY TypeOfPeople
<1>2. UNCHANGED <<system, clock, dropin, tracker, version, db, run, busy>>
  BY DEF People, kept
<1>3. /\ cut \subseteq cut'
      /\ \A t \in Threads : closed'[t] # closed[t] /\ system = "tfs2013" /\ pc \in {"addRequests", "closedRequests"}
             => t \in cut'
  <2>1. ASSUME NEW t \in Threads, CloseOrReopen(t) PROVE <1>3!:
    BY <2>1 DEF CloseOrReopen, TypeOK
  <2>2. ASSUME UNCHANGED <<closed, cut>> PROVE <1>3!:
    BY <2>2
  <2> QED BY <2>1, <2>2 DEF People, Act, Note, Open
<1>4. \A table \in Tables : \A x : Safe(table, x) => Safe(table, x)'
  BY <1>2, <1>3 DEF Safe, run
<1>5. DropinIsComplete'
  <2> SUFFICES ASSUME dropin.given, dropin.until # 0,
                      NEW table \in Tables, NEW x \in Due'[table],
                      x[2] <= dropin.until, x[2] \notin busy, x[1] \notin cut'
               PROVE  x \in dropin.rows[table]
    BY <1>2 DEF DropinIsComplete
  <2>1. x[1] \notin cut
    BY <1>3
  <2>2. dropin.until \in 0..MaxTime /\ clock \in Times
    BY DEF TypeOK
  <2>3. x[2] # clock
    BY <2>2 DEF NowIsLater
  <2> QED BY <2>1, <2>3, PeopleDue DEF DropinIsComplete
<1>6. OldIsSafe'
  <2> SUFFICES ASSUME pc # "idle", NEW table \in Tables, NEW x \in Due'[table],
                      x[2] <= trackerDate
               PROVE  Safe(table, x)'
    BY <1>2 DEF OldIsSafe, run
  <2>1. CASE x[2] = clock
    BY <1>2, <2>1 DEF RunIsBusy, Safe
  <2>2. CASE x \in Due[table]
    BY <1>4, <2>2 DEF OldIsSafe
  <2> QED BY <2>1, <2>2, PeopleDue
<1>7. NewIsReadOrListable'
  <2> SUFFICES ASSUME pc # "idle", UsesApi, NEW table \in Tables, NEW x \in Due'[table]
               PROVE  Safe(table, x)' \/ Listable(table, x)'
    BY <1>2 DEF NewIsReadOrListable, UsesApi, HasDropins, run
  <2>1. CASE x[2] = clock
    BY <1>2, <2>1 DEF RunIsBusy, Safe
  <2>2. CASE x \in Due[table] /\ Safe(table, x)
    BY <1>4, <2>2
  <2>3. CASE x \in Due[table] /\ Listable(table, x)
    <3>1. CASE table \in {"merge_request", "merge_request_note"}
      <4>1. x[1] \in Threads
        BY <2>3, <3>1 DEF Due, Current
      <4>2. CASE closed'[x[1]] = closed[x[1]]
        BY <1>2, <2>3, <3>1, <4>2 DEF Listable, IsTfs, run
      <4>3. CASE closed'[x[1]] # closed[x[1]]
        BY <1>2, <1>3, <2>3, <3>1, <4>1, <4>3 DEF Listable, Safe, IsTfs, run
      <4> QED BY <4>2, <4>3
    <3>2. CASE table \notin {"merge_request", "merge_request_note"}
      BY <1>2, <2>3, <3>2 DEF Listable, run
    <3> QED BY <3>1, <3>2
  <2> QED BY <2>1, <2>2, <2>3, PeopleDue DEF NewIsReadOrListable
<1>8. NothingQuietIsSkipped'
  <2> SUFFICES ASSUME NEW table \in Tables, NEW x \in Due'[table],
                      x[2] <= tracker, x[2] \notin busy, x[1] \notin cut'
               PROVE  x \in db[table]
    BY <1>2 DEF NothingQuietIsSkipped
  <2>1. x[1] \notin cut
    BY <1>3
  <2>2. x[2] # clock
    BY DEF NowIsLater, TypeOK
  <2> QED BY <2>1, <2>2, PeopleDue DEF NothingQuietIsSkipped
<1>9. NowIsLater' /\ RunIsBusy' /\ Resets' /\ NothingFound' /\ PlacesOfSystem'
  BY <1>2 DEF NowIsLater, RunIsBusy, Resets, NothingFound, PlacesOfSystem, HasDropins,
     IsTfs, NoRows, run
<1> QED BY <1>1, <1>5, <1>6, <1>7, <1>8, <1>9, PeopleKeepDates

-----------------------------------------------------------------------------
(***************************************************************************)
(* The steps of a run before its end.                                      *)
(***************************************************************************)
\* What a step of a run does not touch, and what it only adds to.
Frame ==
    /\ UNCHANGED <<system, clock, site, dropin, kept, busy, acts, fails>>
    /\ cut \subseteq cut'
    /\ pc # "idle" /\ pc' # "idle"

\* A step that adds to the rows and keeps the tracker's date.
Grows ==
    /\ \A table \in Tables : rows[table] \subseteq rows'[table]
    /\ trackerDate' = trackerDate /\ known' = known
    /\ pc \notin {"git", "finish"} /\ pc' # "git"
    /\ latest' <= clock
    /\ \A e \in todo' : e[2] <= clock
    /\ ~known => latest' = latest /\ pc' \in {"work", "finish"}

\* The conjunct about the lists, and where the runs of a system get to.
ListsHold == NewIsReadOrListable /\ PlacesOfSystem

LEMMA SafeGrows ==
    ASSUME IInv, Frame, Grows, NEW table \in Tables, NEW x, Safe(table, x)
    PROVE  Safe(table, x)'
BY DEF IInv, Frame, Grows, Safe, kept

LEMMA GrowsHolds ==
    ASSUME IInv, TypeOK', Frame, Grows, ListsHold' PROVE IInv'
<1> USE DEF IInv
<1>1. Due' = Due
  BY DueOfSite DEF Frame
<1>2. UNCHANGED <<system, clock, made, date, closed, late, dropin, tracker, db, busy>>
  BY DEF Frame, site, kept
<1>3. DatesArePast' /\ NotesChangeDates'
  BY <1>2 DEF Grows, DatesArePast, NotesChangeDates, IsTfs
<1>4. DropinIsComplete' /\ NothingQuietIsSkipped'
  BY <1>1, <1>2 DEF DropinIsComplete, NothingQuietIsSkipped, Frame
<1>5. OldIsSafe'
  <2> SUFFICES ASSUME NEW table \in Tables, NEW x \in Due[table], x[2] <= trackerDate
               PROVE  Safe(table, x)'
    BY <1>1 DEF OldIsSafe, Grows
  <2> QED BY SafeGrows DEF OldIsSafe, Frame
<1>6. NowIsLater' /\ RunIsBusy' /\ Resets'
  BY <1>2 DEF NowIsLater, RunIsBusy, Resets, Frame, Grows
<1>7. NothingFound'
  BY <1>2 DEF NothingFound, HasDropins, PlacesOfSystem, Frame, Grows
<1> QED BY <1>3, <1>4, <1>5, <1>6, <1>7 DEF ListsHold

\* Where a step leaves what is due, it is enough to look at what is neither
\* safe nor old.
LEMMA ListsSuffice ==
    ASSUME IInv, Frame, Grows, PlacesOfSystem',
           \A table \in Tables : \A x \in Due[table] :
               ~Safe(table, x) /\ IsNewer(x[2]) /\ Listable(table, x) /\ UsesApi
                   => Safe(table, x)' \/ Listable(table, x)'
    PROVE  ListsHold'
<1> SUFFICES ASSUME UsesApi, NEW table \in Tables, NEW x \in Due[table]
             PROVE  Safe(table, x)' \/ Listable(table, x)'
  <2>1. Due' = Due /\ UsesApi' = UsesApi
    BY DueOfSite DEF Frame, Grows, UsesApi, HasDropins
  <2> QED BY <2>1 DEF ListsHold, NewIsReadOrListable
<1>1. x[2] \in Times /\ trackerDate \in 0..MaxTime
  BY DueAreRows DEF IInv, TypeOK
<1>2. CASE Safe(table, x)
  BY <1>2, SafeGrows
<1>3. CASE ~IsNewer(x[2])
  <2>1. Safe(table, x)
    BY <1>1, <1>3, BoundsAssumption DEF IInv, OldIsSafe, IsNewer, Frame
  <2> QED BY <2>1, SafeGrows
<1>4. Safe(table, x) \/ Listable(table, x)
  BY DEF IInv, NewIsReadOrListable, Frame
<1> QED BY <1>2, <1>3, <1>4

LEMMA TestedIsPast ==
    ASSUME TypeOK, latest <= clock, NEW dates \in SUBSET Times,
           \A d \in dates : d <= clock, Tested(dates)
    PROVE  latest' <= clock
BY DEF Tested, TypeOK

LEMMA EventsHold ==
    ASSUME IInv, TypeOK', AddEvents, UNCHANGED <<system, clock, site, dropin, kept, busy, acts, fails>>
    PROVE  IInv'
<1> USE DEF IInv
<1>1. Frame BY DEF AddEvents, Frame
<1>2. Grows
  <2>1. \A table \in Tables : rows[table] \subseteq rows'[table]
    BY DEF AddEvents, Append, TypeOK
  <2>2. Dates(made["push"]) \in SUBSET Times /\ \A d \in Dates(made["push"]) : d <= clock
    BY DEF Dates, TypeOK, DatesArePast
  <2>3. latest' <= clock
    BY <2>2, TestedIsPast DEF AddEvents, DatesArePast
  <2> QED BY <2>1, <2>3 DEF AddEvents, Grows, NothingFound, DatesArePast
<1>3. PlacesOfSystem'
  BY DEF PlacesOfSystem, AddEvents, HasDropins, Frame, site, kept
<1>4. system # "github"
  BY DEF PlacesOfSystem, AddEvents
<1>5. ASSUME NEW table \in Tables, NEW x \in Due[table], IsNewer(x[2]), Listable(table, x)
      PROVE  Safe(table, x)' \/ Listable(table, x)'
  <2>1. CASE table = "vcs_event"
    BY <1>4, <1>5, <2>1 DEF Due, AddEvents, Append, Newer, Safe, TypeOK
  <2>2. CASE table # "vcs_event"
    BY <1>4, <1>5, <2>2 DEF Due, AddEvents, Listable, site
  <2> QED BY <2>1, <2>2
<1>6. ListsHold'
  BY <1>1, <1>2, <1>3, <1>5, ListsSuffice
<1> QED BY <1>1, <1>2, <1>6, GrowsHolds

\* A list is taken: what is listable is in it.
LEMMA ListHolds ==
    ASSUME IInv, TypeOK', GetList, UNCHANGED <<system, clock, site, dropin, kept, busy, acts, fails>>
    PROVE  IInv'
<1> USE DEF IInv
<1>1. Frame BY DEF GetList, Frame, Listing
<1>2. Grows
  <2>1. \A e \in PullRequests : e[2] <= clock
    BY DEF PullRequests, Listed, Entry, DatesArePast
  <2> QED BY <2>1 DEF GetList, Grows, NothingFound, DatesArePast, Listing
<1>3. PlacesOfSystem'
  BY DEF PlacesOfSystem, GetList, HasDropins, site, kept, Listing, IsTfs
<1>4. \A e \in PullRequests : e \in todo' \/ e[1] \in cut'
  BY DEF GetList
<1>5. ASSUME NEW table \in Tables, NEW x \in Due[table], ~Safe(table, x), IsNewer(x[2]),
             Listable(table, x)
      PROVE  Safe(table, x)' \/ Listable(table, x)'
  <2> DEFINE e == Entry(x[1])
  <2>1. x[2] \in Times /\ trackerDate \in 0..MaxTime
    BY DueAreRows DEF TypeOK
  <2>2. CASE table \in {"merge_request", "merge_request_note"} /\ pc # "issues"
    <3>1. x[1] \in Requests /\ date[x[1]] # 0
      BY <2>2 DEF Due, Current, NotesChangeDates
    <3>2. CASE pc = "requests" /\ system = "tfs2013" /\ closed[x[1]]
      BY <2>2, <3>2 DEF Listable, GetList, site
    <3>3. CASE ~(pc = "requests" /\ system = "tfs2013" /\ closed[x[1]])
      <4>1. e \in PullRequests
        BY <1>5, <2>2, <3>1, <3>3 DEF PullRequests, Listed, Entry, Listable, GetList, Listing, TypeOK
      <4>2. CASE e[1] \in cut'
        BY <4>2 DEF Safe, Entry
      <4>3. CASE e \in todo'
        <5>1. pc' \in {"addRequests", "addClosed"}
          BY <2>2 DEF GetList, Listing
        <5>2. CASE table = "merge_request"
          BY <4>3, <5>1, <5>2 DEF Due, Current, Entry, Listable
        <5>3. CASE table = "merge_request_note"
          <6>1. x[2] <= e[2] \/ (IsTfs /\ ~e[3])
            BY <5>3 DEF Due, Entry, NotesChangeDates
          <6> QED BY <4>3, <5>1, <5>3, <6>1 DEF Entry, Listable, IsTfs
        <5> QED BY <2>2, <5>2, <5>3
      <4> QED BY <1>4, <4>1, <4>2, <4>3
    <3> QED BY <3>2, <3>3
  <2>3. CASE table \in {"merge_request", "merge_request_note"} /\ pc = "issues"
    BY <1>5, <2>3 DEF Listable
  <2>4. CASE table \in {"github_issue", "github_issue_note"} /\ pc = "issues"
    <3>0. system = "github" /\ pc' = "addIssues"
      BY <2>4 DEF PlacesOfSystem, GetList, Listing
    <3>1. x[1] \in Threads /\ date[x[1]] # 0 /\ x[2] <= date[x[1]] /\ date[x[1]] \in 0..MaxTime
      BY <2>1, <2>4, <3>0 DEF Due, Current, NotesChangeDates, TypeOK, IsTfs
    <3>2. e \in PullRequests
      BY <1>5, <2>1, <2>4, <3>1, BoundsAssumption DEF PullRequests, Listed, Entry, IsNewer
    <3>3. CASE e[1] \in cut'
      BY <3>3 DEF Safe, Entry
    <3>4. CASE e \in todo'
      <4>1. CASE table = "github_issue"
        <5>1. x[2] = date[x[1]]
          BY <3>0, <4>1 DEF Due, Current
        <5> QED BY <3>0, <3>4, <4>1, <5>1 DEF Entry, Listable
      <4>2. CASE table = "github_issue_note"
        BY <3>0, <3>1, <3>4, <4>2 DEF Entry, Listable
      <4> QED BY <2>4, <4>1, <4>2
    <3> QED BY <1>4, <3>2, <3>3, <3>4
  <2>5. CASE table \in {"github_issue", "github_issue_note"} /\ pc # "issues"
    BY <2>5 DEF Listable, GetList, Listing
  <2>6. CASE table \in {"vcs_event", "commit_comment", "tfs_work_item"}
    BY <1>5, <2>6 DEF Listable, GetList, Listing, Due, PlacesOfSystem
  <2> QED BY <2>2, <2>3, <2>4, <2>5, <2>6
<1>6. ListsHold'
  BY <1>1, <1>2, <1>3, <1>5, ListsSuffice
<1> QED BY <1>1, <1>2, <1>6, GrowsHolds

LEMMA EntryHolds ==
    ASSUME IInv, TypeOK', AddEntry, UNCHANGED <<system, clock, site, dropin, kept, busy, acts, fails>>
    PROVE  IInv'
<1> USE DEF IInv
<1>1. PICK e \in todo :
          /\ CASE pc = "addIssues" -> AddIssue(e)
               [] pc # "addIssues" /\ system = "gitlab" -> AddMergeRequest(e)
               [] pc # "addIssues" /\ system = "github" -> AddPullRequest(e)
               [] OTHER -> AddTfsRequest(e)
          /\ todo' = todo \ {e}
  BY Zenon DEF AddEntry
<1>2. /\ e[1] \in Threads /\ e[2] \in Times /\ e[3] \in BOOLEAN
      /\ pc \in Adding /\ UNCHANGED <<pc, trackerDate, fetched, known, cut>>
  BY DEF AddEntry, TypeOK
<1>3. Frame BY <1>2 DEF Frame
<1>4. Grows
  <2>1. \A table \in Tables : rows[table] \subseteq rows'[table]
    BY <1>1, <1>2 DEF AddIssue, AddMergeRequest, AddPullRequest, AddTfsRequest, TypeOK
  <2> DEFINE all == Dates(NotesOf(e[1], {"note", "bot"}))
             own == Dates(NotesOf(e[1], {"note"}))
  <2>2. \A d \in all \cup own : d \in Times /\ d <= clock
    BY DEF Dates, NotesOf, TypeOK, DatesArePast
  <2>3. latest' <= clock
    <3>1. PICK dates \in {{}, {e[2]}, {e[2]} \cup all, {} \cup own, {e[2]} \cup own} :
             Tested(dates) \/ latest' = latest
      BY <1>1 DEF AddIssue, AddMergeRequest, AddPullRequest, AddTfsRequest
    <3>2. e[2] <= clock
      BY DEF DatesArePast
    <3> HIDE DEF all, own
    <3>3. dates \in SUBSET Times /\ \A d \in dates : d <= clock
      BY <1>2, <2>2, <3>2
    <3> QED BY <3>1, <3>3, TestedIsPast DEF DatesArePast
  <2> QED BY <1>1, <1>2, <2>1, <2>3 DEF Grows, NothingFound, DatesArePast
<1>5. PlacesOfSystem'
  BY <1>2 DEF PlacesOfSystem, HasDropins, IsTfs
<1>6. ASSUME NEW table \in Tables, NEW x \in Due[table], ~Safe(table, x), IsNewer(x[2]),
             Listable(table, x)
      PROVE  Safe(table, x)' \/ Listable(table, x)'
  <2>1. /\ x[2] \in Times /\ trackerDate \in 0..MaxTime /\ rows \in [Tables -> SUBSET Rows]
        /\ rows' \in [Tables -> SUBSET Rows] /\ x = <<x[1], x[2]>>
    BY DueAreRows DEF TypeOK
  <2>2. CASE table \in {"vcs_event", "commit_comment", "tfs_work_item"}
    BY <1>2, <1>6, <2>2 DEF Listable
  <2>3. CASE table = "github_issue" \/ table = "github_issue_note"
    <3>1. CASE pc # "addIssues"
      BY <1>2, <1>6, <2>3, <3>1 DEF Listable
    <3>2. CASE pc = "addIssues"
      <4>0. system = "github"
        BY <3>2 DEF PlacesOfSystem
      <4>1. PICK f \in todo : f[1] = x[1] /\ (IF table = "github_issue" THEN f[2] = x[2] ELSE x[2] <= f[2])
        BY <1>6, <2>3, <3>2 DEF Listable
      <4>2. CASE f # e
        <5>1. f \in todo'
          BY <1>1, <4>2
        <5> QED BY <1>2, <2>3, <3>2, <4>1, <5>1 DEF Listable
      <4>3. CASE f = e
        <5>1. IsNewer(e[2])
          BY <1>2, <1>6, <2>1, <4>1, <4>3 DEF IsNewer
        <5>2. rows' = [rows EXCEPT !["github_issue"] = @ \cup {<<e[1], e[2]>>},
                                   !["github_issue_note"] =
                                       @ \cup Newer(NotesOf(e[1], {"note", "bot"}))]
          BY <1>1, <3>2, <5>1 DEF AddIssue
        <5>3. x \in rows'[table]
          <6>1. CASE table = "github_issue"
            BY <2>1, <4>1, <4>3, <5>2, <6>1
          <6>2. CASE table = "github_issue_note"
            <7>1. x \in Newer(NotesOf(e[1], {"note", "bot"}))
              BY <1>6, <4>0, <4>1, <4>3, <6>2 DEF Due, Newer, NotesOf
            <7> QED BY <2>1, <5>2, <6>2, <7>1
          <6> QED BY <2>3, <6>1, <6>2
        <5> QED BY <5>3 DEF Safe
      <4> QED BY <4>2, <4>3
    <3> QED BY <3>1, <3>2
  <2>4. CASE table = "merge_request" \/ table = "merge_request_note"
    <3>1. CASE pc = "addIssues"
      BY <1>6, <2>4, <3>1 DEF Listable
    <3>2. CASE system = "tfs2013" /\ pc = "addRequests" /\ closed[x[1]]
      BY <1>2, <2>4, <3>2 DEF Listable, site
    <3>3. CASE pc # "addIssues" /\ ~(system = "tfs2013" /\ pc = "addRequests" /\ closed[x[1]])
      <4>1. PICK f \in todo :
               /\ f[1] = x[1]
               /\ IF table = "merge_request" THEN f[2] = x[2]
                  ELSE x[2] <= f[2] \/ (IsTfs /\ ~f[3])
        BY <1>2, <1>6, <2>4, <3>3 DEF Listable
      <4>2. CASE f # e
        <5>1. f \in todo'
          BY <1>1, <4>2
        <5>2. pc' \in {"addRequests", "addClosed"} /\ IsTfs' = IsTfs
          BY <1>2, <3>3 DEF IsTfs
        <5> QED BY <2>4, <4>1, <5>1, <5>2 DEF Listable
      <4>3. CASE f = e
        <5>1. IsNewer(e[2]) \/ (IsTfs /\ ~e[3])
          BY <1>2, <1>6, <2>1, <2>4, <4>1, <4>3 DEF IsNewer
        <5>2. /\ <<e[1], e[2]>> \in rows'["merge_request"]
              /\ Newer(NotesOf(e[1], {"note"})) \subseteq rows'["merge_request_note"]
          <6>1. CASE system = "gitlab"
            <7>1. IsNewer(e[2]) /\ AddMergeRequest(e)
              BY <1>1, <3>3, <5>1, <6>1 DEF IsTfs
            <7>2. Newer(NotesOf(e[1], {"note"})) \subseteq NotesOf(e[1], {"note", "bot"})
              BY DEF Newer, NotesOf
            <7> QED BY <2>1, <7>1, <7>2 DEF AddMergeRequest
          <6>2. CASE system = "github"
            <7>1. IsNewer(e[2]) /\ AddPullRequest(e)
              BY <1>1, <3>3, <5>1, <6>2 DEF IsTfs
            <7> QED BY <2>1, <7>1 DEF AddPullRequest
          <6>3. CASE system # "gitlab" /\ system # "github"
            <7>1. AddTfsRequest(e) /\ ~(e[3] /\ ~IsNewer(e[2]))
              BY <1>1, <1>2, <3>3, <5>1, <6>3
            <7> QED BY <2>1, <7>1 DEF AddTfsRequest
          <6> QED BY <6>1, <6>2, <6>3
        <5>3. x \in rows'[table]
          <6>1. CASE table = "merge_request"
            BY <2>1, <4>1, <4>3, <5>2, <6>1
          <6>2. CASE table = "merge_request_note"
            <7>1. x \in Newer(NotesOf(e[1], {"note"}))
              BY <1>6, <4>1, <4>3, <6>2 DEF Due, Newer, NotesOf
            <7> QED BY <5>2, <6>2, <7>1
          <6> QED BY <2>4, <6>1, <6>2
        <5> QED BY <5>3 DEF Safe
      <4> QED BY <4>2, <4>3
    <3> QED BY <1>2, <3>1, <3>2, <3>3
  <2> QED BY <2>2, <2>3, <2>4
<1>7. ListsHold'
  BY <1>3, <1>4, <1>5, <1>6, ListsSuffice
<1> QED BY <1>3, <1>4, <1>7, GrowsHolds

LEMMA EndOfListHolds ==
    ASSUME IInv, TypeOK', EndOfList, UNCHANGED <<system, clock, site, dropin, kept, busy, acts, fails>>
    PROVE  IInv'
<1> USE DEF IInv
<1>1. Frame BY DEF EndOfList, Frame
<1>2. Grows BY DEF EndOfList, Grows, NothingFound, DatesArePast
<1>3. PlacesOfSystem'
  BY DEF PlacesOfSystem, EndOfList, HasDropins, IsTfs
<1>4. ASSUME NEW table \in Tables, NEW x \in Due[table], Listable(table, x)
      PROVE  Safe(table, x)' \/ Listable(table, x)'
  <2>1. CASE table \in {"merge_request", "merge_request_note"}
    BY <1>4, <2>1 DEF EndOfList, Listable, site
  <2>2. CASE table \in {"github_issue", "github_issue_note"}
    <3>1. system = "github"
      BY <2>2 DEF Due
    <3> QED BY <1>4, <2>2, <3>1 DEF EndOfList, Listable, PlacesOfSystem
  <2>3. CASE table = "vcs_event"
    BY <1>4, <2>3 DEF EndOfList, Listable
  <2>4. CASE table = "commit_comment"
    <3>1. system = "github"
      BY <2>4 DEF Due
    <3> QED BY <1>4, <2>4, <3>1 DEF EndOfList, Listable
  <2>5. CASE table = "tfs_work_item"
    <3>1. IsTfs
      BY <2>5 DEF Due
    <3> QED BY <1>4, <2>5, <3>1 DEF EndOfList, Listable, IsTfs, PlacesOfSystem
  <2> QED BY <2>1, <2>2, <2>3, <2>4, <2>5
<1>5. ListsHold'
  BY <1>1, <1>2, <1>3, <1>4, ListsSuffice
<1> QED BY <1>1, <1>2, <1>5, GrowsHolds

LEMMA CommentsHold ==
    ASSUME IInv, TypeOK', AddCommitComments,
           UNCHANGED <<system, clock, site, dropin, kept, busy, acts, fails>>
    PROVE  IInv'
<1> USE DEF IInv
<1>1. Frame BY DEF AddCommitComments, Frame
<1>2. Grows
  <2>1. \A table \in Tables : rows[table] \subseteq rows'[table]
    BY DEF AddCommitComments, Append, TypeOK
  <2>2. Dates(made["comment"]) \in SUBSET Times /\ \A d \in Dates(made["comment"]) : d <= clock
    BY DEF Dates, TypeOK, DatesArePast
  <2>3. latest' <= clock
    BY <2>2, TestedIsPast DEF AddCommitComments, DatesArePast
  <2> QED BY <2>1, <2>3 DEF AddCommitComments, Grows, NothingFound, DatesArePast
<1>3. PlacesOfSystem'
  BY DEF PlacesOfSystem, AddCommitComments, HasDropins
<1>4. ASSUME NEW table \in Tables, NEW x \in Due[table], IsNewer(x[2]), Listable(table, x)
      PROVE  Safe(table, x)' \/ Listable(table, x)'
  <2>1. CASE table = "commit_comment"
    BY <1>4, <2>1 DEF Due, AddCommitComments, Append, Newer, Safe, TypeOK
  <2>2. CASE table # "commit_comment"
    BY <1>4, <2>2 DEF Due, AddCommitComments, Listable
  <2> QED BY <2>1, <2>2
<1>5. ListsHold'
  BY <1>1, <1>2, <1>3, <1>4, ListsSuffice
<1> QED BY <1>1, <1>2, <1>5, GrowsHolds

\* The last batch of revisions ends the run of TFS, with an unknown repository
\* as well; after another one there are more to come.
LEMMA WorkHolds ==
    ASSUME IInv, TypeOK', AddWorkItemRevisions,
           UNCHANGED <<system, clock, site, dropin, kept, busy, acts, fails>>
    PROVE  IInv'
<1> USE DEF IInv
<1>1. Frame BY DEF AddWorkItemRevisions, AddBatch, Frame
<1>2. Grows
  <2>1. \A table \in Tables : rows[table] \subseteq rows'[table]
    BY DEF AddWorkItemRevisions, AddBatch, Append, TypeOK
  <2> QED BY <2>1 DEF AddWorkItemRevisions, AddBatch, Grows, DatesArePast
<1>3. PlacesOfSystem'
  BY DEF PlacesOfSystem, AddWorkItemRevisions, AddBatch, HasDropins, IsTfs
<1>4. ASSUME NEW table \in Tables, NEW x \in Due[table], IsNewer(x[2]), Listable(table, x)
      PROVE  Safe(table, x)' \/ Listable(table, x)'
  <2>0. IsTfs /\ system # "github"
    BY DEF AddWorkItemRevisions, AddBatch, PlacesOfSystem, IsTfs
  <2>1. CASE table = "tfs_work_item"
    <3>1. x \in made["work"] /\ x[2] >= trackerDate
      BY <1>4, <2>0, <2>1 DEF Due, IsNewer, TypeOK
    <3>2. CASE pc' = "work"
      BY <2>1, <3>2 DEF Listable
    <3>3. CASE pc' # "work"
      BY <2>1, <3>1, <3>3 DEF AddWorkItemRevisions, AddBatch, Append, Safe, TypeOK
    <3> QED BY <3>2, <3>3
  <2>2. CASE table # "tfs_work_item"
    BY <1>4, <2>0, <2>2 DEF Due, AddWorkItemRevisions, AddBatch, Listable
  <2> QED BY <2>1, <2>2
<1>5. ListsHold'
  BY <1>1, <1>2, <1>3, <1>4, ListsSuffice
<1> QED BY <1>1, <1>2, <1>5, GrowsHolds


-----------------------------------------------------------------------------
(***************************************************************************)
(* The beginning and the end of a run, and the steps around the runs.      *)
(***************************************************************************)
LEMMA DataHolds ==
    ASSUME IInv, TypeOK', GetData,
           UNCHANGED <<system, clock, site, dropin, kept, busy, acts, fails>>
    PROVE  IInv'
<1> USE DEF IInv
<1>1. Due' = Due
  BY DueOfSite
<1>2. known /\ pc = "git" /\ cut' = cut /\ rows = NoRows /\ latest = trackerDate
  BY DEF GetData, NothingFound, Resets
<1>3. UNCHANGED <<system, clock, made, date, closed, late, dropin, tracker, db, busy>>
  BY DEF site, kept
<1>4. pc' \in {"finish", "work", "requests", "events"} /\ todo' = todo
  BY DEF GetData
<1>5. DatesArePast' /\ NotesChangeDates'
  BY <1>2, <1>3, <1>4 DEF GetData, DatesArePast, NotesChangeDates, IsTfs
<1>6. DropinIsComplete' /\ NothingQuietIsSkipped'
  BY <1>1, <1>2, <1>3 DEF DropinIsComplete, NothingQuietIsSkipped
<1>7. NowIsLater' /\ RunIsBusy' /\ Resets'
  BY <1>2, <1>3, <1>4 DEF NowIsLater, RunIsBusy, Resets
<1>8. NothingFound' /\ PlacesOfSystem'
  BY <1>2, <1>3 DEF GetData, NothingFound, PlacesOfSystem, HasDropins, IsTfs
<1>9. OldIsSafe'
  <2> SUFFICES ASSUME NEW table \in Tables, NEW x \in Due[table], x[2] <= trackerDate'
               PROVE  Safe(table, x)'
    BY <1>1 DEF OldIsSafe
  <2>1. CASE HasDropins /\ dropin.until # 0
    BY <1>2, <1>3, <2>1 DEF GetData, HasDropins, DropinIsComplete, Safe
  <2>2. CASE ~(HasDropins /\ dropin.until # 0)
    <3>1. Safe(table, x)
      BY <1>2, <2>2 DEF GetData, OldIsSafe
    <3> QED BY <1>2, <1>3, <3>1 DEF Safe, NoRows
  <2> QED BY <2>1, <2>2
<1>10. NewIsReadOrListable'
  <2> SUFFICES ASSUME UsesApi', NEW table \in Tables, NEW x \in Due[table]
               PROVE  Safe(table, x)' \/ Listable(table, x)'
    BY <1>1 DEF NewIsReadOrListable
  <2>1. ~HasDropins /\ known' /\ UsesApi
    BY <1>2, <1>3 DEF UsesApi, HasDropins
  <2>2. CASE Safe(table, x)
    BY <1>2, <1>3, <2>1, <2>2 DEF GetData, Safe
  <2>3. CASE Listable(table, x)
    BY <1>2, <1>3, <2>1, <2>3 DEF GetData, Listable, Due
  <2> QED BY <1>2, <2>1, <2>2, <2>3 DEF NewIsReadOrListable
<1> QED BY <1>5, <1>6, <1>7, <1>8, <1>9, <1>10

\* At the end, the latest date is behind nothing that was not read.
LEMMA FinishHolds ==
    ASSUME IInv, TypeOK', SetLatestDate, UNCHANGED <<system, clock, site, dropin, busy, acts, fails>>
    PROVE  IInv'
<1> USE DEF IInv
<1>1. Due' = Due
  BY DueOfSite
<1>2. /\ pc' = "idle" /\ rows' = NoRows /\ todo' = {} /\ known' = TRUE /\ cut' = cut
      /\ trackerDate' = 0 /\ latest' = 0 /\ tracker' = latest /\ pc = "finish"
      /\ \A table \in Tables : db'[table] = db[table] \cup rows[table]
  BY DEF SetLatestDate, Reset
<1>3. UNCHANGED <<system, clock, made, date, closed, late, dropin, busy>>
  BY DEF site
<1>4. DatesArePast' /\ NotesChangeDates'
  BY <1>2, <1>3 DEF DatesArePast, NotesChangeDates, IsTfs, TypeOK
<1>5. NowIsLater' /\ RunIsBusy' /\ Resets' /\ NothingFound' /\ PlacesOfSystem'
  BY <1>2, <1>3 DEF NowIsLater, RunIsBusy, Resets, NothingFound, PlacesOfSystem, HasDropins,
     NoRows
<1>6. DropinIsComplete' /\ OldIsSafe' /\ NewIsReadOrListable'
  BY <1>1, <1>2, <1>3 DEF DropinIsComplete, OldIsSafe, NewIsReadOrListable
<1>7. NothingQuietIsSkipped'
  <2> SUFFICES ASSUME NEW table \in Tables, NEW x \in Due[table],
                      x[2] <= latest, x[2] \notin busy, x[1] \notin cut
               PROVE  x \in db[table] \cup rows[table]
    BY <1>1, <1>2, <1>3 DEF NothingQuietIsSkipped
  <2>1. CASE x[2] <= trackerDate
    BY <1>2, <2>1 DEF OldIsSafe, Safe
  <2>2. CASE ~(x[2] <= trackerDate)
    <3>1. latest # trackerDate
      BY <2>2
    <3>2. UsesApi
      BY <1>2, <3>1 DEF NothingFound, UsesApi
    <3>3. ~Listable(table, x)
      BY <1>2 DEF Listable
    <3> QED BY <1>2, <3>2, <3>3 DEF NewIsReadOrListable, Safe
  <2> QED BY <2>1, <2>2
<1> QED BY <1>4, <1>5, <1>6, <1>7

LEMMA TickHolds == ASSUME IInv, TypeOK', Tick PROVE IInv'
<1> USE DEF IInv
<1>1. Due' = Due
  BY DueOfSite DEF Tick
<1>2. /\ clock' = clock + 1 /\ clock \in Times /\ busy \subseteq busy'
      /\ busy' \subseteq busy \cup {clock + 1} /\ (pc # "idle" => clock + 1 \in busy')
      /\ tracker \in 0..MaxTime /\ dropin.until \in 0..MaxTime
  BY DEF Tick, TypeOK
<1>3. UNCHANGED <<system, made, date, closed, late, dropin, tracker, version, db, pc, todo,
                  trackerDate, latest, fetched, rows, known, cut>>
  BY DEF Tick, site, kept, run
<1>4. DatesArePast' /\ NotesChangeDates'
  BY <1>2, <1>3 DEF DatesArePast, NotesChangeDates, IsTfs, TypeOK
<1>5. NowIsLater' /\ RunIsBusy'
  BY <1>2, <1>3 DEF NowIsLater, RunIsBusy, DatesArePast
<1>6. Resets' /\ NothingFound' /\ PlacesOfSystem'
  BY <1>3 DEF Resets, NothingFound, PlacesOfSystem, HasDropins, IsTfs, NoRows
<1>7. \A table \in Tables : \A x : (Safe(table, x) => Safe(table, x)')
  BY <1>2, <1>3 DEF Safe
<1>8. \A table \in Tables : \A x : Listable(table, x)' <=> Listable(table, x)
  BY <1>3 DEF Listable, IsTfs
<1>9. DropinIsComplete' /\ NothingQuietIsSkipped'
  BY <1>1, <1>2, <1>3 DEF DropinIsComplete, NothingQuietIsSkipped
<1>10. OldIsSafe' /\ NewIsReadOrListable'
  BY <1>1, <1>3, <1>7, <1>8 DEF OldIsSafe, NewIsReadOrListable, UsesApi, HasDropins
<1> QED BY <1>4, <1>5, <1>6, <1>9, <1>10

\* The steps that find no run, or leave none.
Idle ==
    /\ UNCHANGED <<system, clock, site, tracker, db, cut>>
    /\ pc' = "idle" /\ rows' = NoRows /\ known' = TRUE
    /\ \A e \in todo' : e[2] <= clock
    /\ trackerDate' <= clock /\ latest' <= clock
    /\ busy \subseteq busy' /\ dropin'.until <= clock

LEMMA IdleHolds ==
    ASSUME IInv, TypeOK', Idle, NowIsLater', DropinIsComplete' PROVE IInv'
<1> USE DEF IInv
<1>1. Due' = Due
  BY DueOfSite DEF Idle
<1>2. UNCHANGED <<system, clock, made, date, closed, late, tracker, db, cut>>
  BY DEF Idle, site
<1>3. DatesArePast' /\ NotesChangeDates'
  BY <1>2 DEF Idle, DatesArePast, NotesChangeDates, IsTfs
<1>4. RunIsBusy' /\ Resets' /\ NothingFound' /\ PlacesOfSystem'
  BY DEF Idle, RunIsBusy, Resets, NothingFound, PlacesOfSystem, NoRows
<1>5. OldIsSafe' /\ NewIsReadOrListable'
  BY DEF Idle, OldIsSafe, NewIsReadOrListable
<1>6. NothingQuietIsSkipped'
  BY <1>1, <1>2 DEF Idle, NothingQuietIsSkipped
<1> QED BY <1>3, <1>4, <1>5, <1>6

LEMMA BeginHolds == ASSUME IInv, TypeOK', Begin PROVE IInv'
<1> USE DEF IInv
<1>1. Due' = Due
  BY DueOfSite DEF Begin
<1>2. /\ UNCHANGED <<system, clock, made, date, closed, late, dropin, tracker, db, cut,
                     todo, known, rows>>
      /\ pc = "idle" /\ pc' = "git" /\ trackerDate' = tracker /\ latest' = tracker
      /\ busy' = busy \cup {clock}
  BY DEF Begin, site, kept
<1>3. rows = NoRows /\ known
  BY <1>2 DEF Resets, NothingFound
<1>4. DatesArePast' /\ NotesChangeDates'
  BY <1>2 DEF DatesArePast, NotesChangeDates, IsTfs
<1>5. NowIsLater' /\ RunIsBusy' /\ Resets' /\ NothingFound' /\ PlacesOfSystem'
  BY <1>2, <1>3 DEF NowIsLater, RunIsBusy, Resets, NothingFound, PlacesOfSystem, NoRows
<1>6. DropinIsComplete' /\ NothingQuietIsSkipped'
  BY <1>1, <1>2 DEF DropinIsComplete, NothingQuietIsSkipped
<1>7. OldIsSafe'
  BY <1>1, <1>2 DEF OldIsSafe, NothingQuietIsSkipped, Safe
<1>8. \A table \in Tables : \A x : Listable(table, x)'
  BY <1>2 DEF Listable
<1>9. NewIsReadOrListable'
  BY <1>8 DEF NewIsReadOrListable
<1> QED BY <1>4, <1>5, <1>6, <1>7, <1>9

-----------------------------------------------------------------------------
LEMMA StepHolds == ASSUME IInv, [Next]_vars PROVE IInv'
<1>1. TypeOK'
  BY TypeStep DEF IInv
<1>2. CASE Tick BY <1>1, <1>2, TickHolds
<1>3. CASE People BY <1>3, PeopleHold
<1>4. CASE Begin BY <1>1, <1>4, BeginHolds
<1>5. CASE ProvideDropin
  <2>1. Idle
    BY <1>5, BoundsAssumption DEF IInv, TypeOK, ProvideDropin, NoDropin, Idle, run, kept, Resets,
       NothingFound, DatesArePast
  <2>2. NowIsLater'
    BY <1>5 DEF ProvideDropin, NowIsLater
  <2>3. DropinIsComplete'
    <3>1. Due' = Due
      BY <2>1, DueOfSite DEF Idle
    <3> QED BY <1>5, <3>1 DEF ProvideDropin, DropinIsComplete, NoDropin
  <2> QED BY <1>1, <2>1, <2>2, <2>3, IdleHolds
<1>6. CASE RemoveDropin
  <2>1. Idle
    BY <1>6 DEF IInv, TypeOK, RemoveDropin, NoDropin, Idle, run, kept, Resets,
       NothingFound, DatesArePast
  <2>2. NowIsLater' /\ DropinIsComplete'
    BY <1>6 DEF IInv, TypeOK, RemoveDropin, NoDropin, NowIsLater, DropinIsComplete, kept
  <2> QED BY <1>1, <2>1, <2>2, IdleHolds
<1>7. CASE Fail
  <2>1. Idle
    BY <1>7 DEF IInv, TypeOK, Fail, Reset, Idle, DatesArePast
  <2>2. Due' = Due
    BY <2>1, DueOfSite DEF Idle
  <2>3. NowIsLater' /\ DropinIsComplete'
    BY <1>7, <2>2 DEF IInv, Fail, NowIsLater, DropinIsComplete
  <2> QED BY <1>1, <2>1, <2>3, IdleHolds
<1>8. CASE GetReviews
  <2>1. UNCHANGED <<system, clock, site, dropin, busy, acts, fails>>
    BY <1>8 DEF GetReviews
  <2>2. CASE SetLatestDate
    BY <1>1, <2>1, <2>2, FinishHolds
  <2>3. CASE ~SetLatestDate
    <3>1. /\ UNCHANGED kept
          /\ \/ GetData \/ AddEvents \/ GetList \/ AddEntry \/ EndOfList
             \/ AddCommitComments \/ AddWorkItemRevisions
      BY <1>8, <2>3, Zenon DEF GetReviews
    <3> QED BY <1>1, <2>1, <3>1, DataHolds, EventsHold, ListHolds, EntryHolds, EndOfListHolds,
               CommentsHold, WorkHolds
  <2> QED BY <2>2, <2>3
<1>9. CASE UNCHANGED vars
  BY <1>9 DEF vars, IInv, TypeOK, DatesArePast, NowIsLater, RunIsBusy, Resets, NotesChangeDates,
     DropinIsComplete, OldIsSafe, NewIsReadOrListable, NothingFound, PlacesOfSystem,
     NothingQuietIsSkipped, Safe, Listable, UsesApi, HasDropins, Due, Current, IsTfs, NoRows,
     site, run, kept
<1> QED BY <1>2, <1>3, <1>4, <1>5, <1>6, <1>7, <1>8, <1>9 DEF Next

\* The state keeps its types: the tables, the lists and the trackers of the runs
\* of git_to_json.py for a repository with a review system.
THEOREM TypeCorrect == Spec => []TypeOK
<1>1. TypeOK /\ [Next]_vars => TypeOK'
  BY TypeStep
<1>2. Init => TypeOK
  BY InitHolds DEF IInv
<1> QED BY <1>1, <1>2, PTL DEF Spec

\* What happened in a second without a run is collected before the tracker is
\* after it, for any number of threads, people's acts and failures.
THEOREM QuietIsKept == Spec => []NothingQuietIsSkipped
<1>1. IInv /\ [Next]_vars => IInv'
  BY StepHolds
<1>2. IInv => NothingQuietIsSkipped
  BY DEF IInv
<1> QED BY <1>1, <1>2, InitHolds, PTL DEF Spec

=============================================================================
