---------------------------- MODULE MetricOptions ----------------------------
(***************************************************************************)
(* The quality metrics of one project: metric_options_to_json.py collects  *)
(* the changes of the targets, history_to_json.py the measurements, from   *)
(* one source of project definitions (Quality-time or SonarQube).  Both    *)
(* keep a tracker with the version, which is the time of the run; the      *)
(* first also keeps the names of the metrics, which the second reads.      *)
(*                                                                         *)
(* The clock counts half seconds: a version has a fraction of a second,    *)
(* parse_date drops it.  Quality-time answers as of the version that it is *)
(* asked for, and gives the latest Depth changes of a metric, of targets   *)
(* or of something else; SonarQube answers as of now.                      *)
(***************************************************************************)
EXTENDS Integers, Sequences, FiniteSets, Functions

CONSTANTS
    Kinds,       \* the types of sources of this instance
    Metrics,
    Targets,     \* values of targets, 0 is the default of the data model
    Scales,
    Depth,       \* changes of a metric that one request to Quality-time gives
    Offset,      \* the local time zone: half seconds ahead of UTC, or behind it
    MaxTime, MaxActs, MaxFails, MaxRuns

ASSUME KindsAssumption == Kinds \subseteq {"quality-time", "sonar"}
ASSUME ValuesAssumption == 0 \in Targets /\ Targets \subseteq Nat /\ Scales # {}
ASSUME NumbersAssumption == Depth \in Nat /\ Offset \in Int
ASSUME BoundsAssumption == MaxTime \in Nat /\ MaxActs \in Nat /\ MaxFails \in Nat /\ MaxRuns \in Nat

Times == 0..MaxTime
Never == -2                 \* START_DATE, and the birth of what does not exist
Sec(t) == t \div 2          \* parse_date

Keys  == {"target", "scale"}
Value == [target : Targets, scale : Scales]

VARIABLES
    kind,      \* the type of the source
    clock,
    born,      \* when a metric was added to the report
    first,     \* the values it was added with
    log,       \* the changes of a metric since
    measured,  \* what was measured when
    tracker,   \* the update tracker of the metric options
    names,     \* metric_names.json
    cutoff,    \* the update tracker of the measurements
    rows, points,  \* imported metric targets and measurements
    pc,
    run,       \* what the run in progress found
    skipped,   \* changes that were not collected after a failure, or too old
    spans,     \* from the versions of the options to when they were read
    known,     \* the version of the last list of metrics
    windows,   \* from a version of the options to one of the measurements
    acts, fails

site  == <<born, first, log, measured>>
saved == <<tracker, names, cutoff, rows, points>>
ghost == <<skipped, spans, known, windows>>
vars  == <<kind, clock, site, saved, pc, run, ghost, acts, fails>>

NoRun == [version |-> Never, at |-> Never, known |-> Never,
          names |-> {}, rows |-> {}, skipped |-> {}]

\* The metrics that a report of Quality-time begins with have had their scale
\* changed.
FirstScale == CHOOSE s \in Scales : TRUE
Rescaled == {<<[at |-> 0, key |-> "scale", old |-> FirstScale, new |-> s]>> :
                s \in Scales \ {FirstScale}}

Init ==
    /\ kind \in Kinds
    /\ clock = 0
    /\ born \in [Metrics -> {Never, 0}]
    /\ first = [m \in Metrics |-> [target |-> 0, scale |-> FirstScale]]
    /\ log \in [Metrics -> {<<>>} \cup Rescaled]
    /\ \A m \in Metrics : log[m] # <<>> <=> kind = "quality-time" /\ born[m] = 0
    /\ measured = {}
    /\ tracker = Never /\ names = {} /\ cutoff = Never
    /\ rows = {} /\ points = {}
    /\ pc = "idle" /\ run = NoRun
    /\ skipped = {} /\ spans = {} /\ known = Never /\ windows = {}
    /\ acts = 0 /\ fails = 0

-----------------------------------------------------------------------------
(***************************************************************************)
(* The people who maintain the report, and what is measured.               *)
(***************************************************************************)
\* The values of a metric after its first n changes.
After(m, n) ==
    [key \in Keys |->
        LET at == {i \in 1..n : log[m][i].key = key}
        IN IF at = {} THEN first[m][key]
           ELSE log[m][CHOOSE i \in at : \A j \in at : j <= i].new]
Now(m) == After(m, Len(log[m]))

Tick ==
    /\ clock < MaxTime
    /\ clock' = clock + 1
    /\ UNCHANGED <<kind, site, saved, pc, run, ghost, acts, fails>>

Create(m, target) ==
    /\ born[m] = Never
    /\ born' = [born EXCEPT ![m] = clock]
    /\ first' = [first EXCEPT ![m].target = target]
    /\ UNCHANGED <<log, measured>>

\* Quality-time also logs what is no target, as a change of a name.
Change(m, key, old, new) ==
    /\ born[m] # Never
    /\ log' = [log EXCEPT ![m] = Append(@, [at |-> clock, key |-> key, old |-> old, new |-> new])]
    /\ UNCHANGED <<born, first, measured>>

ChangeTarget(m, v) == v # Now(m).target /\ Change(m, "target", Now(m).target, v)
ChangeScale(m, v) ==
    kind = "quality-time" /\ v # Now(m).scale /\ Change(m, "scale", Now(m).scale, v)
ChangeOther(m) == kind = "quality-time" /\ Change(m, "name", 0, 0)

Measure(m) ==
    /\ born[m] # Never
    /\ measured' = measured \cup {<<m, clock>>}
    /\ measured' # measured
    /\ UNCHANGED <<born, first, log>>

People ==
    /\ acts < MaxActs /\ acts' = acts + 1
    /\ \E m \in Metrics :
          \/ \E v \in Targets : Create(m, v) \/ ChangeTarget(m, v)
          \/ \E v \in Scales : ChangeScale(m, v)
          \/ ChangeOther(m)
          \/ Measure(m)
    /\ UNCHANGED <<kind, clock, saved, pc, run, ghost, fails>>

-----------------------------------------------------------------------------
(***************************************************************************)
(* Quality_Time_Data.adjust_target_versions.                               *)
(***************************************************************************)
Existing(t) == {m \in Metrics : born[m] # Never /\ born[m] <= t}
Until(m, t) == {i \in DOMAIN log[m] : log[m][i].at <= t}
Count(m, t) == Cardinality(Until(m, t))

\* The date of the report is a local time, which is read as if it was UTC.
ReportDate(t) ==
    LET dates == {born[m] : m \in Existing(t)}
                   \cup UNION {{log[m][i].at : i \in Until(m, t)} : m \in Metrics}
    IN {d + Offset : d \in dates}
ReportIsNew(t, start) == start = Never \/ \E d \in ReportDate(t) : Sec(d) > Sec(start)

\* A metric with the default target has no keys of targets except the scale.
TargetKeys(m, n) == IF After(m, n).target = 0 THEN {"scale"} ELSE Keys

\* Going back over the changes, each one of a key of a target is undone.
UndoNothing(m, n, keys) ==   \* mutant: only the new value of a change is put in
    [i \in 1..n |-> [After(m, n) EXCEPT ![log[m][i].key] = log[m][i].new]]
Undo(m, n, keys) ==
    LET before[i \in 1..n + 1] ==
            IF i = n + 1 THEN After(m, n)
            ELSE IF log[m][i].key \in keys THEN [before[i + 1] EXCEPT ![log[m][i].key] = log[m][i].old]
            ELSE before[i + 1]
    IN [i \in 1..n |-> [before[i + 1] EXCEPT ![log[m][i].key] = log[m][i].new]]

IsNotOlder(at, start) == Sec(at) >= Sec(start)   \* mutant: < for <= in the break
IsNewer(at, start) == Sec(at) > Sec(start)
Changelog(m, t) == {i \in Until(m, t) : i > Count(m, t) - Depth}

\* The changes since the tracker, as pairs of a metric and a number, those of
\* them that the answer has as targets, and what a row tells of one.
Changes(version, start) ==
    {x \in UNION {{m} \X Until(m, version) : m \in Metrics} :
        IsNewer(log[x[1]][x[2]].at, start)}
TargetChanges(version, start) ==
    {x \in Changes(version, start) :
        /\ x[1] \in Existing(version) /\ x[2] \in Changelog(x[1], version)
        /\ log[x[1]][x[2]].key \in TargetKeys(x[1], Count(x[1], version))}
RowOf(x, version) ==
    LET n == Count(x[1], version)
    IN [metric |-> x[1], rev |-> Sec(log[x[1]][x[2]].at),
        value |-> Undo(x[1], n, TargetKeys(x[1], n))[x[2]]]

\* The rows are sorted by their second.  In a second, the metrics are in the
\* order of the report, and the changes of a metric go from new to old.
Orders == Injection(Metrics, 1..Cardinality(Metrics))
ComesBefore(x, y, order) ==
    LET s == Sec(log[x[1]][x[2]].at)
        t == Sec(log[y[1]][y[2]].at)
    IN \/ s < t
       \/ s = t /\ order[x[1]] < order[y[1]]
       \/ s = t /\ x[1] = y[1] /\ x[2] > y[2]
Follows(y, x, found, order) ==
    /\ ComesBefore(x, y, order)
    /\ ~\E z \in found : ComesBefore(x, z, order) /\ ComesBefore(z, y, order)

\* Metric_Difference.add_version: a row like the one before it is left out.
\* (The targets of the run before this one differ in the date of the report.)
RepeatsAny(y, found, version, order) ==   \* mutant: whatever metric it is of
    \E x \in found : /\ Follows(y, x, found, order)
                     /\ RowOf(x, version).value = RowOf(y, version).value
Repeats(y, found, version, order) ==
    \E x \in found : /\ Follows(y, x, found, order)
                     /\ x[1] = y[1] /\ RowOf(x, version).value = RowOf(y, version).value

QualityTimeRows(version, start, order) ==
    LET found == TargetChanges(version, start)
    IN {RowOf(x, version) :
           x \in {y \in found : /\ ReportIsNew(version, start)
                               /\ ~Repeats(y, found, version, order)}}

\* All metrics of SonarQube are exported for every version, with their targets
\* in the quality gates of now (Sonar_Data.adjust_target_versions).
QualityGate(m) == Now(m)
SonarRowsOfGates(version) ==   \* mutant: the metrics with targets only
    {[metric |-> m, rev |-> version, value |-> Now(m)] :
        m \in {n \in Existing(clock) : Now(n).target # 0}}
SonarRows(version) ==
    {[metric |-> m, rev |-> version, value |-> QualityGate(m)] : m \in Existing(clock)}

TargetRows(version, start, order) ==
    IF kind = "sonar" THEN SonarRows(version) ELSE QualityTimeRows(version, start, order)
Listed(version) == Existing(IF kind = "sonar" THEN clock ELSE version)

\* The changes since the tracker that the answer does not have any more.
TooOld(version, start) ==
    {x \in Changes(version, start) : x[2] \notin Changelog(x[1], version)}

-----------------------------------------------------------------------------
(***************************************************************************)
(* One run of the scripts.                                                 *)
(***************************************************************************)
MayBegin == pc = "idle" /\ clock > tracker /\ Cardinality(spans) < MaxRuns

\* The version of a run is its time (get_latest_version); no two runs that are
\* imported have the same one.  SonarQube is read later, Quality-time may as
\* well be read at once, since its answer does not depend on when it is asked.
Begin ==
    /\ kind = "sonar" /\ MayBegin
    /\ pc' = "options"
    /\ run' = [NoRun EXCEPT !.version = clock]
    /\ UNCHANGED <<kind, clock, site, saved, ghost, acts, fails>>

Reads(version) ==
    IF kind = "sonar" THEN pc = "options" /\ version = run.version
    ELSE MayBegin /\ version = clock

\* Metric_Options_Collector.finish: the names and the tracker.
Finish(version, listed, new, old, at) ==
    /\ pc' = "history"
    /\ run' = [version |-> version, rows |-> new, skipped |-> old, at |-> at,
               names |-> IF listed THEN names \cup Listed(version) ELSE names,
               known |-> IF listed THEN version ELSE known]
    /\ UNCHANGED <<kind, clock, site, saved, ghost, acts>>

CollectOptions ==
    /\ \E version \in Times, order \in Orders :
          /\ Reads(version)
          /\ Finish(version, TRUE, TargetRows(version, tracker, order),
                    TooOld(version, tracker), clock)
    /\ UNCHANGED fails

\* Definition_Collector.collect_version logs a RuntimeError, about the report
\* or about a changelog after the report was read, and the run goes on.
FailOptions ==
    /\ fails < MaxFails /\ fails' = fails + 1
    /\ \E version \in Times, listed \in BOOLEAN :
          Reads(version) /\ Finish(version, listed, {}, Changes(version, tracker), Never)

\* Measurements_Collector; a failure leaves its tracker as it is.
InSonarHistory(t, version, start) == Sec(start) <= Sec(t) /\ Sec(t) <= Sec(version)
InMeasurements(t, version, start) == t <= version /\ IsNewer(t, start)
IsMeasured(t, version, start) ==
    IF kind = "sonar" THEN InSonarHistory(t, version, start)
    ELSE InMeasurements(t, version, start)
Found(version, start) ==
    {x \in measured : x[1] \in run.names /\ IsMeasured(x[2], version, start)}

DeliverAhead(read) ==   \* mutant: the tracker is the end of the time of the run
    /\ pc = "history" /\ pc' = "idle"
    /\ tracker' = run.version /\ names' = run.names /\ rows' = rows \cup run.rows
    /\ IF read
       THEN /\ cutoff' = clock + 1
            /\ points' = points \cup Found(clock, cutoff)
            /\ windows' = windows \cup {<<run.known, clock>>}
       ELSE UNCHANGED <<cutoff, points, windows>>
    /\ skipped' = skipped \cup run.skipped
    /\ spans' = spans \cup {<<run.version, run.at>>}
    /\ known' = run.known
    /\ run' = NoRun
    /\ UNCHANGED <<kind, clock, site, acts>>

DeliverAlways(read) ==   \* mutant: the tracker is written before the measurements are read
    /\ pc = "history" /\ pc' = "idle"
    /\ tracker' = run.version /\ names' = run.names /\ rows' = rows \cup run.rows
    /\ IF read
       THEN /\ cutoff' = clock
            /\ points' = points \cup Found(clock, cutoff)
            /\ windows' = windows \cup {<<run.known, clock>>}
       ELSE cutoff' = clock /\ UNCHANGED <<points, windows>>
    /\ skipped' = skipped \cup run.skipped
    /\ spans' = spans \cup {<<run.version, run.at>>}
    /\ known' = run.known
    /\ run' = NoRun
    /\ UNCHANGED <<kind, clock, site, acts>>

\* The tables are imported and the trackers are saved with them.
Deliver(read) ==
    /\ pc = "history" /\ pc' = "idle"
    /\ tracker' = run.version /\ names' = run.names /\ rows' = rows \cup run.rows
    /\ IF read
       THEN /\ cutoff' = clock
            /\ points' = points \cup Found(clock, cutoff)
            /\ windows' = windows \cup {<<run.known, clock>>}
       ELSE UNCHANGED <<cutoff, points, windows>>
    /\ skipped' = skipped \cup run.skipped
    /\ spans' = spans \cup {<<run.version, run.at>>}
    /\ known' = run.known
    /\ run' = NoRun
    /\ UNCHANGED <<kind, clock, site, acts>>

CollectMeasurements == Deliver(TRUE) /\ UNCHANGED fails
FailMeasurements == fails < MaxFails /\ fails' = fails + 1 /\ Deliver(FALSE)

\* A script or the import failed: the next run starts with the saved trackers.
Abandon ==
    /\ pc = "history" /\ fails < MaxFails /\ fails' = fails + 1
    /\ pc' = "idle" /\ run' = NoRun
    /\ UNCHANGED <<kind, clock, site, saved, ghost, acts>>

Next == Tick \/ People \/ Begin \/ CollectOptions \/ FailOptions \/ CollectMeasurements
        \/ FailMeasurements \/ Abandon
Spec == Init /\ [][Next]_vars

-----------------------------------------------------------------------------
(***************************************************************************)
(* Properties                                                              *)
(***************************************************************************)
Optional == Times \cup {Never}
Row == [metric : Metrics, rev : Times, value : Value]

\* The types of the state; a run between its scripts has what its next step
\* needs, and the trackers are never ahead of the clock.
TypeOK ==
    /\ kind \in Kinds /\ clock \in Times
    /\ born \in [Metrics -> Optional] /\ first \in [Metrics -> Value]
    /\ \A m \in Metrics : \A i \in DOMAIN log[m] : log[m][i].at \in 0..clock
    /\ measured \subseteq Metrics \X Times
    /\ tracker \in Optional /\ cutoff \in Optional /\ known \in Optional
    /\ tracker <= clock /\ cutoff <= clock /\ known <= tracker
    /\ names \subseteq Metrics
    /\ rows \subseteq Row /\ run.rows \subseteq Row
    /\ points \subseteq measured
    /\ pc \in {"idle", "options", "history"}
    /\ pc # "idle" => run.version \in (tracker + 1)..clock

\* A metric whose target was set back to the default of the data model.
Returned(m) == \E i \in DOMAIN log[m] : log[m][i].key = "target" /\ log[m][i].new = 0

\* What the tables say of a metric was so: for Quality-time right after a
\* change in the second of the revision, although the code gets there by
\* undoing the later changes, one by one from the values of the version, and
\* may be given a part of the changes only; for SonarQube at some time between
\* the version and the reading of the quality gates.  (A metric that returned
\* to its default has no keys left to undo changes of.)
InEffect(m, value, from, to) ==
    \E i \in 0..Len(log[m]) :
        /\ value = After(m, i)
        /\ i = 0 \/ log[m][i].at <= to
        /\ i = Len(log[m]) \/ log[m][i + 1].at >= from
RowsAreTrue ==
    \A row \in rows :
        IF kind = "sonar"
        THEN \E span \in spans : span[1] = row.rev /\ InEffect(row.metric, row.value, span[1], span[2])
        ELSE \/ Returned(row.metric)
             \/ \E i \in DOMAIN log[row.metric] :
                    Sec(log[row.metric][i].at) = row.rev /\ row.value = After(row.metric, i)

\* A change of a target or a scale that the tracker is past is in the tables,
\* through failures of runs, changes while a run goes on and versions that the
\* second of the last tracker cuts off.  The changes of a version that could
\* not be collected, those that were no longer among the latest of the metric
\* and those in the second of a version but after it are lost.  So are those
\* that look older than a version before them, as dates of reports are local
\* times behind UTC, and those that bring back the values that the metric had
\* in an earlier second with only changes in these two seconds between.
SameSecond(at) == \E span \in spans : Sec(span[1]) = Sec(at) /\ span[1] <= at
LooksOld(at) == \E span \in spans : span[1] < at /\ Sec(at + Offset) <= Sec(span[1])
Reverted(m, i) ==
    \E j \in 1..i :
        /\ After(m, j) = After(m, i) /\ Sec(log[m][j].at) < Sec(log[m][i].at)
        /\ \A k \in j..i : log[m][k].key \in Keys =>
               Sec(log[m][k].at) \in {Sec(log[m][j].at), Sec(log[m][i].at)}
ChangesAreCollected ==
    kind = "quality-time" =>
    \A m \in Metrics : \A i \in DOMAIN log[m] :
        LET change == log[m][i]
        IN \/ change.key \notin Keys \/ change.at > tracker
           \/ Returned(m) \/ <<m, i>> \in skipped
           \/ SameSecond(change.at) \/ LooksOld(change.at) \/ Reverted(m, i)
           \/ \E row \in rows : row.metric = m /\ row.rev = Sec(change.at)
                                /\ row.value[change.key] = change.new

\* Every version of a SonarQube run has a row for every metric that existed.
SnapshotsAreComplete ==
    kind = "sonar" =>
    \A span \in spans : \A m \in Metrics :
        (span[2] # Never /\ m \in Existing(span[1] - 1)) =>
        \E row \in rows : row.metric = m /\ row.rev = span[1]

\* A measurement that the tracker is past is in the table, also when the run
\* that came first could not read the measurements or was abandoned; except
\* one that shares its second with the end of an earlier run, and one of a
\* metric that was added after the options were read and before the
\* measurements of the same run were.
MeasurementsAreCollected ==
    \A x \in measured \ points :
        \/ x[2] > cutoff
        \/ \E w \in windows : w[1] <= born[x[1]] /\ x[2] <= w[2]
        \/ \E w \in windows : Sec(w[2]) = Sec(x[2]) /\ w[2] <= x[2]

\* A change is in the tables of one import only: what an import adds is later
\* than all it had of the metric.
RowsAreNew ==
    [][\A m \in Metrics : \A new \in rows' \ rows, old \in rows :
        (new.metric = m /\ old.metric = m /\ kind = "quality-time") => old.rev < new.rev]_vars

\* "end_revision is the latest revision that was parsed in this run", says
\* set_end of the update tracker: what the tracker is at has been parsed.
EndWasParsed ==
    tracker # Never => \E span \in spans : span[1] = tracker /\ span[2] # Never

=============================================================================
