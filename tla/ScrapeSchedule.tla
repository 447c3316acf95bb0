--------------------------- MODULE ScrapeSchedule ---------------------------
(***************************************************************************)
(* When an agent collects: cron and the web service (scraper.py) that      *)
(* start scrape.sh, the preflight check (preflight.py) that asks the       *)
(* controller (auth/status.py), and the schedule that the controller takes *)
(* from the update tracker preflight_date.txt (gatherer_daemon.py).        *)
(*                                                                         *)
(* Time goes in ticks.  A date is known by its age, which grows up to      *)
(* MaxAge, an age at which every schedule allows to collect; the day of    *)
(* the year is known modulo 2 * Days, which is all the code asks of it.    *)
(* The agent and the controller have their clocks in one time zone.        *)
(***************************************************************************)
EXTENDS Integers, Sequences, FiniteSetsExt

CONSTANTS
    AgentKeys,   \* the projects of JIRA_KEY, in their order
    Days,        \* days of the configuration
    Drift,       \* drift of the configuration, in ticks
    DayLength,   \* ticks of a day
    ApartRuns    \* TRUE: nobody starts a scrape while another one is starting or pausing

ASSUME ScheduleAssumption ==
    /\ AgentKeys \in Seq(STRING)
    /\ Days \in Nat \ {0} /\ Drift \in Nat \ {0} /\ DayLength \in Nat \ {0}
    /\ ApartRuns \in BOOLEAN

MaxAge == Days * DayLength + 3 * Drift  \* bound: older dates are as old as this
NoDate == -MaxAge - 1                   \* an age that no date has: the drift may exceed the days
BadDate == MaxAge                       \* parse_date makes 1900 of what it does not know
Starters == {"cron", "web"}
Agents == {AgentKeys[n] : n \in DOMAIN AgentKeys}

VARIABLES
    hour,        \* tick of the day
    yearDay,     \* tm_yday modulo 2 * Days
    hashed,      \* project -> hash(project_key) % (drift * 2) - drift
    trackerDate, \* project -> age of the row of preflight_date.txt
    dateFile,    \* project -> age of the file preflight_date.txt of the agent
    sentDate,    \* project -> age of the file that was exported and not yet imported
    scrapes,     \* starter -> its scrape.sh: its place, the number of the project, the age of
                 \* its date file and the age that the row had at the check
    collected,   \* project -> age of the start of its newest complete collection
    claimed      \* projects of which somebody set the row

clockVars == <<hour, yearDay, hashed>>
ageVars == <<trackerDate, dateFile, sentDate, collected>>
scheduleVars == <<clockVars, ageVars, scrapes, claimed>>

\* An age below zero is that of a date to come.
Ages == {NoDate} \cup (-MaxAge .. MaxAge)
ScrapePlaces == {"idle", "begun", "preflight", "collect"}

\* Types: the clock and the drifts are in their periods, a script that runs is
\* at one of its projects.
ScheduleTypeOK ==
    /\ hour \in 0 .. DayLength - 1 /\ yearDay \in 0 .. 2 * Days - 1
    /\ hashed \in [Agents -> -Drift .. Drift - 1]
    /\ trackerDate \in [Agents -> Ages] /\ dateFile \in [Agents -> Ages]
    /\ sentDate \in [Agents -> Ages] /\ collected \in [Agents -> Ages]
    /\ scrapes \in [Starters -> [pc : ScrapePlaces, key : 1 .. Len(AgentKeys) + 1,
                                 since : 0 .. MaxAge, waited : Ages]]
    /\ \A s \in Starters :
          scrapes[s].pc \in {"preflight", "collect"} => scrapes[s].key <= Len(AgentKeys)
    /\ claimed \subseteq Agents

-----------------------------------------------------------------------------
(* Gatherer of gatherer_daemon.py *)

ScheduleInit ==
    /\ hour = 0 /\ yearDay = 1 % (2 * Days)
    /\ hashed \in [Agents -> -Drift .. Drift - 1]
    /\ trackerDate = [p \in Agents |-> NoDate] /\ dateFile = trackerDate
    /\ sentDate = trackerDate /\ collected = trackerDate /\ claimed = {}
    /\ scrapes = [s \in Starters |-> [pc |-> "idle", key |-> 1, since |-> 0, waited |-> NoDate]]

\* mutant: the day is not brought back to two periods
ToggleGrows == 2 * (yearDay + 2 * Days) - Days

\* odd is yday / days modulo 2 with its fraction, toggle is 2 * odd - 1.
Toggle == 2 * yearDay - Days      \* Days times the toggle

\* _calculate_drift: the ticks after which a project may be collected again.
CalculateDrift(p) == Days * DayLength + (Toggle * hashed[p]) \div Days

\* get_tracker_schedule: the ticks until a project may be collected.
TrackerSchedule(p) == CalculateDrift(p) - trackerDate[p]

\* get_tracker_status: a schedule that raises, without a usable date, allows it.
TrackerStatus(p) == trackerDate[p] = NoDate \/ TrackerSchedule(p) <= 0

\* put_content: an UPDATE, which changes nothing if there is no row.
PutContent(p, age) ==
    IF trackerDate[p] = NoDate THEN UNCHANGED <<trackerDate, claimed>>
    ELSE trackerDate' = [trackerDate EXCEPT ![p] = age] /\ claimed' = claimed \cup {p}

\* update_tracker_schedule with a date, a text that is no date, or without contents.
UpdateTrackerSchedule(p) ==
    /\ \E age \in {0, BadDate, CalculateDrift(p)} : PutContent(p, age)
    /\ UNCHANGED <<clockVars, dateFile, sentDate, collected, scrapes>>

\* hash of a text is another one in every process of the daemon.
RestartGatherer ==
    /\ hashed' \in [Agents -> -Drift .. Drift - 1]
    /\ UNCHANGED <<hour, yearDay, ageVars, scrapes, claimed>>

-----------------------------------------------------------------------------
(* The status page: what is wrong at the controller decides what it answers. *)

Daemons == {"gros.gatherer", "gros.controller", "gros.exporter"}
Networks == {"networks malformed", "address malformed", "outside networks"}
Faults == Daemons \cup Networks \cup
    {"nameserver", "hanging daemon", "no project", "no connection", "query", "permissions",
     "lock", "etcd", "importing", "no env", "bad key", "unreachable", "secrets"}

FaultsAtOnce == {{}} \cup {{fault} : fault \in Faults}  \* bound: at most one at a time

Registered(daemon, faults) == {"nameserver", daemon} \cap faults = {}

DatabaseStatus(faults) ==
    Registered("gros.gatherer", faults) /\ {"no project", "no connection", "query"} \cap faults = {}
\* No connection is an OSError, which leaves the schedule without a date.
ScheduleStatus(p, faults) ==
    /\ Registered("gros.gatherer", faults)
    /\ {"no connection", "no project"} \cap faults # {} \/ TrackerStatus(p)
PermissionsStatus(faults) == Registered("gros.controller", faults) /\ "permissions" \notin faults
LockStatus(faults) == {"lock", "etcd"} \cap faults = {}
DaemonStatus(faults) == \A daemon \in Daemons : Registered(daemon, faults)
NetworkStatus(faults) == Networks \cap faults = {}

\* Configuration_Status asks all others, and Total_Status also this one.
TotalStatus(p, faults) ==
    /\ DatabaseStatus(faults) /\ ScheduleStatus(p, faults) /\ PermissionsStatus(faults)
    /\ LockStatus(faults) /\ "importing" \notin faults /\ DaemonStatus(faults)
    /\ NetworkStatus(faults) /\ "no env" \notin faults

\* Only NamingError is caught around a daemon, and only OSError around the
\* query of the tracker.
PageBreaks(faults) == {"hanging daemon", "query"} \cap faults # {}

\* get_project_key: 400 for a key that is missing or not of capitals.
BadRequest(faults) == "bad key" \in faults

\* display_status and main
Answer(p, faults) ==
    IF "unreachable" \in faults THEN "exception"
    ELSE IF BadRequest(faults) \/ PageBreaks(faults) THEN "error"
    ELSE IF TotalStatus(p, faults) THEN "ok" ELSE "unavailable"

-----------------------------------------------------------------------------
(* The agent *)

\* pgrep finds run.sh, neither scrape.sh before it nor its sleep behind it.
IsRunning == \E s \in Starters : scrapes[s].pc \in {"preflight", "collect"}
Apart(s) == ApartRuns => \A other \in Starters \ {s} : scrapes[other].pc = "idle"

Goes(s, pc) == scrapes' = [scrapes EXCEPT ![s].pc = pc]

\* scrape of scraper.py and the line of cron: look for run.sh, then start.
Scrape(s) ==
    /\ scrapes[s].pc = "idle" /\ ~IsRunning /\ Apart(s)
    /\ scrapes' = [scrapes EXCEPT ![s].pc = "begun", ![s].key = 1]
    /\ UNCHANGED <<clockVars, ageVars, claimed>>

\* scrape.sh: the projects in their order, a pause behind each.
NextProject(s) ==
    /\ scrapes[s].pc = "begun"
    /\ Goes(s, IF scrapes[s].key > Len(AgentKeys) THEN "idle" ELSE "preflight")
    /\ UNCHANGED <<clockVars, ageVars, claimed>>

EndRun(s) ==
    scrapes' = [scrapes EXCEPT ![s].pc = "begun", ![s].key = @ + 1, ![s].since = 0,
                               ![s].waited = NoDate]

\* preflight.py with and without --skip; a host that cannot be reached is an
\* exception of either.
Passes(s, p, faults) ==
    /\ Answer(p, faults) # "exception"
    /\ s = "web" \/ (Answer(p, faults) = "ok" /\ "secrets" \notin faults)

Preflight(s) ==
    /\ scrapes[s].pc = "preflight"
    /\ LET p == AgentKeys[scrapes[s].key]
       IN  \E faults \in FaultsAtOnce :
              IF Passes(s, p, faults)
              THEN /\ dateFile' = [dateFile EXCEPT ![p] = 0]
                   /\ scrapes' = [scrapes EXCEPT ![s].pc = "collect", ![s].waited = trackerDate[p]]
              ELSE EndRun(s) /\ UNCHANGED dateFile
    /\ UNCHANGED <<clockVars, trackerDate, sentDate, collected, claimed>>

\* run.sh to its end: the file as it is now is exported.
CollectAll(s) ==
    /\ scrapes[s].pc = "collect"
    /\ LET p == AgentKeys[scrapes[s].key]
       IN  /\ sentDate' = [sentDate EXCEPT ![p] = dateFile[p]]
           /\ collected' = [collected EXCEPT ![p] =
                               IF @ = NoDate THEN scrapes[s].since ELSE Min({@, scrapes[s].since})]
    /\ EndRun(s)
    /\ UNCHANGED <<clockVars, trackerDate, dateFile, claimed>>

\* mutant: run.sh goes on to the export
CollectFailsOn(s) ==
    /\ scrapes[s].pc = "collect"
    /\ LET p == AgentKeys[scrapes[s].key] IN sentDate' = [sentDate EXCEPT ![p] = dateFile[p]]
    /\ EndRun(s)
    /\ UNCHANGED <<clockVars, trackerDate, dateFile, collected, claimed>>

\* A script fails: bash -e leaves run.sh, nothing is exported but the log.
CollectFails(s) ==
    /\ scrapes[s].pc = "collect"
    /\ EndRun(s)
    /\ UNCHANGED <<clockVars, ageVars, claimed>>

\* The import puts the exported trackers in the database.
ImportTrackers(p) ==
    /\ sentDate[p] # NoDate
    /\ trackerDate' = [trackerDate EXCEPT ![p] = sentDate[p]]
    /\ sentDate' = [sentDate EXCEPT ![p] = NoDate]
    /\ claimed' = claimed \ {p}
    /\ UNCHANGED <<clockVars, dateFile, collected, scrapes>>

-----------------------------------------------------------------------------
Older(ages) == [p \in Agents |-> IF ages[p] = NoDate THEN NoDate ELSE Min({ages[p] + 1, MaxAge})]

\* A tick; at midnight another day or, once, the first of another year.
Tick ==
    /\ hour' = (hour + 1) % DayLength
    /\ IF hour' = 0 THEN yearDay' \in {(yearDay + 1) % (2 * Days), 1 % (2 * Days)}
       ELSE UNCHANGED yearDay
    /\ trackerDate' = Older(trackerDate) /\ dateFile' = Older(dateFile)
    /\ sentDate' = Older(sentDate) /\ collected' = Older(collected)
    /\ scrapes' = [s \in Starters |->
                      IF scrapes[s].pc # "collect" THEN scrapes[s]
                      ELSE [scrapes[s] EXCEPT !.since = Min({@ + 1, MaxAge})]]
    /\ UNCHANGED <<hashed, claimed>>

ScheduleNext ==
    \/ Tick \/ RestartGatherer
    \/ \E p \in Agents : UpdateTrackerSchedule(p) \/ ImportTrackers(p)
    \/ \E s \in Starters :
          Scrape(s) \/ NextProject(s) \/ Preflight(s) \/ CollectAll(s) \/ CollectFails(s)

ScheduleSpec == ScheduleInit /\ [][ScheduleNext]_scheduleVars

-----------------------------------------------------------------------------
\* A date that nobody set by hand is not newer than a collection that was
\* exported completely: a run that breaks off, or that the controller refuses,
\* does not postpone the next one (preflight.py writes its date before the
\* collection, and run.sh exports it after the collection).
ScheduleFollowsCollections ==
    \A p \in Agents \ claimed :
        trackerDate[p] # NoDate => collected[p] # NoDate /\ collected[p] <= trackerDate[p]

SkewIsAtMost(ticks) ==
    /\ scrapes["cron"].pc = "collect" =>
          scrapes["cron"].waited \in {NoDate} \cup (Days * DayLength - ticks .. MaxAge)
    /\ \A p \in Agents : trackerDate[p] >= Days * DayLength + ticks => TrackerStatus(p)

\* Whatever the day, the year and the process of the daemon, cron collects no
\* project sooner than the days that are configured less three times the
\* drift, and is let through after these days and three times the drift
\* (_calculate_drift): the fraction that the true division leaves makes the
\* toggle go from -1 to nearly 3.
SkewIsBounded == SkewIsAtMost(3 * Drift)

\* What configuration.md and the comment of _calculate_drift say: the schedule
\* is skewed by at most the drift.
SkewIsWithinDrift == SkewIsAtMost(Drift)
=============================================================================
