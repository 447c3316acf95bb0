--------------------------- MODULE SprintCalendar ---------------------------
(***************************************************************************)
(* The sprints that jira_to_json.py writes (Sprint_Parser of               *)
(* jira/parser.py) and the sprint that a moment belongs to (Sprint_Data of *)
(* utils.py), which the repositories ask for each of their versions.       *)
(***************************************************************************)
EXTENDS Integers, Sequences, FiniteSets, Functions

CONSTANTS
    SprintIds,
    MaxMoment,   \* bound: moments
    MaxSprints   \* bound: sprints that are written

ASSUME CalendarAssumption == MaxMoment \in Nat /\ MaxSprints \in Nat

Undated == 0     \* a date that Jira does not give
NoSprint == 0
Moments == 1..MaxMoment

VARIABLES
    boards,    \* the boards of the project: "old", "scrum" or "kanban"
    sprints,   \* table sprint, in the order of its rows
    pcCalendar, \* "gather", then "loaded" or "raised"
    calendar,  \* the sorted sprints of Sprint_Data
    asked,     \* the moment and the identifiers that were asked for
    answer

calendarVars == <<boards, sprints, pcCalendar, calendar, asked, answer>>

-----------------------------------------------------------------------------
CalendarInit ==
    /\ boards \in {<<"scrum">>, <<"kanban", "scrum">>, <<"old", "scrum">>}
    /\ sprints = <<>> /\ calendar = <<>> /\ pcCalendar = "gather"
    /\ asked = [time |-> 1, ids |-> {}] /\ answer = NoSprint

\* A row of the table, which keeps the first one of an identifier.
AddSprint(sprint) ==
    /\ pcCalendar = "gather" /\ Len(sprints) < MaxSprints
    /\ \A n \in DOMAIN sprints : sprints[n].id # sprint.id
    /\ sprints' = Append(sprints, sprint)
    /\ UNCHANGED <<boards, pcCalendar, calendar, asked, answer>>

Prefetched ==
    \E n \in DOMAIN boards :
        boards[n] = "scrum" /\ \A m \in 1..n : boards[m] # "old"

\* All sprints of the boards, those that have not begun included.
PrefetchSprint(sprint) == Prefetched /\ AddSprint(sprint)

\* Sprints of an issue have begun or were planned with dates.
ParseSprint(sprint) == sprint.start # Undated /\ sprint.end # Undated /\ AddSprint(sprint)

\* The order of the sprints by their start, in which equal ones keep their place.
Sorts(order) ==
    \A m, n \in DOMAIN sprints : m < n =>
        \/ sprints[order[m]].start < sprints[order[n]].start
        \/ sprints[order[m]].start = sprints[order[n]].start /\ order[m] < order[n]

\* Sprint_Data: a sprint without a date is a KeyError.
LoadSprints ==
    /\ pcCalendar = "gather"
    /\ IF \E n \in DOMAIN sprints : Undated \in {sprints[n].start, sprints[n].end}
       THEN pcCalendar' = "raised" /\ UNCHANGED calendar
       ELSE /\ pcCalendar' = "loaded"
            /\ \E order \in Bijection(DOMAIN sprints, DOMAIN sprints) :
                  Sorts(order) /\ calendar' = [n \in DOMAIN sprints |-> sprints[order[n]]]
    /\ UNCHANGED <<boards, sprints, asked, answer>>

\* The number of the first `end' sprints that have begun.
Begun(s, time, end) == Cardinality({n \in 1..end : s[n].start <= time})

LatestOverlapping(s, time, overlap, end) ==   \* mutant: takes the former sprint without its end
    LET index == Begun(s, time, end)
    IN  IF index = 0 THEN 0
        ELSE IF time <= s[index].end THEN index
        ELSE IF overlap /\ index > 1 THEN index - 1
        ELSE 0

\* The last of these if it has not ended, or else the one before it; 0 if none.
Latest(s, time, overlap, end) ==
    LET index == Begun(s, time, end)
    IN  IF index = 0 THEN 0
        ELSE IF time <= s[index].end THEN index
        ELSE IF overlap /\ index > 1 /\ time <= s[index - 1].end THEN index - 1
        ELSE 0

\* The one before is only tried in all sprints, and not any more once the latest
\* was not among the identifiers.
Bisect(s, time, ids) ==
    LET bisect[end \in 0 .. Len(s)] ==
            LET at == Latest(s, time, end = Len(s), end)
            IN  IF at = 0 THEN NoSprint
                ELSE IF s[at].id \in ids THEN s[at].id
                ELSE bisect[at - 1]
    IN  bisect[Len(s)]

FindSprint(time, ids) ==
    /\ pcCalendar = "loaded"
    /\ asked' = [time |-> time, ids |-> ids]
    /\ answer' = Bisect(calendar, time, ids)
    /\ UNCHANGED <<boards, sprints, pcCalendar, calendar>>

CalendarNext ==
    \/ \E id \in SprintIds, start \in Moments, end \in Moments :
          /\ start <= end
          /\ LET sprint == [id |-> id, start |-> start, end |-> end]
             IN  ParseSprint(sprint) \/ PrefetchSprint(sprint)
    \/ \E id \in SprintIds : PrefetchSprint([id |-> id, start |-> Undated, end |-> Undated])
    \/ LoadSprints
    \/ \E time \in Moments, ids \in SUBSET SprintIds : FindSprint(time, ids)

-----------------------------------------------------------------------------
Fits(n) ==
    /\ sprints[n].start <= asked.time /\ asked.time <= sprints[n].end
    /\ sprints[n].id \in asked.ids

\* Of two sprints the one that begins later does not end earlier.
InSequence ==
    \A m, n \in DOMAIN sprints :
        sprints[m].start < sprints[n].start => sprints[m].end <= sprints[n].end
StartsDiffer == \A m, n \in DOMAIN sprints : sprints[m].start = sprints[n].start => m = n

\* The sprint that a moment is said to be in encompasses it and was asked for;
\* where no sprint lies within another, one is found if there is one, and it
\* is the one that began last before the moment. (A sprint around two others
\* is not found in between them.)
SprintIsTheLatest ==
    pcCalendar = "loaded" /\ asked.ids # {} =>
      /\ answer # NoSprint =>
            \E n \in DOMAIN sprints : sprints[n].id = answer /\ Fits(n)
      /\ InSequence /\ StartsDiffer =>
            \A n \in DOMAIN sprints : Fits(n) =>
               \E m \in DOMAIN sprints :
                  sprints[m].id = answer /\ sprints[n].start <= sprints[m].start
=============================================================================
