------------------------------ MODULE JiraLinks ------------------------------
(***************************************************************************)
(* special_field.py: when an issue was linked to others and had its        *)
(* components, from the links it has now and the changes in its changelog  *)
(* (Special_Changelog_Field, Component_Field, Issue_Link_Field).           *)
(*                                                                         *)
(* The changelog names a link by a text in which the name of the relation  *)
(* occurs; a component is named by itself.  A date is the number of the    *)
(* change, 0 is no date.  Changes are read in any order, as servers give   *)
(* them the oldest or the newest first.                                    *)
(***************************************************************************)
EXTENDS Naturals, Sequences, FiniteSets

CONSTANTS
    Relations,    \* sequence of [inward, outward]: the names of the types of links
    Within(_, _), \* whether a name occurs in a text with another name
    Components,
    Others,       \* other issues
    MaxChanges    \* bound

ASSUME LinksAssumption ==
    /\ MaxChanges \in Nat
    /\ Relations \in Seq([inward : STRING, outward : STRING])
    /\ \A n \in 1..Len(Relations) :   \* a name occurs in itself
          LET r == Relations[n] IN Within(r.inward, r.inward) /\ Within(r.outward, r.outward)

Links ==
    [to : Others, type : 1..Len(Relations), outward : BOOLEAN]
      \cup [to : Components, type : {0}, outward : {TRUE}]

VARIABLES
    linked,    \* the links that the issue has
    changes,   \* the changes of it: [link, adds]
    todo,      \* changes that are still to be read
    dates,     \* the rows of the tables: link -> [start_date, end_date]
    reading

linkVars == <<linked, changes, todo, dates, reading>>

-----------------------------------------------------------------------------
\* prefetch: names with what they stand for, where a later type or the outward
\* name replaces an equal one before it.
Pairs == 1..2 * Len(Relations)
PairName(n) ==
    LET r == Relations[(n + 1) \div 2] IN IF n % 2 = 1 THEN r.inward ELSE r.outward
Names == {PairName(n) : n \in Pairs}
Candidate(name) ==
    LET n == CHOOSE m \in Pairs :
               PairName(m) = name /\ \A k \in Pairs : PairName(k) = name => k <= m
    IN  [type |-> (n + 1) \div 2, outward |-> n % 2 = 0]
Position(name) ==
    CHOOSE m \in Pairs : PairName(m) = name /\ \A k \in Pairs : PairName(k) = name => m <= k

\* The name in the text of a change.
NameOf(link) ==
    LET r == Relations[link.type] IN IF link.outward THEN r.outward ELSE r.inward
Matching(link) == {x \in Names : Within(x, NameOf(link))}
RowFor(link, name) ==
    [to |-> link.to, type |-> Candidate(name).type, outward |-> Candidate(name).outward]

SearchComponent(link) == link   \* by issue and component

\* search_row: the first of the names that has a row, or else the last name.
SearchRow(link) ==
    IF link.type = 0 THEN SearchComponent(link)
    ELSE LET rowed == {x \in Matching(link) : RowFor(link, x) \in DOMAIN dates}
         IN  IF rowed # {}
             THEN RowFor(link, CHOOSE x \in rowed : \A y \in rowed : Position(x) <= Position(y))
             ELSE RowFor(link, CHOOSE x \in Matching(link) :
                                  \A y \in Matching(link) : Position(y) <= Position(x))

-----------------------------------------------------------------------------
LinksInit ==
    /\ linked = {} /\ changes = <<>> /\ todo = {} /\ dates = <<>> /\ reading = FALSE

\* Somebody adds or removes a link or a component.
ChangeLink(link) ==
    /\ ~reading /\ Len(changes) < MaxChanges
    /\ linked' = IF link \in linked THEN linked \ {link} ELSE linked \cup {link}
    /\ changes' = Append(changes, [link |-> link, adds |-> link \notin linked])
    /\ UNCHANGED <<todo, dates, reading>>

LinksOf == {l \in linked : l.type # 0}
ComponentsOf == {l \in linked : l.type = 0}

\* collect: a row for every link and component that the issue has.
CollectLinks ==
    /\ ~reading /\ reading' = TRUE
    /\ dates' = [l \in LinksOf \cup ComponentsOf |-> [start_date |-> 0, end_date |-> 0]]
    /\ todo' = DOMAIN changes
    /\ UNCHANGED <<linked, changes>>

NewRow(n) ==
    IF changes[n].adds THEN [start_date |-> n, end_date |-> 0]
    ELSE [start_date |-> 0, end_date |-> n]

LatestDates(row, n) ==   \* mutant: keeps the latest start date as well
    IF changes[n].adds
    THEN IF n < row.start_date THEN row ELSE [row EXCEPT !.start_date = n]
    ELSE IF n < row.end_date THEN row ELSE [row EXCEPT !.end_date = n]

\* The earliest start date and the latest end date are kept.
KeptDates(row, n) ==
    IF changes[n].adds
    THEN IF row.start_date # 0 /\ ~(n < row.start_date) THEN row
         ELSE [row EXCEPT !.start_date = n]
    ELSE IF row.end_date # 0 /\ n < row.end_date THEN row ELSE [row EXCEPT !.end_date = n]

CheckChangelog(n) ==
    /\ n \in todo /\ todo' = todo \ {n}
    /\ LET row == SearchRow(changes[n].link)
       IN  dates' = [l \in DOMAIN dates \cup {row} |->
                       IF l # row THEN dates[l]
                       ELSE IF l \in DOMAIN dates THEN KeptDates(dates[l], n) ELSE NewRow(n)]
    /\ UNCHANGED <<linked, changes, reading>>

LinksNext ==
    \/ \E link \in Links : ChangeLink(link)
    \/ CollectLinks
    \/ \E n \in todo : CheckChangelog(n)

LinksSpec == LinksInit /\ [][LinksNext]_linkVars

-----------------------------------------------------------------------------
Unambiguous(link) ==
    link.type # 0 =>
      /\ Matching(link) = {NameOf(link)}
      /\ RowFor(link, NameOf(link)) = link
      /\ \A other \in Links : other.type # 0 /\ NameOf(link) \in Matching(other) =>
            other.type = link.type /\ other.outward = link.outward

Dates(link, adds) == {n \in DOMAIN changes : changes[n].link = link /\ changes[n].adds = adds}

\* Once the changelog is read, in whatever order, a link whose relation has a
\* name of its own has a row exactly if the issue has or had it, from the
\* first time it was added to the last time it was removed.  Relations whose
\* two names are equal or occur in each other may get rows in the other
\* direction.
DatesOfLinksAreTrue ==
    reading /\ todo = {} =>
      \A link \in Links : Unambiguous(link) =>
        LET adds == Dates(link, TRUE)  removes == Dates(link, FALSE)
        IN  /\ link \in DOMAIN dates <=> adds # {}
            /\ adds # {} =>
                 /\ dates[link].start_date \in adds
                 /\ \A n \in adds : dates[link].start_date <= n
                 /\ IF removes = {} THEN dates[link].end_date = 0
                    ELSE /\ dates[link].end_date \in removes
                         /\ \A n \in removes : n <= dates[link].end_date
=============================================================================
