---------------------------- MODULE JiraChangelog ----------------------------
(***************************************************************************)
(* changelog.py: the versions of an issue, made from its newest data and   *)
(* from the entries of its changelog, which tell what was there before.    *)
(*                                                                         *)
(* An entry of the changelog has the second it was made in, the kinds of   *)
(* fields it is about and the title from before when it changed the title. *)
(* Titles are numbered by the entry that gave them, 0 is no title.  An     *)
(* entry adds or removes one attachment.  The title stands for the fields  *)
(* that are changed to another value, and the rank for those that only the *)
(* changed version has.  The author of an entry is known by its number.    *)
(***************************************************************************)
EXTENDS Integers, Sequences, FiniteSets

Kinds == {"title", "attach", "detach", "rank"}
Entry == [at : Nat, kinds : SUBSET Kinds, from : Nat]
Absent == -1   \* a field that a difference does not have

Last(S) == CHOOSE n \in S : \A m \in S : m <= n

(***************************************************************************)
(* fetch_changelog: one difference for all entries of a second             *)
(***************************************************************************)
Dates(h) == {h[n].at : n \in DOMAIN h}

\* Counted down from the newest version.
IdOf(h, d) == Cardinality({e \in Dates(h) : e <= d})
DateOf(h, k) == CHOOSE d \in Dates(h) : IdOf(h, d) = k

\* Later entries of the same second replace fields of earlier ones.
Difference(h, d) ==
    LET all == {n \in DOMAIN h : h[n].at = d}
        on(kinds) == {n \in all : h[n].kinds \cap kinds # {}}
        titles == on({"title"})
        files == on({"attach", "detach"})
    IN  [title      |-> IF titles = {} THEN Absent ELSE h[Last(titles)].from,
         attachment |-> IF files = {} THEN 0
                        ELSE IF "attach" \in h[Last(files)].kinds THEN -1 ELSE 1,
         rank       |-> on({"rank"}) # {},
         by         |-> Last(all)]

(***************************************************************************)
(* get_versions: from the newest version backwards                         *)
(***************************************************************************)
NotNegative(n) == IF n < 0 THEN 0 ELSE n

TransitionForward(data, diff) ==   \* mutant: attachments are counted forward
    [title |-> IF diff.title = Absent THEN data.title ELSE diff.title,
     attachment |-> NotNegative(data.attachment - diff.attachment)]

\* _create_change_transition: the data of the version before a difference.
Transition(data, diff) ==
    [title |-> IF diff.title = Absent THEN data.title ELSE diff.title,
     attachment |-> NotNegative(data.attachment + diff.attachment)]

Reestablished(h, data) ==
    LET count == Cardinality(Dates(h))
        version[n \in 0..count] ==
            IF n = count THEN data
            ELSE Transition(version[n + 1], Difference(h, DateOf(h, n + 1)))
    IN  version

GetVersionsAnew(issue, h, data, created, updated, since) ==   \* mutant: only new versions count
    LET count == Cardinality(Dates(h))
        row(n) ==
          [issue |-> issue, id |-> Cardinality({k \in 1..n : DateOf(h, k) > since}),
           data |-> Reestablished(h, data)[n],
           rank |-> n > 0 /\ Difference(h, DateOf(h, n)).rank,
           by |-> IF n = 0 THEN 0 ELSE Difference(h, DateOf(h, n)).by,
           updated |-> IF n = 0 THEN created
                       ELSE IF n = count THEN updated ELSE DateOf(h, n)]
    IN  {row(IdOf(h, d)) : d \in {e \in Dates(h) : e > since}}
          \cup (IF created > since THEN {row(0)} ELSE {})

GetVersionsUndated(issue, h, data, created, updated, since) ==   \* mutant: the date is not replaced
    LET row(n) ==
          [issue |-> issue, id |-> n,
           data |-> Reestablished(h, data)[n],
           rank |-> n > 0 /\ Difference(h, DateOf(h, n)).rank,
           by |-> IF n = 0 THEN 0 ELSE Difference(h, DateOf(h, n)).by,
           updated |-> IF n = 0 THEN created ELSE updated]
    IN  {row(IdOf(h, d)) : d \in {e \in Dates(h) : e > since}}
          \cup (IF created > since THEN {row(0)} ELSE {})

\* The date of the newest version is that of the issue, which comments change
\* as well.  Author and rank are those of the change that made the version.
GetVersions(issue, h, data, created, updated, since) ==
    LET count == Cardinality(Dates(h))
        row(n) ==
          [issue |-> issue, id |-> n,
           data |-> Reestablished(h, data)[n],
           rank |-> n > 0 /\ Difference(h, DateOf(h, n)).rank,
           by |-> IF n = 0 THEN 0 ELSE Difference(h, DateOf(h, n)).by,
           updated |-> IF n = 0 THEN created
                       ELSE IF n = count THEN updated ELSE DateOf(h, n)]
    IN  {row(IdOf(h, d)) : d \in {e \in Dates(h) : e > since}}
          \cup (IF created > since THEN {row(0)} ELSE {})

(***************************************************************************)
(* What the versions are, from the first entry onwards                     *)
(***************************************************************************)
Until(h, d) == {n \in DOMAIN h : h[n].at <= d}

TrueData(h, d) ==
    LET on(kind) == {n \in Until(h, d) : kind \in h[n].kinds}
    IN  [title |-> IF on("title") = {} THEN 0 ELSE Last(on("title")),
         attachment |-> Cardinality(on("attach")) - Cardinality(on("detach"))]

\* A second in which two entries are about the same field.
Ambiguous(h) ==
    \E m, n \in DOMAIN h :
        /\ m # n /\ h[m].at = h[n].at
        /\ \/ "title" \in h[m].kinds \cap h[n].kinds
           \/ \E k, l \in {"attach", "detach"} : k \in h[m].kinds /\ l \in h[n].kinds

TrueVersion(issue, h, created, d) ==
    [issue |-> issue, id |-> IF d = 0 THEN 0 ELSE IdOf(h, d),
     data |-> TrueData(h, d),
     rank |-> \E n \in DOMAIN h : h[n].at = d /\ "rank" \in h[n].kinds,
     by |-> IF Until(h, d) = {} THEN 0 ELSE Last(Until(h, d))]
=============================================================================
