--------------------------- MODULE SvnDifference ---------------------------
(***************************************************************************)
(* svn/difference.py: how many lines a version of a Subversion repository  *)
(* adds and removes, counted in the output of `svn diff'.                  *)
(*                                                                         *)
(* The output has for each file a line that names it, a head with the old  *)
(* and the new revision or "(nonexistent)", and lines that are added,      *)
(* removed or context after a line with "@@"; a binary file has no more    *)
(* than its name.  A line is its kind here.                                *)
(***************************************************************************)
EXTENDS Naturals, Sequences, FiniteSets, SequencesExt

CONSTANTS
    MaxFiles,  \* bound
    MaxLines   \* bound: changed and context lines

ASSUME DifferenceAssumption == MaxFiles \in Nat /\ MaxLines \in Nat

VARIABLES
    revisions,  \* from_revision, to_revision: given or not
    output,     \* what `svn diff' has printed: the kinds of lines
    place,      \* where in a file it is
    truth,      \* per file what there is to count, in the order of the files
    inHead,     \* Difference_State._head
    file,       \* the Difference_File at hand, NoFile before the first
    pathRows,   \* table change_path
    totals,     \* insertions, deletions and files of Difference_State
    data        \* get_data, or NothingCounted

differenceVars == <<revisions, output, place, truth, inHead, file, pathRows, totals, data>>

NewFile == [type |-> "modified", insertions |-> 0, deletions |-> 0]
NoFile == [type |-> "none", insertions |-> 0, deletions |-> 0]
NothingCounted == [insertions |-> 0, deletions |-> 0, lines |-> 0, files |-> 0, done |-> FALSE]

\* The output is of one version if only the new revision is given.
OneVersion == revisions = "to"

-----------------------------------------------------------------------------
(***************************************************************************)
(* The parser                                                              *)
(***************************************************************************)
HeadOf(f, line) ==   \* parse_head
    CASE line = "--- (nonexistent)" -> [f EXCEPT !.type = "added"]
      [] line = "+++ (nonexistent)" -> [f EXCEPT !.type = "deleted"]
      [] OTHER -> f

Minus == {"-", "---", "--- (nonexistent)"}
Plus == {"+", "+++", "+++ (nonexistent)"}

ParseContent(f, line) ==
    CASE line \in Plus -> [f EXCEPT !.insertions = @ + 1]
      [] line \in Minus -> [f EXCEPT !.deletions = @ + 1]
      [] OTHER -> f

RowsAfter == IF OneVersion /\ file # NoFile THEN Append(pathRows, file) ELSE pathRows

TotalsOnlyRows ==   \* mutant: counts the files with a row only
    IF OneVersion
    THEN [totals EXCEPT !.insertions = @ + file.insertions, !.deletions = @ + file.deletions]
    ELSE totals

TotalsAfter ==   \* _update_file
    [totals EXCEPT !.insertions = @ + file.insertions, !.deletions = @ + file.deletions]

ParseLine(line) ==
    IF line = "Index"
    THEN /\ pathRows' = RowsAfter
         /\ totals' = [TotalsAfter EXCEPT !.files = @ + 1]
         /\ file' = NewFile
         /\ UNCHANGED inHead
    ELSE /\ IF file = NoFile THEN UNCHANGED <<inHead, file>>
            ELSE IF inHead THEN inHead' = (line # "@@") /\ file' = HeadOf(file, line)
            ELSE UNCHANGED inHead /\ file' = ParseContent(file, line)
         /\ UNCHANGED <<pathRows, totals>>

-----------------------------------------------------------------------------
DifferenceInit ==
    /\ revisions \in {"to", "from", "both", "none"}
    /\ output = <<>> /\ place = "start" /\ truth = <<>>
    /\ inHead = TRUE /\ file = NoFile /\ pathRows = <<>>
    /\ totals = [insertions |-> 0, deletions |-> 0, files |-> 0]
    /\ data = NothingCounted

Count(kind) == Cardinality({n \in DOMAIN output : output[n] = kind})
Lines == Count("+") + Count("-") + Count(" ")
After(kind) ==
    [truth EXCEPT ![Len(truth)] =
        CASE kind = "--- (nonexistent)" -> [@ EXCEPT !.type = "added"]
          [] kind = "+++ (nonexistent)" -> [@ EXCEPT !.type = "deleted"]
          [] kind = "+" -> [@ EXCEPT !.insertions = @ + 1]
          [] kind = "-" -> [@ EXCEPT !.deletions = @ + 1]
          [] OTHER -> @]

\* svn prints another line.
DiffLine(line, from, to) ==
    /\ ~data.done
    /\ place \in from /\ place' = to
    /\ output' = Append(output, line)
    /\ truth' = IF line = "Index" THEN Append(truth, NewFile) ELSE After(line)
    /\ ParseLine(line)
    /\ UNCHANGED <<revisions, data>>

IndexLine ==
    Len(truth) < MaxFiles /\ DiffLine("Index", {"start", "index", "hunk", "lines"}, "index")
OldLine(line) == DiffLine(line, {"index"}, "old")
NewLine(line) ==
    /\ DiffLine(line, {"old"}, "new")
    /\ line = "+++ (nonexistent)" => Last(output) # "--- (nonexistent)"
HunkLine == Lines < MaxLines /\ DiffLine("@@", {"new", "lines"}, "hunk")
ContentLine(line) ==
    /\ Lines < MaxLines /\ DiffLine(line, {"hunk", "lines"}, "lines")
    /\ line = "+" => Last(truth).type # "deleted"
    /\ line = "-" => Last(truth).type # "added"
    /\ line = " " => Last(truth).type = "modified"

GetData ==
    /\ ~data.done /\ place \in {"start", "index", "lines"}
    /\ pathRows' = RowsAfter /\ totals' = TotalsAfter
    /\ data' = [insertions |-> TotalsAfter.insertions, deletions |-> TotalsAfter.deletions,
                lines |-> TotalsAfter.insertions + TotalsAfter.deletions,
                files |-> totals.files, done |-> TRUE]
    /\ UNCHANGED <<revisions, output, place, truth, inHead, file>>

\* The command fails: zeros, and no rows.
DiffFails ==
    /\ ~data.done /\ output = <<>>
    /\ data' = [NothingCounted EXCEPT !.done = TRUE]
    /\ UNCHANGED <<revisions, output, place, truth, inHead, file, pathRows, totals>>

DifferenceNext ==
    \/ IndexLine
    \/ \E line \in {"---", "--- (nonexistent)"} : OldLine(line)
    \/ \E line \in {"+++", "+++ (nonexistent)"} : NewLine(line)
    \/ HunkLine
    \/ \E line \in {"+", "-", " "} : ContentLine(line)
    \/ GetData
    \/ DiffFails

-----------------------------------------------------------------------------
Sum(r, field) ==
    LET sum[n \in 0 .. Len(r)] == IF n = 0 THEN 0 ELSE sum[n - 1] + r[n][field] IN sum[Len(r)]

\* The statistics of a version are the sums of the rows of its files, of which
\* each has one; the row of the first file is what svn printed of it.
StatisticsAddUp ==
    data.done =>
      /\ OneVersion =>
           /\ data.insertions = Sum(pathRows, "insertions") /\ data.deletions = Sum(pathRows, "deletions")
           /\ data.files = Len(pathRows)
      /\ ~OneVersion => pathRows = <<>>
      /\ data.files = Len(truth)
      /\ data.insertions >= Sum(truth, "insertions") /\ data.deletions >= Sum(truth, "deletions")
      /\ OneVersion /\ truth # <<>> => pathRows[1] = truth[1]

\* The number of added lines in the difference of a file.
InsertionsAreCounted ==
    data.done /\ OneVersion =>
      \A n \in DOMAIN pathRows : pathRows[n].insertions = truth[n].insertions
=============================================================================
