----------------------- MODULE IncrementalCollection -----------------------
(***************************************************************************)
(* What the collection of data in batches promises: the database gets the  *)
(* versions of the sources in any order and possibly more than once, and   *)
(* the update tracker of a project only moves forward, over versions that  *)
(* are all in the database.  A version below the tracker is never asked    *)
(* for again, so one that is skipped is lost for good: the versions that   *)
(* were dropped on the way are named at that time, before the tracker      *)
(* moves past them.                                                        *)
(***************************************************************************)
EXTENDS Naturals

CONSTANTS Projects, MaxVersion

VARIABLES
    head,      \* the newest version at the sources of a project
    imported,  \* the versions of a project in the database
    tracker,   \* the update tracker in the database, 0 when there is none
    dropped    \* the versions of a project that an agent was led past

Init ==
    /\ head = [p \in Projects |-> 0]
    /\ imported = [p \in Projects |-> {}]
    /\ tracker = [p \in Projects |-> 0]
    /\ dropped = [p \in Projects |-> {}]

Commit(p) ==
    /\ head[p] < MaxVersion
    /\ head' = [head EXCEPT ![p] = @ + 1]
    /\ UNCHANGED <<imported, tracker, dropped>>

Import(p) ==
    /\ \E versions \in SUBSET (1..head[p]) :
          imported' = [imported EXCEPT ![p] = @ \cup versions]
    /\ UNCHANGED <<head, tracker, dropped>>

Track(p) ==
    /\ \E n \in tracker[p]..head[p] :
          /\ 1..n \subseteq imported[p] \cup dropped[p]
          /\ tracker' = [tracker EXCEPT ![p] = n]
    /\ UNCHANGED <<head, imported, dropped>>

Drop(p) ==
    /\ \E versions \in SUBSET (1..head[p]) :
          dropped' = [dropped EXCEPT ![p] = @ \cup versions]
    /\ UNCHANGED <<head, imported, tracker>>

Next == \E p \in Projects : Commit(p) \/ Import(p) \/ Track(p) \/ Drop(p)

Spec == Init /\ [][Next]_<<head, imported, tracker, dropped>>

=============================================================================
