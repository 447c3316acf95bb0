-------------------------- MODULE MCJiraCollection --------------------------
(***************************************************************************)
(* Instances of JiraCollection for TLC.                                    *)
(***************************************************************************)
EXTENDS JiraCollection

=============================================================================
