------------------------- MODULE MCRepositoryUpdate -------------------------
(***************************************************************************)
(* Instances of RepositoryUpdate for TLC: a Git and a Subversion source.   *)
(***************************************************************************)
EXTENDS RepositoryUpdate

CONSTANTS git, svn

=============================================================================
