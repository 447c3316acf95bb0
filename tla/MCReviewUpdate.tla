--------------------------- MODULE MCReviewUpdate ---------------------------
(***************************************************************************)
(* Instances of ReviewUpdate for TLC.                                      *)
(***************************************************************************)
EXTENDS ReviewUpdate

CONSTANTS r1, i1

AllSystems == {"gitlab", "github", "tfs", "tfs2013"}
=============================================================================
