---------------------------- MODULE MCStatusStore ----------------------------
(***************************************************************************)
(* Instances of StatusStore for TLC.  The other constants are given in the *)
(* configurations.                                                         *)
(***************************************************************************)
EXTENDS StatusStore, TLC

\* POSTs that are written in the same way are not told apart.
Permuted == Permutations(Posts \ Large)

=============================================================================
