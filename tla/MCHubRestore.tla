---------------------------- MODULE MCHubRestore ----------------------------
(***************************************************************************)
(* Model values for HubRestore.                                            *)
(***************************************************************************)
EXTENDS HubRestore, TLC

Symmetry == Permutations(Keys)
=============================================================================
