------------------------------- MODULE MCRouter -------------------------------
(***************************************************************************)
(* Instances of Router for TLC.                                            *)
(***************************************************************************)
EXTENDS Router, TLC

Symmetry == Permutations(Ids) \cup Permutations(Pushers)

=============================================================================
