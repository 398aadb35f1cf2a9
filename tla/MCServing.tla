------------------------------ MODULE MCServing ------------------------------
(***************************************************************************)
(* Instances of Serving for TLC.                                           *)
(***************************************************************************)
EXTENDS Serving, TLC

Symmetry == Permutations(Ids) \cup Permutations(Pushers)

=============================================================================
