----------------------------- MODULE MCScheduler -----------------------------
(***************************************************************************)
(* Instances of Scheduler for TLC.                                         *)
(***************************************************************************)
EXTENDS Scheduler, TLC

(* Ids, callers and consumers are interchangeable (safety runs only).      *)
Symmetry == Permutations(Ids) \cup Permutations(Callers)
                \cup Permutations(Consumers)

=============================================================================
