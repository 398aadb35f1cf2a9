------------------------------ MODULE Requests ------------------------------
(***************************************************************************)
(* The vocabulary the scheduler modules share: identifiers, priorities,    *)
(* and the record of an accepted request.                                  *)
(***************************************************************************)
EXTENDS Integers, Sequences, FiniteSets

CONSTANTS
    Ids,         \* request identifiers
    Capacity     \* how many queued requests the scheduler accepts

ASSUME CapacityAssumption == Capacity \in Nat

Priority == {"high", "normal", "low"}

(* The order in which the priorities are served: 1 is served first.        *)
Rank == [p \in Priority |->
            CASE p = "high" -> 1 [] p = "normal" -> 2 [] p = "low" -> 3]

Fate == {"queued", "delivered", "cancelled"}

(* An accepted request.  Its position in the log is its ticket.            *)
Request == [id : Ids, priority : Priority, fate : Fate]

=============================================================================
