---------------------------- MODULE PriorityQueue ----------------------------
(***************************************************************************)
(* What a request scheduler promises, whichever implementation is loaded:  *)
(* the Rust extension (crates/repercep-scheduler) or the Python fallback   *)
(* (src/repercep/runtime/scheduler.py).                                    *)
(*                                                                         *)
(* The state is the history of accepted requests.  A request is queued     *)
(* until it is handed to the engine driver or cancelled; the request       *)
(* handed out is always the oldest one of the highest non-empty priority;  *)
(* at most Capacity requests are queued; and once a consumer has been told *)
(* that the queue is drained for good, nothing is accepted any more.       *)
(***************************************************************************)
EXTENDS Requests

VARIABLES
    log,         \* every accepted request, in the order of acceptance
    closed,      \* shutdown was requested
    drained      \* some consumer was told that there is nothing left to come

vars == <<log, closed, drained>>

(* The log holds accepted requests, in the order of acceptance.            *)
TypeOK ==
    /\ log \in Seq(Request)
    /\ closed \in BOOLEAN
    /\ drained \in BOOLEAN

Queued == {n \in DOMAIN log : log[n].fate = "queued"}

(* Ticket m is served before ticket n: a higher priority, or the same      *)
(* priority and accepted earlier.                                          *)
ServedBefore(m, n) ==
    \/ Rank[log[m].priority] < Rank[log[n].priority]
    \/ log[m].priority = log[n].priority /\ m < n

-----------------------------------------------------------------------------

Init == log = <<>> /\ closed = FALSE /\ drained = FALSE

Put(id, p) ==
    /\ ~drained
    /\ Cardinality(Queued) < Capacity
    /\ log' = Append(log, [id |-> id, priority |-> p, fate |-> "queued"])
    /\ UNCHANGED <<closed, drained>>

Take(n) ==
    /\ n \in Queued
    /\ \A m \in Queued \ {n} : ServedBefore(n, m)
    /\ log' = [log EXCEPT ![n].fate = "delivered"]
    /\ UNCHANGED <<closed, drained>>

(* Cancelling an id cancels every queued request that carries it.          *)
Cancel(id) ==
    /\ log' = [n \in DOMAIN log |->
                 IF n \in Queued /\ log[n].id = id
                 THEN [log[n] EXCEPT !.fate = "cancelled"]
                 ELSE log[n]]
    /\ UNCHANGED <<closed, drained>>

Close == closed' = TRUE /\ UNCHANGED <<log, drained>>

Finish ==
    /\ closed
    /\ Queued = {}
    /\ drained' = TRUE
    /\ UNCHANGED <<log, closed>>

Next ==
    \/ \E id \in Ids, p \in Priority : Put(id, p)
    \/ \E n \in DOMAIN log : Take(n)
    \/ \E id \in Ids : Cancel(id)
    \/ Close
    \/ Finish

Spec == Init /\ [][Next]_vars

=============================================================================
