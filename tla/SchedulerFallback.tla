-------------------------- MODULE SchedulerFallback --------------------------
(***************************************************************************)
(* _PythonScheduler of src/repercep/runtime/scheduler.py, loaded when the  *)
(* Rust extension is not installed.  Every method runs under one           *)
(* threading.Condition, so a method is one action; next_blocking is a loop *)
(* of such actions, one each time it holds the lock.                       *)
(***************************************************************************)
EXTENDS Requests, Functions

CONSTANTS
    Consumers,   \* threads that call next_blocking()
    MaxSubmits   \* bound: accepted requests

ASSUME FallbackAssumption == Capacity >= 1 /\ MaxSubmits \in Nat

VARIABLES
    log,         \* history: the accepted requests and what became of them
    closed,      \* _shutdown
    drained,     \* history: some next_blocking() returned None when shut down
    queues,      \* _queues: [Priority -> sequence of tickets]
    known,       \* _known
    pc,          \* [Consumers -> "out", "awake" (wants the lock), "waiting"]
    waiters      \* Condition: the consumers in wait(), oldest first

vars == <<log, closed, drained, queues, known, pc, waiters>>

PQ == INSTANCE PriorityQueue

Queued == PQ!Queued

(* Every variable keeps its type; the fallback's id set is exactly the set *)
(* of the ids in its deques.                                               *)
TypeOK ==
    /\ log \in Seq(Request)
    /\ closed \in BOOLEAN
    /\ drained \in BOOLEAN
    /\ queues \in [Priority -> Seq(Nat)]
    /\ known \subseteq Ids
    /\ pc \in [Consumers -> {"out", "awake", "waiting"}]
    /\ waiters \in Seq(Consumers)
    /\ known = {log[n].id : n \in UNION {Range(queues[p]) : p \in Priority}}

-----------------------------------------------------------------------------

(* Condition.notify: the oldest waiter competes for the lock again.        *)
Notify ==
    IF waiters = <<>> THEN UNCHANGED <<waiters, pc>>
    ELSE /\ waiters' = Tail(waiters)
         /\ pc' = [pc EXCEPT ![Head(waiters)] = "awake"]

NotifyAll ==
    /\ waiters' = <<>>
    /\ pc' = [c \in Consumers |-> IF pc[c] = "waiting" THEN "awake" ELSE pc[c]]

Size == Len(queues.high) + Len(queues.normal) + Len(queues.low)

(* Mutant: the queue is full one request too late.                         *)
RoomPlusOne == Size <= Capacity

Room == Size < Capacity

Announce == Notify

(* Ids are unique: the application mints one for every request.            *)
Submit(id, p) ==
    /\ ~closed
    /\ Len(log) < MaxSubmits
    /\ \A n \in DOMAIN log : log[n].id # id
    /\ Room
    /\ log' = Append(log, [id |-> id, priority |-> p, fate |-> "queued"])
    /\ queues' = [queues EXCEPT ![p] = Append(@, Len(log) + 1)]
    /\ known' = known \cup {id}
    /\ Announce
    /\ UNCHANGED <<closed, drained>>

Forgotten(id) == known \ {id}

(* del queue[index], and list.remove.                                      *)
Without(q, i) == [j \in 1..(Len(q) - 1) |-> q[IF j < i THEN j ELSE j + 1]]

(* The item of a cancelled id is deleted from the middle of its deque.     *)
Cancel(id) ==
    /\ ~closed
    /\ id \in known
    /\ \E p \in Priority : \E i \in DOMAIN queues[p] :
          /\ log[queues[p][i]].id = id
          /\ queues' = [queues EXCEPT ![p] = Without(@, i)]
          /\ log' = [log EXCEPT ![queues[p][i]].fate = "cancelled"]
    /\ known' = Forgotten(id)
    /\ Notify
    /\ UNCHANGED <<closed, drained>>

Shutdown ==
    /\ closed' = TRUE
    /\ NotifyAll
    /\ UNCHANGED <<log, drained, queues, known>>

-----------------------------------------------------------------------------
(* next_blocking                                                           *)

NextCall(c) ==
    /\ pc[c] = "out"
    /\ pc' = [pc EXCEPT ![c] = "awake"]
    /\ UNCHANGED <<log, closed, drained, queues, known, waiters>>

IsFirst(p) ==
    /\ queues[p] # <<>>
    /\ \A q \in Priority : Rank[q] < Rank[p] => queues[q] = <<>>

NextItem(c) ==
    /\ pc[c] = "awake"
    /\ \E p \in Priority :
          /\ IsFirst(p)
          /\ queues' = [queues EXCEPT ![p] = Tail(@)]
          /\ log' = [log EXCEPT ![Head(queues[p])].fate = "delivered"]
          /\ known' = known \ {log[Head(queues[p])].id}
    /\ pc' = [pc EXCEPT ![c] = "out"]
    /\ UNCHANGED <<closed, drained, waiters>>

(* Empty: None when shut down or when the deadline has passed, which the   *)
(* clock decides, and otherwise back to sleep.                             *)
NextNone(c) ==
    /\ pc[c] = "awake"
    /\ Size = 0
    /\ pc' = [pc EXCEPT ![c] = "out"]
    /\ drained' = (drained \/ closed)
    /\ UNCHANGED <<log, closed, queues, known, waiters>>

NextWait(c) ==
    /\ pc[c] = "awake"
    /\ Size = 0
    /\ ~closed
    /\ pc' = [pc EXCEPT ![c] = "waiting"]
    /\ waiters' = Append(waiters, c)
    /\ UNCHANGED <<log, closed, drained, queues, known>>

(* wait() reaches its timeout: the queues are looked at once more.         *)
WaitTimeout(c) ==
    /\ pc[c] = "waiting"
    /\ pc' = [pc EXCEPT ![c] = "awake"]
    /\ \E i \in DOMAIN waiters :
          waiters[i] = c /\ waiters' = Without(waiters, i)
    /\ UNCHANGED <<log, closed, drained, queues, known>>

-----------------------------------------------------------------------------

Init ==
    /\ log = <<>>
    /\ closed = FALSE
    /\ drained = FALSE
    /\ queues = [p \in Priority |-> <<>>]
    /\ known = {}
    /\ pc = [c \in Consumers |-> "out"]
    /\ waiters = <<>>

Next ==
    \/ \E id \in Ids, p \in Priority : Submit(id, p)
    \/ \E id \in Ids : Cancel(id)
    \/ Shutdown
    \/ \E c \in Consumers :
          \/ NextCall(c)
          \/ NextItem(c)
          \/ NextNone(c)
          \/ NextWait(c)
          \/ WaitTimeout(c)

Spec == Init /\ [][Next]_vars

-----------------------------------------------------------------------------
(* Properties *)

(* The fallback implements the same priority queue as the Rust scheduler:  *)
(* what the module's docstring calls "the same v0 surface".                *)
ImplementsQueue == PQ!Spec

(* While a request is queued, no consumer sleeps unless another one is     *)
(* awake and will look at the queue.                                       *)
NoLostWakeup ==
    (Queued # {} /\ waiters # <<>>) => \E c \in Consumers : pc[c] = "awake"

=============================================================================
