------------------------------ MODULE Scheduler ------------------------------
(***************************************************************************)
(* The request scheduler of crates/repercep-scheduler/src/lib.rs: three    *)
(* FIFO buckets, a skip-set of cancelled ids, the set of known ids, a      *)
(* shutdown flag that lives OUTSIDE the mutex of the buckets, and a tokio  *)
(* Notify on which next() sleeps.                                          *)
(*                                                                         *)
(* Callers submit, cancel and shut down; consumers run next().  Every      *)
(* critical section of the mutex is one action, and what happens outside   *)
(* it (reading the flag, notifying) is an action of its own, so the races  *)
(* of the Rust API are in the model.  With UsesGil the callers come        *)
(* through the PyO3 wrapper, which holds the GIL for the whole of a        *)
(* submit, cancel or shutdown but releases it in next_blocking: the        *)
(* callers then exclude each other and still race with the consumers.      *)
(***************************************************************************)
EXTENDS Requests

CONSTANTS
    Callers,     \* threads that submit, cancel and shut down
    Consumers,   \* threads that call next() / next_blocking()
    UsesGil,     \* callers exclude each other (the PyO3 wrapper)
    MayReuse,    \* an id may be submitted again after it was accepted
    MaxSubmits   \* bound: accepted requests

ASSUME SchedulerAssumption ==
    /\ UsesGil \in BOOLEAN
    /\ MayReuse \in BOOLEAN
    /\ MaxSubmits \in Nat

VARIABLES
    log,         \* history: the accepted requests and what became of them
    closed,      \* shutting_down
    drained,     \* history: some next() returned None
    bucket,      \* [Priority -> sequence of tickets]: the three VecDeques
    cancelled,   \* ids marked by cancel() whose item is still in a bucket
    known,       \* ids in a bucket, cancelled or not
    op,          \* [Callers -> what the thread is in the middle of]
    pc,          \* [Consumers -> where the thread is in next()]
    waiters,     \* Notify: consumers registered as waiters, in order
    permit,      \* Notify: the stored permit of notify_one
    signal       \* Notify: wake-ups delivered to a live Notified future

vars == <<log, closed, drained, bucket, cancelled, known, op, pc,
          waiters, permit, signal>>

queueVars  == <<log, bucket, cancelled, known>>
notifyVars == <<waiters, permit, signal>>

-----------------------------------------------------------------------------
(* Types *)

Idle == [step |-> "idle"]

Operation ==
    {Idle}
    \cup [step : {"submit"}, id : Ids, priority : Priority]
    \cup [step : {"cancel"}, id : Ids]
    \cup [step : {"notify", "wake"}]

(* "armed": the Notified future exists, the queue was not looked at yet;   *)
(* "empty": the queue was found empty, the future is about to be awaited;  *)
(* "waiting": the future was polled and is registered.                     *)
Place  == {"out", "armed", "empty", "waiting"}
Signal == {"none", "one", "all"}

Asleep(c) == pc[c] = "waiting" /\ signal[c] = "none"

(* The list of waiters holds every sleeping consumer at most once, and     *)
(* nobody else.                                                            *)
TypeOK ==
    /\ log \in Seq(Request)
    /\ closed \in BOOLEAN
    /\ drained \in BOOLEAN
    /\ bucket \in [Priority -> Seq(Nat)]
    /\ cancelled \subseteq Ids
    /\ known \subseteq Ids
    /\ op \in [Callers -> Operation]
    /\ pc \in [Consumers -> Place]
    /\ waiters \in Seq(Consumers)
    /\ \A i \in DOMAIN waiters : Asleep(waiters[i])
    /\ \A i, j \in DOMAIN waiters : waiters[i] = waiters[j] => i = j
    /\ permit \in BOOLEAN
    /\ signal \in [Consumers -> Signal]

-----------------------------------------------------------------------------
(* The buckets *)

SlotsOf(b) == UNION {{p} \X DOMAIN b[p] : p \in Priority}
Slot == SlotsOf(bucket)

Ticket(s) == bucket[s[1]][s[2]]
IdAt(s)   == log[Ticket(s)].id

(* Mutant: an item is taken from the back of its VecDeque.                 *)
BeforeLifo(s, t) ==
    \/ Rank[s[1]] < Rank[t[1]]
    \/ s[1] = t[1] /\ s[2] > t[2]

(* Slots in the order pop_next visits them: High, Normal, Low, each from   *)
(* its front.                                                              *)
Before(s, t) ==
    \/ Rank[s[1]] < Rank[t[1]]
    \/ s[1] = t[1] /\ s[2] < t[2]

(* cancelled.remove(id) succeeds once per id: pop_next skips the first     *)
(* slot of a cancelled id and no other.                                    *)
Skipped(s) ==
    /\ IdAt(s) \in cancelled
    /\ \A t \in Slot : Before(t, s) => IdAt(t) # IdAt(s)

IsNext(s) ==
    /\ s \in Slot
    /\ ~Skipped(s)
    /\ \A t \in Slot : Before(t, s) => Skipped(t)

(* The buckets once s and everything before it has been popped.            *)
Rest(s) ==
    [p \in Priority |->
        IF Rank[p] < Rank[s[1]] THEN <<>>
        ELSE IF p = s[1] THEN SubSeq(bucket[p], s[2] + 1, Len(bucket[p]))
        ELSE bucket[p]]

(* Mutant: the whole skip-set is cleared by the first item it skips.       *)
PoppedClears(gone) ==
    /\ cancelled' = IF \E t \in gone : Skipped(t) THEN {} ELSE cancelled
    /\ known' = known \ {IdAt(t) : t \in gone}

(* Mutant: only delivered ids leave the known set.                         *)
PoppedKeepsKnown(gone) ==
    /\ cancelled' = cancelled \ {IdAt(t) : t \in {s \in gone : Skipped(s)}}
    /\ known' = known \ {IdAt(t) : t \in {s \in gone : ~Skipped(s)}}

(* The bookkeeping when pop_next has popped the slots gone from the front. *)
Popped(gone) ==
    /\ cancelled' = cancelled \ {IdAt(t) : t \in {s \in gone : Skipped(s)}}
    /\ known' = known \ {IdAt(t) : t \in gone}

Physical == Len(bucket.high) + Len(bucket.normal) + Len(bucket.low)

(* Buckets::len: items the caller can still expect, clamped at zero.       *)
Length ==
    IF Physical < Cardinality(cancelled) THEN 0
    ELSE Physical - Cardinality(cancelled)

-----------------------------------------------------------------------------
(* tokio::sync::Notify, as next(), submit() and shutdown() use it.         *)

(* notify_one wakes the oldest waiter, or stores one permit (never two).   *)
NotifyOne(queue) ==
    IF queue # <<>>
    THEN /\ waiters' = Tail(queue)
         /\ signal' = [signal EXCEPT ![Head(queue)] = "one"]
         /\ UNCHANGED permit
    ELSE /\ permit' = TRUE
         /\ waiters' = queue
         /\ UNCHANGED signal

(* notify_waiters reaches every future that exists, polled or not, and     *)
(* leaves no permit behind.                                                *)
NotifyAll ==
    /\ signal' = [c \in Consumers |->
                    IF pc[c] # "out" /\ signal[c] = "none" THEN "all"
                    ELSE signal[c]]
    /\ waiters' = <<>>
    /\ UNCHANGED permit

(* Dropping a registered future takes it off the list.                     *)
Without(c) ==
    IF \E i \in DOMAIN waiters : waiters[i] = c
    THEN LET k == CHOOSE i \in DOMAIN waiters : waiters[i] = c IN
         [i \in 1..(Len(waiters) - 1) |-> waiters[IF i < k THEN i ELSE i + 1]]
    ELSE waiters

-----------------------------------------------------------------------------
(* Callers *)

Free(t) ==
    /\ op[t] = Idle
    /\ UsesGil => \A u \in Callers : op[u] = Idle

Now(t, o) == op' = [op EXCEPT ![t] = o]

Fresh(id) ==
    /\ \A n \in DOMAIN log : log[n].id # id
    /\ \A t \in Callers : op[t].step = "submit" => op[t].id # id

(* submit: the shutdown flag is read before the lock is taken.  (A call    *)
(* that finds it set returns ShuttingDown and changes nothing.)            *)
SubmitBegin(t, id, p) ==
    /\ Free(t)
    /\ Len(log) < MaxSubmits
    /\ MayReuse \/ Fresh(id)
    /\ ~closed
    /\ Now(t, [step |-> "submit", id |-> id, priority |-> p])
    /\ UNCHANGED <<queueVars, notifyVars, closed, drained, pc>>

SubmitQueueFull(t) ==
    /\ op[t].step = "submit"
    /\ Length >= Capacity
    /\ Now(t, Idle)
    /\ UNCHANGED <<queueVars, notifyVars, closed, drained, pc>>

SubmitPush(t) ==
    /\ op[t].step = "submit"
    /\ Length < Capacity
    /\ log' = Append(log, [id |-> op[t].id, priority |-> op[t].priority,
                           fate |-> "queued"])
    /\ bucket' = [bucket EXCEPT ![op[t].priority] = Append(@, Len(log) + 1)]
    /\ known' = known \cup {op[t].id}
    /\ Now(t, [step |-> "notify"])
    /\ UNCHANGED <<cancelled, notifyVars, closed, drained, pc>>

(* Mutant: nobody is notified unless somebody is registered.               *)
SubmitNotifyRegistered(t) ==
    /\ op[t].step = "notify"
    /\ IF waiters # <<>> THEN NotifyOne(waiters) ELSE UNCHANGED notifyVars
    /\ Now(t, Idle)
    /\ UNCHANGED <<queueVars, closed, drained, pc>>

(* The lock is dropped before the notification.                            *)
SubmitNotify(t) ==
    /\ op[t].step = "notify"
    /\ NotifyOne(waiters)
    /\ Now(t, Idle)
    /\ UNCHANGED <<queueVars, closed, drained, pc>>

(* Mutant: cancel accepts an id it never saw.                              *)
CancellableAlways(id) == TRUE

Cancellable(id) == id \in known

(* cancel: the flag first, then the lock.                                  *)
CancelBegin(t, id) ==
    /\ Free(t)
    /\ ~closed
    /\ Now(t, [step |-> "cancel", id |-> id])
    /\ UNCHANGED <<queueVars, notifyVars, closed, drained, pc>>

(* NotFound for an id that is not known; otherwise the id joins the        *)
(* skip-set and its item stays where it is.                                *)
CancelMark(t) ==
    /\ op[t].step = "cancel"
    /\ Now(t, Idle)
    /\ IF Cancellable(op[t].id)
       THEN /\ cancelled' = cancelled \cup {op[t].id}
            /\ log' = [n \in DOMAIN log |->
                         IF log[n].id = op[t].id /\ log[n].fate = "queued"
                         THEN [log[n] EXCEPT !.fate = "cancelled"]
                         ELSE log[n]]
       ELSE UNCHANGED <<cancelled, log>>
    /\ UNCHANGED <<bucket, known, notifyVars, closed, drained, pc>>

ShutdownBegin(t) ==
    /\ Free(t)
    /\ closed' = TRUE
    /\ Now(t, [step |-> "wake"])
    /\ UNCHANGED <<queueVars, notifyVars, drained, pc>>

(* Mutant: the shutdown wakes one consumer, not all of them.               *)
ShutdownWakeOne(t) ==
    /\ op[t].step = "wake"
    /\ NotifyOne(waiters)
    /\ Now(t, Idle)
    /\ UNCHANGED <<queueVars, closed, drained, pc>>

ShutdownWake(t) ==
    /\ op[t].step = "wake"
    /\ NotifyAll
    /\ Now(t, Idle)
    /\ UNCHANGED <<queueVars, closed, drained, pc>>

-----------------------------------------------------------------------------
(* Consumers: next(), and the timeout of next_blocking()                   *)

Goto(c, place) == pc' = [pc EXCEPT ![c] = place]

(* A new turn of the loop: the old Notified is gone, a new one exists.     *)
Rearm(c) ==
    /\ Goto(c, "armed")
    /\ signal' = [signal EXCEPT ![c] = "none"]

NextCall(c) ==
    /\ pc[c] = "out"
    /\ Rearm(c)
    /\ UNCHANGED <<queueVars, closed, drained, op, waiters, permit>>

(* pop_next found an item: the slots before it are skipped and gone.       *)
NextItem(c) ==
    /\ pc[c] = "armed"
    /\ \E s \in Slot :
          /\ IsNext(s)
          /\ Popped({t \in Slot : t = s \/ Before(t, s)})
          /\ bucket' = Rest(s)
          /\ log' = [log EXCEPT ![Ticket(s)].fate = "delivered"]
    /\ Goto(c, "out")
    /\ signal' = [signal EXCEPT ![c] = "none"]
    /\ UNCHANGED <<closed, drained, op, waiters, permit>>

(* pop_next emptied every bucket without finding one.  The flag is read    *)
(* under the same lock.                                                    *)
NextEmpty(c) ==
    /\ pc[c] = "armed"
    /\ \A s \in Slot : Skipped(s)
    /\ Popped(Slot)
    /\ bucket' = [p \in Priority |-> <<>>]
    /\ drained' = (drained \/ closed)
    /\ IF closed
       THEN /\ Goto(c, "out")
            /\ signal' = [signal EXCEPT ![c] = "none"]
       ELSE /\ Goto(c, "empty")
            /\ UNCHANGED signal
    /\ UNCHANGED <<log, closed, op, waiters, permit>>

(* The first poll of the future: a stored permit, or a notify_waiters      *)
(* since its creation, completes it; otherwise it is registered.           *)
AwaitPermit(c) ==
    /\ pc[c] = "empty"
    /\ permit
    /\ permit' = FALSE
    /\ Rearm(c)
    /\ UNCHANGED <<queueVars, closed, drained, op, waiters>>

AwaitSignalled(c) ==
    /\ pc[c] = "empty"
    /\ ~permit
    /\ signal[c] = "all"
    /\ Rearm(c)
    /\ UNCHANGED <<queueVars, closed, drained, op, waiters, permit>>

AwaitRegister(c) ==
    /\ pc[c] = "empty"
    /\ ~permit
    /\ signal[c] = "none"
    /\ Goto(c, "waiting")
    /\ waiters' = Append(waiters, c)
    /\ UNCHANGED <<queueVars, closed, drained, op, permit, signal>>

Wake(c) ==
    /\ pc[c] = "waiting"
    /\ signal[c] # "none"
    /\ Rearm(c)
    /\ UNCHANGED <<queueVars, closed, drained, op, waiters, permit>>

(* next_blocking gives up and drops the future.  Dropping a future that    *)
(* notify_one has already chosen passes the wake-up on.                    *)
Timeout(c) ==
    /\ pc[c] = "waiting"
    /\ Goto(c, "out")
    /\ IF signal[c] = "one" /\ waiters # <<>>
       THEN /\ signal' = [signal EXCEPT ![c] = "none", ![Head(waiters)] = "one"]
            /\ waiters' = Tail(waiters)
            /\ UNCHANGED permit
       ELSE /\ signal' = [signal EXCEPT ![c] = "none"]
            /\ waiters' = Without(c)
            /\ permit' = (permit \/ signal[c] = "one")
    /\ UNCHANGED <<queueVars, closed, drained, op>>

-----------------------------------------------------------------------------

Init ==
    /\ log = <<>>
    /\ closed = FALSE
    /\ drained = FALSE
    /\ bucket = [p \in Priority |-> <<>>]
    /\ cancelled = {}
    /\ known = {}
    /\ op = [t \in Callers |-> Idle]
    /\ pc = [c \in Consumers |-> "out"]
    /\ waiters = <<>>
    /\ permit = FALSE
    /\ signal = [c \in Consumers |-> "none"]

(* What a caller does on its own once the call has begun.                  *)
Proceed(t) ==
    \/ SubmitQueueFull(t)
    \/ SubmitPush(t)
    \/ SubmitNotify(t)
    \/ CancelMark(t)
    \/ ShutdownWake(t)

(* What a consumer does on its own once it called next().                  *)
Loop(c) ==
    \/ NextItem(c)
    \/ NextEmpty(c)
    \/ AwaitPermit(c)
    \/ AwaitSignalled(c)
    \/ AwaitRegister(c)
    \/ Wake(c)

Next ==
    \/ \E t \in Callers :
          \/ \E id \in Ids, p \in Priority : SubmitBegin(t, id, p)
          \/ \E id \in Ids : CancelBegin(t, id)
          \/ ShutdownBegin(t)
          \/ Proceed(t)
    \/ \E c \in Consumers : NextCall(c) \/ Loop(c) \/ Timeout(c)

Spec == Init /\ [][Next]_vars

(* Threads are scheduled by the operating system: a call that has begun    *)
(* ends, and a consumer in next() keeps running unless it sleeps.  The     *)
(* driver calls next again after each item.  Nobody has to submit, cancel, *)
(* shut down, or time out.                                                 *)
Fairness ==
    /\ \A t \in Callers : WF_vars(Proceed(t))
    /\ \A c \in Consumers : WF_vars(Loop(c)) /\ WF_vars(NextCall(c))

FairSpec == Spec /\ Fairness

-----------------------------------------------------------------------------
(* Properties *)

PQ == INSTANCE PriorityQueue

(* The same promise without its last clause: what the Rust API keeps when  *)
(* nothing orders a submit against a shutdown.                             *)
OpenPQ == INSTANCE PriorityQueue WITH drained <- FALSE

Queued == PQ!Queued

(* Every request that was accepted and neither handed out nor cancelled is *)
(* in the bucket of its priority: no skip, pop or drain of pop_next        *)
(* swallows a live request.                                                *)
NothingLost ==
    \A n \in Queued : \E s \in Slot : Ticket(s) = n /\ s[1] = log[n].priority

(* cancel() is final: next() never hands out a request whose cancellation  *)
(* was confirmed, and no request is handed out twice.                      *)
CancelIsFinal ==
    [][\A n \in DOMAIN log \ Queued : log'[n].fate = log[n].fate]_vars

(* The two id sets of Buckets agree with the queue: cancel() knows exactly *)
(* the ids that are still queued, and the skip-set holds only ids whose    *)
(* item next() has still to pass, so neither set can grow with the history *)
(* of the process.                                                         *)
SetsMatchQueue ==
    /\ known = {IdAt(s) : s \in Slot}
    /\ cancelled = {IdAt(s) : s \in {t \in Slot : Ticket(t) \notin Queued}}

(* len(), the number submit compares with the capacity, is the number of   *)
(* live requests: cancelled items that are still in a bucket do not count. *)
LenIsLive == Length = Cardinality(Queued)

(* The strengthening that makes the two properties above inductive when    *)
(* ids are unique: an id belongs to one accepted request and to no         *)
(* submission that is still on its way; a bucket holds accepted requests   *)
(* of its priority, none of them handed out, in the order of acceptance.   *)
UniqueIds ==
    /\ \A m, n \in DOMAIN log : log[m].id = log[n].id => m = n
    /\ \A t \in Callers : op[t].step = "submit" =>
          /\ \A n \in DOMAIN log : log[n].id # op[t].id
          /\ \A u \in Callers \ {t} :
                op[u].step = "submit" => op[u].id # op[t].id

Filed ==
    \A s \in Slot :
        /\ Ticket(s) \in DOMAIN log
        /\ log[Ticket(s)].priority = s[1]
        /\ log[Ticket(s)].fate # "delivered"

Ordered ==
    \A s, t \in Slot : s[1] = t[1] /\ s[2] < t[2] => Ticket(s) < Ticket(t)

(* The inductive invariant of the scheduler with unique ids.               *)
IndInv == TypeOK /\ UniqueIds /\ Filed /\ Ordered /\ NothingLost /\ SetsMatchQueue

(* The scheduler implements the priority queue.                            *)
ImplementsQueue == PQ!Spec

(* Rust threads included, it implements the queue but for what a None of   *)
(* next() promises about submits that were already under way.              *)
ImplementsOpenQueue == OpenPQ!Spec

Awake(c)  == pc[c] # "out" /\ ~Asleep(c)

(* While a live request waits, no consumer is left asleep with nobody      *)
(* about to wake one: there is a permit, a submitter that has still to     *)
(* notify, or a consumer that is awake inside next().                      *)
NoLostWakeup ==
    (Queued # {} /\ \E c \in Consumers : Asleep(c)) =>
        \/ permit
        \/ \E t \in Callers : op[t].step = "notify"
        \/ \E c \in Consumers : Awake(c)

(* Every accepted request is handed out or cancelled.                      *)
EventuallyServed == \A n \in 1..MaxSubmits : n \in Queued ~> n \notin Queued

(* A shutdown gets every sleeping consumer out of its sleep.               *)
ShutdownWakesAll ==
    \A c \in Consumers : (closed /\ Asleep(c)) ~> ~Asleep(c)

=============================================================================
