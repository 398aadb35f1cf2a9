------------------------------- MODULE Serving -------------------------------
(***************************************************************************)
(* The v2 path of src/repercep/serving: the HTTP handlers and the lifespan *)
(* of app.py, the scheduler adapter and the engine driver of driver.py,    *)
(* around the Router and the priority queue that both schedulers implement.*)
(*                                                                         *)
(* Two threads run: the event loop, which takes one task at a time, and    *)
(* the driver.  The driver hands each push to the loop as a coroutine and  *)
(* waits for its answer, at most thirty seconds; the push itself runs on a *)
(* worker of the Rust router.  Stopping the application blocks the loop    *)
(* for as long as it waits for the driver.                                 *)
(***************************************************************************)
EXTENDS Integers, Sequences, FiniteSets

CONSTANTS
    Ids,         \* request ids; the handler mints one per request
    Priorities,  \* the priorities that clients ask for
    Capacity,    \* scheduler_capacity
    Depth,       \* frame_queue_depth
    Pushers,     \* pushes that may be under way at once
    NumFrames,   \* params.num_frames of every request
    Totals,      \* how many frames the engine may turn out to yield
    MaxIndex,    \* bound: the highest frame index, markers included
    MayStop      \* the application may be stopped

ASSUME ServingAssumption ==
    /\ Priorities \subseteq {"high", "normal", "low"}
    /\ Depth \in Nat \ {0} /\ NumFrames \in Nat \ {0} /\ MaxIndex \in Nat
    /\ \A total \in Totals : total \in 0..MaxIndex
    /\ MayStop \in BOOLEAN

VARIABLES
    (* Router *)
    state, last, sender, rx, channel, submitted, closed, push, sent, got,
    (* scheduler *)
    log,         \* the accepted requests and what became of them
    qclosed,     \* the scheduler was shut down
    drained,     \* next_blocking returned None after that
    (* application *)
    staged,      \* _SchedulerAdapter._payloads
    loop,        \* what the event loop is in the middle of
    client,      \* [Ids -> what the client of the request sees]
    stopping,    \* EngineDriver._stop
    driver,      \* the driver thread
    pending,     \* push coroutines the loop has not started
    answers      \* results of pushes the loop has not passed on

routerVars == <<state, last, sender, rx, channel, submitted, closed, push,
                sent, got>>
queueVars  == <<log, qclosed, drained>>
appVars    == <<staged, loop, client, stopping, driver, pending, answers>>
vars       == <<routerVars, queueVars, appVars>>

R  == INSTANCE Router WITH Concurrent <- TRUE
PQ == INSTANCE PriorityQueue WITH closed <- qclosed

-----------------------------------------------------------------------------

Free == [task |-> "free"]

Loop ==
    {Free, [task |-> "joining"]}
    \cup [task : {"submitting", "subscribing", "cancelling"}, id : Ids]

(* "poll": about to look at the stop flag; "next": in next_blocking;       *)
(* "engine": in the engine's generator; "frame": it yielded one; "marker": *)
(* it ended early; "push", "pushMarker": waiting for an answer; "cancel":  *)
(* about to cancel the request.                                            *)
Places == {"poll", "next", "engine", "frame", "marker", "push", "pushMarker",
           "cancel", "stopped"}

Working == Places \ {"poll", "next", "stopped"}

(* How many frames the engine yields for the request of the driver, unless *)
(* it raises.  driver.made keeps it for every request (history).           *)
Total == driver.made[driver.id]

(* Every variable keeps its type; a frame the driver pushes, its marker    *)
(* included, has an index within the bound.                                *)
TypeOK ==
    /\ R!TypeOK
    /\ log \in Seq(PQ!Request)
    /\ qclosed \in BOOLEAN
    /\ drained \in BOOLEAN
    /\ staged \subseteq Ids
    /\ loop \in Loop
    /\ client \in [Ids -> {"new", "accepting", "streaming", "refused", "ended", "gone"}]
    /\ stopping \in BOOLEAN
    /\ driver.at \in Places
    /\ driver.made \in [Ids -> 0..MaxIndex]
    /\ driver.at \in Working => driver.id \in Ids /\ Total \in Totals
    /\ pending \subseteq [id : Ids, frame : R!Frame]
    /\ answers \subseteq [id : Ids, ok : BOOLEAN]

At(place) == driver.at = place
Go(place) == driver' = [driver EXCEPT !.at = place]

-----------------------------------------------------------------------------
(* POST /v2/generate/stream.  The handler awaits nothing until it has      *)
(* subscribed, so no other task of the loop runs in between; the driver    *)
(* does.                                                                   *)

HandlerAccept(id) ==
    /\ loop = Free
    /\ client[id] = "new"
    /\ R!AcceptInsert(id)
    /\ staged' = staged \cup {id}
    /\ client' = [client EXCEPT ![id] = "accepting"]
    /\ loop' = [task |-> "submitting", id |-> id]
    /\ UNCHANGED <<queueVars, stopping, driver, pending, answers>>

Discarded(payloads, id) == payloads \ {id}

(* The router is shutting down: what was staged is discarded.              *)
HandlerClosed(id) ==
    /\ loop = Free
    /\ client[id] = "new"
    /\ closed
    /\ staged' = Discarded(staged \cup {id}, id)
    /\ client' = [client EXCEPT ![id] = "refused"]
    /\ UNCHANGED <<routerVars, queueVars, loop, stopping, driver, pending, answers>>

(* The adapter takes the payload and hands it to the scheduler.            *)
HandlerSubmit(id) ==
    /\ loop = [task |-> "submitting", id |-> id]
    /\ ~qclosed
    /\ \E p \in Priorities : PQ!Put(id, p)
    /\ R!AcceptSubmit(id)
    /\ staged' = staged \ {id}
    /\ loop' = [task |-> "subscribing", id |-> id]
    /\ UNCHANGED <<client, stopping, driver, pending, answers>>

(* The scheduler is full: accept rolls back, and the client gets a 503.    *)
HandlerFull(id) ==
    /\ loop = [task |-> "submitting", id |-> id]
    /\ Cardinality(PQ!Queued) >= Capacity
    /\ R!AcceptRollBack(id)
    /\ staged' = Discarded(staged \ {id}, id)
    /\ client' = [client EXCEPT ![id] = "refused"]
    /\ loop' = Free
    /\ UNCHANGED <<queueVars, stopping, driver, pending, answers>>

HandlerSubscribe(id) ==
    /\ loop = [task |-> "subscribing", id |-> id]
    /\ R!Subscribe(id)
    /\ client' = [client EXCEPT ![id] = "streaming"]
    /\ loop' = Free
    /\ UNCHANGED <<queueVars, staged, stopping, driver, pending, answers>>

(* The driver has already cancelled the request, and the receiver is gone: *)
(* the handler fails.                                                      *)
HandlerTooLate(id) ==
    /\ loop = [task |-> "subscribing", id |-> id]
    /\ rx[id] # "parked"
    /\ client' = [client EXCEPT ![id] = "refused"]
    /\ loop' = Free
    /\ UNCHANGED <<routerVars, queueVars, staged, stopping, driver, pending, answers>>

(* body_iter hands the frames to the client.                               *)
ClientReads(id) ==
    /\ loop # [task |-> "joining"]
    /\ R!Receive(id)
    /\ UNCHANGED <<queueVars, appVars>>

ClientEnds(id) ==
    /\ loop # [task |-> "joining"]
    /\ R!ReceiveEnd(id)
    /\ client' = [client EXCEPT ![id] = "ended"]
    /\ UNCHANGED <<queueVars, staged, loop, stopping, driver, pending, answers>>

(* The client hangs up: body_iter is cancelled, which its "except          *)
(* Exception" does not see, and the receiver is dropped with it.           *)
ClientHangsUp(id) ==
    /\ loop # [task |-> "joining"]
    /\ R!DropReceiver(id)
    /\ client' = [client EXCEPT ![id] = "gone"]
    /\ UNCHANGED <<queueVars, staged, loop, stopping, driver, pending, answers>>

-----------------------------------------------------------------------------
(* POST /v2/generate/{id}/cancel: the router first, then the scheduler.    *)

CancelRoute(id) ==
    /\ loop = Free
    /\ R!Cancel(id)
    /\ loop' = [task |-> "cancelling", id |-> id]
    /\ UNCHANGED <<queueVars, staged, client, stopping, driver, pending, answers>>

(* The scheduler may not know the id any more, which the adapter ignores.  *)
CancelForward(id) ==
    /\ loop = [task |-> "cancelling", id |-> id]
    /\ PQ!Cancel(id)
    /\ loop' = Free
    /\ UNCHANGED <<routerVars, staged, client, stopping, driver, pending, answers>>

-----------------------------------------------------------------------------
(* The driver thread *)

DriverPoll ==
    /\ At("poll")
    /\ Go(IF stopping THEN "stopped" ELSE "next")
    /\ UNCHANGED <<routerVars, queueVars, staged, loop, client, stopping, pending, answers>>

DriverTake ==
    /\ At("next")
    /\ \E n \in DOMAIN log, total \in Totals :
          /\ PQ!Take(n)
          /\ driver' = [at |-> "engine", id |-> log[n].id, index |-> -1,
                        made |-> [driver.made EXCEPT ![log[n].id] = total]]
    /\ UNCHANGED <<routerVars, staged, loop, client, stopping, pending, answers>>

DriverIdle ==
    /\ At("next")
    /\ PQ!Queued = {}
    /\ IF qclosed THEN PQ!Finish ELSE UNCHANGED queueVars
    /\ Go("poll")
    /\ UNCHANGED <<routerVars, staged, loop, client, stopping, pending, answers>>

EngineYields ==
    /\ At("engine")
    /\ driver.index + 1 < Total
    /\ driver' = [driver EXCEPT !.at = "frame", !.index = @ + 1]
    /\ UNCHANGED <<routerVars, queueVars, staged, loop, client, stopping, pending, answers>>

(* Mutant: an exception of the engine is only logged.                      *)
EngineRaisesLogged ==
    /\ At("engine")
    /\ Go("poll")
    /\ UNCHANGED <<routerVars, queueVars, staged, loop, client, stopping, pending, answers>>

(* The engine, or the validation of the payload before it, raises.         *)
EngineRaises ==
    /\ At("engine")
    /\ Go("cancel")
    /\ UNCHANGED <<routerVars, queueVars, staged, loop, client, stopping, pending, answers>>

(* The clip is over; one that stopped short of num_frames gets a marker.   *)
EngineDone ==
    /\ At("engine")
    /\ driver.index + 1 = Total
    /\ Go(IF driver.index >= 0 /\ driver.index # NumFrames - 1
          THEN "marker" ELSE "poll")
    /\ UNCHANGED <<routerVars, queueVars, staged, loop, client, stopping, pending, answers>>

Spawn(index, final) ==
    pending' = pending \cup
        {[id |-> driver.id, frame |-> [index |-> index, final |-> final]]}

(* Mutant: the final frame is taken to be that of the request.             *)
IsFinalOfRequest == driver.index = NumFrames - 1

IsFinal == driver.index = Total - 1

DriverFrame ==
    /\ At("frame")
    /\ CASE stopping -> Go("cancel") /\ UNCHANGED pending
         [] ~stopping /\ state[driver.id] = "Cancelled" ->
              Go("poll") /\ UNCHANGED pending
         [] OTHER -> Go("push") /\ Spawn(driver.index, IsFinal)
    /\ UNCHANGED <<routerVars, queueVars, staged, loop, client, stopping, answers>>

DriverMarker ==
    /\ At("marker")
    /\ Go("pushMarker")
    /\ Spawn(driver.index + 1, TRUE)
    /\ UNCHANGED <<routerVars, queueVars, staged, loop, client, stopping, answers>>

Waiting == driver.at \in {"push", "pushMarker"}

(* Mutant: a push that timed out is tried again.                           *)
TimeoutRetries ==
    /\ Waiting
    /\ Go(IF At("push") THEN "frame" ELSE "marker")
    /\ UNCHANGED <<routerVars, queueVars, staged, loop, client, stopping, pending, answers>>

(* Thirty seconds without an answer.  The coroutine is left to itself.     *)
DriverTimeout ==
    /\ Waiting
    /\ Go("cancel")
    /\ UNCHANGED <<routerVars, queueVars, staged, loop, client, stopping, pending, answers>>

(* _cancel_silently.  The scheduler no longer has the request.             *)
DriverCancel ==
    /\ At("cancel")
    /\ IF ~closed /\ R!Cancellable(driver.id) THEN R!Cancel(driver.id)
       ELSE UNCHANGED routerVars
    /\ Go("poll")
    /\ UNCHANGED <<queueVars, staged, loop, client, stopping, pending, answers>>

-----------------------------------------------------------------------------
(* Pushes: started and answered by the event loop, run by a tokio worker   *)

Answer(id, ok) == answers' = answers \cup {[id |-> id, ok |-> ok]}

LoopStarts(p) ==
    /\ loop = Free
    /\ \E c \in pending :
          /\ pending' = pending \ {c}
          /\ R!PushBegin(p, c.id, c.frame)
    /\ UNCHANGED <<queueVars, staged, loop, client, stopping, driver, answers>>

(* ensure_open fails.                                                      *)
LoopStartsClosed ==
    /\ loop = Free
    /\ closed
    /\ \E c \in pending :
          /\ pending' = pending \ {c}
          /\ Answer(c.id, FALSE)
    /\ UNCHANGED <<routerVars, queueVars, staged, loop, client, stopping, driver>>

PushWorks(p) ==
    /\ \/ R!PushValidate(p) /\ UNCHANGED answers
       \/ (R!PushRefused(p) \/ R!PushFails(p)) /\ Answer(push[p].id, FALSE)
       \/ /\ R!PushSend(p)
          /\ IF push[p].frame.final THEN UNCHANGED answers
             ELSE Answer(push[p].id, TRUE)
       \/ R!PushComplete(p) /\ Answer(push[p].id, TRUE)
    /\ UNCHANGED <<queueVars, staged, loop, client, stopping, driver, pending>>

(* Mutant: a failed push is ignored.                                       *)
AfterPushIgnored(ok) == IF At("push") THEN "engine" ELSE "poll"

AfterPush(ok) ==
    IF ~ok THEN "cancel" ELSE IF At("push") THEN "engine" ELSE "poll"

(* An answer nobody waits for any more is dropped.                         *)
LoopAnswers ==
    /\ loop = Free
    /\ \E a \in answers :
          /\ answers' = answers \ {a}
          /\ IF Waiting /\ driver.id = a.id THEN Go(AfterPush(a.ok))
             ELSE UNCHANGED driver
    /\ UNCHANGED <<routerVars, queueVars, staged, loop, client, stopping, pending>>

-----------------------------------------------------------------------------
(* The lifespan of the application *)

(* driver.stop(): the flag, the scheduler, and a join on the event loop.   *)
StopBegin ==
    /\ MayStop
    /\ loop = Free
    /\ ~stopping
    /\ stopping' = TRUE
    /\ PQ!Close
    /\ loop' = [task |-> "joining"]
    /\ UNCHANGED <<routerVars, staged, client, driver, pending, answers>>

(* The driver has stopped, or five seconds have passed.                    *)
StopEnd ==
    /\ loop = [task |-> "joining"]
    /\ R!Shutdown
    /\ loop' = Free
    /\ UNCHANGED <<queueVars, staged, client, stopping, driver, pending, answers>>

-----------------------------------------------------------------------------

Init ==
    /\ R!Init
    /\ log = <<>>
    /\ qclosed = FALSE
    /\ drained = FALSE
    /\ staged = {}
    /\ loop = Free
    /\ client = [id \in Ids |-> "new"]
    /\ stopping = FALSE
    /\ driver = [at |-> "poll", made |-> [id \in Ids |-> 0]]
    /\ pending = {}
    /\ answers = {}

Handler ==
    \E id \in Ids :
        \/ HandlerSubmit(id)
        \/ HandlerFull(id)
        \/ HandlerSubscribe(id)
        \/ HandlerTooLate(id)
        \/ CancelForward(id)

Driver ==
    \/ DriverPoll
    \/ DriverTake
    \/ DriverIdle
    \/ EngineYields
    \/ EngineRaises
    \/ EngineDone
    \/ DriverFrame
    \/ DriverMarker
    \/ DriverTimeout
    \/ DriverCancel

Next ==
    \/ \E id \in Ids :
          \/ HandlerAccept(id)
          \/ HandlerClosed(id)
          \/ ClientReads(id)
          \/ ClientEnds(id)
          \/ ClientHangsUp(id)
          \/ CancelRoute(id)
    \/ Handler
    \/ Driver
    \/ \E p \in Pushers : LoopStarts(p) \/ PushWorks(p)
    \/ LoopStartsClosed
    \/ LoopAnswers
    \/ StopBegin
    \/ StopEnd

Spec == Init /\ [][Next]_vars

(* The loop and the driver run, the engine yields, ends or raises, tokio   *)
(* runs what was started, and a client reads on until it hangs up.  Nobody *)
(* has to send a request, cancel, hang up, or stop the application.        *)
Fairness ==
    /\ WF_vars(Handler)
    /\ WF_vars(Driver)
    /\ \A p \in Pushers : WF_vars(LoopStarts(p)) /\ WF_vars(PushWorks(p))
    /\ WF_vars(LoopStartsClosed)
    /\ WF_vars(LoopAnswers)
    /\ WF_vars(StopEnd)
    /\ \A id \in Ids : WF_vars(ClientReads(id) \/ ClientEnds(id))

FairSpec == Spec /\ Fairness

-----------------------------------------------------------------------------
(* Properties *)

(* The driver, the handlers and the lifespan use the router the way it     *)
(* expects: in particular two pushes of one request are never under way at *)
(* once, although a push that timed out goes on after the driver left it.  *)
OnePush == INSTANCE Router WITH Concurrent <- FALSE

(* Every step of the application is a step of the router, or none, under   *)
(* that discipline.                                                        *)
UsesRouter == OnePush!Spec

Waits(id) == \E n \in PQ!Queued : log[n].id = id
Driven(id) == driver.at \in Working /\ driver.id = id

(* No request is forgotten: while it is live in the router, it waits in    *)
(* the scheduler or the driver is at work on it, until the router is shut  *)
(* (see StopEndsStreams).                                                  *)
NobodyForgotten ==
    ~closed => \A id \in submitted : state[id] \in R!Live => Waits(id) \/ Driven(id)

(* A client whose request completed has been sent every frame the engine   *)
(* made, in order, and the end only after the last.                        *)
WholeClip ==
    \A id \in Ids :
        client[id] = "ended" /\ state[id] = "Complete" =>
            /\ \A i \in DOMAIN sent[id] :
                  /\ sent[id][i].index = i - 1
                  /\ sent[id][i].final <=> i = Len(sent[id])
            /\ Len(sent[id]) = driver.made[id]

(* Every client that streams sees the end of its stream or hangs up.       *)
StreamsEnd == \A id \in Ids : client[id] = "streaming" ~> client[id] # "streaming"

(* The request of a client that hung up does not stay live for ever: the   *)
(* driver finds out when it pushes.                                        *)
HangUpSettles ==
    \A id \in Ids : client[id] = "gone" ~> state[id] \in R!Terminal

(* "mark the router shutting down so any in-flight subscribers see         *)
(* end-of-stream cleanly": the streams open when the application stops end.*)
StopEndsStreams ==
    \A id \in Ids : (stopping /\ client[id] = "streaming") ~> client[id] # "streaming"

=============================================================================
