---------------------------- MODULE RouterFallback ----------------------------
(***************************************************************************)
(* The router of runtime/router.py, used when the native one is missing: a *)
(* dictionary of entries, each with an asyncio.Queue.  The end of a stream *)
(* is a sentinel in that queue, or, when the queue was full, the flag      *)
(* `closed' alone.                                                         *)
(*                                                                         *)
(* Every call runs on the event loop and is one step of it, except cancel, *)
(* which the engine driver calls from its own thread.  With Preempts, that *)
(* call may fall between two bytecodes of a step of the loop; `loop' is    *)
(* the step that is half done.                                             *)
(***************************************************************************)
EXTENDS Integers, Sequences, FiniteSets

CONSTANTS
    StreamIds, \* request identifiers
    Depth,     \* per_request_queue_depth
    MaxIndex,  \* bound: frame indices are 0..MaxIndex
    Preempts   \* the driver's cancel may interrupt a step of the loop

ASSUME RouterFallbackAssumption ==
    Depth \in Nat \ {0} /\ MaxIndex \in Nat /\ Preempts \in BOOLEAN

VARIABLES
    state,       \* [StreamIds -> _Entry.state, or "absent"]
    last,        \* [StreamIds -> _Entry.last_frame_index, or NoIndex]
    queue,       \* [StreamIds -> _Entry.queue: frames and sentinels]
    entryClosed, \* [StreamIds -> _Entry.closed]
    reader,      \* [StreamIds -> "none", "idle", "waiting" or "woken" in get(), "ended",
                 \* "gone"]
    shut,        \* _shutdown
    loop,        \* the step of the loop that is half done
    torn,        \* history: the ids a cancel fell into the half done get() of
    sent,        \* history: [StreamIds -> frames put where the reader will meet them]
    got          \* history: [StreamIds -> how many of them it has]

routerVars == <<state, last, queue, entryClosed, reader, shut, loop, torn, sent, got>>

Indices  == 0..MaxIndex
NoIndex  == -1
Frame    == [index : Indices, final : BOOLEAN]
Sentinel == [sentinel |-> TRUE]
Terminal == {"Complete", "Cancelled"}

Resting == [at |-> "rest"]

RouterTypeOK ==
    /\ state \in [StreamIds -> {"absent", "Scheduled", "Streaming"} \cup Terminal]
    /\ last \in [StreamIds -> Indices \cup {NoIndex}]
    /\ queue \in [StreamIds -> Seq(Frame \cup {Sentinel})]
    /\ \A id \in StreamIds : Len(queue[id]) <= Depth
    /\ entryClosed \in [StreamIds -> BOOLEAN]
    /\ reader \in [StreamIds -> {"none", "idle", "waiting", "woken", "ended", "gone"}]
    /\ shut \in BOOLEAN
    /\ loop \in {Resting} \cup [at : {"put"}, id : StreamIds, frame : Frame]
                          \cup [at : {"get"}, id : StreamIds]
    /\ torn \subseteq StreamIds

-----------------------------------------------------------------------------

(* Nothing that is put now will reach the reader.                          *)
Sealed(id) ==
    reader[id] \in {"ended", "gone"} \/ \E i \in DOMAIN queue[id] : queue[id][i] = Sentinel

Full(id) == Len(queue[id]) >= Depth

(* put_nowait(_SENTINEL) with QueueFull suppressed.                        *)
WithSentinel(id) == IF Full(id) THEN queue[id] ELSE Append(queue[id], Sentinel)

(* A duplicate id is refused; a scheduler that refuses leaves no entry.    *)
Accept(id) ==
    /\ loop = Resting /\ ~shut
    /\ state[id] = "absent"
    /\ state' = [state EXCEPT ![id] = "Scheduled"]
    /\ UNCHANGED <<last, queue, entryClosed, reader, shut, loop, torn, sent, got>>

Subscribe(id) ==
    /\ loop = Resting
    /\ state[id] # "absent" /\ reader[id] = "none"
    /\ reader' = [reader EXCEPT ![id] = "idle"]
    /\ UNCHANGED <<state, last, queue, entryClosed, shut, loop, torn, sent, got>>

(* push_frame up to the last check.  It does not ask whether the router is *)
(* shut.  A push that is refused changes nothing.                          *)
PushCheck(id, f) ==
    /\ loop = Resting
    /\ state[id] \notin Terminal \cup {"absent"}
    /\ f.index > last[id]
    /\ ~Full(id)
    /\ loop' = [at |-> "put", id |-> id, frame |-> f]
    /\ UNCHANGED <<state, last, queue, entryClosed, reader, shut, torn, sent, got>>

(* Whoever waits in get() for one of these is woken; the loop turns soon,  *)
(* since its timers never stop (external: asyncio, uvicorn).               *)
Woken(ids) ==
    reader' = [id \in StreamIds |->
        IF id \in ids /\ reader[id] = "waiting" THEN "woken" ELSE reader[id]]

(* The rest of push_frame: put_nowait raises if the queue was filled in    *)
(* between, after the entry has been changed.                              *)
PushPut ==
    /\ loop.at = "put"
    /\ LET id == loop.id  f == loop.frame IN
         /\ last' = [last EXCEPT ![id] = f.index]
         /\ state' = [state EXCEPT ![id] = IF f.final THEN "Complete" ELSE "Streaming"]
         /\ entryClosed' = [entryClosed EXCEPT ![id] = @ \/ f.final]
         /\ queue' = [queue EXCEPT ![id] = IF Full(id) THEN @ ELSE Append(@, f)]
         /\ sent' = [sent EXCEPT ![id] = IF Full(id) \/ Sealed(id) THEN @ ELSE Append(@, f)]
         /\ Woken({id})
    /\ loop' = Resting
    /\ UNCHANGED <<shut, torn, got>>

(* cancel, from a handler or from the driver's thread.                     *)
CancelStream(id) ==
    /\ loop = Resting \/ Preempts
    /\ state[id] \notin Terminal \cup {"absent"}
    /\ state' = [state EXCEPT ![id] = "Cancelled"]
    /\ entryClosed' = [entryClosed EXCEPT ![id] = TRUE]
    /\ queue' = [queue EXCEPT ![id] = WithSentinel(id)]
    /\ Woken({id})
    /\ torn' = IF loop = [at |-> "get", id |-> id] THEN torn \cup {id} ELSE torn
    /\ UNCHANGED <<last, shut, loop, sent, got>>

RouterShutdown ==
    /\ loop = Resting /\ ~shut
    /\ shut' = TRUE
    /\ LET known == {id \in StreamIds : state[id] # "absent"} IN
         /\ entryClosed' = [id \in StreamIds |-> entryClosed[id] \/ id \in known]
         /\ queue' = [id \in StreamIds |-> IF id \in known THEN WithSentinel(id) ELSE queue[id]]
         /\ Woken(known)
    /\ UNCHANGED <<state, last, loop, torn, sent, got>>

(* Mutant: the end is looked for in the queue only.                        *)
NeverDrained(id) == FALSE

(* Mutant: a closed stream ends at once.                                   *)
ClosedIsDrained(id) == entryClosed[id]

Drained(id) == entryClosed[id] /\ queue[id] = <<>>

(* What get() returns: a frame, or the sentinel that ends the stream.      *)
Take(id) ==
    /\ queue[id] # <<>>
    /\ queue' = [queue EXCEPT ![id] = Tail(@)]
    /\ LET frame == Head(queue[id]) # Sentinel IN
         /\ reader' = [reader EXCEPT ![id] = IF frame THEN "idle" ELSE "ended"]
         /\ got' = [got EXCEPT ![id] = IF frame THEN @ + 1 ELSE @]

(* __anext__ is called, or get() goes on behind its await.                 *)
ReadEnd(id) ==
    /\ loop = Resting /\ reader[id] = "idle" /\ Drained(id)
    /\ reader' = [reader EXCEPT ![id] = "ended"]
    /\ UNCHANGED <<state, last, queue, entryClosed, shut, loop, torn, sent, got>>

ReadItem(id) ==
    /\ loop = Resting
    /\ reader[id] = "woken" \/ (reader[id] = "idle" /\ ~Drained(id))
    /\ Take(id)
    /\ UNCHANGED <<state, last, entryClosed, shut, loop, torn, sent>>

(* get() sees an empty queue, and then puts its future among the getters.  *)
ReadEmpty(id) ==
    /\ loop = Resting
    /\ reader[id] = "idle" /\ ~Drained(id)
    /\ queue[id] = <<>>
    /\ loop' = [at |-> "get", id |-> id]
    /\ UNCHANGED <<state, last, queue, entryClosed, reader, shut, torn, sent, got>>

Register ==
    /\ loop.at = "get"
    /\ reader' = [reader EXCEPT ![loop.id] = "waiting"]
    /\ loop' = Resting
    /\ UNCHANGED <<state, last, queue, entryClosed, shut, torn, sent, got>>

(* The subscriber hangs up: its stream is dropped, at an await.            *)
Leave(id) ==
    /\ loop = Resting
    /\ reader[id] \in {"idle", "waiting", "woken"}
    /\ reader' = [reader EXCEPT ![id] = "gone"]
    /\ UNCHANGED <<state, last, queue, entryClosed, shut, loop, torn, sent, got>>

RouterInit ==
    /\ state = [id \in StreamIds |-> "absent"]
    /\ last = [id \in StreamIds |-> NoIndex]
    /\ queue = [id \in StreamIds |-> <<>>]
    /\ entryClosed = [id \in StreamIds |-> FALSE]
    /\ reader = [id \in StreamIds |-> "none"]
    /\ shut = FALSE
    /\ loop = Resting
    /\ torn = {}
    /\ sent = [id \in StreamIds |-> <<>>]
    /\ got = [id \in StreamIds |-> 0]

Read(id) == ReadEnd(id) \/ ReadItem(id) \/ ReadEmpty(id)

RouterNext ==
    \/ \E id \in StreamIds :
          Accept(id) \/ Subscribe(id) \/ CancelStream(id) \/ Read(id) \/ Leave(id)
    \/ \E id \in StreamIds, f \in Frame : PushCheck(id, f)
    \/ PushPut \/ Register \/ RouterShutdown

RouterSpec == RouterInit /\ [][RouterNext]_routerVars

(* The loop finishes its steps, and a subscriber goes on asking.           *)
Fairness ==
    /\ WF_routerVars(PushPut \/ Register)
    /\ \A id \in StreamIds : WF_routerVars(Read(id))

FairSpec == RouterSpec /\ Fairness

-----------------------------------------------------------------------------
(* Properties *)

Whole(id) == sent[id] # <<>> /\ sent[id][Len(sent[id])].final

Outcome(id) ==
    CASE Whole(id) -> "complete"
      [] ~Whole(id) /\ entryClosed[id] -> "cancelled"
      [] OTHER -> "open"

Reader(id) == IF reader[id] \in {"ended", "gone"} THEN reader[id] ELSE "open"

St == INSTANCE Streams WITH Ids <- StreamIds,
                            outcome <- [id \in StreamIds |-> Outcome(id)],
                            reader <- [id \in StreamIds |-> Reader(id)]

(* The fallback implements the same stream as the native router: a         *)
(* sentinel, or the flag that stands in for it, never overtakes a frame    *)
(* and never ends a stream that is open.                                   *)
ImplementsStreams == St!Spec

(* Whoever reads a stream that has been closed, by its final frame, by a   *)
(* cancellation or by shutdown, comes to its end, also when the queue was  *)
(* full and the sentinel was dropped, and whatever a cancel of the         *)
(* driver's thread interrupts, but for one place: the reader's get()       *)
(* between its look at the queue and its entry among those who wait.       *)
StreamEnds ==
    \A id \in StreamIds :
        (entryClosed[id] /\ reader[id] # "none" /\ id \notin torn)
            ~> reader[id] \in {"ended", "gone"}

(* What the frame stream is documented to do, without that place: it ends  *)
(* when the channel closes, by the final frame or by a cancel.             *)
CancelEndsStream ==
    \A id \in StreamIds :
        (entryClosed[id] /\ reader[id] # "none") ~> reader[id] \in {"ended", "gone"}

=============================================================================
