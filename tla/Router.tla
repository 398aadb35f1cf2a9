-------------------------------- MODULE Router --------------------------------
(***************************************************************************)
(* The per-request router of crates/repercep-router/src/lib.rs: a map of   *)
(* entries behind one mutex, a bounded channel per request, and a shutdown *)
(* flag behind another mutex.                                              *)
(*                                                                         *)
(* accept, subscribe, cancel and shutdown are called with the GIL held and *)
(* do not release it, except that accept calls the scheduler, which is     *)
(* Python code: accept is two steps, the others one each.  push_frame is a *)
(* future on a tokio worker: it checks the flag, validates and clones the  *)
(* sender under the lock, sends without it, and takes it again to complete *)
(* the request.  The channel closes when the last sender is gone, the      *)
(* clones of the pushes under way included.                                *)
(***************************************************************************)
EXTENDS Integers, Sequences, FiniteSets

CONSTANTS
    Ids,         \* request identifiers
    Pushers,     \* pushes that may be under way at once
    Depth,       \* per_request_queue_depth
    MaxIndex,    \* bound: frame indices are 0..MaxIndex
    Concurrent   \* several pushes of one request may be under way at once

ASSUME RouterAssumption ==
    /\ Depth \in Nat \ {0}
    /\ MaxIndex \in Nat
    /\ Concurrent \in BOOLEAN

VARIABLES
    state,       \* [Ids -> Entry.state, or "absent"]
    last,        \* [Ids -> Entry.last_frame_index, or None]
    sender,      \* [Ids -> is Entry.sender Some]
    rx,          \* [Ids -> where the receiver is]
    channel,     \* [Ids -> the frames buffered in the mpsc channel]
    submitted,   \* ids the scheduler took
    closed,      \* shutting_down
    push,        \* [Pushers -> the push_frame under way]
    sent,        \* history: [Ids -> the frames that entered the channel]
    got          \* history: [Ids -> how many of them were received]

vars == <<state, last, sender, rx, channel, submitted, closed, push, sent, got>>

entryVars  == <<state, last, sender>>
streamVars == <<rx, channel, sent, got>>

-----------------------------------------------------------------------------

Indices == 0..MaxIndex
None    == -1
Frame   == [index : Indices, final : BOOLEAN]

Live     == {"Scheduled", "Streaming"}
Terminal == {"Complete", "Cancelled"}

Idle == [step |-> "idle"]

(* "begun": past ensure_open; "cloned": past the validation, holding a     *)
(* sender; "sent": a final frame is in the channel, the sender still held. *)
Push == {Idle} \cup
        [step : {"begun", "cloned", "sent"}, id : Ids, frame : Frame]

(* Every variable keeps its type: an index recorded is that of a frame,    *)
(* and a push is at one of its three steps.                                *)
TypeOK ==
    /\ state \in [Ids -> Live \cup Terminal \cup {"absent"}]
    /\ last \in [Ids -> Indices \cup {None}]
    /\ sender \in [Ids -> BOOLEAN]
    /\ rx \in [Ids -> {"none", "parked", "taken", "ended", "dropped"}]
    /\ channel \in [Ids -> Seq(Frame)]
    /\ submitted \subseteq Ids
    /\ closed \in BOOLEAN
    /\ push \in [Pushers -> Push]
    /\ sent \in [Ids -> Seq(Frame)]
    /\ got \in [Ids -> Nat]

Pushing(p, id) == push[p] # Idle /\ push[p].id = id
Holding(p, id) == Pushing(p, id) /\ push[p].step # "begun"

(* Mutant: the channel closes with the sender of the entry.                *)
DisconnectedEntry(id) == ~sender[id]

(* No sender of the channel is left.                                       *)
Disconnected(id) == ~sender[id] /\ \A p \in Pushers : ~Holding(p, id)

-----------------------------------------------------------------------------
(* accept *)

AcceptInsert(id) ==
    /\ ~closed
    /\ state[id] = "absent"
    /\ state' = [state EXCEPT ![id] = "Scheduled"]
    /\ last' = [last EXCEPT ![id] = None]
    /\ sender' = [sender EXCEPT ![id] = TRUE]
    /\ rx' = [rx EXCEPT ![id] = "parked"]
    /\ UNCHANGED <<channel, submitted, closed, push, sent, got>>

Accepting(id) == state[id] # "absent" /\ id \notin submitted

AcceptSubmit(id) ==
    /\ Accepting(id)
    /\ submitted' = submitted \cup {id}
    /\ UNCHANGED <<entryVars, streamVars, closed, push>>

(* scheduler.submit raised: the entry is removed, both ends of the channel *)
(* with it.                                                                *)
AcceptRollBack(id) ==
    /\ Accepting(id)
    /\ state' = [state EXCEPT ![id] = "absent"]
    /\ sender' = [sender EXCEPT ![id] = FALSE]
    /\ rx' = [rx EXCEPT ![id] = "none"]
    /\ UNCHANGED <<last, channel, submitted, closed, push, sent, got>>

-----------------------------------------------------------------------------
(* push_frame *)

(* Only a request the scheduler took can reach the engine driver.          *)
PushBegin(p, id, frame) ==
    /\ push[p] = Idle
    /\ ~closed
    /\ id \in submitted
    /\ Concurrent \/ \A q \in Pushers : ~Pushing(q, id)
    /\ push' = [push EXCEPT ![p] = [step |-> "begun", id |-> id, frame |-> frame]]
    /\ UNCHANGED <<entryVars, streamVars, submitted, closed>>

Return(p) == push' = [push EXCEPT ![p] = Idle]

(* Mutant: an index may be repeated.                                       *)
FitsOrRepeats(id, frame) ==
    state[id] \in Live /\ (last[id] = None \/ frame.index >= last[id])

Fits(id, frame) ==
    state[id] \in Live /\ (last[id] = None \/ frame.index > last[id])

(* UnknownRequest, InvalidTransition or OutOfOrderFrame.                   *)
PushRefused(p) ==
    /\ push[p].step = "begun"
    /\ \/ ~Fits(push[p].id, push[p].frame)
       \/ ~sender[push[p].id]
    /\ IF Fits(push[p].id, push[p].frame)
       THEN /\ state' = [state EXCEPT ![push[p].id] = "Streaming"]
            /\ last' = [last EXCEPT ![push[p].id] = push[p].frame.index]
       ELSE UNCHANGED <<state, last>>
    /\ Return(p)
    /\ UNCHANGED <<sender, streamVars, submitted, closed>>

Recorded(frame) == frame.index

PushValidate(p) ==
    /\ push[p].step = "begun"
    /\ Fits(push[p].id, push[p].frame)
    /\ sender[push[p].id]
    /\ state' = [state EXCEPT ![push[p].id] = "Streaming"]
    /\ last' = [last EXCEPT ![push[p].id] = Recorded(push[p].frame)]
    /\ push' = [push EXCEPT ![p].step = "cloned"]
    /\ UNCHANGED <<sender, streamVars, submitted, closed>>

Full(id)       == Len(channel[id]) >= Depth
Abandoned(id)  == rx[id] = "dropped"

(* Backpressure, or UnknownRequest when the receiver is gone: the frame is *)
(* lost, and what the validation recorded stays.                           *)
PushFails(p) ==
    /\ push[p].step = "cloned"
    /\ Full(push[p].id) \/ Abandoned(push[p].id)
    /\ Return(p)
    /\ UNCHANGED <<entryVars, streamVars, submitted, closed>>

PushSend(p) ==
    /\ push[p].step = "cloned"
    /\ ~Full(push[p].id)
    /\ ~Abandoned(push[p].id)
    /\ channel' = [channel EXCEPT ![push[p].id] = Append(@, push[p].frame)]
    /\ sent' = [sent EXCEPT ![push[p].id] = Append(@, push[p].frame)]
    /\ IF push[p].frame.final
       THEN push' = [push EXCEPT ![p].step = "sent"]
       ELSE Return(p)
    /\ UNCHANGED <<entryVars, rx, got, submitted, closed>>

(* Mutant: the entry keeps its sender.                                     *)
PushCompleteKeepsSender(p) ==
    /\ push[p].step = "sent"
    /\ state' = [state EXCEPT ![push[p].id] = "Complete"]
    /\ Return(p)
    /\ UNCHANGED <<last, sender, streamVars, submitted, closed>>

(* The request completes whatever has become of it in the meantime.        *)
PushComplete(p) ==
    /\ push[p].step = "sent"
    /\ IF state[push[p].id] = "absent" THEN UNCHANGED <<state, sender>>
       ELSE /\ state' = [state EXCEPT ![push[p].id] = "Complete"]
            /\ sender' = [sender EXCEPT ![push[p].id] = FALSE]
    /\ Return(p)
    /\ UNCHANGED <<last, streamVars, submitted, closed>>

-----------------------------------------------------------------------------
(* subscribe, cancel, shutdown *)

(* The request id is public once accept has returned, and the scheduler    *)
(* hands it to the driver once it was submitted.                           *)
Subscribe(id) ==
    /\ ~closed
    /\ id \in submitted
    /\ rx[id] = "parked"
    /\ rx' = [rx EXCEPT ![id] = "taken"]
    /\ UNCHANGED <<entryVars, channel, sent, got, submitted, closed, push>>

(* Mutant: a complete request can be cancelled.                            *)
CancellableComplete(id) == state[id] \in Live \cup {"Complete"}

Cancellable(id) == state[id] \in Live

(* A receiver still parked in the entry is dropped, and what it buffered   *)
(* with it.                                                                *)
Cancel(id) ==
    /\ ~closed
    /\ id \in submitted
    /\ Cancellable(id)
    /\ state' = [state EXCEPT ![id] = "Cancelled"]
    /\ sender' = [sender EXCEPT ![id] = FALSE]
    /\ IF rx[id] = "parked"
       THEN /\ rx' = [rx EXCEPT ![id] = "dropped"]
            /\ channel' = [channel EXCEPT ![id] = <<>>]
       ELSE UNCHANGED <<rx, channel>>
    /\ UNCHANGED <<last, sent, got, submitted, closed, push>>

Shutdown ==
    /\ ~closed
    /\ closed' = TRUE
    /\ UNCHANGED <<entryVars, streamVars, submitted, push>>

-----------------------------------------------------------------------------
(* FrameStream.__anext__ *)

Receive(id) ==
    /\ rx[id] = "taken"
    /\ channel[id] # <<>>
    /\ channel' = [channel EXCEPT ![id] = Tail(@)]
    /\ got' = [got EXCEPT ![id] = @ + 1]
    /\ UNCHANGED <<entryVars, rx, sent, submitted, closed, push>>

(* recv() returns None; the receiver is dropped.                           *)
ReceiveEnd(id) ==
    /\ rx[id] = "taken"
    /\ channel[id] = <<>>
    /\ Disconnected(id)
    /\ rx' = [rx EXCEPT ![id] = "ended"]
    /\ UNCHANGED <<entryVars, channel, sent, got, submitted, closed, push>>

(* The subscriber goes away before the end.                                *)
DropReceiver(id) ==
    /\ rx[id] = "taken"
    /\ rx' = [rx EXCEPT ![id] = "dropped"]
    /\ channel' = [channel EXCEPT ![id] = <<>>]
    /\ UNCHANGED <<entryVars, sent, got, submitted, closed, push>>

-----------------------------------------------------------------------------

Init ==
    /\ state = [id \in Ids |-> "absent"]
    /\ last = [id \in Ids |-> None]
    /\ sender = [id \in Ids |-> FALSE]
    /\ rx = [id \in Ids |-> "none"]
    /\ channel = [id \in Ids |-> <<>>]
    /\ submitted = {}
    /\ closed = FALSE
    /\ push = [p \in Pushers |-> Idle]
    /\ sent = [id \in Ids |-> <<>>]
    /\ got = [id \in Ids |-> 0]

PushStep(p) ==
    \/ PushRefused(p)
    \/ PushValidate(p)
    \/ PushFails(p)
    \/ PushSend(p)
    \/ PushComplete(p)

Next ==
    \/ \E id \in Ids :
          \/ AcceptInsert(id)
          \/ AcceptSubmit(id)
          \/ AcceptRollBack(id)
          \/ Subscribe(id)
          \/ Cancel(id)
          \/ Receive(id)
          \/ ReceiveEnd(id)
          \/ DropReceiver(id)
    \/ \E p \in Pushers :
          \/ \E id \in Ids, frame \in Frame : PushBegin(p, id, frame)
          \/ PushStep(p)
    \/ Shutdown

Spec == Init /\ [][Next]_vars

(* tokio runs a push that has begun to its end, and a subscriber goes on   *)
(* asking for the next frame.                                              *)
Fairness ==
    /\ \A p \in Pushers : WF_vars(PushStep(p))
    /\ \A id \in Ids : WF_vars(Receive(id) \/ ReceiveEnd(id))

FairSpec == Spec /\ Fairness

-----------------------------------------------------------------------------
(* Properties *)

Outcome(id) ==
    CASE state[id] = "Complete" -> "complete"
      [] state[id] = "Cancelled" -> "cancelled"
      [] OTHER -> "open"

Reader(id) ==
    CASE rx[id] = "ended" -> "ended"
      [] rx[id] = "dropped" -> "gone"
      [] OTHER -> "open"

St == INSTANCE Streams WITH outcome <- [id \in Ids |-> Outcome(id)],
                            reader <- [id \in Ids |-> Reader(id)]

(* The router implements the stream of frames that its subscribers rely    *)
(* on, whatever is pushed, cancelled or dropped.                           *)
ImplementsStreams == St!Spec

(* A live entry always has its sender and a terminal one never: the last   *)
(* error branch of the validation ("sender is None") cannot be reached,    *)
(* and no terminal request holds its channel open.                         *)
SenderMatchesState == \A id \in Ids : sender[id] <=> state[id] \in Live

(* The end of the stream tells the truth: no push that is still under way  *)
(* can put a frame behind it.                                              *)
EndIsLast ==
    \A id \in Ids : rx[id] = "ended" =>
        /\ got[id] = Len(sent[id])
        /\ \A p \in Pushers : ~Holding(p, id)
        /\ state[id] \in Terminal

(* The strengthening that makes the safety properties inductive: only a    *)
(* submitted request leaves the states of accept, is pushed to or is       *)
(* subscribed to, and none is forgotten; a push that has sent a final      *)
(* frame is believed about it; as long as the receiver lives, the channel  *)
(* holds what was sent and not yet received; and nothing can be sent to a  *)
(* receiver that saw the end.                                              *)
OnlySubmitted ==
    /\ \A id \in Ids :
          /\ id \in submitted => state[id] # "absent"
          /\ state[id] \in {"Streaming"} \cup Terminal => id \in submitted
          /\ rx[id] \in {"taken", "ended", "dropped"} => id \in submitted
    /\ \A p \in Pushers : push[p] # Idle => push[p].id \in submitted

(* A final frame of the request has entered its channel.                   *)
FinalSent(id) == \E i \in DOMAIN sent[id] : sent[id][i].final

(* A push past its send of a final frame did send one.                     *)
FinalAnnounced == \A p \in Pushers : push[p].step = "sent" => FinalSent(push[p].id)

(* No frame is lost or invented between the channel and its receiver.      *)
Conserved ==
    \A id \in Ids : ~Abandoned(id) => got[id] + Len(channel[id]) = Len(sent[id])

(* Behind the end there is no frame and nobody who could send one.         *)
NothingBehindEnd ==
    \A id \in Ids : rx[id] = "ended" => channel[id] = <<>> /\ Disconnected(id)

(* The inductive invariant of the router.                                  *)
IndInv ==
    /\ TypeOK
    /\ SenderMatchesState
    /\ OnlySubmitted
    /\ FinalAnnounced
    /\ Conserved
    /\ NothingBehindEnd

(* A terminal request whose subscriber keeps reading sees its end.         *)
StreamEnds ==
    \A id \in Ids :
        (state[id] \in Terminal /\ rx[id] = "taken") ~> rx[id] # "taken"

(* "Terminal states do not transition further", up to what does hold of    *)
(* them: a completed request stays completed,                              *)
(* and a cancelled one leaves that state only because its final frame had  *)
(* entered the channel.                                                    *)
CompleteIsFinal ==
    [][\A id \in Ids :
          /\ state[id] = "Complete" => state'[id] = "Complete"
          /\ state[id] = "Cancelled" /\ state'[id] # "Cancelled" =>
                FinalSent(id)]_vars

=============================================================================
