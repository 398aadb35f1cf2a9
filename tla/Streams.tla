------------------------------- MODULE Streams -------------------------------
(***************************************************************************)
(* What a router promises the subscriber of a request: a bounded stream    *)
(* of frames whose indices increase, with nothing behind the final frame,  *)
(* that ends only after the request is over and every frame that entered   *)
(* the stream has been handed out.                                         *)
(***************************************************************************)
EXTENDS Integers, Sequences

CONSTANTS
    Ids,      \* request identifiers
    Indices,  \* frame indices
    Depth     \* how many frames a stream buffers

Frame == [index : Indices, final : BOOLEAN]

VARIABLES
    sent,     \* [Ids -> the frames that entered the stream]
    got,      \* [Ids -> how many of them the subscriber has]
    outcome,  \* [Ids -> "open", "complete", "cancelled"]
    reader    \* [Ids -> "open", "ended" (saw the end), "gone" (dropped)]

vars == <<sent, got, outcome, reader>>

Last(q) == q[Len(q)]

(* A final frame has entered: the stream is whole.                         *)
Whole(id) == sent[id] # <<>> /\ Last(sent[id]).final

Init ==
    /\ sent = [id \in Ids |-> <<>>]
    /\ got = [id \in Ids |-> 0]
    /\ outcome = [id \in Ids |-> "open"]
    /\ reader = [id \in Ids |-> "open"]

(* A frame may still enter after a cancellation, if it was on its way; a   *)
(* final one may complete the request at once.                             *)
Enter(id, f) ==
    /\ reader[id] = "open"
    /\ outcome[id] # "complete"
    /\ ~Whole(id)
    /\ sent[id] # <<>> => Last(sent[id]).index < f.index
    /\ Len(sent[id]) - got[id] < Depth
    /\ sent' = [sent EXCEPT ![id] = Append(@, f)]
    /\ \/ UNCHANGED outcome
       \/ f.final /\ outcome' = [outcome EXCEPT ![id] = "complete"]
    /\ UNCHANGED <<got, reader>>

Hand(id) ==
    /\ reader[id] = "open"
    /\ got[id] < Len(sent[id])
    /\ got' = [got EXCEPT ![id] = @ + 1]
    /\ UNCHANGED <<sent, outcome, reader>>

Complete(id) ==
    /\ Whole(id)
    /\ outcome' = [outcome EXCEPT ![id] = "complete"]
    /\ UNCHANGED <<sent, got, reader>>

(* A cancellation that finds no subscriber may throw the stream away; a    *)
(* shutdown may cancel several requests.                                   *)
Cancel(ids) ==
    /\ \A id \in ids : outcome[id] = "open"
    /\ outcome' = [id \in Ids |-> IF id \in ids THEN "cancelled" ELSE outcome[id]]
    /\ \/ UNCHANGED reader
       \/ reader' = [id \in Ids |-> IF id \in ids THEN "gone" ELSE reader[id]]
    /\ UNCHANGED <<sent, got>>

End(id) ==
    /\ reader[id] = "open"
    /\ outcome[id] # "open"
    /\ got[id] = Len(sent[id])
    /\ reader' = [reader EXCEPT ![id] = "ended"]
    /\ UNCHANGED <<sent, got, outcome>>

Leave(id) ==
    /\ reader' = [reader EXCEPT ![id] = "gone"]
    /\ UNCHANGED <<sent, got, outcome>>

Next ==
    \/ \E ids \in SUBSET Ids : Cancel(ids)
    \/ \E id \in Ids :
        \/ \E f \in Frame : Enter(id, f)
        \/ Hand(id)
        \/ Complete(id)
        \/ End(id)
        \/ Leave(id)

Spec == Init /\ [][Next]_vars

=============================================================================
