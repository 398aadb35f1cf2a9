----------------------------- MODULE RouterProofs -----------------------------
(***************************************************************************)
(* Theorems about Router, for any set of ids, any number of pushes under   *)
(* way at once, any depth of the channels and any bound on the indices.    *)
(***************************************************************************)
EXTENDS Router, SequenceTheorems, TLAPS

-----------------------------------------------------------------------------
(* Lemmas about the data *)

LEMMA PushFacts ==
    ASSUME TypeOK, NEW p \in Pushers
    PROVE  /\ push[p] \in Push
           /\ push[p] = Idle \/
                (/\ push[p].step \in {"begun", "cloned", "sent"}
                 /\ push[p].id \in Ids
                 /\ push[p].frame \in Frame
                 /\ push[p].frame.index \in Indices
                 /\ push[p].frame.final \in BOOLEAN
                 /\ push[p] = [step |-> push[p].step, id |-> push[p].id,
                               frame |-> push[p].frame])
           /\ push[p] = Idle <=> push[p].step = "idle"
BY DEF TypeOK, Push, Idle, Frame

(* Giving a push under way another step keeps its type and its request.    *)
LEMMA StepFacts ==
    ASSUME TypeOK, NEW p \in Pushers, push[p] # Idle,
           NEW s \in {"begun", "cloned", "sent"},
           push' = [push EXCEPT ![p].step = s]
    PROVE  /\ push' \in [Pushers -> Push]
           /\ push'[p] = [step |-> s, id |-> push[p].id, frame |-> push[p].frame]
           /\ \A q \in Pushers \ {p} : push'[q] = push[q]
<1>0. PICK a, i, f : push[p] = [step |-> a, id |-> i, frame |-> f]
  <2>1. push[p] = [step |-> push[p].step, id |-> push[p].id,
                   frame |-> push[p].frame]
    BY PushFacts
  <2> QED BY <2>1
<1>1. push'[p] = [step |-> s, id |-> i, frame |-> f]
  <2>1. push \in [Pushers -> Push]
    BY DEF TypeOK
  <2>2. push'[p] = [push[p] EXCEPT !.step = s]
    BY <2>1
  <2> QED BY <1>0, <2>2
<1>2. push'[p] \in Push
  <2>1. i \in Ids /\ f \in Frame
    BY <1>0, PushFacts
  <2> QED BY <1>1, <2>1 DEF Push
<1> QED BY <1>0, <1>1, <1>2 DEF TypeOK

(* The last element of a sequence that was appended to.                    *)
LEMMA LastAppended ==
    ASSUME NEW S, NEW s \in Seq(S), NEW e \in S
    PROVE  /\ Append(s, e) \in Seq(S)
           /\ Append(s, e) # <<>>
           /\ Len(Append(s, e)) = Len(s) + 1
           /\ Append(s, e)[Len(Append(s, e))] = e
OBVIOUS

LEMMA TypeInit == Init => TypeOK
<1> SUFFICES ASSUME Init PROVE TypeOK
  OBVIOUS
<1>1. push \in [Pushers -> Push]
  BY DEF Init, Push
<1>2. /\ channel \in [Ids -> Seq(Frame)]
      /\ sent \in [Ids -> Seq(Frame)]
  BY DEF Init
<1> QED BY <1>1, <1>2 DEF Init, TypeOK

LEMMA TypeStep == TypeOK /\ [Next]_vars => TypeOK'
<1> SUFFICES ASSUME TypeOK, [Next]_vars PROVE TypeOK'
  OBVIOUS
<1> USE PushFacts
<1>1. ASSUME NEW id \in Ids, AcceptInsert(id)
      PROVE  TypeOK'
  BY <1>1 DEF AcceptInsert, TypeOK, Live
<1>2. ASSUME NEW id \in Ids, AcceptSubmit(id)
      PROVE  TypeOK'
  BY <1>2 DEF AcceptSubmit, TypeOK, entryVars, streamVars
<1>3. ASSUME NEW id \in Ids, AcceptRollBack(id)
      PROVE  TypeOK'
  BY <1>3 DEF AcceptRollBack, TypeOK
<1>4. ASSUME NEW id \in Ids, Subscribe(id)
      PROVE  TypeOK'
  BY <1>4 DEF Subscribe, TypeOK, entryVars
<1>5. ASSUME NEW id \in Ids, Cancel(id)
      PROVE  TypeOK'
  <2>1. state' \in [Ids -> Live \cup Terminal \cup {"absent"}]
    BY <1>5 DEF Cancel, TypeOK, Terminal
  <2>2. /\ rx' \in [Ids -> {"none", "parked", "taken", "ended", "dropped"}]
        /\ channel' \in [Ids -> Seq(Frame)]
    <3>1. CASE rx[id] = "parked"
      <4>1. rx' = [rx EXCEPT ![id] = "dropped"] /\ channel' = [channel EXCEPT ![id] = <<>>]
        BY <1>5, <3>1 DEF Cancel
      <4>2. <<>> \in Seq(Frame)
        OBVIOUS
      <4> QED BY <4>1, <4>2 DEF TypeOK
    <3>2. CASE rx[id] # "parked"
      BY <1>5, <3>2 DEF Cancel, TypeOK
    <3> QED BY <3>1, <3>2
  <2> QED BY <1>5, <2>1, <2>2 DEF Cancel, TypeOK
<1>6. ASSUME NEW id \in Ids, Receive(id)
      PROVE  TypeOK'
  <2>1. channel[id] \in Seq(Frame) /\ channel[id] # <<>>
    BY <1>6 DEF Receive, TypeOK
  <2>2. Tail(channel[id]) \in Seq(Frame)
    BY <2>1, HeadTailProperties
  <2>3. got[id] + 1 \in Nat
    BY DEF TypeOK
  <2>4. /\ channel' \in [Ids -> Seq(Frame)]
        /\ got' \in [Ids -> Nat]
    BY <1>6, <2>2, <2>3 DEF Receive, TypeOK
  <2> QED BY <1>6, <2>4 DEF Receive, TypeOK, entryVars
<1>7. ASSUME NEW id \in Ids, ReceiveEnd(id)
      PROVE  TypeOK'
  BY <1>7 DEF ReceiveEnd, TypeOK, entryVars
<1>8. ASSUME NEW id \in Ids, DropReceiver(id)
      PROVE  TypeOK'
  BY <1>8 DEF DropReceiver, TypeOK, entryVars
<1>9. ASSUME NEW p \in Pushers, NEW id \in Ids, NEW frame \in Frame,
             PushBegin(p, id, frame)
      PROVE  TypeOK'
  BY <1>9 DEF PushBegin, TypeOK, Push, entryVars, streamVars
<1>10. ASSUME NEW p \in Pushers, PushRefused(p)
       PROVE  TypeOK'
  <2>1. push' \in [Pushers -> Push]
    BY <1>10 DEF PushRefused, Return, TypeOK, Push
  <2>2. state' \in [Ids -> Live \cup Terminal \cup {"absent"}]
        /\ last' \in [Ids -> Indices \cup {None}]
    BY <1>10 DEF PushRefused, TypeOK, Live, Idle
  <2> QED BY <1>10, <2>1, <2>2 DEF PushRefused, TypeOK, streamVars
<1>11. ASSUME NEW p \in Pushers, PushValidate(p)
       PROVE  TypeOK'
  <2>1. push' \in [Pushers -> Push]
    BY <1>11, StepFacts DEF PushValidate, Idle
  <2>2. state' \in [Ids -> Live \cup Terminal \cup {"absent"}]
        /\ last' \in [Ids -> Indices \cup {None}]
    BY <1>11 DEF PushValidate, Recorded, TypeOK, Live, Idle
  <2> QED BY <1>11, <2>1, <2>2 DEF PushValidate, TypeOK, streamVars
<1>12. ASSUME NEW p \in Pushers, PushFails(p)
       PROVE  TypeOK'
  BY <1>12 DEF PushFails, Return, TypeOK, Push, entryVars, streamVars
<1>13. ASSUME NEW p \in Pushers, PushSend(p)
       PROVE  TypeOK'
  <2>1. push' \in [Pushers -> Push]
    <3>1. CASE push[p].frame.final
      BY <1>13, <3>1, StepFacts DEF PushSend, Idle
    <3>2. CASE ~push[p].frame.final
      BY <1>13, <3>2 DEF PushSend, Return, TypeOK, Push
    <3> QED BY <3>1, <3>2
  <2>2. push[p].id \in Ids /\ push[p].frame \in Frame
    BY <1>13 DEF PushSend, Idle
  <2>3. channel' \in [Ids -> Seq(Frame)] /\ sent' \in [Ids -> Seq(Frame)]
    BY <1>13, <2>2 DEF PushSend, TypeOK
  <2> QED BY <1>13, <2>1, <2>3 DEF PushSend, TypeOK, entryVars
<1>14. ASSUME NEW p \in Pushers, PushComplete(p)
       PROVE  TypeOK'
  <2>1. push' \in [Pushers -> Push]
    BY <1>14 DEF PushComplete, Return, TypeOK, Push
  <2>2. state' \in [Ids -> Live \cup Terminal \cup {"absent"}]
        /\ sender' \in [Ids -> BOOLEAN]
    BY <1>14 DEF PushComplete, TypeOK, Terminal
  <2> QED BY <1>14, <2>1, <2>2 DEF PushComplete, TypeOK, streamVars
<1>15. CASE Shutdown
  BY <1>15 DEF Shutdown, TypeOK, entryVars, streamVars
<1>16. CASE UNCHANGED vars
  BY <1>16 DEF vars, TypeOK
<1> QED
  BY <1>1, <1>2, <1>3, <1>4, <1>5, <1>6, <1>7, <1>8, <1>9, <1>10, <1>11, <1>12,
     <1>13, <1>14, <1>15, <1>16 DEF Next, PushStep

(* Every variable of the router keeps its type: the indices recorded are   *)
(* indices of frames, the pushes under way are at one of their three steps.*)
THEOREM TypeCorrect == Spec => []TypeOK
BY TypeInit, TypeStep, PTL DEF Spec

-----------------------------------------------------------------------------
(* The inductive invariant *)

LEMMA IndInit == Init => IndInv
<1> SUFFICES ASSUME Init PROVE IndInv
  OBVIOUS
<1>1. TypeOK
  BY TypeInit
<1>2. SenderMatchesState
  BY DEF Init, SenderMatchesState, Live
<1>3. OnlySubmitted
  BY DEF Init, OnlySubmitted, Terminal
<1>4. FinalAnnounced
  BY DEF Init, FinalAnnounced, Idle
<1>5. Conserved
  BY DEF Init, Conserved
<1>6. NothingBehindEnd
  BY DEF Init, NothingBehindEnd
<1> QED BY <1>1, <1>2, <1>3, <1>4, <1>5, <1>6 DEF IndInv

(* An invariant that speaks of nothing a step changes survives it.  The    *)
(* steps of the pushes change push, so what they do to Holding is stated   *)
(* apart: only a validation makes a push hold a sender.                    *)
LEMMA HoldingFacts ==
    ASSUME TypeOK, NEW p \in Pushers, Return(p), NEW q \in Pushers, NEW id \in Ids
    PROVE  /\ Holding(q, id)' => Holding(q, id)
           /\ push'[q] = Idle \/ push'[q] = push[q]
BY DEF TypeOK, Return, Holding, Pushing, Idle

(* A push that returns leaves what is known of the others.                 *)
LEMMA ReturnFacts ==
    ASSUME IndInv, NEW p \in Pushers, Return(p),
           UNCHANGED <<submitted, sent>>
    PROVE  /\ FinalAnnounced'
           /\ \A q \in Pushers : push'[q] # Idle => push'[q].id \in submitted'
<1>1. \A q \in Pushers : push'[q] = Idle \/ push'[q] = push[q]
  BY DEF IndInv, TypeOK, Return
<1>2. FinalAnnounced'
  BY <1>1 DEF IndInv, FinalAnnounced, FinalSent, Idle
<1>3. \A q \in Pushers : push'[q] # Idle => push'[q].id \in submitted'
  BY <1>1 DEF IndInv, OnlySubmitted
<1> QED BY <1>2, <1>3

(* accept *)
LEMMA IndAccept ==
    ASSUME IndInv, NEW id \in Ids,
           AcceptInsert(id) \/ AcceptSubmit(id) \/ AcceptRollBack(id)
    PROVE  /\ SenderMatchesState' /\ OnlySubmitted' /\ FinalAnnounced'
           /\ Conserved' /\ NothingBehindEnd'
<1> USE DEF IndInv
<1>0. FinalAnnounced'
  BY DEF AcceptInsert, AcceptSubmit, AcceptRollBack, FinalAnnounced, FinalSent,
         entryVars, streamVars
<1>1. CASE AcceptInsert(id)
  <2>1. id \notin submitted /\ rx[id] \notin {"taken", "ended", "dropped"}
    BY <1>1 DEF AcceptInsert, OnlySubmitted
  <2>2. SenderMatchesState'
    BY <1>1 DEF AcceptInsert, SenderMatchesState, TypeOK, Live
  <2>3. OnlySubmitted'
    BY <1>1, <2>1 DEF AcceptInsert, OnlySubmitted, TypeOK, Terminal
  <2>4. Conserved'
    BY <1>1, <2>1 DEF AcceptInsert, Conserved, Abandoned, TypeOK
  <2>5. NothingBehindEnd'
    BY <1>1, <2>1
    DEF AcceptInsert, NothingBehindEnd, Disconnected, Holding, Pushing, TypeOK
  <2> QED BY <1>0, <2>2, <2>3, <2>4, <2>5
<1>2. CASE AcceptSubmit(id)
  <2>1. SenderMatchesState' /\ OnlySubmitted'
    BY <1>2 DEF AcceptSubmit, Accepting, SenderMatchesState, OnlySubmitted,
                entryVars, streamVars
  <2>2. Conserved' /\ NothingBehindEnd'
    BY <1>2 DEF AcceptSubmit, Conserved, Abandoned, NothingBehindEnd,
                Disconnected, Holding, Pushing, entryVars, streamVars
  <2> QED BY <1>0, <2>1, <2>2
<1>3. CASE AcceptRollBack(id)
  <2>1. SenderMatchesState'
    BY <1>3 DEF AcceptRollBack, SenderMatchesState, TypeOK, Live
  <2>2. OnlySubmitted'
    BY <1>3 DEF AcceptRollBack, Accepting, OnlySubmitted, TypeOK, Terminal
  <2>3. id \notin submitted /\ rx[id] \notin {"taken", "ended", "dropped"}
    BY <1>3 DEF AcceptRollBack, Accepting, OnlySubmitted
  <2>4. Conserved'
    BY <1>3, <2>3 DEF AcceptRollBack, Conserved, Abandoned, TypeOK
  <2>5. NothingBehindEnd'
    BY <1>3 DEF AcceptRollBack, NothingBehindEnd, Disconnected, Holding, Pushing,
                TypeOK
  <2> QED BY <1>0, <2>1, <2>2, <2>4, <2>5
<1> QED BY <1>1, <1>2, <1>3

(* subscribe, cancel, shutdown and the stream: no push changes, no sender  *)
(* appears.                                                                *)
LEMMA IndStream ==
    ASSUME IndInv, NEW id \in Ids,
           \/ Subscribe(id) \/ Cancel(id) \/ Receive(id) \/ ReceiveEnd(id)
           \/ DropReceiver(id)
    PROVE  /\ SenderMatchesState' /\ OnlySubmitted' /\ FinalAnnounced'
           /\ Conserved' /\ NothingBehindEnd'
<1> USE DEF IndInv
<1>0. FinalAnnounced'
  BY DEF Subscribe, Cancel, Receive, ReceiveEnd, DropReceiver, FinalAnnounced,
         FinalSent, entryVars
<1>1. CASE Subscribe(id)
  <2>1. SenderMatchesState' /\ OnlySubmitted'
    BY <1>1 DEF Subscribe, SenderMatchesState, OnlySubmitted, entryVars, TypeOK
  <2>2. Conserved'
    BY <1>1 DEF Subscribe, Conserved, Abandoned, TypeOK
  <2>3. NothingBehindEnd'
    BY <1>1 DEF Subscribe, NothingBehindEnd, Disconnected, Holding, Pushing,
                entryVars, TypeOK
  <2> QED BY <1>0, <2>1, <2>2, <2>3
<1>2. CASE Cancel(id)
  <2>0. CASE rx[id] = "parked"
    <3>0. /\ rx' = [rx EXCEPT ![id] = "dropped"]
          /\ channel' = [channel EXCEPT ![id] = <<>>]
      BY <1>2, <2>0 DEF Cancel
    <3>1. SenderMatchesState' /\ OnlySubmitted'
      BY <1>2, <3>0 DEF Cancel, SenderMatchesState, OnlySubmitted, TypeOK, Live,
                        Terminal
    <3>2. Conserved'
      BY <1>2, <3>0 DEF Cancel, Conserved, Abandoned, TypeOK
    <3>3. NothingBehindEnd'
      BY <1>2, <3>0 DEF Cancel, NothingBehindEnd, Disconnected, Holding, Pushing,
                        TypeOK
    <3> QED BY <1>0, <3>1, <3>2, <3>3
  <2>1. CASE rx[id] # "parked"
    <3>0. UNCHANGED <<rx, channel>>
      BY <1>2, <2>1 DEF Cancel
    <3>1. SenderMatchesState' /\ OnlySubmitted'
      BY <1>2, <3>0 DEF Cancel, SenderMatchesState, OnlySubmitted, TypeOK, Live,
                        Terminal
    <3>2. Conserved'
      BY <1>2, <3>0 DEF Cancel, Conserved, Abandoned
    <3>3. NothingBehindEnd'
      BY <1>2, <3>0 DEF Cancel, NothingBehindEnd, Disconnected, Holding, Pushing,
                        TypeOK
    <3> QED BY <1>0, <3>1, <3>2, <3>3
  <2> QED BY <2>0, <2>1
<1>3. CASE Receive(id)
  <2>1. SenderMatchesState' /\ OnlySubmitted'
    BY <1>3 DEF Receive, SenderMatchesState, OnlySubmitted, entryVars
  <2>2. Conserved'
    <3>1. channel[id] \in Seq(Frame) /\ channel[id] # <<>>
      BY <1>3 DEF Receive, TypeOK
    <3>2. Len(Tail(channel[id])) = Len(channel[id]) - 1 /\ Len(channel[id]) \in Nat
      BY <3>1
    <3>3. /\ channel'[id] = Tail(channel[id]) /\ got'[id] = got[id] + 1
          /\ got[id] \in Nat
          /\ \A j \in Ids \ {id} : channel'[j] = channel[j] /\ got'[j] = got[j]
      BY <1>3 DEF Receive, TypeOK
    <3> SUFFICES ASSUME NEW j \in Ids, ~Abandoned(j)
                 PROVE  got'[j] + Len(channel'[j]) = Len(sent[j])
      BY <1>3 DEF Receive, Conserved, Abandoned
    <3>4. got[j] + Len(channel[j]) = Len(sent[j])
      BY DEF Conserved
    <3>5. CASE j = id
      <4>1. got'[j] = got[j] + 1 /\ got[j] \in Nat
        BY <3>3, <3>5
      <4>2. /\ Len(channel'[j]) = Len(channel[j]) - 1
            /\ Len(channel[j]) \in Nat
        BY <3>2, <3>3, <3>5
      <4> QED BY <3>4, <4>1, <4>2
    <3>6. CASE j # id
      BY <3>3, <3>4, <3>6
    <3> QED BY <3>5, <3>6
  <2>3. NothingBehindEnd'
    BY <1>3 DEF Receive, NothingBehindEnd, Disconnected, Holding, Pushing,
                entryVars, TypeOK
  <2> QED BY <1>0, <2>1, <2>2, <2>3
<1>4. CASE ReceiveEnd(id)
  <2>1. SenderMatchesState' /\ OnlySubmitted'
    BY <1>4 DEF ReceiveEnd, SenderMatchesState, OnlySubmitted, entryVars, TypeOK
  <2>2. Conserved'
    BY <1>4 DEF ReceiveEnd, Conserved, Abandoned, TypeOK
  <2>3. NothingBehindEnd'
    BY <1>4 DEF ReceiveEnd, NothingBehindEnd, Disconnected, Holding, Pushing,
                entryVars, TypeOK
  <2> QED BY <1>0, <2>1, <2>2, <2>3
<1>5. CASE DropReceiver(id)
  <2>1. SenderMatchesState' /\ OnlySubmitted'
    BY <1>5 DEF DropReceiver, SenderMatchesState, OnlySubmitted, entryVars, TypeOK
  <2>2. Conserved'
    BY <1>5 DEF DropReceiver, Conserved, Abandoned, TypeOK
  <2>3. NothingBehindEnd'
    BY <1>5 DEF DropReceiver, NothingBehindEnd, Disconnected, Holding, Pushing,
                entryVars, TypeOK
  <2> QED BY <1>0, <2>1, <2>2, <2>3
<1> QED BY <1>1, <1>2, <1>3, <1>4, <1>5

(* push_frame up to the send: a push begins, is refused or is validated.   *)
LEMMA IndValidate ==
    ASSUME IndInv, NEW p \in Pushers,
           \/ \E id \in Ids, frame \in Frame : PushBegin(p, id, frame)
           \/ PushRefused(p)
           \/ PushValidate(p)
           \/ PushFails(p)
    PROVE  /\ SenderMatchesState' /\ OnlySubmitted' /\ FinalAnnounced'
           /\ Conserved' /\ NothingBehindEnd'
<1> USE DEF IndInv
<1>0. Conserved'
  BY DEF PushBegin, PushRefused, PushValidate, PushFails, Conserved, Abandoned,
         streamVars
<1>1. ASSUME NEW id \in Ids, NEW frame \in Frame, PushBegin(p, id, frame)
      PROVE  /\ SenderMatchesState' /\ OnlySubmitted' /\ FinalAnnounced'
             /\ NothingBehindEnd'
  <2>1. /\ push'[p] = [step |-> "begun", id |-> id, frame |-> frame]
        /\ \A q \in Pushers \ {p} : push'[q] = push[q]
    BY <1>1 DEF PushBegin, TypeOK
  <2>2. id \in submitted
    BY <1>1 DEF PushBegin
  <2>3. SenderMatchesState'
    BY <1>1 DEF PushBegin, SenderMatchesState, entryVars
  <2>4. OnlySubmitted'
    BY <1>1, <2>1, <2>2 DEF PushBegin, OnlySubmitted, entryVars, streamVars
  <2>5. FinalAnnounced'
    BY <1>1, <2>1 DEF PushBegin, FinalAnnounced, FinalSent, streamVars
  <2>6. NothingBehindEnd'
    BY <1>1, <2>1 DEF PushBegin, NothingBehindEnd, Disconnected, Holding, Pushing,
                      entryVars, streamVars
  <2> QED BY <2>3, <2>4, <2>5, <2>6
<1>2. CASE PushRefused(p)
  <2>0. push[p].id \in Ids
    BY <1>2, PushFacts DEF PushRefused
  <2>1. UNCHANGED <<state, sender, rx, channel, sent, got, submitted>>
    BY <1>2, <2>0 DEF PushRefused, Fits, SenderMatchesState, streamVars
  <2>2. FinalAnnounced' /\ \A q \in Pushers : push'[q] # Idle => push'[q].id \in submitted'
    BY <1>2, <2>1, ReturnFacts DEF PushRefused
  <2>3. OnlySubmitted'
    BY <2>1, <2>2 DEF OnlySubmitted
  <2>4. SenderMatchesState'
    BY <2>1 DEF SenderMatchesState
  <2>5. NothingBehindEnd'
    <3>1. \A q \in Pushers, j \in Ids : Holding(q, j)' => Holding(q, j)
      BY <1>2, HoldingFacts DEF PushRefused
    <3> QED BY <2>1, <3>1 DEF NothingBehindEnd, Disconnected
  <2> QED BY <1>0, <2>2, <2>3, <2>4, <2>5
<1>3. CASE PushValidate(p)
  <2> DEFINE id == push[p].id
  <2>0. push[p] # Idle /\ push[p].step = "begun" /\ id \in Ids /\ id \in submitted
    BY <1>3, PushFacts DEF PushValidate, OnlySubmitted, Idle
  <2>1. /\ push'[p] = [step |-> "cloned", id |-> id, frame |-> push[p].frame]
        /\ \A q \in Pushers \ {p} : push'[q] = push[q]
    BY <1>3, <2>0, StepFacts DEF PushValidate
  <2>2. SenderMatchesState'
    BY <1>3, <2>0 DEF PushValidate, SenderMatchesState, TypeOK, Live
  <2>3. OnlySubmitted'
    <3>1. \A j \in Ids : state'[j] = IF j = id THEN "Streaming" ELSE state[j]
      BY <1>3, <2>0 DEF PushValidate, TypeOK
    <3>2. UNCHANGED <<rx, submitted>>
      BY <1>3 DEF PushValidate, streamVars
    <3>3. \A q \in Pushers : push'[q] # Idle => push'[q].id \in submitted'
      <4>1. push'[p].id = id
        BY <2>1
      <4>2. \A q \in Pushers : push[q] # Idle => push[q].id \in submitted
        BY DEF OnlySubmitted
      <4> QED BY <2>0, <2>1, <3>2, <4>1, <4>2
    <3> QED BY <2>0, <3>1, <3>2, <3>3 DEF OnlySubmitted
  <2>4. FinalAnnounced'
    <3>1. push'[p].step # "sent"
      BY <2>1
    <3>2. sent' = sent
      BY <1>3 DEF PushValidate, streamVars
    <3>3. \A q \in Pushers : push'[q].step = "sent" => q # p /\ push'[q] = push[q]
      BY <2>1, <3>1
    <3> QED BY <3>2, <3>3 DEF FinalAnnounced, FinalSent
  <2>5. NothingBehindEnd'
    <3>1. rx[id] # "ended"
      BY <1>3, <2>0 DEF PushValidate, NothingBehindEnd, Disconnected
    <3>2. \A q \in Pushers, j \in Ids : Holding(q, j)' => Holding(q, j) \/ j = id
      BY <2>1 DEF Holding, Pushing
    <3> QED BY <1>3, <3>1, <3>2 DEF PushValidate, NothingBehindEnd, Disconnected,
                                    streamVars
  <2> QED BY <1>0, <2>2, <2>3, <2>4, <2>5
<1>4. CASE PushFails(p)
  <2>1. UNCHANGED <<state, sender, rx, channel, sent, got, submitted>>
    BY <1>4 DEF PushFails, entryVars, streamVars
  <2>2. FinalAnnounced' /\ \A q \in Pushers : push'[q] # Idle => push'[q].id \in submitted'
    BY <1>4, <2>1, ReturnFacts DEF PushFails
  <2>3. OnlySubmitted'
    BY <2>1, <2>2 DEF OnlySubmitted
  <2>4. SenderMatchesState'
    BY <2>1 DEF SenderMatchesState
  <2>5. NothingBehindEnd'
    <3>1. \A q \in Pushers, j \in Ids : Holding(q, j)' => Holding(q, j)
      BY <1>4, HoldingFacts DEF PushFails
    <3> QED BY <2>1, <3>1 DEF NothingBehindEnd, Disconnected
  <2> QED BY <1>0, <2>2, <2>3, <2>4, <2>5
<1> QED BY <1>0, <1>1, <1>2, <1>3, <1>4

(* The send: the frame is behind everything sent before it, and no reader  *)
(* has seen the end, since the push held a sender.                         *)
LEMMA IndSend ==
    ASSUME IndInv, NEW p \in Pushers, PushSend(p)
    PROVE  /\ SenderMatchesState' /\ OnlySubmitted' /\ FinalAnnounced'
           /\ Conserved' /\ NothingBehindEnd'
<1> USE DEF IndInv
<1> DEFINE id == push[p].id
           frame == push[p].frame
<1>0. /\ push[p] # Idle /\ push[p].step = "cloned"
      /\ id \in Ids /\ frame \in Frame /\ frame.final \in BOOLEAN
  BY PushFacts DEF PushSend, Idle
<1>1. /\ UNCHANGED <<state, last, sender, rx, got, submitted, closed>>
      /\ ~Abandoned(id)
  BY DEF PushSend, entryVars
<1>2. /\ channel[id] \in Seq(Frame) /\ sent[id] \in Seq(Frame)
      /\ channel'[id] = Append(channel[id], frame)
      /\ sent'[id] = Append(sent[id], frame)
      /\ \A j \in Ids \ {id} : channel'[j] = channel[j] /\ sent'[j] = sent[j]
  BY <1>0 DEF PushSend, TypeOK
<1>3. /\ \A q \in Pushers \ {p} : push'[q] = push[q]
      /\ \/ push'[p] = Idle
         \/ /\ frame.final
            /\ push'[p] = [step |-> "sent", id |-> id, frame |-> frame]
  <2>1. CASE frame.final
    BY <1>0, <2>1, StepFacts DEF PushSend
  <2>2. CASE ~frame.final
    BY <1>0, <2>2 DEF PushSend, Return, TypeOK
  <2> QED BY <2>1, <2>2
<1>4. SenderMatchesState'
  BY <1>1 DEF SenderMatchesState
<1>5. OnlySubmitted'
  <2>1. \A q \in Pushers : push'[q] # Idle => push'[q].id \in submitted
    BY <1>0, <1>3 DEF OnlySubmitted
  <2> QED BY <1>1, <2>1 DEF OnlySubmitted
<1>6. FinalAnnounced'
  <2>1. \A j \in Ids : FinalSent(j) => FinalSent(j)'
    <3> SUFFICES ASSUME NEW j \in Ids, FinalSent(j) PROVE FinalSent(j)'
      OBVIOUS
    <3>1. CASE j = id
      <4>1. PICK i \in DOMAIN sent[id] : sent[id][i].final
        BY <3>1 DEF FinalSent
      <4>2. i \in DOMAIN sent'[id] /\ sent'[id][i] = sent[id][i]
        BY <1>2, <4>1
      <4> QED BY <3>1, <4>1, <4>2 DEF FinalSent
    <3>2. CASE j # id
      BY <1>2, <3>2 DEF FinalSent
    <3> QED BY <3>1, <3>2
  <2>2. frame.final => \E i \in DOMAIN sent'[id] : sent'[id][i].final
    <3>1. Len(sent'[id]) \in DOMAIN sent'[id] /\ sent'[id][Len(sent'[id])] = frame
      BY <1>2, <1>0
    <3> QED BY <3>1
  <2> SUFFICES ASSUME NEW q \in Pushers, push'[q].step = "sent",
                      NEW j, j = push'[q].id
               PROVE  FinalSent(j)'
    BY DEF FinalAnnounced, FinalSent
  <2>3. CASE q = p
    BY <1>3, <2>2, <2>3 DEF Idle, FinalSent
  <2>4. CASE q # p
    <3>1. push[q].step = "sent" /\ j = push[q].id
      BY <1>3, <2>4
    <3>2. j \in Ids
      BY <3>1, PushFacts DEF Idle
    <3>3. FinalSent(j)
      BY <3>1 DEF FinalAnnounced
    <3> QED BY <2>1, <3>2, <3>3
  <2> QED BY <2>3, <2>4
<1>7. Conserved'
  <2>1. /\ Len(channel'[id]) = Len(channel[id]) + 1 /\ Len(channel[id]) \in Nat
        /\ Len(sent'[id]) = Len(sent[id]) + 1 /\ Len(sent[id]) \in Nat
    BY <1>0, <1>2
  <2>2. got[id] \in Nat
    BY <1>0 DEF TypeOK
  <2> SUFFICES ASSUME NEW j \in Ids, ~Abandoned(j)
               PROVE  got[j] + Len(channel'[j]) = Len(sent'[j])
    BY <1>1 DEF Conserved, Abandoned
  <2>3. got[j] + Len(channel[j]) = Len(sent[j])
    BY DEF Conserved
  <2>4. CASE j = id
    <3>1. /\ Len(channel'[j]) = Len(channel[j]) + 1 /\ Len(channel[j]) \in Nat
          /\ Len(sent'[j]) = Len(sent[j]) + 1 /\ Len(sent[j]) \in Nat
          /\ got[j] \in Nat
      BY <2>1, <2>2, <2>4
    <3>2. \A a, b, c \in Nat : a + b = c => a + (b + 1) = c + 1
      OBVIOUS
    <3> DEFINE a == got[j]
               b == Len(channel[j])
               c == Len(sent[j])
    <3>3. a + (b + 1) = c + 1
      <4> HIDE DEF a, b, c
      <4>1. a \in Nat /\ b \in Nat /\ c \in Nat /\ a + b = c
        BY <2>3, <3>1 DEF a, b, c
      <4> QED BY <3>2, <4>1
    <3> QED BY <3>1, <3>3
  <2>5. CASE j # id
    BY <1>2, <2>3, <2>5
  <2> QED BY <2>4, <2>5
<1>8. NothingBehindEnd'
  <2>1. rx[id] # "ended"
    BY <1>0 DEF NothingBehindEnd, Disconnected, Holding, Pushing
  <2>2. \A q \in Pushers, j \in Ids : Holding(q, j)' => Holding(q, j)
    BY <1>0, <1>3 DEF Holding, Pushing
  <2> QED BY <1>1, <1>2, <2>1, <2>2 DEF NothingBehindEnd, Disconnected
<1> QED BY <1>4, <1>5, <1>6, <1>7, <1>8

LEMMA IndComplete ==
    ASSUME IndInv, NEW p \in Pushers, PushComplete(p)
    PROVE  /\ SenderMatchesState' /\ OnlySubmitted' /\ FinalAnnounced'
           /\ Conserved' /\ NothingBehindEnd'
<1> USE DEF IndInv
<1> DEFINE id == push[p].id
<1>0. push[p] # Idle /\ id \in Ids /\ id \in submitted /\ state[id] # "absent"
  <2>1. push[p] # Idle
    BY DEF PushComplete, Idle
  <2> QED BY <2>1, PushFacts DEF OnlySubmitted
<1>1. /\ state' = [state EXCEPT ![id] = "Complete"]
      /\ sender' = [sender EXCEPT ![id] = FALSE]
      /\ UNCHANGED <<rx, channel, sent, got, submitted>>
  BY <1>0 DEF PushComplete, streamVars
<1>2. FinalAnnounced' /\ \A q \in Pushers : push'[q] # Idle => push'[q].id \in submitted'
  BY <1>1, ReturnFacts DEF PushComplete
<1>3. SenderMatchesState'
  BY <1>0, <1>1 DEF SenderMatchesState, TypeOK, Live
<1>4. OnlySubmitted'
  <2>1. \A j \in Ids : state'[j] = IF j = id THEN "Complete" ELSE state[j]
    BY <1>0, <1>1 DEF TypeOK
  <2> QED BY <1>0, <1>1, <1>2, <2>1 DEF OnlySubmitted
<1>5. Conserved'
  BY <1>1 DEF Conserved, Abandoned
<1>6. NothingBehindEnd'
  <2>1. \A q \in Pushers, j \in Ids : Holding(q, j)' => Holding(q, j)
    BY HoldingFacts DEF PushComplete
  <2>2. \A j \in Ids : ~sender[j] => ~sender'[j]
    BY <1>1 DEF TypeOK
  <2> QED BY <1>1, <2>1, <2>2 DEF NothingBehindEnd, Disconnected
<1> QED BY <1>2, <1>3, <1>4, <1>5, <1>6

LEMMA IndStep == IndInv /\ [Next]_vars => IndInv'
<1> SUFFICES ASSUME IndInv, [Next]_vars PROVE IndInv'
  OBVIOUS
<1>0. TypeOK'
  BY TypeStep DEF IndInv
<1>1. CASE \E id \in Ids : AcceptInsert(id) \/ AcceptSubmit(id) \/ AcceptRollBack(id)
  BY <1>0, <1>1, IndAccept DEF IndInv
<1>2. CASE \E id \in Ids : \/ Subscribe(id) \/ Cancel(id) \/ Receive(id)
                           \/ ReceiveEnd(id) \/ DropReceiver(id)
  BY <1>0, <1>2, IndStream DEF IndInv
<1>3. CASE \E p \in Pushers :
             \/ \E id \in Ids, frame \in Frame : PushBegin(p, id, frame)
             \/ PushRefused(p) \/ PushValidate(p) \/ PushFails(p)
  BY <1>0, <1>3, IndValidate DEF IndInv
<1>4. CASE \E p \in Pushers : PushSend(p)
  BY <1>0, <1>4, IndSend DEF IndInv
<1>5. CASE \E p \in Pushers : PushComplete(p)
  BY <1>0, <1>5, IndComplete DEF IndInv
<1>6. CASE Shutdown \/ UNCHANGED vars
  <2>1. UNCHANGED <<state, sender, rx, channel, submitted, push, sent, got>>
    BY <1>6 DEF Shutdown, vars, entryVars, streamVars
  <2> QED BY <1>0, <2>1 DEF IndInv, SenderMatchesState, OnlySubmitted,
             FinalAnnounced, FinalSent, Conserved, Abandoned, NothingBehindEnd,
             Disconnected, Holding, Pushing
<1> QED BY <1>1, <1>2, <1>3, <1>4, <1>5, <1>6 DEF Next, PushStep

(* The strengthened invariant of the router holds in every reachable       *)
(* state, with any number of pushes under way.                             *)
THEOREM Invariance == Spec => []IndInv
BY IndInit, IndStep, PTL DEF Spec

-----------------------------------------------------------------------------
(* What it gives *)

(* An entry has its sender exactly while it is live: no terminal request   *)
(* holds its channel open, and a validated push always finds a sender.     *)
THEOREM SendersAgree == Spec => []SenderMatchesState
<1>1. IndInv => SenderMatchesState
  BY DEF IndInv
<1> QED BY Invariance, <1>1, PTL

(* A stream that has ended had every frame handed out, no push holds a     *)
(* sender that could add one, and its request is terminal.                 *)
THEOREM EndsTellTheTruth == Spec => []EndIsLast
<1>1. IndInv => EndIsLast
  <2> SUFFICES ASSUME IndInv, NEW id \in Ids, rx[id] = "ended"
               PROVE  /\ got[id] = Len(sent[id])
                      /\ \A p \in Pushers : ~Holding(p, id)
                      /\ state[id] \in Terminal
    BY DEF EndIsLast
  <2>1. channel[id] = <<>> /\ ~sender[id] /\ \A p \in Pushers : ~Holding(p, id)
    BY DEF IndInv, NothingBehindEnd, Disconnected
  <2>2. got[id] = Len(sent[id])
    <3>1. got[id] \in Nat /\ Len(channel[id]) = 0
      BY <2>1 DEF IndInv, TypeOK
    <3> QED BY <3>1 DEF IndInv, Conserved, Abandoned
  <2>3. state[id] \in Terminal
    BY <2>1 DEF IndInv, OnlySubmitted, SenderMatchesState, TypeOK
  <2> QED BY <2>1, <2>2, <2>3
<1> QED BY Invariance, <1>1, PTL

LEMMA CompleteStep ==
    ASSUME IndInv, [Next]_vars, NEW id \in Ids
    PROVE  /\ state[id] = "Complete" => state'[id] = "Complete"
           /\ state[id] = "Cancelled" /\ state'[id] # "Cancelled" => FinalSent(id)
<1> USE DEF IndInv, TypeOK
<1>1. ASSUME NEW i \in Ids,
             AcceptInsert(i) \/ AcceptRollBack(i) \/ Cancel(i)
      PROVE  state[id] \in Terminal => state'[id] = state[id]
  BY <1>1 DEF AcceptInsert, AcceptRollBack, Accepting, Cancel, Cancellable,
              OnlySubmitted, Live, Terminal
<1>2. ASSUME NEW i \in Ids,
             \/ AcceptSubmit(i) \/ Subscribe(i) \/ Receive(i) \/ ReceiveEnd(i)
             \/ DropReceiver(i)
      PROVE  state' = state
  BY <1>2 DEF AcceptSubmit, Subscribe, Receive, ReceiveEnd, DropReceiver, entryVars
<1>3. ASSUME NEW p \in Pushers, PushRefused(p) \/ PushValidate(p)
      PROVE  state[id] \in Terminal => state'[id] = state[id]
  BY <1>3 DEF PushRefused, PushValidate, Fits, Live, Terminal
<1>4. ASSUME NEW p \in Pushers,
             \/ \E i \in Ids, frame \in Frame : PushBegin(p, i, frame)
             \/ PushFails(p) \/ PushSend(p)
      PROVE  state' = state
  BY <1>4 DEF PushBegin, PushFails, PushSend, entryVars
<1>5. ASSUME NEW p \in Pushers, PushComplete(p)
      PROVE  state'[id] \in {state[id], "Complete"} /\ (state'[id] # state[id] => FinalSent(id))
  <2>1. FinalSent(push[p].id)
    BY <1>5 DEF PushComplete, FinalAnnounced
  <2> QED BY <1>5, <2>1 DEF PushComplete
<1>6. CASE Shutdown \/ UNCHANGED vars
  BY <1>6 DEF Shutdown, vars, entryVars
<1> QED BY <1>1, <1>2, <1>3, <1>4, <1>5, <1>6 DEF Next, PushStep, Terminal

(* A completed request stays completed, and a cancelled one completes only *)
(* because its final frame had entered the channel.                        *)
THEOREM CompletionIsFinal == Spec => CompleteIsFinal
<1>1. IndInv /\ [Next]_vars =>
        [\A id \in Ids :
          /\ state[id] = "Complete" => state'[id] = "Complete"
          /\ state[id] = "Cancelled" /\ state'[id] # "Cancelled" =>
                FinalSent(id)]_vars
  BY CompleteStep
<1> QED BY Invariance, <1>1, PTL DEF Spec, CompleteIsFinal

-----------------------------------------------------------------------------
(* The router implements Streams, one push of a request at a time *)

(* What the driver's awaiting each push of a request gives.                *)
OneAtATime ==
    \A p, q \in Pushers, id \in Ids : Pushing(p, id) /\ Pushing(q, id) => p = q

Whole(id) == sent[id] # <<>> /\ sent[id][Len(sent[id])].final

(* A push holding a sender, its frame not yet sent, comes behind all that  *)
(* was sent, and nothing final was.                                        *)
NextInLine(p) ==
    /\ ~Whole(push[p].id)
    /\ state[push[p].id] # "Complete"
    /\ push[p].frame.index = last[push[p].id]
    /\ sent[push[p].id] # <<>> =>
          sent[push[p].id][Len(sent[push[p].id])].index < push[p].frame.index

(* The frames sent are recorded in the entry; a request is complete only   *)
(* if its stream is whole, and a whole stream is that of a terminal        *)
(* request or of one whose push is about to complete it.                   *)
SentRecorded(id) ==
    /\ id \notin submitted => sent[id] = <<>>
    /\ sent[id] # <<>> => sent[id][Len(sent[id])].index <= last[id]
    /\ state[id] = "Complete" => Whole(id)
    /\ Whole(id) /\ state[id] \notin Terminal =>
          \E p \in Pushers : push[p].step = "sent" /\ push[p].id = id

InOrder ==
    /\ OneAtATime
    /\ \A id \in Ids : SentRecorded(id)
    /\ \A p \in Pushers :
          /\ push[p].step = "cloned" => NextInLine(p)
          /\ push[p].step = "sent" => Whole(push[p].id)

LEMMA OrderInit == Init => InOrder
<1> SUFFICES ASSUME Init PROVE InOrder
  OBVIOUS
<1>1. \A p \in Pushers : push[p] = Idle
  BY DEF Init
<1>2. \A id \in Ids : sent[id] = <<>> /\ state[id] = "absent"
  BY DEF Init
<1> QED BY <1>1, <1>2 DEF InOrder, OneAtATime, SentRecorded, NextInLine, Whole, Pushing, Idle

(* A step that touches neither the pushes nor what was sent.               *)
LEMMA OrderEntry ==
    ASSUME IndInv, InOrder, NEW id \in Ids,
           \/ AcceptInsert(id) \/ AcceptSubmit(id) \/ AcceptRollBack(id)
           \/ Subscribe(id) \/ Cancel(id) \/ Receive(id) \/ ReceiveEnd(id)
           \/ DropReceiver(id)
    PROVE  InOrder'
<1>1. UNCHANGED <<push, sent>>
  BY DEF AcceptInsert, AcceptSubmit, AcceptRollBack, Subscribe, Cancel, Receive,
         ReceiveEnd, DropReceiver, entryVars, streamVars
<1>2. submitted \subseteq submitted'
  BY DEF AcceptInsert, AcceptSubmit, AcceptRollBack, Subscribe, Cancel, Receive,
         ReceiveEnd, DropReceiver, entryVars, streamVars
<1>3. \A j \in Ids : j \in submitted =>
         /\ last'[j] = last[j]
         /\ state'[j] = state[j] \/ state'[j] = "Cancelled"
  BY DEF IndInv, OnlySubmitted, TypeOK, AcceptInsert, AcceptSubmit, AcceptRollBack,
         Accepting, Subscribe, Cancel, Receive, ReceiveEnd, DropReceiver, entryVars
<1>4. \A j \in Ids : j \notin submitted =>
         sent[j] = <<>> /\ (state'[j] = "Complete" => state[j] = "Complete")
  <2>1. \A j \in Ids : j \notin submitted => sent[j] = <<>>
    BY DEF InOrder, SentRecorded
  <2> QED BY <2>1 DEF IndInv, TypeOK, AcceptInsert, AcceptSubmit, AcceptRollBack,
         Accepting, Subscribe, Cancel, Receive, ReceiveEnd, DropReceiver, entryVars
<1>5. \A p \in Pushers : push[p].step # "idle" => push[p].id \in submitted /\ push[p].id \in Ids
  BY PushFacts DEF IndInv, OnlySubmitted, Idle
<1>6. OneAtATime'
  BY <1>1 DEF InOrder, OneAtATime, Pushing
<1>7. \A j \in Ids : SentRecorded(j)'
  BY <1>1, <1>2, <1>3, <1>4 DEF InOrder, SentRecorded, Whole, Terminal
<1>8. \A p \in Pushers :
         /\ push'[p].step = "cloned" => NextInLine(p)'
         /\ push'[p].step = "sent" => Whole(push[p].id)'
  BY <1>1, <1>3, <1>5 DEF InOrder, NextInLine, Whole
<1> QED BY <1>1, <1>6, <1>7, <1>8 DEF InOrder

(* The pushes.                                                             *)
LEMMA OrderPush ==
    ASSUME IndInv, InOrder, Concurrent = FALSE, NEW p \in Pushers,
           \/ \E id \in Ids, frame \in Frame : PushBegin(p, id, frame)
           \/ PushRefused(p) \/ PushValidate(p) \/ PushFails(p)
    PROVE  InOrder'
<1>1. UNCHANGED <<sent, submitted>>
  BY DEF PushBegin, PushRefused, PushValidate, PushFails, entryVars, streamVars
<1>2. \A q \in Pushers \ {p} : push'[q] = push[q]
  BY StepFacts DEF IndInv, TypeOK, PushBegin, PushRefused, PushValidate, PushFails, Return, Idle
<1>3. CASE \E id \in Ids, frame \in Frame : PushBegin(p, id, frame)
  <2>1. PICK id \in Ids, frame \in Frame : PushBegin(p, id, frame)
    BY <1>3
  <2>2. push'[p] = [step |-> "begun", id |-> id, frame |-> frame]
    BY <2>1 DEF PushBegin, IndInv, TypeOK
  <2>3. UNCHANGED <<state, last>> /\ push[p] = Idle
    BY <2>1 DEF PushBegin, entryVars
  <2>4. OneAtATime'
    BY <1>2, <2>1, <2>2 DEF PushBegin, InOrder, OneAtATime, Pushing
  <2>5. \A j \in Ids : SentRecorded(j)'
    BY <1>1, <1>2, <2>3 DEF InOrder, SentRecorded, Whole, Idle
  <2>6. \A q \in Pushers :
         /\ push'[q].step = "cloned" => NextInLine(q)'
         /\ push'[q].step = "sent" => Whole(push[q].id)'
    BY <1>1, <1>2, <2>2, <2>3 DEF InOrder, NextInLine, Whole
  <2> QED BY <2>2, <2>4, <2>5, <2>6 DEF InOrder, Whole
<1>4. CASE PushRefused(p) \/ PushFails(p)
  <2>1. push'[p] = Idle /\ push[p] # Idle /\ push[p].step # "sent"
    BY <1>4 DEF PushRefused, PushFails, Return, IndInv, TypeOK, Idle
  <2>2. UNCHANGED <<state, last>>
    BY <1>4, PushFacts
    DEF PushRefused, PushFails, entryVars, Fits, IndInv, SenderMatchesState, Idle
  <2>3. OneAtATime'
    BY <1>2, <2>1 DEF InOrder, OneAtATime, Pushing
  <2>4. \A j \in Ids : SentRecorded(j)'
    BY <1>1, <1>2, <2>1, <2>2 DEF InOrder, SentRecorded, Whole, Idle
  <2>5. \A q \in Pushers :
         /\ push'[q].step = "cloned" => NextInLine(q)'
         /\ push'[q].step = "sent" => Whole(push[q].id)'
    BY <1>1, <1>2, <2>1, <2>2 DEF InOrder, NextInLine, Whole, Idle
  <2> QED BY <2>3, <2>4, <2>5 DEF InOrder, Whole
<1>5. CASE PushValidate(p)
  <2> DEFINE id == push[p].id
             frame == push[p].frame
  <2>1. /\ push[p] # Idle /\ push[p].step = "begun"
        /\ id \in Ids /\ frame \in Frame /\ frame.index \in Indices
    BY <1>5, PushFacts DEF PushValidate, IndInv, Idle
  <2>2. push'[p] = [step |-> "cloned", id |-> id, frame |-> frame]
    BY <1>5, <2>1, StepFacts DEF PushValidate, IndInv
  <2>3. /\ state[id] \in Live /\ state'[id] = "Streaming" /\ last'[id] = frame.index
        /\ \A j \in Ids \ {id} : state'[j] = state[j] /\ last'[j] = last[j]
    BY <1>5, <2>1 DEF PushValidate, Fits, Recorded, IndInv, TypeOK
  <2>4. sent[id] # <<>> => sent[id][Len(sent[id])].index < frame.index
    <3> SUFFICES ASSUME sent[id] # <<>> PROVE sent[id][Len(sent[id])].index < frame.index
      OBVIOUS
    <3>1. sent[id][Len(sent[id])].index <= last[id]
      BY <2>1 DEF InOrder, SentRecorded
    <3>2. sent[id][Len(sent[id])] \in Frame
      BY <2>1 DEF IndInv, TypeOK
    <3>3. sent[id][Len(sent[id])].index \in Int /\ frame.index \in Int
      BY <2>1, <3>2 DEF Frame, Indices
    <3>4. last[id] \in Int
      BY <2>1 DEF IndInv, TypeOK, Indices, None
    <3>5. last[id] = None \/ frame.index > last[id]
      BY <1>5 DEF PushValidate, Fits
    <3>6. sent[id][Len(sent[id])].index >= 0
      BY <3>2 DEF Frame, Indices
    <3> QED BY <3>1, <3>3, <3>4, <3>5, <3>6 DEF None
  <2>5. ~Whole(id)
    <3> SUFFICES ASSUME Whole(id) PROVE FALSE
      OBVIOUS
    <3>1. PICK q \in Pushers : push[q].step = "sent" /\ push[q].id = id
      BY <2>1, <2>3 DEF InOrder, SentRecorded, Live, Terminal
    <3>2. q = p
      BY <2>1, <3>1 DEF InOrder, OneAtATime, Pushing, Idle
    <3> QED BY <2>1, <3>1, <3>2
  <2>6. OneAtATime'
    BY <1>2, <2>1, <2>2 DEF InOrder, OneAtATime, Pushing
  <2>7. ASSUME NEW j \in Ids PROVE SentRecorded(j)'
    <3>1. CASE j = id
      <4>1. sent[id] # <<>> => sent[id][Len(sent[id])].index <= last'[id]
        <5>1. ASSUME sent[id] # <<>> PROVE sent[id][Len(sent[id])] \in Frame
          BY <2>1, <5>1 DEF IndInv, TypeOK
        <5> QED BY <2>1, <2>3, <2>4, <5>1 DEF Frame, Indices
      <4> QED BY <1>1, <2>1, <2>3, <2>5, <3>1, <4>1 DEF InOrder, SentRecorded, Whole
    <3>2. CASE j # id
      BY <1>1, <1>2, <2>1, <2>2, <2>3, <3>2 DEF InOrder, SentRecorded, Whole
    <3> QED BY <3>1, <3>2
  <2>8. ASSUME NEW q \in Pushers
        PROVE  /\ push'[q].step = "cloned" => NextInLine(q)'
               /\ push'[q].step = "sent" => Whole(push[q].id)'
    <3>1. CASE q = p
      BY <1>1, <2>1, <2>2, <2>3, <2>4, <2>5, <3>1 DEF NextInLine, Whole
    <3>2. CASE q # p
      <4>1. push[q].step = "cloned" => push[q].id # id /\ push[q].id \in Ids
        BY <2>1, <3>2, PushFacts DEF InOrder, OneAtATime, Pushing, Idle, IndInv
      <4> QED BY <1>1, <1>2, <2>3, <3>2, <4>1 DEF InOrder, NextInLine, Whole
    <3> QED BY <3>1, <3>2
  <2> QED BY <2>6, <2>7, <2>8 DEF InOrder, Whole
<1> QED BY <1>3, <1>4, <1>5

(* The send and the completion: the push is the only one of its request.   *)
LEMMA OrderSend ==
    ASSUME IndInv, InOrder, NEW p \in Pushers, PushSend(p)
    PROVE  InOrder'
<1> DEFINE id == push[p].id
           frame == push[p].frame
<1>1. /\ push[p] # Idle /\ push[p].step = "cloned"
      /\ id \in Ids /\ frame \in Frame /\ frame.final \in BOOLEAN
      /\ frame.index \in Int
  <2>1. push[p] # Idle
    BY DEF PushSend, Idle
  <2>2. /\ id \in Ids /\ frame \in Frame /\ frame.final \in BOOLEAN
        /\ frame.index \in Indices
    BY <2>1, PushFacts DEF IndInv
  <2>3. \A i \in Indices : i \in Int
    BY DEF Indices
  <2> QED BY <2>1, <2>2, <2>3 DEF PushSend
<1>2. UNCHANGED <<state, last, submitted>>
  BY DEF PushSend, entryVars
<1>3. /\ sent'[id] # <<>> /\ sent'[id][Len(sent'[id])] = frame
      /\ \A j \in Ids \ {id} : sent'[j] = sent[j]
  <2>1. sent'[id] = Append(sent[id], frame) /\ sent[id] \in Seq(Frame)
        /\ \A j \in Ids \ {id} : sent'[j] = sent[j]
    BY <1>1 DEF PushSend, IndInv, TypeOK
  <2> QED BY <1>1, <2>1, LastAppended
<1>4. /\ \A q \in Pushers \ {p} : push'[q] = push[q]
      /\ \/ push'[p] = Idle /\ ~frame.final
         \/ frame.final /\ push'[p] = [step |-> "sent", id |-> id, frame |-> frame]
  <2>1. CASE frame.final
    BY <1>1, <2>1, StepFacts DEF PushSend, IndInv
  <2>2. CASE ~frame.final
    BY <1>1, <2>2 DEF PushSend, Return, IndInv, TypeOK
  <2> QED BY <2>1, <2>2
<1>5. /\ id \in submitted /\ state[id] # "Complete" /\ frame.index = last[id]
  BY <1>1 DEF IndInv, OnlySubmitted, InOrder, NextInLine
<1>6. OneAtATime'
  BY <1>1, <1>4 DEF InOrder, OneAtATime, Pushing
<1>7. ASSUME NEW j \in Ids PROVE SentRecorded(j)'
  <2>1. CASE j = id
    <3>1. Whole(j)' => frame.final
      BY <1>3, <2>1 DEF Whole
    <3>2. frame.final => push'[p].step = "sent" /\ push'[p].id = id
      BY <1>4
    <3>3. sent'[id][Len(sent'[id])].index <= last'[id]
      BY <1>1, <1>2, <1>3, <1>5
    <3>4. Whole(j)' => push'[p].step = "sent" /\ push'[p].id = j
      BY <2>1, <3>1, <3>2
    <3>5. j \in submitted' /\ state'[j] # "Complete"
      BY <1>2, <1>5, <2>1
    <3> QED BY <2>1, <3>3, <3>4, <3>5 DEF SentRecorded
  <2>2. CASE j # id
    <3>1. Whole(j)' <=> Whole(j)
      BY <1>3, <2>2 DEF Whole
    <3>2. \A q \in Pushers : push[q].step = "sent" => push'[q] = push[q]
      BY <1>1, <1>4
    <3> QED BY <1>2, <1>3, <2>2, <3>1, <3>2 DEF InOrder, SentRecorded
  <2> QED BY <2>1, <2>2
<1>8. ASSUME NEW q \in Pushers
      PROVE  /\ push'[q].step = "cloned" => NextInLine(q)'
             /\ push'[q].step = "sent" => Whole(push[q].id)' /\ push'[q].id = push[q].id
  <2>1. CASE q = p
    BY <1>3, <1>4, <2>1 DEF Idle, Whole
  <2>2. CASE q # p
    <3>1. push[q].step # "idle" => push[q].id \in Ids /\ push[q].id # id
      BY <1>1, <2>2, PushFacts DEF InOrder, OneAtATime, Pushing, Idle, IndInv
    <3> QED BY <1>2, <1>3, <1>4, <2>2, <3>1 DEF InOrder, NextInLine, Whole
  <2> QED BY <2>1, <2>2
<1> QED BY <1>6, <1>7, <1>8 DEF InOrder, Whole

LEMMA OrderComplete ==
    ASSUME IndInv, InOrder, NEW p \in Pushers, PushComplete(p)
    PROVE  InOrder'
<1> DEFINE id == push[p].id
<1>1. push[p] # Idle /\ push[p].step = "sent" /\ id \in Ids /\ state[id] # "absent"
      /\ id \in submitted
  BY PushFacts DEF PushComplete, IndInv, OnlySubmitted, Idle
<1>2. /\ UNCHANGED <<sent, last, submitted>>
      /\ state'[id] = "Complete" /\ \A j \in Ids \ {id} : state'[j] = state[j]
      /\ push'[p] = Idle /\ \A q \in Pushers \ {p} : push'[q] = push[q]
  BY <1>1 DEF PushComplete, streamVars, Return, IndInv, TypeOK
<1>3. Whole(id)
  BY <1>1 DEF InOrder
<1>4. OneAtATime'
  BY <1>2 DEF InOrder, OneAtATime, Pushing
<1>5. \A j \in Ids : SentRecorded(j)'
  BY <1>1, <1>2, <1>3 DEF InOrder, SentRecorded, Whole, Terminal
<1>6. ASSUME NEW q \in Pushers
      PROVE  /\ push'[q].step = "cloned" => NextInLine(q)'
             /\ push'[q].step = "sent" => Whole(push[q].id)'
  <2>1. q # p /\ push[q].step # "idle" => push[q].id \in Ids /\ push[q].id # id
    BY <1>1, PushFacts DEF InOrder, OneAtATime, Pushing, Idle, IndInv
  <2> QED BY <1>2, <2>1 DEF InOrder, NextInLine, Whole, Idle
<1> QED BY <1>4, <1>5, <1>6 DEF InOrder, Whole

LEMMA OrderStep == Concurrent = FALSE /\ IndInv /\ InOrder /\ [Next]_vars => InOrder'
<1> SUFFICES ASSUME Concurrent = FALSE, IndInv, InOrder, [Next]_vars PROVE InOrder'
  OBVIOUS
<1>1. CASE Shutdown \/ UNCHANGED vars
  <2>1. UNCHANGED <<state, last, sent, push, submitted>>
    BY <1>1 DEF Shutdown, vars, entryVars, streamVars
  <2> QED BY <2>1 DEF InOrder, OneAtATime, Pushing, SentRecorded, NextInLine, Whole
<1> QED BY <1>1, OrderEntry, OrderPush, OrderSend, OrderComplete DEF Next, PushStep

LEMMA StreamsInit == Init => St!Init
<1> SUFFICES ASSUME Init PROVE St!Init
  OBVIOUS
<1>1. [id \in Ids |-> Outcome(id)] = [id \in Ids |-> "open"]
  BY DEF Init, Outcome
<1>2. [id \in Ids |-> Reader(id)] = [id \in Ids |-> "open"]
  BY DEF Init, Reader
<1> QED BY <1>1, <1>2 DEF Init, St!Init

(* A step that keeps what was sent and received, every receiver, and who   *)
(* is complete or cancelled, is none of the stream.                        *)
LEMMA StreamStutters ==
    ASSUME UNCHANGED <<sent, got>>,
           \A id \in Ids : Outcome(id)' = Outcome(id) /\ Reader(id)' = Reader(id)
    PROVE  UNCHANGED St!vars
BY DEF St!vars

LEMMA StreamSilent ==
    ASSUME IndInv,
           \/ \E id \in Ids : \/ AcceptInsert(id) \/ AcceptSubmit(id)
                              \/ AcceptRollBack(id) \/ Subscribe(id)
           \/ \E p \in Pushers :
                 \/ \E id \in Ids, frame \in Frame : PushBegin(p, id, frame)
                 \/ PushRefused(p) \/ PushValidate(p) \/ PushFails(p)
           \/ Shutdown \/ UNCHANGED vars
    PROVE  UNCHANGED St!vars
<1>1. UNCHANGED <<sent, got>>
  BY DEF AcceptInsert, AcceptSubmit, AcceptRollBack, Subscribe, PushBegin,
         PushRefused, PushValidate, PushFails, Shutdown, vars, entryVars, streamVars
<1>2. ASSUME NEW id \in Ids
      PROVE  Outcome(id)' = Outcome(id) /\ Reader(id)' = Reader(id)
  <2>1. CASE \E j \in Ids : AcceptInsert(j) \/ AcceptRollBack(j) \/ Subscribe(j)
    <3>1. state'[id] = state[id] \/ {state[id], state'[id]} \cap Terminal = {}
      BY <2>1 DEF AcceptInsert, AcceptRollBack, Accepting, Subscribe, entryVars,
                  IndInv, TypeOK, OnlySubmitted, Live, Terminal
    <3>2. rx'[id] = rx[id] \/ {rx[id], rx'[id]} \cap {"ended", "dropped"} = {}
      BY <2>1 DEF AcceptInsert, AcceptRollBack, Accepting, Subscribe,
                  IndInv, TypeOK, OnlySubmitted
    <3> QED BY <3>1, <3>2 DEF Outcome, Reader, Terminal
  <2>2. CASE \E p \in Pushers : PushRefused(p) \/ PushValidate(p)
    <3>1. state'[id] = state[id] \/ {state[id], state'[id]} \cap Terminal = {}
      <4>1. PICK p \in Pushers : PushRefused(p) \/ PushValidate(p)
        BY <2>2
      <4>2. CASE Fits(push[p].id, push[p].frame)
        <5>1. state' = [state EXCEPT ![push[p].id] = "Streaming"]
          BY <4>1, <4>2 DEF PushRefused, PushValidate
        <5>2. state[push[p].id] \in Live
          BY <4>2 DEF Fits
        <5>3. state'[id] \in {state[id], "Streaming"} /\ (state'[id] # state[id] => state[id] \in Live)
          BY <5>1, <5>2 DEF IndInv, TypeOK
        <5> QED BY <5>3 DEF Live, Terminal
      <4>3. CASE ~Fits(push[p].id, push[p].frame)
        BY <4>1, <4>3 DEF PushRefused, PushValidate
      <4> QED BY <4>2, <4>3
    <3>2. rx' = rx
      BY <2>2 DEF PushRefused, PushValidate, streamVars
    <3> QED BY <3>1, <3>2 DEF Outcome, Reader, Terminal
  <2>3. CASE UNCHANGED <<state, rx>>
    BY <2>3 DEF Outcome, Reader
  <2> QED BY <2>1, <2>2, <2>3
          DEF AcceptSubmit, PushBegin, PushFails, Shutdown, vars, entryVars, streamVars
<1> QED BY <1>1, <1>2, StreamStutters

(* A send is the entry of a frame: its reader is there, the channel has    *)
(* room, and the frame comes behind those before it.                       *)
LEMMA StreamEnter ==
    ASSUME IndInv, InOrder, NEW p \in Pushers, PushSend(p)
    PROVE  St!Enter(push[p].id, push[p].frame) /\ push[p].id \in Ids
                                               /\ push[p].frame \in St!Frame
<1> DEFINE id == push[p].id
           frame == push[p].frame
<1>1. /\ push[p] # Idle /\ push[p].step = "cloned"
      /\ id \in Ids /\ frame \in Frame
  <2>1. push[p] # Idle
    BY DEF PushSend, Idle
  <2> QED BY <2>1, PushFacts DEF PushSend, IndInv
<1>2. frame \in St!Frame
  BY <1>1 DEF Frame, St!Frame
<1>3. /\ UNCHANGED <<state, rx, got>> /\ ~Full(id) /\ ~Abandoned(id)
      /\ sent' = [sent EXCEPT ![id] = Append(@, frame)]
  BY DEF PushSend, entryVars
<1>4. /\ [j \in Ids |-> Outcome(j)]' = [j \in Ids |-> Outcome(j)]
      /\ [j \in Ids |-> Reader(j)]' = [j \in Ids |-> Reader(j)]
  BY <1>3 DEF Outcome, Reader
<1>5. Reader(id) = "open"
  <2>1. rx[id] # "ended"
    BY <1>1 DEF IndInv, NothingBehindEnd, Disconnected, Holding, Pushing
  <2> QED BY <1>3, <2>1 DEF Reader, Abandoned
<1>6. /\ ~Whole(id) /\ state[id] # "Complete"
      /\ sent[id] # <<>> => sent[id][Len(sent[id])].index < frame.index
  BY <1>1 DEF InOrder, NextInLine
<1>7. Len(sent[id]) - got[id] < Depth
  <2>1. got[id] \in Nat /\ Len(channel[id]) \in Nat /\ Len(sent[id]) \in Nat
    BY <1>1 DEF IndInv, TypeOK
  <2>2. got[id] + Len(channel[id]) = Len(sent[id]) /\ Len(channel[id]) < Depth
    BY <1>1, <1>3, <2>1, RouterAssumption DEF IndInv, Conserved, Full
  <2> QED BY <2>1, <2>2, RouterAssumption
<1>8. Outcome(id) # "complete"
  BY <1>6 DEF Outcome
<1> QED BY <1>1, <1>2, <1>3, <1>4, <1>5, <1>6, <1>7, <1>8
        DEF St!Enter, St!Whole, St!Last, Whole

LEMMA StreamComplete ==
    ASSUME IndInv, InOrder, NEW p \in Pushers, PushComplete(p)
    PROVE  St!Complete(push[p].id) /\ push[p].id \in Ids
<1> DEFINE id == push[p].id
<1>1. id \in Ids /\ state[id] # "absent" /\ Whole(id)
  <2>1. push[p] # Idle
    BY DEF PushComplete, Idle
  <2> QED BY <2>1, PushFacts DEF PushComplete, IndInv, OnlySubmitted, InOrder
<1>2. /\ UNCHANGED <<sent, got, rx>>
      /\ state' = [state EXCEPT ![id] = "Complete"]
  BY <1>1 DEF PushComplete, streamVars
<1>3. [j \in Ids |-> Outcome(j)]' = [[j \in Ids |-> Outcome(j)] EXCEPT ![id] = "complete"]
  BY <1>1, <1>2 DEF Outcome, IndInv, TypeOK
<1>4. [j \in Ids |-> Reader(j)]' = [j \in Ids |-> Reader(j)]
  BY <1>2 DEF Reader
<1> QED BY <1>1, <1>2, <1>3, <1>4 DEF St!Complete, St!Whole, St!Last, Whole

(* A cancellation that finds its receiver still parked throws it away.     *)
LEMMA StreamCancel ==
    ASSUME IndInv, NEW id \in Ids, Cancel(id)
    PROVE  St!Cancel({id})
<1>1. /\ state[id] \in Live /\ UNCHANGED <<sent, got>>
      /\ state' = [state EXCEPT ![id] = "Cancelled"]
      /\ rx' = rx \/ rx' = [rx EXCEPT ![id] = "dropped"]
  BY DEF Cancel, Cancellable
<1>2. \A j \in {id} : [i \in Ids |-> Outcome(i)][j] = "open"
  BY <1>1 DEF Outcome, Live
<1>3. [j \in Ids |-> Outcome(j)]' =
        [j \in Ids |-> IF j \in {id} THEN "cancelled" ELSE [i \in Ids |-> Outcome(i)][j]]
  BY <1>1 DEF Outcome, IndInv, TypeOK
<1>4. \/ [j \in Ids |-> Reader(j)]' = [j \in Ids |-> Reader(j)]
      \/ [j \in Ids |-> Reader(j)]' =
           [j \in Ids |-> IF j \in {id} THEN "gone" ELSE [i \in Ids |-> Reader(i)][j]]
  BY <1>1 DEF Reader, IndInv, TypeOK
<1> QED BY <1>1, <1>2, <1>3, <1>4 DEF St!Cancel

LEMMA StreamRead ==
    ASSUME IndInv, NEW id \in Ids,
           Receive(id) \/ ReceiveEnd(id) \/ DropReceiver(id)
    PROVE  St!Hand(id) \/ St!End(id) \/ St!Leave(id)
<1>1. /\ rx[id] = "taken" /\ UNCHANGED <<state, sent>> /\ id \in submitted
      /\ Len(channel[id]) \in Nat /\ Len(sent[id]) \in Nat /\ got[id] \in Nat
      /\ got[id] + Len(channel[id]) = Len(sent[id])
  BY DEF Receive, ReceiveEnd, DropReceiver, entryVars, IndInv, TypeOK, OnlySubmitted,
         Conserved, Abandoned
<1>2. [j \in Ids |-> Outcome(j)]' = [j \in Ids |-> Outcome(j)]
  BY <1>1 DEF Outcome
<1>3. Reader(id) = "open"
  BY <1>1 DEF Reader
<1>4. CASE Receive(id)
  <2>1. UNCHANGED rx /\ got' = [got EXCEPT ![id] = @ + 1] /\ channel[id] # <<>>
    BY <1>4 DEF Receive
  <2>2. [j \in Ids |-> Reader(j)]' = [j \in Ids |-> Reader(j)]
    BY <2>1 DEF Reader
  <2>3. Len(channel[id]) > 0
    BY <2>1 DEF IndInv, TypeOK
  <2> QED BY <1>1, <1>2, <1>3, <2>1, <2>2, <2>3 DEF St!Hand
<1>5. CASE ReceiveEnd(id)
  <2>1. /\ rx' = [rx EXCEPT ![id] = "ended"] /\ UNCHANGED got
        /\ Len(channel[id]) = 0 /\ ~sender[id]
    BY <1>5 DEF ReceiveEnd, Disconnected
  <2>2. [j \in Ids |-> Reader(j)]' = [[j \in Ids |-> Reader(j)] EXCEPT ![id] = "ended"]
    BY <2>1 DEF Reader, IndInv, TypeOK
  <2>3. state[id] \in Terminal
    BY <1>1, <2>1 DEF IndInv, OnlySubmitted, SenderMatchesState, TypeOK
  <2>4. Outcome(id) # "open"
    BY <2>3 DEF Outcome, Terminal
  <2> QED BY <1>1, <1>2, <1>3, <2>1, <2>2, <2>4 DEF St!End
<1>6. CASE DropReceiver(id)
  <2>1. rx' = [rx EXCEPT ![id] = "dropped"] /\ UNCHANGED got
    BY <1>6 DEF DropReceiver
  <2>2. [j \in Ids |-> Reader(j)]' = [[j \in Ids |-> Reader(j)] EXCEPT ![id] = "gone"]
    BY <2>1 DEF Reader, IndInv, TypeOK
  <2> QED BY <1>1, <1>2, <2>1, <2>2 DEF St!Leave
<1> QED BY <1>4, <1>5, <1>6

LEMMA StreamsStep ==
    IndInv /\ InOrder /\ [Next]_vars => [St!Next]_(St!vars)
<1> SUFFICES ASSUME IndInv, InOrder, [Next]_vars PROVE St!Next \/ UNCHANGED St!vars
  OBVIOUS
<1>1. ASSUME NEW p \in Pushers, PushSend(p) PROVE St!Next
  <2>1. /\ St!Enter(push[p].id, push[p].frame)
        /\ push[p].id \in Ids /\ push[p].frame \in St!Frame
    BY <1>1, StreamEnter
  <2> QED BY <2>1, Zenon DEF St!Next
<1>2. ASSUME NEW p \in Pushers, PushComplete(p) PROVE St!Next
  <2>1. St!Complete(push[p].id) /\ push[p].id \in Ids
    BY <1>2, StreamComplete
  <2> QED BY <2>1, Zenon DEF St!Next
<1>3. ASSUME NEW id \in Ids, Cancel(id) PROVE St!Next
  <2>1. St!Cancel({id}) /\ {id} \in SUBSET Ids
    BY <1>3, StreamCancel
  <2> QED BY <2>1, Zenon DEF St!Next
<1>4. ASSUME NEW id \in Ids, Receive(id) \/ ReceiveEnd(id) \/ DropReceiver(id)
      PROVE  St!Next
  BY <1>4, StreamRead, Zenon DEF St!Next
<1> QED BY <1>1, <1>2, <1>3, <1>4, StreamSilent DEF Next, PushStep

(* The native router implements the stream of frames its subscribers rely  *)
(* on, for every depth, any number of requests and of pushes, as long as   *)
(* the driver awaits a push before the next one of the same request.       *)
THEOREM RefinesStreams ==
    ASSUME Concurrent = FALSE
    PROVE  Spec => ImplementsStreams
<1>1. Init => InOrder
  BY OrderInit
<1>2. IndInv /\ InOrder /\ [Next]_vars => InOrder'
  BY OrderStep
<1>3. Spec => []InOrder
  BY <1>1, <1>2, Invariance, PTL DEF Spec
<1> QED BY <1>3, Invariance, StreamsInit, StreamsStep, PTL
        DEF Spec, ImplementsStreams, St!Spec
=============================================================================
