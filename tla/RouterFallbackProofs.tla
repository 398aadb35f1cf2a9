------------------------- MODULE RouterFallbackProofs -------------------------
(***************************************************************************)
(* Theorems about RouterFallback, for any set of ids, any depth of the     *)
(* queues and any bound on the indices, and whether or not the driver's    *)
(* cancel may fall in the middle of a step of the loop.                    *)
(***************************************************************************)
EXTENDS RouterFallback, SequenceTheorems, TLAPS

Item == Frame \cup {Sentinel}

Types ==
    /\ RouterTypeOK
    /\ sent \in [StreamIds -> Seq(Frame)]
    /\ got \in [StreamIds -> Nat]

(* The frames that were put where the reader will meet them, and that it   *)
(* has not taken, are the queue up to its first sentinel.                  *)
Pending(id) == Len(sent[id]) - got[id]

QueueIsPending(id) ==
    /\ Pending(id) \in 0..Len(queue[id])
    /\ \A i \in 1..Pending(id) : queue[id][i] # Sentinel
    /\ Pending(id) < Len(queue[id]) => queue[id][Pending(id) + 1] = Sentinel

(* A sentinel is put by the call that closes the entry.                    *)
SentinelMeansClosed(id) ==
    (\E i \in DOMAIN queue[id] : queue[id][i] = Sentinel) => entryClosed[id]

(* The frames recorded come in order, a whole stream is that of a terminal *)
(* entry, and the queue of a reader that is there holds what is pending.   *)
StreamInv(id) ==
    /\ Whole(id) => state[id] \in Terminal /\ entryClosed[id]
    /\ sent[id] # <<>> => sent[id][Len(sent[id])].index <= last[id]
    /\ SentinelMeansClosed(id)
    /\ reader[id] \notin {"ended", "gone"} => QueueIsPending(id)

(* The half done step of the loop still fits its entry, whatever the       *)
(* driver's thread did in between.                                         *)
LoopInv ==
    /\ loop.at = "put" => ~Whole(loop.id) /\ last[loop.id] < loop.frame.index
    /\ loop.at = "get" => reader[loop.id] = "idle"

(* The inductive invariant.                                                *)
IndInv == Types /\ LoopInv /\ \A id \in StreamIds : StreamInv(id)

-----------------------------------------------------------------------------
(* Lemmas about the data *)

LEMMA SentinelIsNoFrame == \A f \in Frame : f # Sentinel
<1> SUFFICES ASSUME NEW f \in Frame, f = Sentinel PROVE FALSE
  OBVIOUS
<1>1. "index" \in DOMAIN f
  BY DEF Frame
<1>2. DOMAIN Sentinel = {"sentinel"}
  BY DEF Sentinel
<1> QED BY <1>1, <1>2

LEMMA Appended ==
    ASSUME NEW S, NEW s \in Seq(S), NEW e \in S
    PROVE  /\ Append(s, e) \in Seq(S)
           /\ Append(s, e) # <<>>
           /\ Len(Append(s, e)) = Len(s) + 1
           /\ Append(s, e)[Len(s) + 1] = e
           /\ \A i \in 1..Len(s) : Append(s, e)[i] = s[i]
OBVIOUS

LEMMA LoopFacts ==
    ASSUME RouterTypeOK
    PROVE  /\ loop.at \in {"rest", "put", "get"}
           /\ loop.at = "rest" <=> loop = Resting
           /\ loop.at = "put" => /\ loop.id \in StreamIds /\ loop.frame \in Frame
                                 /\ loop.frame.index \in Indices
                                 /\ loop.frame.final \in BOOLEAN
           /\ loop.at = "get" => loop.id \in StreamIds
BY DEF RouterTypeOK, Resting, Frame

(* A dropped sentinel changes nothing; one that is put comes behind all    *)
(* that is pending.                                                        *)
LEMMA SentinelPut ==
    ASSUME Types, NEW id \in StreamIds
    PROVE  /\ WithSentinel(id) \in Seq(Item)
           /\ Len(WithSentinel(id)) <= Depth
           /\ \/ WithSentinel(id) = queue[id]
              \/ WithSentinel(id) = Append(queue[id], Sentinel)
<1>1. queue[id] \in Seq(Item) /\ Len(queue[id]) <= Depth /\ Sentinel \in Item
  BY DEF Types, RouterTypeOK, Item
<1>2. Len(queue[id]) \in Nat
  BY <1>1
<1>3. CASE Full(id)
  BY <1>1, <1>3 DEF WithSentinel
<1>4. CASE ~Full(id)
  <2>1. Len(queue[id]) < Depth
    BY <1>2, <1>4, RouterFallbackAssumption DEF Full
  <2>2. Append(queue[id], Sentinel) \in Seq(Item)
        /\ Len(Append(queue[id], Sentinel)) = Len(queue[id]) + 1
    BY <1>1, Appended
  <2> QED BY <1>2, <1>4, <2>1, <2>2, RouterFallbackAssumption DEF WithSentinel
<1> QED BY <1>3, <1>4

LEMMA SentinelKeepsPending ==
    ASSUME Types, NEW id \in StreamIds, QueueIsPending(id),
           UNCHANGED <<sent, got>>, queue'[id] = WithSentinel(id)
    PROVE  QueueIsPending(id)'
<1>1. Pending(id)' = Pending(id)
  BY DEF Pending
<1>2. CASE queue'[id] = queue[id]
  BY <1>1, <1>2 DEF QueueIsPending
<1>3. CASE queue'[id] = Append(queue[id], Sentinel)
  <2>1. queue[id] \in Seq(Item) /\ Sentinel \in Item
    BY DEF Types, RouterTypeOK, Item
  <2>2. /\ Len(queue'[id]) = Len(queue[id]) + 1
        /\ queue'[id][Len(queue[id]) + 1] = Sentinel
        /\ \A i \in 1..Len(queue[id]) : queue'[id][i] = queue[id][i]
    BY <1>3, <2>1, Appended
  <2>3. Len(queue[id]) \in Nat /\ Pending(id) \in 0..Len(queue[id])
    BY <2>1 DEF QueueIsPending
  <2>4. Pending(id) \in 0..Len(queue'[id])
    BY <2>2, <2>3
  <2>5. \A i \in 1..Pending(id) : queue'[id][i] # Sentinel
    BY <2>2, <2>3 DEF QueueIsPending
  <2>6. queue'[id][Pending(id) + 1] = Sentinel
    <3>1. CASE Pending(id) = Len(queue[id])
      BY <2>2, <3>1
    <3>2. CASE Pending(id) < Len(queue[id])
      BY <2>2, <2>3, <3>2 DEF QueueIsPending
    <3> QED BY <2>3, <3>1, <3>2
  <2> QED BY <1>1, <2>4, <2>5, <2>6 DEF QueueIsPending
<1> QED BY <1>2, <1>3, SentinelPut

LEMMA UntouchedKeeps ==
    ASSUME NEW id \in StreamIds, StreamInv(id),
           state'[id] = state[id], last'[id] = last[id], queue'[id] = queue[id],
           entryClosed'[id] = entryClosed[id], sent'[id] = sent[id], got'[id] = got[id],
           reader[id] \in {"ended", "gone"} => reader'[id] = reader[id]
    PROVE  StreamInv(id)'
<1>1. Pending(id)' = Pending(id)
  BY DEF Pending
<1>2. QueueIsPending(id) => QueueIsPending(id)'
  BY <1>1 DEF QueueIsPending
<1> QED BY <1>2 DEF StreamInv, Whole, SentinelMeansClosed

(* Closing an entry, with or without its sentinel.                         *)
LEMMA ClosedKeeps ==
    ASSUME Types, NEW id \in StreamIds, StreamInv(id),
           UNCHANGED <<last, sent, got>>,
           queue'[id] = WithSentinel(id), entryClosed'[id] = TRUE,
           state'[id] = state[id] \/ state'[id] = "Cancelled",
           reader[id] \in {"ended", "gone"} => reader'[id] = reader[id]
    PROVE  StreamInv(id)'
<1>1. Whole(id)' => state'[id] \in Terminal /\ entryClosed'[id]
  BY DEF StreamInv, Whole, Terminal
<1>2. sent'[id] # <<>> => sent'[id][Len(sent'[id])].index <= last'[id]
  BY DEF StreamInv
<1>3. SentinelMeansClosed(id)'
  BY DEF SentinelMeansClosed
<1>4. reader'[id] \notin {"ended", "gone"} => QueueIsPending(id)'
  BY SentinelKeepsPending DEF StreamInv
<1> QED BY <1>1, <1>2, <1>3, <1>4 DEF StreamInv

-----------------------------------------------------------------------------
(* The invariant *)

LEMMA IndInit == RouterInit => IndInv
<1> SUFFICES ASSUME RouterInit PROVE IndInv
  OBVIOUS
<1>1. Types
  <2>1. \A S : <<>> \in Seq(S)
    OBVIOUS
  <2>2. queue \in [StreamIds -> Seq(Frame \cup {Sentinel})] /\ sent \in [StreamIds -> Seq(Frame)]
    BY <2>1 DEF RouterInit
  <2>3. \A id \in StreamIds : Len(queue[id]) <= Depth
    BY RouterFallbackAssumption DEF RouterInit
  <2> QED BY <2>2, <2>3 DEF RouterInit, Types, RouterTypeOK, Resting
<1>2. LoopInv
  BY DEF RouterInit, LoopInv, Resting
<1>3. ASSUME NEW id \in StreamIds PROVE StreamInv(id)
  <2>1. sent[id] = <<>> /\ queue[id] = <<>> /\ got[id] = 0
    BY DEF RouterInit
  <2>2. Pending(id) = 0 /\ Len(queue[id]) = 0
    BY <2>1 DEF Pending
  <2> QED BY <2>1, <2>2 DEF StreamInv, Whole, SentinelMeansClosed, QueueIsPending
<1> QED BY <1>1, <1>2, <1>3 DEF IndInv

(* accept, subscribe, the steps of the reader that take nothing.           *)
LEMMA IndQuiet ==
    ASSUME IndInv, NEW id \in StreamIds,
           \/ Accept(id) \/ Subscribe(id) \/ ReadEnd(id) \/ ReadEmpty(id) \/ Leave(id)
    PROVE  IndInv'
<1>1. UNCHANGED <<last, queue, entryClosed, shut, torn, sent, got>> /\ loop = Resting
  BY DEF Accept, Subscribe, ReadEnd, ReadEmpty, Leave
<1>2. Types'
  <2>1. state' \in [StreamIds -> {"absent", "Scheduled", "Streaming"} \cup Terminal]
    BY DEF IndInv, Types, RouterTypeOK, Accept, Subscribe, ReadEnd, ReadEmpty, Leave
  <2>2. reader' \in [StreamIds -> {"none", "idle", "waiting", "woken", "ended", "gone"}]
    BY DEF IndInv, Types, RouterTypeOK, Accept, Subscribe, ReadEnd, ReadEmpty, Leave
  <2>3. loop' = Resting \/ loop' = [at |-> "get", id |-> id]
    BY <1>1 DEF Accept, Subscribe, ReadEnd, ReadEmpty, Leave
  <2> QED BY <1>1, <2>1, <2>2, <2>3 DEF IndInv, Types, RouterTypeOK
<1>3. LoopInv'
  BY <1>1 DEF LoopInv, Accept, Subscribe, ReadEnd, ReadEmpty, Leave, Resting
<1>4. ASSUME NEW j \in StreamIds PROVE StreamInv(j)'
  <2>1. state'[j] = state[j] \/ state[j] = "absent"
    BY DEF Accept, Subscribe, ReadEnd, ReadEmpty, Leave, IndInv, Types, RouterTypeOK
  <2>2. reader'[j] \notin {"ended", "gone"} => reader[j] \notin {"ended", "gone"}
    BY DEF Accept, Subscribe, ReadEnd, ReadEmpty, Leave, IndInv, Types, RouterTypeOK
  <2>3. StreamInv(j)
    BY DEF IndInv
  <2> QED BY <1>1, <2>1, <2>2, <2>3
          DEF StreamInv, Whole, SentinelMeansClosed, QueueIsPending, Pending, Terminal
<1> QED BY <1>2, <1>3, <1>4 DEF IndInv

(* The half done get() goes to wait.                                       *)
LEMMA IndRegister == IndInv /\ Register => IndInv'
<1> SUFFICES ASSUME IndInv, Register PROVE IndInv'
  OBVIOUS
<1>1. UNCHANGED <<state, last, queue, entryClosed, shut, torn, sent, got>> /\ loop' = Resting
      /\ loop.id \in StreamIds /\ reader[loop.id] = "idle"
      /\ reader' = [reader EXCEPT ![loop.id] = "waiting"]
  BY LoopFacts DEF Register, IndInv, LoopInv, Types
<1>2. Types' /\ LoopInv'
  BY <1>1 DEF IndInv, Types, RouterTypeOK, LoopInv, Resting
<1>3. ASSUME NEW j \in StreamIds PROVE StreamInv(j)'
  <2>1. reader'[j] \notin {"ended", "gone"} => reader[j] \notin {"ended", "gone"}
    BY <1>1 DEF IndInv, Types, RouterTypeOK
  <2> QED BY <1>1, <2>1
          DEF IndInv, StreamInv, Whole, SentinelMeansClosed, QueueIsPending, Pending
<1> QED BY <1>2, <1>3 DEF IndInv

LEMMA IndPushCheck ==
    ASSUME IndInv, NEW id \in StreamIds, NEW f \in Frame, PushCheck(id, f)
    PROVE  IndInv'
<1>1. /\ UNCHANGED <<state, last, queue, entryClosed, reader, shut, torn, sent, got>>
      /\ loop' = [at |-> "put", id |-> id, frame |-> f]
      /\ state[id] \notin Terminal /\ f.index > last[id]
  BY DEF PushCheck
<1>2. Types'
  BY <1>1 DEF IndInv, Types, RouterTypeOK
<1>3. LoopInv'
  <2>1. ~Whole(id)'
    BY <1>1 DEF IndInv, StreamInv, Whole
  <2>2. last[id] < f.index
    BY <1>1 DEF IndInv, Types, RouterTypeOK, Indices, NoIndex, Frame
  <2> QED BY <1>1, <2>1, <2>2 DEF LoopInv, Whole
<1>4. \A j \in StreamIds : StreamInv(j)'
  BY <1>1 DEF IndInv, StreamInv, Whole, SentinelMeansClosed, QueueIsPending, Pending
<1> QED BY <1>2, <1>3, <1>4 DEF IndInv

(* The rest of a push: a frame that is put where the reader will meet it   *)
(* is the last of the pending ones.                                        *)
LEMMA IndPushPut == IndInv /\ PushPut => IndInv'
<1> SUFFICES ASSUME IndInv, PushPut PROVE IndInv'
  OBVIOUS
<1>1. PICK id \in StreamIds, f \in Frame :
        /\ id = loop.id /\ f = loop.frame
        /\ f.index \in Indices /\ f.final \in BOOLEAN
        /\ ~Whole(id) /\ last[id] < f.index
  BY LoopFacts DEF PushPut, IndInv, Types, LoopInv
<1>2. /\ last' = [last EXCEPT ![id] = f.index]
      /\ state' = [state EXCEPT ![id] = IF f.final THEN "Complete" ELSE "Streaming"]
      /\ entryClosed' = [entryClosed EXCEPT ![id] = @ \/ f.final]
      /\ queue' = [queue EXCEPT ![id] = IF Full(id) THEN @ ELSE Append(@, f)]
      /\ sent' = [sent EXCEPT ![id] = IF Full(id) \/ Sealed(id) THEN @ ELSE Append(@, f)]
      /\ reader' = [j \in StreamIds |->
            IF j \in {id} /\ reader[j] = "waiting" THEN "woken" ELSE reader[j]]
      /\ loop' = Resting /\ UNCHANGED <<shut, torn, got>>
  BY <1>1 DEF PushPut, Woken
<1>3. /\ queue[id] \in Seq(Item) /\ sent[id] \in Seq(Frame)
      /\ f \in Item /\ Len(queue[id]) <= Depth /\ Len(queue[id]) \in Nat
      /\ Len(sent[id]) \in Nat /\ got[id] \in Nat
  BY DEF IndInv, Types, RouterTypeOK, Item
<1>4. Types'
  <2>1. (IF Full(id) THEN queue[id] ELSE Append(queue[id], f)) \in Seq(Item)
    BY <1>3, Appended
  <2>2. ~Full(id) => Len(Append(queue[id], f)) <= Depth
    <3>1. Len(Append(queue[id], f)) = Len(queue[id]) + 1
      BY <1>3, Appended
    <3> QED BY <1>3, <3>1, RouterFallbackAssumption DEF Full
  <2>3. (IF Full(id) \/ Sealed(id) THEN sent[id] ELSE Append(sent[id], f)) \in Seq(Frame)
    BY <1>3, Appended
  <2>4. queue' \in [StreamIds -> Seq(Item)] /\ sent' \in [StreamIds -> Seq(Frame)]
    <3>1. queue \in [StreamIds -> Seq(Item)] /\ sent \in [StreamIds -> Seq(Frame)]
      BY DEF IndInv, Types, RouterTypeOK, Item
    <3> QED BY <1>2, <2>1, <2>3, <3>1
  <2>5. \A j \in StreamIds : Len(queue'[j]) <= Depth
    BY <1>2, <1>3, <2>2 DEF IndInv, Types, RouterTypeOK
  <2>6. state' \in [StreamIds -> {"absent", "Scheduled", "Streaming"} \cup Terminal]
    BY <1>2 DEF IndInv, Types, RouterTypeOK, Terminal
  <2>7. entryClosed' \in [StreamIds -> BOOLEAN]
    <3>1. entryClosed \in [StreamIds -> BOOLEAN] /\ (entryClosed[id] \/ f.final) \in BOOLEAN
      BY DEF IndInv, Types, RouterTypeOK
    <3> QED BY <1>2, <3>1
  <2>8. last' \in [StreamIds -> Indices \cup {NoIndex}]
    BY <1>1, <1>2 DEF IndInv, Types, RouterTypeOK
  <2>9. reader' \in [StreamIds -> {"none", "idle", "waiting", "woken", "ended", "gone"}]
    BY <1>2 DEF IndInv, Types, RouterTypeOK
  <2> QED BY <1>2, <2>4, <2>5, <2>6, <2>7, <2>8, <2>9
          DEF IndInv, Types, RouterTypeOK, Item
<1>5. LoopInv'
  BY <1>2 DEF LoopInv, Resting
<1>6. ASSUME NEW j \in StreamIds, j # id PROVE StreamInv(j)'
  BY <1>2, <1>6
  DEF IndInv, Types, RouterTypeOK, StreamInv, Whole, SentinelMeansClosed, QueueIsPending, Pending
<1>7. StreamInv(id)'
  <2>0. StreamInv(id) /\ f # Sentinel
    BY SentinelIsNoFrame DEF IndInv
  <2>1. /\ last'[id] = f.index /\ got'[id] = got[id]
        /\ state'[id] = IF f.final THEN "Complete" ELSE "Streaming"
        /\ entryClosed'[id] = (entryClosed[id] \/ f.final)
        /\ queue'[id] = IF Full(id) THEN queue[id] ELSE Append(queue[id], f)
        /\ sent'[id] = IF Full(id) \/ Sealed(id) THEN sent[id] ELSE Append(sent[id], f)
    BY <1>2 DEF IndInv, Types, RouterTypeOK
  <2>2. reader'[id] \notin {"ended", "gone"} => reader[id] \notin {"ended", "gone"}
    BY <1>2
  <2>3. SentinelMeansClosed(id)'
    <3> SUFFICES ASSUME NEW i \in DOMAIN queue'[id], queue'[id][i] = Sentinel
                 PROVE  entryClosed[id]
      BY <2>1 DEF SentinelMeansClosed
    <3>1. i \in DOMAIN queue[id] /\ queue[id][i] = Sentinel
      BY <1>3, <2>0, <2>1, Appended
    <3> QED BY <2>0, <3>1 DEF StreamInv, SentinelMeansClosed
  <2>4. CASE Full(id) \/ Sealed(id)
    <3>1. sent'[id] = sent[id]
      BY <2>1, <2>4
    <3>2. ~Whole(id)'
      BY <1>1, <3>1 DEF Whole
    <3>3. sent[id] # <<>> => sent[id][Len(sent[id])].index <= f.index
      <4> SUFFICES ASSUME sent[id] # <<>>
                   PROVE  sent[id][Len(sent[id])].index <= f.index
        OBVIOUS
      <4> DEFINE e == sent[id][Len(sent[id])]
      <4>1. e \in Frame
        BY <1>3
      <4>2. e.index \in Int
        BY <4>1 DEF Frame, Indices
      <4>3. f.index \in Int /\ last[id] \in Int
        BY <1>1 DEF Indices, NoIndex, IndInv, Types, RouterTypeOK
      <4>4. e.index <= last[id] /\ last[id] < f.index
        BY <1>1, <2>0 DEF StreamInv
      <4> HIDE DEF e
      <4>5. e.index <= f.index
        BY <4>2, <4>3, <4>4
      <4> QED BY <4>5 DEF e
    <3>4. reader[id] \notin {"ended", "gone"} => QueueIsPending(id)'
      <4> SUFFICES ASSUME reader[id] \notin {"ended", "gone"} PROVE QueueIsPending(id)'
        OBVIOUS
      <4>1. QueueIsPending(id) /\ Pending(id)' = Pending(id)
        BY <2>0, <2>1, <3>1 DEF StreamInv, Pending
      <4>2. CASE queue'[id] = queue[id]
        BY <4>1, <4>2 DEF QueueIsPending
      <4>3. CASE queue'[id] = Append(queue[id], f) /\ ~Full(id)
        <5>1. PICK i \in DOMAIN queue[id] : queue[id][i] = Sentinel
          BY <2>4, <4>3 DEF Sealed
        <5>2. i \in 1..Len(queue[id])
          BY <1>3, <5>1
        <5>3. PICK k : k = Pending(id)
          OBVIOUS
        <5>4. PICK m : m = Len(queue[id]) /\ m \in Nat
          BY <1>3
        <5>5. /\ k \in 0..m /\ \A j \in 1..k : queue[id][j] # Sentinel
              /\ k < m => queue[id][k + 1] = Sentinel
          BY <4>1, <5>3, <5>4 DEF QueueIsPending
        <5>6. k < m
          BY <5>1, <5>2, <5>4, <5>5
        <5>7. Len(queue'[id]) = m + 1 /\ \A j \in 1..m : queue'[id][j] = queue[id][j]
          BY <1>3, <4>3, <5>4, Appended
        <5>8. /\ k \in 0..(m + 1) /\ \A j \in 1..k : queue'[id][j] # Sentinel
              /\ queue'[id][k + 1] = Sentinel
          <6>1. k \in 0..(m + 1) /\ k + 1 \in 1..m /\ \A j \in 1..k : j \in 1..m
            BY ONLY <5>4, <5>5, <5>6
          <6>2. queue'[id][k + 1] = Sentinel
            BY ONLY <5>5, <5>6, <5>7, <6>1
          <6>3. \A j \in 1..k : queue'[id][j] # Sentinel
            BY ONLY <5>5, <5>7, <6>1
          <6> QED BY <6>1, <6>2, <6>3
        <5>9. QueueIsPending(id)'
          BY ONLY <4>1, <5>3, <5>7, <5>8 DEF QueueIsPending
        <5> QED BY <5>9
      <4> QED BY <2>1, <4>2, <4>3
    <3> QED BY <2>1, <2>2, <2>3, <3>1, <3>2, <3>3, <3>4 DEF StreamInv
  <2>5. CASE ~Full(id) /\ ~Sealed(id)
    <3>1. sent'[id] = Append(sent[id], f) /\ queue'[id] = Append(queue[id], f)
      BY <2>1, <2>5
    <3>2. /\ sent'[id] # <<>> /\ Len(sent'[id]) = Len(sent[id]) + 1
          /\ sent'[id][Len(sent'[id])] = f
      BY <1>3, <3>1, Appended
    <3>3. Whole(id)' => f.final
      BY <3>2 DEF Whole
    <3>4. f.index <= f.index
      BY <1>1 DEF Indices
    <3>5. QueueIsPending(id)'
      <4>1. QueueIsPending(id)
        BY <2>0, <2>5 DEF StreamInv, Sealed
      <4>2. Pending(id) = Len(queue[id])
        <5>1. ASSUME Pending(id) < Len(queue[id]) PROVE FALSE
          <6>1. Pending(id) + 1 \in DOMAIN queue[id]
            BY <1>3, <4>1, <5>1 DEF QueueIsPending
          <6>2. queue[id][Pending(id) + 1] = Sentinel
            BY <4>1, <5>1 DEF QueueIsPending
          <6> QED BY <2>5, <6>1, <6>2 DEF Sealed
        <5> QED BY <1>3, <4>1, <5>1 DEF QueueIsPending
      <4>3. Pending(id)' = Pending(id) + 1
        BY <1>3, <2>1, <3>2 DEF Pending
      <4>4. /\ Len(queue'[id]) = Len(queue[id]) + 1
            /\ queue'[id][Len(queue[id]) + 1] = f
            /\ \A k \in 1..Len(queue[id]) : queue'[id][k] = queue[id][k]
        BY <1>3, <3>1, Appended
      <4>5. \A k \in 1..(Len(queue[id]) + 1) : queue'[id][k] # Sentinel
        BY <1>3, <2>0, <4>1, <4>2, <4>4 DEF QueueIsPending
      <4> QED BY <1>3, <4>2, <4>3, <4>4, <4>5 DEF QueueIsPending
    <3> QED BY <2>1, <2>3, <3>2, <3>3, <3>4, <3>5 DEF StreamInv, Terminal
  <2> QED BY <2>4, <2>5
<1> QED BY <1>4, <1>5, <1>6, <1>7 DEF IndInv

(* What the reader takes is the first pending frame, or the sentinel       *)
(* behind the last.                                                        *)
LEMMA TakeFacts ==
    ASSUME IndInv, NEW id \in StreamIds, ReadItem(id)
    PROVE  /\ queue[id] \in Seq(Item) /\ queue[id] # <<>>
           /\ queue'[id] = Tail(queue[id])
           /\ QueueIsPending(id)
           /\ Pending(id) \in Int /\ got[id] \in Nat /\ Len(sent[id]) \in Nat
           /\ Head(queue[id]) = Sentinel =>
                 Pending(id) = 0 /\ entryClosed[id] /\ reader'[id] = "ended" /\ got' = got
           /\ Head(queue[id]) # Sentinel =>
                 /\ Pending(id) > 0 /\ reader'[id] = "idle"
                 /\ got' = [got EXCEPT ![id] = @ + 1]
<1>1. /\ queue[id] \in Seq(Item) /\ queue[id] # <<>>
      /\ queue'[id] = Tail(queue[id]) /\ QueueIsPending(id)
      /\ got \in [StreamIds -> Nat] /\ Len(sent[id]) \in Nat
  <2>1. queue[id] \in Seq(Item) /\ Len(sent[id]) \in Nat /\ got \in [StreamIds -> Nat]
    BY DEF IndInv, Types, RouterTypeOK, Item
  <2>2. queue[id] # <<>> /\ queue'[id] = Tail(queue[id])
    BY DEF ReadItem, Take, IndInv, Types, RouterTypeOK
  <2>3. reader[id] \in {"woken", "idle"}
    BY DEF ReadItem
  <2>4. QueueIsPending(id)
    BY <2>3 DEF IndInv, StreamInv
  <2> QED BY <2>1, <2>2, <2>4
<1>2. Len(queue[id]) \in Nat /\ Len(queue[id]) > 0 /\ Head(queue[id]) = queue[id][1]
      /\ 1 \in DOMAIN queue[id]
  BY <1>1
<1>3. Pending(id) \in 0..Len(queue[id])
  BY <1>1 DEF QueueIsPending
<1>4. ASSUME Head(queue[id]) = Sentinel
      PROVE  Pending(id) = 0 /\ entryClosed[id] /\ reader'[id] = "ended" /\ got' = got
  <2>1. Pending(id) = 0
    BY <1>1, <1>2, <1>3, <1>4 DEF QueueIsPending
  <2>2. entryClosed[id]
    BY <1>2, <1>4 DEF IndInv, StreamInv, SentinelMeansClosed
  <2>3. reader'[id] = "ended" /\ got' = got
    BY <1>1, <1>4 DEF ReadItem, Take, IndInv, Types, RouterTypeOK
  <2> QED BY <2>1, <2>2, <2>3
<1>5. ASSUME Head(queue[id]) # Sentinel
      PROVE  /\ Pending(id) > 0 /\ reader'[id] = "idle"
             /\ got' = [got EXCEPT ![id] = @ + 1]
  <2>1. Pending(id) > 0
    BY <1>1, <1>2, <1>3, <1>5 DEF QueueIsPending
  <2> QED BY <1>5, <2>1 DEF ReadItem, Take, IndInv, Types, RouterTypeOK
<1> QED BY <1>1, <1>3, <1>4, <1>5

LEMMA IndReadItem ==
    ASSUME IndInv, NEW id \in StreamIds, ReadItem(id)
    PROVE  IndInv'
<1>1. /\ UNCHANGED <<state, last, entryClosed, shut, loop, torn, sent>>
      /\ loop = Resting
      /\ queue' = [queue EXCEPT ![id] = Tail(queue[id])]
      /\ \A j \in StreamIds \ {id} : reader'[j] = reader[j] /\ got'[j] = got[j]
  BY DEF ReadItem, Take, IndInv, Types, RouterTypeOK
<1>2. /\ queue[id] \in Seq(Item) /\ queue[id] # <<>> /\ Len(queue[id]) <= Depth
  BY DEF ReadItem, Take, IndInv, Types, RouterTypeOK, Item
<1>3. /\ Tail(queue[id]) \in Seq(Item)
      /\ Len(Tail(queue[id])) = Len(queue[id]) - 1
      /\ Len(queue[id]) \in Nat
      /\ \A i \in 1..(Len(queue[id]) - 1) : Tail(queue[id])[i] = queue[id][i + 1]
      /\ DOMAIN Tail(queue[id]) = 1..(Len(queue[id]) - 1)
  BY <1>2
<1>4. Types'
  <2>1. reader' \in [StreamIds -> {"none", "idle", "waiting", "woken", "ended", "gone"}]
    BY DEF ReadItem, Take, IndInv, Types, RouterTypeOK
  <2>2. got' \in [StreamIds -> Nat]
    BY DEF ReadItem, Take, IndInv, Types
  <2>3. queue' \in [StreamIds -> Seq(Item)]
    BY <1>1, <1>3 DEF IndInv, Types, RouterTypeOK, Item
  <2>4. \A j \in StreamIds : Len(queue'[j]) <= Depth
    BY <1>1, <1>2, <1>3, RouterFallbackAssumption DEF IndInv, Types, RouterTypeOK
  <2> QED BY <1>1, <2>1, <2>2, <2>3, <2>4 DEF IndInv, Types, RouterTypeOK, Item
<1>5. LoopInv'
  BY <1>1 DEF LoopInv, Resting
<1>6. ASSUME NEW j \in StreamIds, j # id PROVE StreamInv(j)'
  BY <1>1, <1>6
  DEF IndInv, Types, RouterTypeOK, StreamInv, Whole, SentinelMeansClosed, QueueIsPending, Pending
<1>7. StreamInv(id)'
  <2>0. StreamInv(id) /\ queue'[id] = Tail(queue[id])
    BY TakeFacts DEF IndInv
  <2>1. SentinelMeansClosed(id)'
    <3> SUFFICES ASSUME NEW i \in DOMAIN queue'[id], queue'[id][i] = Sentinel
                 PROVE  entryClosed[id]
      BY <1>1 DEF SentinelMeansClosed
    <3>1. i + 1 \in DOMAIN queue[id] /\ queue[id][i + 1] = Sentinel
      BY <1>2, <1>3, <2>0
    <3> QED BY <2>0, <3>1 DEF StreamInv, SentinelMeansClosed
  <2>2. reader'[id] \notin {"ended", "gone"} => QueueIsPending(id)'
    <3> SUFFICES ASSUME reader'[id] \notin {"ended", "gone"} PROVE QueueIsPending(id)'
      OBVIOUS
    <3>1. /\ QueueIsPending(id) /\ Pending(id) > 0 /\ Pending(id) \in Int
          /\ got'[id] = got[id] + 1 /\ got[id] \in Nat /\ Len(sent[id]) \in Nat
      BY TakeFacts DEF IndInv, Types
    <3>2. Pending(id)' = Pending(id) - 1
      <4>1. PICK n, g : n = Len(sent[id]) /\ g = got[id]
        OBVIOUS
      <4>2. Pending(id)' = n - (g + 1) /\ Pending(id) = n - g /\ n \in Nat /\ g \in Nat
        BY <1>1, <3>1, <4>1 DEF Pending
      <4>3. n - (g + 1) = (n - g) - 1
        BY ONLY <4>2
      <4> QED BY <4>2, <4>3
    <3>3. Pending(id) - 1 \in 0..Len(queue'[id])
      BY <1>3, <2>0, <3>1 DEF QueueIsPending
    <3>4. \A i \in 1..(Pending(id) - 1) : queue'[id][i] # Sentinel
      <4> SUFFICES ASSUME NEW i \in 1..(Pending(id) - 1) PROVE queue'[id][i] # Sentinel
        OBVIOUS
      <4>1. i \in 1..(Len(queue[id]) - 1) /\ i + 1 \in 1..Pending(id)
        BY <1>3, <3>1 DEF QueueIsPending
      <4> QED BY <1>3, <2>0, <3>1, <4>1 DEF QueueIsPending
    <3>5. Pending(id) - 1 < Len(queue'[id]) => queue'[id][Pending(id) - 1 + 1] = Sentinel
      <4> SUFFICES ASSUME Pending(id) - 1 < Len(queue'[id])
                   PROVE  queue'[id][Pending(id)] = Sentinel
        BY <3>1
      <4>1. Pending(id) < Len(queue[id]) /\ Pending(id) \in 1..(Len(queue[id]) - 1)
        BY <1>3, <2>0, <3>1
      <4> QED BY <1>3, <2>0, <3>1, <4>1 DEF QueueIsPending
    <3> QED BY <3>2, <3>3, <3>4, <3>5 DEF QueueIsPending
  <2> QED BY <1>1, <2>0, <2>1, <2>2 DEF StreamInv, Whole
<1> QED BY <1>4, <1>5, <1>6, <1>7 DEF IndInv

(* Both calls that close entries: cancel, also in the middle of a step of  *)
(* the loop, and shutdown.                                                 *)
Closing(ids) ==
    /\ UNCHANGED <<last, loop, sent, got>>
    /\ shut' \in BOOLEAN /\ torn' \subseteq StreamIds
    /\ state' \in [StreamIds -> {"absent", "Scheduled", "Streaming"} \cup Terminal]
    /\ \A j \in StreamIds : state'[j] = state[j] \/ (j \in ids /\ state'[j] = "Cancelled")
    /\ entryClosed' = [j \in StreamIds |-> IF j \in ids THEN TRUE ELSE entryClosed[j]]
    /\ queue' = [j \in StreamIds |-> IF j \in ids THEN WithSentinel(j) ELSE queue[j]]
    /\ Woken(ids)

LEMMA CancelCloses ==
    ASSUME Types, NEW id \in StreamIds, CancelStream(id)
    PROVE  Closing({id})
<1>1. state' \in [StreamIds -> {"absent", "Scheduled", "Streaming"} \cup Terminal]
  BY DEF CancelStream, Types, RouterTypeOK, Terminal
<1>2. \A j \in StreamIds : state'[j] = state[j] \/ (j \in {id} /\ state'[j] = "Cancelled")
  BY DEF CancelStream, Types, RouterTypeOK
<1>3. entryClosed' = [j \in StreamIds |-> IF j \in {id} THEN TRUE ELSE entryClosed[j]]
  BY DEF CancelStream, Types, RouterTypeOK
<1>4. queue' = [j \in StreamIds |-> IF j \in {id} THEN WithSentinel(j) ELSE queue[j]]
  BY DEF CancelStream, Types, RouterTypeOK
<1> QED BY <1>1, <1>2, <1>3, <1>4 DEF Closing, CancelStream, Types, RouterTypeOK

LEMMA ShutdownCloses ==
    ASSUME Types, RouterShutdown
    PROVE  Closing({id \in StreamIds : state[id] # "absent"})
<1> DEFINE known == {id \in StreamIds : state[id] # "absent"}
<1>1. /\ entryClosed' = [id \in StreamIds |-> entryClosed[id] \/ id \in known]
      /\ queue' = [id \in StreamIds |-> IF id \in known THEN WithSentinel(id) ELSE queue[id]]
      /\ Woken(known) /\ shut' = TRUE
      /\ UNCHANGED <<state, last, loop, torn, sent, got>>
  BY DEF RouterShutdown
<1>2. state \in [StreamIds -> {"absent", "Scheduled", "Streaming"} \cup Terminal]
      /\ entryClosed \in [StreamIds -> BOOLEAN] /\ torn \subseteq StreamIds
  BY DEF Types, RouterTypeOK
<1> HIDE DEF known
<1>3. entryClosed' = [j \in StreamIds |-> IF j \in known THEN TRUE ELSE entryClosed[j]]
  BY <1>1, <1>2
<1>4. Closing(known)
  BY <1>1, <1>2, <1>3 DEF Closing
<1> QED BY <1>4 DEF known

LEMMA IndClose ==
    ASSUME IndInv, (\E id \in StreamIds : CancelStream(id)) \/ RouterShutdown
    PROVE  IndInv'
<1>0. PICK ids \in SUBSET StreamIds : Closing(ids)
  <2>1. CASE \E id \in StreamIds : CancelStream(id)
    <3>1. PICK id \in StreamIds : CancelStream(id)
      BY <2>1
    <3> QED BY <3>1, CancelCloses DEF IndInv
  <2>2. CASE RouterShutdown
    BY <2>2, ShutdownCloses DEF IndInv
  <2> QED BY <2>1, <2>2
<1>1. /\ UNCHANGED <<last, loop, sent, got>> /\ shut' \in BOOLEAN /\ torn' \subseteq StreamIds
      /\ \A j \in StreamIds : state'[j] = state[j] \/ (j \in ids /\ state'[j] = "Cancelled")
      /\ \A j \in StreamIds : entryClosed'[j] = IF j \in ids THEN TRUE ELSE entryClosed[j]
      /\ \A j \in StreamIds : queue'[j] = IF j \in ids THEN WithSentinel(j) ELSE queue[j]
  BY <1>0 DEF Closing
<1>2. /\ \A j \in StreamIds : reader'[j] = IF j \in ids /\ reader[j] = "waiting" THEN "woken" ELSE reader[j]
      /\ reader' \in [StreamIds -> {"none", "idle", "waiting", "woken", "ended", "gone"}]
  BY <1>0 DEF Closing, Woken, IndInv, Types, RouterTypeOK
<1>3. Types'
  <2>1. state' \in [StreamIds -> {"absent", "Scheduled", "Streaming"} \cup Terminal]
    BY <1>0 DEF Closing
  <2>2. entryClosed' \in [StreamIds -> BOOLEAN]
    BY <1>0 DEF Closing, IndInv, Types, RouterTypeOK
  <2>3. \A j \in StreamIds : queue'[j] \in Seq(Item) /\ Len(queue'[j]) <= Depth
    <3>1. \A j \in StreamIds : queue[j] \in Seq(Item) /\ Len(queue[j]) <= Depth
      BY DEF IndInv, Types, RouterTypeOK, Item
    <3>2. \A j \in StreamIds : WithSentinel(j) \in Seq(Item) /\ Len(WithSentinel(j)) <= Depth
      BY SentinelPut DEF IndInv
    <3> QED BY <1>1, <3>1, <3>2
  <2>4. queue' \in [StreamIds -> Seq(Item)]
    <3>1. queue' = [j \in StreamIds |-> queue'[j]]
      BY <1>0 DEF Closing
    <3> QED BY <2>3, <3>1
  <2> QED BY <1>1, <1>2, <2>1, <2>2, <2>3, <2>4 DEF IndInv, Types, RouterTypeOK, Item
<1>4. LoopInv'
  <2>1. loop.at = "put" => Whole(loop.id)' = Whole(loop.id)
    BY <1>1 DEF Whole
  <2>2. loop.at = "get" => reader'[loop.id] = "idle"
    BY <1>2, LoopFacts DEF IndInv, LoopInv, Types
  <2> QED BY <1>1, <2>1, <2>2 DEF IndInv, LoopInv
<1>5. ASSUME NEW j \in StreamIds PROVE StreamInv(j)'
  <2>1. CASE j \in ids
    <3>1. queue'[j] = WithSentinel(j) /\ entryClosed'[j] = TRUE
      BY <1>1, <2>1
    <3> QED BY <1>1, <1>2, <3>1, ClosedKeeps DEF IndInv
  <2>2. CASE j \notin ids
    BY <1>1, <1>2, <2>2, UntouchedKeeps DEF IndInv
  <2> QED BY <2>1, <2>2
<1> QED BY <1>3, <1>4, <1>5 DEF IndInv

LEMMA IndStep == IndInv /\ [RouterNext]_routerVars => IndInv'
<1> SUFFICES ASSUME IndInv, [RouterNext]_routerVars PROVE IndInv'
  OBVIOUS
<1>1. CASE UNCHANGED routerVars
  BY <1>1 DEF routerVars, IndInv, Types, RouterTypeOK, LoopInv, StreamInv, Whole,
              SentinelMeansClosed, QueueIsPending, Pending
<1> QED BY <1>1, IndQuiet, IndRegister, IndPushCheck, IndPushPut, IndReadItem, IndClose
        DEF RouterNext, Read

(* The strengthened invariant holds in every reachable state, wherever the *)
(* driver's cancel falls.                                                  *)
THEOREM Invariance == RouterSpec => []IndInv
BY IndInit, IndStep, PTL DEF RouterSpec

(* Every variable keeps its type, and no queue outgrows its bound: the     *)
(* queue never holds more than per_request_queue_depth items.              *)
THEOREM TypeCorrect == RouterSpec => []RouterTypeOK
<1>1. IndInv => RouterTypeOK
  BY DEF IndInv, Types
<1> QED BY Invariance, <1>1, PTL

-----------------------------------------------------------------------------
(* The fallback implements Streams *)

LEMMA StreamsInit == RouterInit => St!Init
<1> SUFFICES ASSUME RouterInit PROVE St!Init
  OBVIOUS
<1>1. [id \in StreamIds |-> Outcome(id)] = [id \in StreamIds |-> "open"]
  BY DEF RouterInit, Outcome, Whole
<1>2. [id \in StreamIds |-> Reader(id)] = [id \in StreamIds |-> "open"]
  BY DEF RouterInit, Reader
<1> QED BY <1>1, <1>2 DEF RouterInit, St!Init

(* The steps that neither close an entry, nor put a frame, nor take one.   *)
LEMMA StreamSilent ==
    ASSUME IndInv,
           \/ UNCHANGED routerVars \/ Register
           \/ \E id \in StreamIds : \/ Accept(id) \/ Subscribe(id) \/ ReadEmpty(id)
                              \/ \E f \in Frame : PushCheck(id, f)
    PROVE  UNCHANGED St!vars
<1>1. UNCHANGED <<sent, got, entryClosed>>
  BY DEF routerVars, Register, Accept, Subscribe, ReadEmpty, PushCheck
<1>2. \A j \in StreamIds : reader'[j] = reader[j]
                      \/ {reader[j], reader'[j]} \cap {"ended", "gone"} = {}
  BY LoopFacts DEF routerVars, Register, Accept, Subscribe, ReadEmpty, PushCheck,
                   IndInv, Types, RouterTypeOK, LoopInv
<1>3. [j \in StreamIds |-> Reader(j)]' = [j \in StreamIds |-> Reader(j)]
  BY <1>2 DEF Reader
<1>4. [j \in StreamIds |-> Outcome(j)]' = [j \in StreamIds |-> Outcome(j)]
  BY <1>1 DEF Outcome, Whole
<1> QED BY <1>1, <1>3, <1>4 DEF St!vars

(* A call that closes entries cancels those whose stream was open.         *)
LEMMA StreamCancel ==
    ASSUME IndInv, NEW ids \in SUBSET StreamIds,
           UNCHANGED <<sent, got>>,
           \A j \in StreamIds : entryClosed'[j] = IF j \in ids THEN TRUE ELSE entryClosed[j],
           \A j \in StreamIds : reader'[j] = IF j \in ids /\ reader[j] = "waiting"
                                       THEN "woken" ELSE reader[j]
    PROVE  \E some \in SUBSET StreamIds : St!Cancel(some)
<1> DEFINE some == {j \in ids : Outcome(j) = "open"}
<1>1. [j \in StreamIds |-> Reader(j)]' = [j \in StreamIds |-> Reader(j)]
  BY DEF Reader
<1>2. ASSUME NEW j \in StreamIds
      PROVE  Outcome(j)' = IF j \in some THEN "cancelled" ELSE Outcome(j)
  <2>1. Whole(j)' = Whole(j)
    BY DEF Whole
  <2>2. entryClosed[j] \in BOOLEAN
    BY DEF IndInv, Types, RouterTypeOK
  <2> QED BY <2>1, <2>2 DEF Outcome
<1> HIDE DEF some
<1>3. [j \in StreamIds |-> Outcome(j)]' =
        [j \in StreamIds |-> IF j \in some THEN "cancelled" ELSE [i \in StreamIds |-> Outcome(i)][j]]
  BY <1>2
<1>4. \A j \in some : j \in StreamIds /\ Outcome(j) = "open"
  BY DEF some
<1>5. St!Cancel(some)
  BY <1>1, <1>3, <1>4 DEF St!Cancel
<1> QED BY <1>4, <1>5

(* The rest of a push puts its frame behind those before it, or, if the    *)
(* queue was filled or sealed in between, may still close the entry.       *)
LEMMA StreamPut ==
    ASSUME IndInv, PushPut
    PROVE  \/ \E id \in StreamIds, f \in St!Frame : St!Enter(id, f)
           \/ \E some \in SUBSET StreamIds : St!Cancel(some)
<1>1. PICK id \in StreamIds, f \in Frame :
        /\ id = loop.id /\ f = loop.frame
        /\ f.index \in Indices /\ f.final \in BOOLEAN
        /\ ~Whole(id) /\ last[id] < f.index
  BY LoopFacts DEF PushPut, IndInv, Types, LoopInv
<1>2. /\ entryClosed' = [entryClosed EXCEPT ![id] = @ \/ f.final]
      /\ sent' = [sent EXCEPT ![id] = IF Full(id) \/ Sealed(id) THEN @ ELSE Append(@, f)]
      /\ \A j \in StreamIds : reader'[j] =
            IF j \in {id} /\ reader[j] = "waiting" THEN "woken" ELSE reader[j]
      /\ UNCHANGED got
  BY <1>1 DEF PushPut, Woken
<1>3. /\ queue[id] \in Seq(Item) /\ sent[id] \in Seq(Frame)
      /\ Len(queue[id]) \in Nat /\ Len(sent[id]) \in Nat /\ got[id] \in Nat
      /\ entryClosed \in [StreamIds -> BOOLEAN] /\ sent \in [StreamIds -> Seq(Frame)]
  BY DEF IndInv, Types, RouterTypeOK, Item
<1>4. [j \in StreamIds |-> Reader(j)]' = [j \in StreamIds |-> Reader(j)]
  BY <1>2 DEF Reader
<1>5. CASE Full(id) \/ Sealed(id)
  <2>1. UNCHANGED sent
    BY <1>2, <1>3, <1>5
  <2>2. CASE f.final
    <3>1. \A j \in StreamIds : entryClosed'[j] = IF j \in {id} THEN TRUE ELSE entryClosed[j]
      BY <1>2, <1>3, <2>2
    <3> QED BY <1>2, <2>1, <3>1, StreamCancel
  <2>3. CASE ~f.final
    <3>1. \A j \in StreamIds : entryClosed'[j] = IF j \in {} THEN TRUE ELSE entryClosed[j]
      BY <1>2, <1>3, <2>3
    <3>2. \A j \in StreamIds : Outcome(j)' = Outcome(j)
      BY <2>1, <3>1 DEF Outcome, Whole
    <3>3. St!Cancel({})
      BY <1>2, <1>4, <2>1, <3>2 DEF St!Cancel
    <3> QED BY <3>3
  <2> QED BY <1>1, <2>2, <2>3
<1>6. CASE ~Full(id) /\ ~Sealed(id)
  <2>1. /\ sent' = [sent EXCEPT ![id] = Append(@, f)]
        /\ sent'[id] # <<>> /\ sent'[id][Len(sent'[id])] = f
    <3>1. sent' = [sent EXCEPT ![id] = Append(@, f)]
      BY <1>2, <1>6
    <3>2. sent'[id] = Append(sent[id], f)
      BY <1>3, <3>1
    <3> QED BY <1>3, <3>1, <3>2, Appended
  <2>2. reader[id] \notin {"ended", "gone"} /\ Reader(id) = "open"
    BY <1>6 DEF Sealed, Reader
  <2>3. sent[id] # <<>> => sent[id][Len(sent[id])].index < f.index
    <3> SUFFICES ASSUME sent[id] # <<>>
                 PROVE  sent[id][Len(sent[id])].index < f.index
      OBVIOUS
    <3> DEFINE e == sent[id][Len(sent[id])]
    <3>1. e \in Frame
      BY <1>3
    <3>2. e.index \in Int
      BY <3>1 DEF Frame, Indices
    <3>3. f.index \in Int /\ last[id] \in Int
      BY <1>1 DEF Indices, NoIndex, IndInv, Types, RouterTypeOK
    <3>4. e.index <= last[id] /\ last[id] < f.index
      BY <1>1 DEF IndInv, StreamInv
    <3> HIDE DEF e
    <3>5. e.index < f.index
      BY <3>2, <3>3, <3>4
    <3> QED BY <3>5 DEF e
  <2>4. Len(sent[id]) - got[id] < Depth
    <3>1. Pending(id) <= Len(queue[id]) /\ Pending(id) \in Int
      BY <1>3, <2>2 DEF IndInv, StreamInv, QueueIsPending
    <3>2. Len(queue[id]) < Depth
      BY <1>3, <1>6, RouterFallbackAssumption DEF Full
    <3> QED BY <1>3, <3>1, <3>2, RouterFallbackAssumption DEF Pending
  <2>5. Outcome(id) # "complete"
    BY <1>1 DEF Outcome
  <2>6. \A j \in StreamIds \ {id} : Outcome(j)' = Outcome(j)
    BY <1>2 DEF Outcome, Whole, IndInv, Types, RouterTypeOK
  <2>7. \/ [j \in StreamIds |-> Outcome(j)]' = [j \in StreamIds |-> Outcome(j)]
        \/ /\ f.final
           /\ [j \in StreamIds |-> Outcome(j)]' = [[j \in StreamIds |-> Outcome(j)] EXCEPT ![id] = "complete"]
    <3>1. CASE f.final
      <4>1. Outcome(id)' = "complete"
        BY <2>1, <3>1 DEF Outcome, Whole
      <4> QED BY <2>6, <3>1, <4>1
    <3>2. CASE ~f.final
      <4>1. ~Whole(id)' /\ entryClosed'[id] = entryClosed[id]
        BY <1>2, <1>3, <2>1, <3>2 DEF Whole
      <4>2. Outcome(id)' = Outcome(id)
        BY <1>1, <4>1 DEF Outcome
      <4> QED BY <2>6, <4>2
    <3> QED BY <3>1, <3>2
  <2>8. f \in St!Frame
    BY DEF Frame, St!Frame
  <2>9. St!Enter(id, f)
    BY <1>1, <1>2, <1>4, <2>1, <2>2, <2>3, <2>4, <2>5, <2>7
    DEF St!Enter, St!Whole, St!Last, Whole
  <2> QED BY <2>8, <2>9
<1> QED BY <1>5, <1>6

LEMMA StreamRead ==
    ASSUME IndInv, NEW id \in StreamIds, ReadEnd(id) \/ ReadItem(id) \/ Leave(id)
    PROVE  St!Hand(id) \/ St!End(id) \/ St!Leave(id)
<1>1. UNCHANGED <<sent, entryClosed>>
  BY DEF ReadEnd, ReadItem, Leave
<1>2. [j \in StreamIds |-> Outcome(j)]' = [j \in StreamIds |-> Outcome(j)]
  BY <1>1 DEF Outcome, Whole
<1>3. \A j \in StreamIds \ {id} : reader'[j] = reader[j]
  BY DEF ReadEnd, ReadItem, Take, Leave, IndInv, Types, RouterTypeOK
<1>4. Reader(id) = "open" /\ reader[id] \notin {"ended", "gone"}
  BY DEF ReadEnd, ReadItem, Leave, Reader
<1>5. entryClosed[id] => Outcome(id) # "open"
  BY DEF Outcome
<1>6. ASSUME reader'[id] = "ended", entryClosed[id], Pending(id) = 0, UNCHANGED got
      PROVE  St!End(id)
  <2>1. [j \in StreamIds |-> Reader(j)]' = [[j \in StreamIds |-> Reader(j)] EXCEPT ![id] = "ended"]
    BY <1>3, <1>6 DEF Reader
  <2>2. got[id] = Len(sent[id])
    <3>1. got[id] \in Nat /\ Len(sent[id]) \in Nat
      BY DEF IndInv, Types
    <3> QED BY <1>6, <3>1 DEF Pending
  <2> QED BY <1>1, <1>2, <1>4, <1>5, <1>6, <2>1, <2>2 DEF St!End
<1>7. CASE ReadEnd(id)
  <2>1. reader'[id] = "ended" /\ entryClosed[id] /\ UNCHANGED got /\ Len(queue[id]) = 0
    BY <1>7 DEF ReadEnd, Drained, IndInv, Types, RouterTypeOK
  <2>2. Pending(id) = 0
    BY <1>4, <2>1 DEF IndInv, StreamInv, QueueIsPending
  <2> QED BY <1>6, <2>1, <2>2
<1>8. CASE ReadItem(id)
  <2>1. CASE Head(queue[id]) = Sentinel
    BY <1>6, <1>8, <2>1, TakeFacts
  <2>2. CASE Head(queue[id]) # Sentinel
    <3>1. /\ Pending(id) > 0 /\ reader'[id] = "idle"
          /\ got' = [got EXCEPT ![id] = @ + 1]
          /\ got[id] \in Nat /\ Len(sent[id]) \in Nat
      BY <1>8, <2>2, TakeFacts
    <3>2. [j \in StreamIds |-> Reader(j)]' = [j \in StreamIds |-> Reader(j)]
      BY <1>3, <1>4, <3>1 DEF Reader
    <3>3. got[id] < Len(sent[id])
      BY <3>1 DEF Pending
    <3> QED BY <1>1, <1>2, <1>4, <3>1, <3>2, <3>3 DEF St!Hand
  <2> QED BY <2>1, <2>2
<1>9. CASE Leave(id)
  <2>1. reader'[id] = "gone" /\ UNCHANGED got
    BY <1>9 DEF Leave, IndInv, Types, RouterTypeOK
  <2>2. [j \in StreamIds |-> Reader(j)]' = [[j \in StreamIds |-> Reader(j)] EXCEPT ![id] = "gone"]
    BY <1>3, <2>1 DEF Reader
  <2> QED BY <1>1, <1>2, <2>1, <2>2 DEF St!Leave
<1> QED BY <1>7, <1>8, <1>9

LEMMA StreamsStep == IndInv /\ [RouterNext]_routerVars => [St!Next]_(St!vars)
<1> SUFFICES ASSUME IndInv, [RouterNext]_routerVars PROVE St!Next \/ UNCHANGED St!vars
  OBVIOUS
<1>1. ASSUME (\E id \in StreamIds : CancelStream(id)) \/ RouterShutdown PROVE St!Next
  <2>1. PICK ids \in SUBSET StreamIds : Closing(ids)
    <3>1. CASE \E id \in StreamIds : CancelStream(id)
      <4>1. PICK id \in StreamIds : CancelStream(id)
        BY <3>1
      <4> QED BY <4>1, CancelCloses DEF IndInv
    <3>2. CASE RouterShutdown
      BY <3>2, ShutdownCloses DEF IndInv
    <3> QED BY <1>1, <3>1, <3>2
  <2>2. \E some \in SUBSET StreamIds : St!Cancel(some)
    BY <2>1, StreamCancel DEF Closing, Woken
  <2> QED BY <2>2, Zenon DEF St!Next
<1>2. ASSUME PushPut PROVE St!Next
  BY <1>2, StreamPut, Zenon DEF St!Next
<1>3. ASSUME NEW id \in StreamIds, ReadEnd(id) \/ ReadItem(id) \/ Leave(id)
      PROVE  St!Next
  BY <1>3, StreamRead, Zenon DEF St!Next
<1> QED BY <1>1, <1>2, <1>3, StreamSilent DEF RouterNext, Read

(* The fallback implements the same stream as the native router: no end    *)
(* overtakes a frame or ends a stream that is open, for any depth and      *)
(* wherever the driver's cancel interrupts the loop.                       *)
THEOREM RefinesStreams == RouterSpec => ImplementsStreams
BY Invariance, StreamsInit, StreamsStep, PTL DEF RouterSpec, ImplementsStreams, St!Spec
=============================================================================
