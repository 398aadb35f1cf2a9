---------------------------- MODULE ServingProofs ----------------------------
(***************************************************************************)
(* Proofs about Serving: the application keeps to the discipline that the  *)
(* router's streams rest on, it forgets no request, and a clip that        *)
(* completes was sent whole.  They hold for any number of requests, of     *)
(* pushes under way and of frames.                                         *)
(***************************************************************************)
EXTENDS Serving, SequenceTheorems, TLAPS

(* The router's own invariants and theorems, which hold of every router    *)
(* whose pushes keep to the discipline.                                    *)
RP == INSTANCE RouterProofs WITH Concurrent <- FALSE

Made == [Ids -> 0..MaxIndex]

DriverType ==
    [at : {"poll", "next", "stopped"}, made : Made]
    \cup [at : Places, id : Ids, index : (0..MaxIndex) \cup {-1}, made : Made]

RouterTypes ==
    /\ state \in [Ids -> R!Live \cup R!Terminal \cup {"absent"}]
    /\ last \in [Ids -> R!Indices \cup {R!None}]
    /\ sender \in [Ids -> BOOLEAN]
    /\ rx \in [Ids -> {"none", "parked", "taken", "ended", "dropped"}]
    /\ submitted \subseteq Ids
    /\ closed \in BOOLEAN
    /\ push \in [Pushers -> R!Push]
    /\ got \in [Ids -> Nat]

FrameTypes == channel \in [Ids -> Seq(R!Frame)] /\ sent \in [Ids -> Seq(R!Frame)]

AppTypes ==
    /\ qclosed \in BOOLEAN /\ drained \in BOOLEAN /\ stopping \in BOOLEAN
    /\ staged \subseteq Ids
    /\ loop \in Loop
    /\ client \in [Ids -> {"new", "accepting", "streaming", "refused", "ended", "gone"}]
    /\ driver \in DriverType
    /\ driver.at \in Working =>
          /\ driver.id \in Ids /\ driver.index \in (0..MaxIndex) \cup {-1}
          /\ Total \in Totals /\ driver.index < Total
          /\ driver.at \in {"frame", "push", "marker", "pushMarker"} => driver.index >= 0
          /\ driver.at \in {"marker", "pushMarker"} => driver.index + 1 = Total
    /\ pending \subseteq [id : Ids, frame : R!Frame]
    /\ answers \subseteq [id : Ids, ok : BOOLEAN]

-----------------------------------------------------------------------------
(* The log of the scheduler and the requests of the router are the same.   *)

Delivered(id) == \E n \in DOMAIN log : log[n].id = id /\ log[n].fate = "delivered"

LogInv ==
    /\ log \in Seq(PQ!Request)
    /\ \A m, n \in DOMAIN log : log[m].id = log[n].id => m = n
    /\ \A n \in DOMAIN log : log[n].id \in submitted
    /\ \A id \in submitted : \E n \in DOMAIN log : log[n].id = id

(* A push of a request waits for the loop, or is under way; its answer is  *)
(* there once it is over; and there is one push, or one answer.            *)
UnderWay(id) ==
    (\E c \in pending : c.id = id) \/ (\E p \in Pushers : R!Pushing(p, id))

Answered(id) == \E a \in answers : a.id = id

Single ==
    /\ \A c, d \in pending : c.id = d.id => c = d
    /\ \A c \in pending, p \in Pushers : ~R!Pushing(p, c.id)
    /\ \A p, q \in Pushers, id \in Ids : R!Pushing(p, id) /\ R!Pushing(q, id) => p = q
    /\ \A a, b \in answers : a.id = b.id => a = b
    /\ \A a \in answers : ~UnderWay(a.id)

(* Only a request that was delivered is driven and pushed to, and a push   *)
(* that the driver has left to itself is one it will not come back to.     *)
Started ==
    /\ driver.at \in Working => Delivered(driver.id)
    /\ \A id \in Ids :
          UnderWay(id) \/ Answered(id) =>
              /\ Delivered(id)
              /\ Driven(id) => driver.at \in {"push", "pushMarker", "cancel"}

Discipline == RP!IndInv /\ AppTypes /\ LogInv /\ Single /\ Started

-----------------------------------------------------------------------------
(* No request is forgotten. *)

(* The push that the driver waits for.                                     *)
Now == IF At("push") THEN [index |-> driver.index, final |-> IsFinal]
       ELSE [index |-> driver.index + 1, final |-> TRUE]

Settled(id) == state[id] \in R!Terminal

RouterInv ==
    /\ \A p \in Pushers : push[p].step = "sent" => push[p].frame.final
    /\ \A n \in DOMAIN log : log[n].fate = "cancelled" => Settled(log[n].id)
    /\ loop.task = "cancelling" => loop.id \in submitted /\ Settled(loop.id)

WaitingInv ==
    Waiting =>
        /\ \A c \in pending : c.id = driver.id => c.frame = Now
        /\ \A p \in Pushers : R!Pushing(p, driver.id) => push[p].frame = Now
        /\ \A a \in answers : a.id = driver.id /\ a.ok /\ Now.final => Settled(driver.id)

ClipOver ==
    /\ At("engine") /\ driver.index + 1 = Total /\ driver.index >= 0 => Settled(driver.id)
    /\ driver.at \in {"marker", "pushMarker"} => Settled(driver.id)

Attended ==
    ~closed => \A id \in Ids : Delivered(id) /\ state[id] \in R!Live => Driven(id)

(* The course of a request from the scheduler to its end.                  *)
Course == RouterInv /\ WaitingInv /\ ClipOver

-----------------------------------------------------------------------------
(* A clip that completes is whole. *)

Prefix(id) ==
    /\ \A i \in DOMAIN sent[id] :
          sent[id][i].index = i - 1 /\ (sent[id][i].final <=> i = driver.made[id])
    /\ ~Delivered(id) => sent[id] = <<>>
    /\ state[id] = "Complete" => Delivered(id) /\ Len(sent[id]) = driver.made[id]

(* What a push that is not over may still send: the next frame of the      *)
(* clip, or a marker behind all of them, which the router will refuse.     *)
MaySend(id, frame, step) ==
    \/ /\ frame.index = driver.made[id]
       /\ step = "begun" /\ Settled(id)
    \/ /\ frame.index < driver.made[id]
       /\ frame.final <=> frame.index + 1 = driver.made[id]
       /\ step \in {"begun", "cloned"} => Len(sent[id]) = frame.index
       /\ step = "sent" => Len(sent[id]) = frame.index + 1

ClipInv ==
    /\ \A id \in Ids : Prefix(id)
    /\ \A c \in pending : MaySend(c.id, c.frame, "begun")
    /\ \A p \in Pushers : push[p] # R!Idle => MaySend(push[p].id, push[p].frame, push[p].step)
    /\ At("engine") => Len(sent[driver.id]) = driver.index + 1
    /\ At("frame") => Len(sent[driver.id]) = driver.index
    /\ At("push") =>
          \A a \in answers : a.id = driver.id /\ a.ok => Len(sent[driver.id]) = driver.index + 1

-----------------------------------------------------------------------------
(* The router inside the application. *)

LEMMA SameInit == R!Init => OnePush!Init /\ RP!Init
BY DEF R!Init, OnePush!Init, RP!Init, R!None, OnePush!None, RP!None, R!Idle, OnePush!Idle,
       RP!Idle

LEMMA SameNext == RP!Next => OnePush!Next
BY DEF OnePush!Next, OnePush!AcceptInsert, OnePush!AcceptSubmit, OnePush!AcceptRollBack,
       OnePush!Accepting, OnePush!Subscribe, OnePush!Cancel, OnePush!Cancellable,
       OnePush!Receive, OnePush!ReceiveEnd, OnePush!Disconnected, OnePush!Holding,
       OnePush!Pushing, OnePush!DropReceiver, OnePush!PushBegin, OnePush!PushStep,
       OnePush!PushRefused, OnePush!PushValidate, OnePush!PushFails, OnePush!PushSend,
       OnePush!PushComplete, OnePush!Return, OnePush!Fits, OnePush!Recorded, OnePush!Full,
       OnePush!Abandoned, OnePush!Shutdown, OnePush!entryVars, OnePush!streamVars,
       OnePush!Frame, OnePush!Indices, OnePush!Idle, OnePush!Live, OnePush!None,
       RP!Next, RP!AcceptInsert, RP!AcceptSubmit, RP!AcceptRollBack, RP!Accepting,
       RP!Subscribe, RP!Cancel, RP!Cancellable, RP!Receive, RP!ReceiveEnd, RP!Disconnected,
       RP!Holding, RP!Pushing, RP!DropReceiver, RP!PushBegin, RP!PushStep, RP!PushRefused,
       RP!PushValidate, RP!PushFails, RP!PushSend, RP!PushComplete, RP!Return, RP!Fits,
       RP!Recorded, RP!Full, RP!Abandoned, RP!Shutdown, RP!entryVars, RP!streamVars,
       RP!Frame, RP!Indices, RP!Idle, RP!Live, RP!None

LEMMA SameEntries ==
    ASSUME NEW id \in Ids
    PROVE  /\ R!AcceptInsert(id) => RP!AcceptInsert(id)
           /\ R!AcceptSubmit(id) => RP!AcceptSubmit(id)
           /\ R!AcceptRollBack(id) => RP!AcceptRollBack(id)
           /\ R!Subscribe(id) => RP!Subscribe(id)
           /\ R!Cancel(id) => RP!Cancel(id)
           /\ R!Receive(id) => RP!Receive(id)
           /\ R!ReceiveEnd(id) => RP!ReceiveEnd(id)
           /\ R!DropReceiver(id) => RP!DropReceiver(id)
BY DEF R!AcceptInsert, R!AcceptSubmit, R!AcceptRollBack, R!Accepting, R!Subscribe, R!Cancel,
       R!Cancellable, R!Receive, R!ReceiveEnd, R!Disconnected, R!Holding, R!Pushing,
       R!DropReceiver, R!entryVars, R!streamVars, R!Idle, R!Live, R!None,
       RP!AcceptInsert, RP!AcceptSubmit, RP!AcceptRollBack, RP!Accepting, RP!Subscribe,
       RP!Cancel, RP!Cancellable, RP!Receive, RP!ReceiveEnd, RP!Disconnected, RP!Holding,
       RP!Pushing, RP!DropReceiver, RP!entryVars, RP!streamVars, RP!Idle, RP!Live, RP!None

LEMMA SamePushes ==
    ASSUME NEW p \in Pushers
    PROVE  /\ R!PushRefused(p) => RP!PushRefused(p)
           /\ R!PushValidate(p) => RP!PushValidate(p)
           /\ R!PushFails(p) => RP!PushFails(p)
           /\ R!PushSend(p) => RP!PushSend(p)
           /\ R!PushComplete(p) => RP!PushComplete(p)
           /\ \A id \in Ids, frame \in R!Frame :
                 R!PushBegin(p, id, frame) /\ (\A q \in Pushers : ~R!Pushing(q, id)) =>
                     RP!PushBegin(p, id, frame) /\ frame \in RP!Frame
           /\ R!Shutdown => RP!Shutdown
BY DEF R!Pushing, R!PushBegin, R!PushRefused, R!PushValidate, R!PushFails, R!PushSend,
       R!PushComplete, R!Return, R!Fits, R!Recorded, R!Full, R!Abandoned, R!Shutdown,
       R!entryVars, R!streamVars, R!Frame, R!Indices, R!Idle, R!Live, R!None,
       RP!Pushing, RP!PushBegin, RP!PushRefused, RP!PushValidate, RP!PushFails, RP!PushSend,
       RP!PushComplete, RP!Return, RP!Fits, RP!Recorded, RP!Full, RP!Abandoned, RP!Shutdown,
       RP!entryVars, RP!streamVars, RP!Frame, RP!Indices, RP!Idle, RP!Live, RP!None

LEMMA RouterConstants ==
    /\ Depth \in Nat \ {0}
    /\ MaxIndex \in Nat
    /\ FALSE \in BOOLEAN
BY ServingAssumption DEF ServingAssumption

LEMMA RouterGives ==
    ASSUME RP!IndInv
    PROVE  RouterTypes /\ FrameTypes /\ (\A id \in submitted : state[id] # "absent")
<1>1. RP!TypeOK /\ RP!OnlySubmitted
  BY DEF RP!IndInv
<1>2. RouterTypes
  BY <1>1 DEF RP!TypeOK, RouterTypes, RP!Live, RP!Terminal, R!Live, R!Terminal,
              RP!Indices, R!Indices, RP!None, R!None, RP!Push, R!Push, RP!Idle, R!Idle, RP!Frame, R!Frame
<1>3. FrameTypes
  BY <1>1 DEF RP!TypeOK, FrameTypes, RP!Frame, R!Frame, RP!Indices, R!Indices
<1>4. \A id \in submitted : state[id] # "absent"
  BY <1>1 DEF RP!TypeOK, RP!OnlySubmitted
<1> QED BY <1>2, <1>3, <1>4

(* A push that is not idle carries an id and a frame.                      *)
LEMMA PushIs ==
    ASSUME RouterTypes, NEW p \in Pushers
    PROVE  /\ push[p] = R!Idle <=> push[p].step = "idle"
           /\ push[p] # R!Idle =>
                 /\ push[p].step \in {"begun", "cloned", "sent"}
                 /\ push[p].id \in Ids /\ push[p].frame \in R!Frame
           /\ push[p] \in R!Push
BY DEF RouterTypes, R!Push, R!Idle

-----------------------------------------------------------------------------
(* The log of the scheduler. *)

(* n is a new entry, of the request id; those before it are kept.          *)
Appended(n, id) ==
    /\ n \notin DOMAIN log /\ DOMAIN log' = DOMAIN log \cup {n}
    /\ \A m \in DOMAIN log : log'[m] = log[m]
    /\ log'[n].id = id /\ log'[n].fate = "queued"

(* The entries keep their ids; those in S get a fate, and had none.        *)
Fated(S, fate) ==
    /\ DOMAIN log' = DOMAIN log
    /\ \A m \in DOMAIN log : log'[m].id = log[m].id
    /\ \A m \in S : log[m].fate = "queued" /\ log'[m].fate = fate
    /\ \A m \in DOMAIN log \ S : log'[m].fate = log[m].fate

LEMMA LogPut ==
    ASSUME log \in Seq(PQ!Request), NEW id \in Ids, NEW p \in Priorities, PQ!Put(id, p)
    PROVE  log' \in Seq(PQ!Request) /\ Appended(Len(log) + 1, id)
<1> DEFINE e == [id |-> id, priority |-> p, fate |-> "queued"]
<1>1. e \in PQ!Request /\ e.id = id /\ e.fate = "queued"
  BY ServingAssumption DEF ServingAssumption, PQ!Request, PQ!Priority, PQ!Fate
<1>2. log' = Append(log, e)
  BY DEF PQ!Put
<1> DEFINE Requests == PQ!Request
<1>3. log \in Seq(Requests) /\ e \in Requests
  BY <1>1
<1> HIDE DEF Requests, e
<1>4. /\ Append(log, e) \in Seq(Requests) /\ Len(Append(log, e)) = Len(log) + 1
      /\ \A i \in 1..Len(log) : Append(log, e)[i] = log[i]
      /\ Append(log, e)[Len(log) + 1] = e
  BY <1>3, AppendProperties
<1>5. /\ Len(log) \in Nat /\ DOMAIN log = 1..Len(log)
  BY <1>3, LenProperties
<1>6. DOMAIN log' = 1..(Len(log) + 1)
  BY <1>2, <1>4, LenProperties
<1>7. log' \in Seq(PQ!Request)
  BY <1>2, <1>4 DEF Requests
<1> QED BY <1>1, <1>2, <1>4, <1>5, <1>6, <1>7 DEF Appended

LEMMA LogTake ==
    ASSUME log \in Seq(PQ!Request), NEW n \in DOMAIN log, PQ!Take(n)
    PROVE  /\ log' \in Seq(PQ!Request) /\ Fated({n}, "delivered")
           /\ log[n].id \in Ids
<1> DEFINE Requests == PQ!Request
<1>1. log[n].fate = "queued" /\ log' = [log EXCEPT ![n] = [log[n] EXCEPT !.fate = "delivered"]]
  BY DEF PQ!Take, PQ!Queued
<1>2. n \in 1..Len(log) /\ DOMAIN log = 1..Len(log)
  BY LenProperties
<1>3. log[n] \in Requests
  BY <1>2, ElementOfSeq
<1>4. PICK e : e = [log[n] EXCEPT !.fate = "delivered"]
  OBVIOUS
<1>5. e \in Requests /\ e.id = log[n].id /\ e.fate = "delivered" /\ log[n].id \in Ids
  BY <1>3, <1>4 DEF PQ!Request, PQ!Fate
<1>6. log \in Seq(Requests)
  OBVIOUS
<1> HIDE DEF Requests
<1>7. [log EXCEPT ![n] = e] \in Seq(Requests)
  BY <1>2, <1>5, <1>6, ExceptSeq
<1>8. log' = [log EXCEPT ![n] = e]
  BY <1>1, <1>4
<1>9. log' \in Seq(PQ!Request)
  BY <1>7, <1>8 DEF Requests
<1> QED BY <1>1, <1>5, <1>8, <1>9 DEF Fated

LEMMA LogCancel ==
    ASSUME log \in Seq(PQ!Request), NEW id \in Ids, PQ!Cancel(id)
    PROVE  /\ log' \in Seq(PQ!Request)
           /\ Fated({n \in DOMAIN log : log[n].fate = "queued" /\ log[n].id = id}, "cancelled")
<1> DEFINE Requests == PQ!Request
           Changed(n) == IF log[n].fate = "queued" /\ log[n].id = id
                         THEN [log[n] EXCEPT !.fate = "cancelled"]
                         ELSE log[n]
<1>1. DOMAIN log = 1..Len(log) /\ Len(log) \in Nat
  BY LenProperties
<1>2. log' = [n \in 1..Len(log) |-> Changed(n)]
  <2>1. \A n \in DOMAIN log : n \in PQ!Queued <=> log[n].fate = "queued"
    BY DEF PQ!Queued
  <2> QED BY <1>1, <2>1 DEF PQ!Cancel
<1>3. ASSUME NEW n \in 1..Len(log)
      PROVE  /\ Changed(n) \in Requests /\ Changed(n).id = log[n].id
             /\ IF log[n].fate = "queued" /\ log[n].id = id
                THEN Changed(n).fate = "cancelled" ELSE Changed(n) = log[n]
  <2>1. log[n] \in Requests
    BY ElementOfSeq
  <2>2. /\ [log[n] EXCEPT !.fate = "cancelled"] \in Requests
        /\ [log[n] EXCEPT !.fate = "cancelled"].id = log[n].id
        /\ [log[n] EXCEPT !.fate = "cancelled"].fate = "cancelled"
    BY <2>1 DEF PQ!Request, PQ!Fate
  <2> QED BY <2>1, <2>2
<1> HIDE DEF Requests, Changed
<1>4. log' \in [1..Len(log) -> Requests] /\ \A n \in 1..Len(log) : log'[n] = Changed(n)
  BY <1>2, <1>3
<1>5. log' \in Seq(Requests)
  BY <1>1, <1>4
<1>6. log' \in Seq(PQ!Request)
  BY <1>5 DEF Requests
<1>7. DOMAIN log' = DOMAIN log
  BY <1>1, <1>4
<1> QED BY <1>1, <1>3, <1>4, <1>6, <1>7 DEF Fated

(* Which requests have been delivered.                                     *)
LEMMA DeliveredKept ==
    ASSUME \/ log' = log
           \/ \E n, id : Appended(n, id)
           \/ \E S \in SUBSET DOMAIN log : Fated(S, "cancelled")
    PROVE  \A x \in Ids : Delivered(x)' <=> Delivered(x)
<1>1. CASE log' = log
  BY <1>1 DEF Delivered
<1>2. CASE \E n, id : Appended(n, id)
  BY <1>2 DEF Appended, Delivered
<1>3. CASE \E S \in SUBSET DOMAIN log : Fated(S, "cancelled")
  <2>1. PICK S \in SUBSET DOMAIN log : Fated(S, "cancelled")
    BY <1>3
  <2>2. \A n \in DOMAIN log : log'[n].fate = "delivered" <=> log[n].fate = "delivered"
    BY <2>1 DEF Fated
  <2> QED BY <2>1, <2>2 DEF Fated, Delivered
<1> QED BY <1>1, <1>2, <1>3

LEMMA DeliveredTaken ==
    ASSUME \A m, n \in DOMAIN log : log[m].id = log[n].id => m = n,
           NEW n \in DOMAIN log, Fated({n}, "delivered")
    PROVE  /\ ~Delivered(log[n].id) /\ Delivered(log[n].id)'
           /\ \A x \in Ids : x # log[n].id => (Delivered(x)' <=> Delivered(x))
<1>1. log[n].fate = "queued" /\ log'[n].fate = "delivered" /\ log'[n].id = log[n].id
  BY DEF Fated
<1>2. ~Delivered(log[n].id)
  BY <1>1 DEF Delivered
<1>3. n \in DOMAIN log'
  BY DEF Fated
<1> HIDE DEF Fated
<1>4. Delivered(log[n].id)'
  <2>1. \E m \in DOMAIN log' : log'[m].id = log[n].id /\ log'[m].fate = "delivered"
    BY <1>1, <1>3
  <2>2. log'[n].id = log[n].id
    BY <1>1
  <2> QED BY <1>1, <1>3, <2>1, <2>2 DEF Delivered
<1>5. \A x \in Ids : x # log[n].id => (Delivered(x)' <=> Delivered(x))
  BY DEF Fated, Delivered
<1> QED BY <1>2, <1>4, <1>5

-----------------------------------------------------------------------------
(* The driver. *)

DriverAt(a) ==
    /\ driver' \in DriverType /\ driver'.at = a /\ driver'.made = driver.made
    /\ driver.at \in Working => driver'.id = driver.id

LEMMA DriverGoes ==
    ASSUME driver \in DriverType, NEW a \in Places, Go(a), a \in Working => driver.at \in Working
    PROVE  DriverAt(a) /\ (driver.at \in Working => driver'.index = driver.index)
<1> DEFINE Indexes == (0..MaxIndex) \cup {-1}
<1> HIDE DEF Indexes
<1>1. CASE driver \in [at : {"poll", "next", "stopped"}, made : Made]
  <2>1. driver' = [driver EXCEPT !.at = a] /\ a \in {"poll", "next", "stopped"}
    BY <1>1 DEF Go, Working, Places
  <2> QED BY <1>1, <2>1 DEF DriverAt, DriverType, Working, Places
<1>2. CASE driver \in [at : Places, id : Ids, index : Indexes, made : Made]
  <2>1. driver' = [driver EXCEPT !.at = a]
    BY DEF Go
  <2>2. /\ driver' \in [at : Places, id : Ids, index : Indexes, made : Made]
        /\ driver'.at = a /\ driver'.made = driver.made
        /\ driver'.id = driver.id /\ driver'.index = driver.index
    BY <1>2, <2>1
  <2> QED BY <2>2 DEF DriverAt, DriverType, Indexes
<1> QED BY <1>1, <1>2 DEF DriverType, Indexes

LEMMA DriverIs ==
    ASSUME AppTypes
    PROVE  /\ driver.at \in Places /\ driver.made \in Made
           /\ driver.at \in Working =>
                 /\ driver.id \in Ids /\ driver.index \in (0..MaxIndex) \cup {-1}
                 /\ Total \in Totals /\ Total \in 0..MaxIndex /\ driver.index < Total
                 /\ driver.at \in {"frame", "push", "marker", "pushMarker"} => driver.index >= 0
                 /\ driver.at \in {"marker", "pushMarker"} => driver.index + 1 = Total
<1>1. driver.at \in Places /\ driver.made \in Made
  BY DEF AppTypes, DriverType, Places
<1>2. Totals \subseteq 0..MaxIndex
  BY ServingAssumption DEF ServingAssumption
<1> QED BY <1>1, <1>2 DEF AppTypes

(* What the driver's own variables owe to their types.                     *)
DriverOK ==
    /\ driver \in DriverType
    /\ driver.at \in Working =>
          /\ driver.id \in Ids /\ driver.index \in (0..MaxIndex) \cup {-1}
          /\ Total \in Totals /\ driver.index < Total
          /\ driver.at \in {"frame", "push", "marker", "pushMarker"} => driver.index >= 0
          /\ driver.at \in {"marker", "pushMarker"} => driver.index + 1 = Total

LEMMA DriverMoves ==
    ASSUME AppTypes, NEW a \in Places, Go(a),
           \/ a \notin Working
           \/ /\ driver.at \in Working /\ a \in Working
              /\ a \in {"frame", "push", "marker", "pushMarker"} => driver.index >= 0
              /\ a \in {"marker", "pushMarker"} => driver.index + 1 = Total
    PROVE  DriverOK' /\ DriverAt(a)
<1>1. DriverAt(a) /\ (driver.at \in Working => driver'.index = driver.index)
  <2>1. driver \in DriverType
    BY DEF AppTypes
  <2> QED BY <2>1, DriverGoes
<1>2. CASE a \notin Working
  BY <1>1, <1>2 DEF DriverOK, DriverAt
<1>3. CASE driver.at \in Working /\ a \in Working
  <2>1. driver'.id = driver.id /\ driver'.index = driver.index /\ driver'.made = driver.made
    BY <1>1, <1>3 DEF DriverAt
  <2>2. Total' = Total
    BY <2>1 DEF Total
  <2> QED BY <1>1, <1>3, <2>1, <2>2, DriverIs DEF DriverOK, DriverAt, Working
<1> QED BY <1>2, <1>3

LEMMA EngineGoesOn ==
    ASSUME AppTypes, EngineYields
    PROVE  /\ DriverOK' /\ DriverAt("frame")
           /\ driver'.index = driver.index + 1
<1> DEFINE Indexes == (0..MaxIndex) \cup {-1}
<1>1. /\ driver.at = "engine" /\ driver.index + 1 < Total
      /\ driver' = [driver EXCEPT !.at = "frame", !.index = @ + 1]
  BY DEF EngineYields, At
<1>2. driver.at \in Working
  BY <1>1 DEF Working, Places
<1>3. Total \in 0..MaxIndex /\ driver.index \in Indexes
  BY <1>2, DriverIs
<1>4. driver.index + 1 \in Indexes /\ driver.index + 1 >= 0
  BY <1>1, <1>3, ServingAssumption DEF ServingAssumption
<1>5. driver \in [at : Places, id : Ids, index : Indexes, made : Made]
  BY <1>1 DEF AppTypes, DriverType
<1> HIDE DEF Indexes
<1>6. /\ driver' \in [at : Places, id : Ids, index : Indexes, made : Made]
      /\ driver'.at = "frame" /\ driver'.index = driver.index + 1
      /\ driver'.made = driver.made /\ driver'.id = driver.id
  BY <1>1, <1>4, <1>5 DEF Places
<1>7. Total' = Total
  BY <1>6 DEF Total
<1>8. driver' \in DriverType
  BY <1>6 DEF DriverType, Indexes
<1> QED BY <1>1, <1>2, <1>4, <1>6, <1>7, <1>8, DriverIs DEF DriverOK, DriverAt, Working, Indexes

-----------------------------------------------------------------------------
(* The pushes of the router. *)

Returned(p) == push' = [push EXCEPT ![p] = R!Idle]

Moved(p, s) ==
    /\ push'[p] # R!Idle /\ push'[p].step = s
    /\ push'[p].id = push[p].id /\ push'[p].frame = push[p].frame
    /\ \A q \in Pushers \ {p} : push'[q] = push[q]

LEMMA PushMoves ==
    ASSUME RouterTypes, NEW p \in Pushers, push[p] # R!Idle, NEW s \in {"begun", "cloned", "sent"},
           push' = [push EXCEPT ![p].step = s]
    PROVE  Moved(p, s)
<1>1. PICK a, i, f : push[p] = [step |-> a, id |-> i, frame |-> f]
  <2>1. push[p] \in [step : {"begun", "cloned", "sent"}, id : Ids, frame : R!Frame]
    BY DEF RouterTypes, R!Push, R!Idle
  <2> QED BY <2>1
<1>2. push \in [Pushers -> R!Push]
  BY DEF RouterTypes
<1>3. push'[p] = [step |-> s, id |-> i, frame |-> f] /\ \A q \in Pushers \ {p} : push'[q] = push[q]
  BY <1>1, <1>2
<1> QED BY <1>1, <1>3 DEF Moved, R!Idle

LEMMA PushSteps ==
    ASSUME RouterTypes, NEW p \in Pushers
    PROVE  /\ R!PushRefused(p) \/ R!PushFails(p) \/ R!PushComplete(p) =>
                 push[p] # R!Idle /\ Returned(p)
           /\ R!PushValidate(p) => push[p].step = "begun" /\ Moved(p, "cloned")
           /\ R!PushSend(p) =>
                 /\ push[p].step = "cloned"
                 /\ IF push[p].frame.final THEN Moved(p, "sent") ELSE Returned(p)
           /\ R!PushRefused(p) => push[p].step = "begun"
           /\ R!PushFails(p) => push[p].step = "cloned"
           /\ R!PushComplete(p) => push[p].step = "sent"
<1>1. R!PushRefused(p) \/ R!PushFails(p) \/ R!PushComplete(p) => push[p] # R!Idle /\ Returned(p)
  BY DEF R!PushRefused, R!PushFails, R!PushComplete, R!Return, Returned, R!Idle
<1>2. ASSUME R!PushValidate(p) PROVE push[p].step = "begun" /\ Moved(p, "cloned")
  <2>1. /\ push[p].step = "begun" /\ push[p] # R!Idle
        /\ push' = [push EXCEPT ![p].step = "cloned"]
    BY <1>2 DEF R!PushValidate, R!Idle
  <2> QED BY <2>1, PushMoves
<1>3. ASSUME R!PushSend(p)
      PROVE  /\ push[p].step = "cloned"
             /\ IF push[p].frame.final THEN Moved(p, "sent") ELSE Returned(p)
  <2>1. /\ push[p].step = "cloned" /\ push[p] # R!Idle
        /\ IF push[p].frame.final THEN push' = [push EXCEPT ![p].step = "sent"] ELSE Returned(p)
    BY <1>3 DEF R!PushSend, R!Return, Returned, R!Idle
  <2> QED BY <2>1, PushMoves
<1> QED BY <1>1, <1>2, <1>3 DEF R!PushRefused, R!PushFails, R!PushComplete

(* Nobody is pushed to that was not pushed to before.                      *)
NoNewPush == \A q \in Pushers, x \in Ids : R!Pushing(q, x)' => R!Pushing(q, x)

LEMMA FewerPushes ==
    ASSUME RouterTypes,
           push' = push \/ \E p \in Pushers : push[p] # R!Idle /\ (Returned(p) \/ \E s : Moved(p, s))
    PROVE  NoNewPush
<1>1. CASE push' = push
  BY <1>1 DEF NoNewPush, R!Pushing
<1>2. ASSUME NEW p \in Pushers, push[p] # R!Idle, Returned(p) PROVE NoNewPush
  BY <1>2 DEF NoNewPush, R!Pushing, Returned, RouterTypes, R!Idle
<1>3. ASSUME NEW p \in Pushers, push[p] # R!Idle, NEW s, Moved(p, s) PROVE NoNewPush
  BY <1>3 DEF NoNewPush, R!Pushing, Moved
<1> QED BY <1>1, <1>2, <1>3

LEMMA EntriesKeepPushes ==
    ASSUME NEW id,
           \/ R!AcceptInsert(id) \/ R!AcceptSubmit(id) \/ R!AcceptRollBack(id) \/ R!Subscribe(id)
           \/ R!Cancel(id) \/ R!Receive(id) \/ R!ReceiveEnd(id) \/ R!DropReceiver(id)
           \/ R!Shutdown \/ UNCHANGED routerVars
    PROVE  push' = push
BY DEF R!AcceptInsert, R!AcceptSubmit, R!AcceptRollBack, R!Subscribe, R!Cancel, R!Receive,
       R!ReceiveEnd, R!DropReceiver, R!Shutdown, routerVars

LEMMA EntriesKeepSubmitted ==
    ASSUME NEW id,
           \/ R!AcceptInsert(id) \/ R!AcceptRollBack(id) \/ R!Subscribe(id)
           \/ R!Cancel(id) \/ R!Receive(id) \/ R!ReceiveEnd(id) \/ R!DropReceiver(id)
           \/ R!Shutdown \/ UNCHANGED routerVars
    PROVE  submitted' = submitted
BY DEF R!AcceptInsert, R!AcceptRollBack, R!Subscribe, R!Cancel, R!Receive,
       R!ReceiveEnd, R!DropReceiver, R!Shutdown, routerVars

-----------------------------------------------------------------------------
(* One push, or one answer, of a request at a time. *)

(* The driver goes on with its request, away from a push only to cancel,   *)
(* or leaves it.                                                           *)
Stays ==
    driver'.at \in Working =>
        /\ driver.at \in Working /\ driver'.id = driver.id
        /\ driver'.at \in {"push", "pushMarker", "cancel"}
               \/ driver.at \notin {"push", "pushMarker", "cancel"}

LEMMA StaysSame == driver' = driver \/ driver'.at \notin Working => Stays
BY DEF Stays

LEMMA FewerKept ==
    ASSUME AppTypes, Single, Started,
           pending' \subseteq pending, answers' \subseteq answers, NoNewPush,
           \A x \in Ids : Delivered(x) => Delivered(x)'
    PROVE  /\ Single'
           /\ \A id \in Ids : UnderWay(id)' \/ Answered(id)' =>
                 (UnderWay(id) \/ Answered(id)) /\ Delivered(id)'
<1>1. \A x \in Ids : UnderWay(x)' => UnderWay(x)
  BY DEF UnderWay, NoNewPush
<1>2. \A x \in Ids : Answered(x)' => Answered(x)
  BY DEF Answered
<1>3. /\ \A c \in pending : c.id \in Ids
      /\ \A a \in answers : a.id \in Ids
  BY DEF AppTypes
<1>4. \A c, d \in pending' : c.id = d.id => c = d
  BY DEF Single
<1>5. \A c \in pending', p \in Pushers : ~R!Pushing(p, c.id)'
  BY <1>3 DEF Single, NoNewPush
<1>6. \A p, q \in Pushers, id \in Ids : R!Pushing(p, id)' /\ R!Pushing(q, id)' => p = q
  BY DEF Single, NoNewPush
<1>7. \A a, b \in answers' : a.id = b.id => a = b
  BY DEF Single
<1>8. \A a \in answers' : ~UnderWay(a.id)'
  BY <1>1, <1>3 DEF Single
<1> QED BY <1>1, <1>2, <1>4, <1>5, <1>6, <1>7, <1>8 DEF Single, Started

LEMMA QuietKept ==
    ASSUME AppTypes, Single, Started, Stays,
           pending' \subseteq pending, answers' \subseteq answers, NoNewPush,
           \A x \in Ids : Delivered(x) => Delivered(x)'
    PROVE  Single' /\ Started'
<1>1. /\ Single'
      /\ \A id \in Ids : UnderWay(id)' \/ Answered(id)' =>
            (UnderWay(id) \/ Answered(id)) /\ Delivered(id)'
  BY FewerKept
<1>2. driver.at \in Working => driver.id \in Ids /\ Delivered(driver.id)
  BY DEF AppTypes, Started
<1>3. ASSUME driver'.at \in Working PROVE Delivered(driver.id)' /\ driver'.id = driver.id
  BY <1>2, <1>3 DEF Stays
<1>4. (driver.at \in Working => Delivered(driver.id))'
  BY <1>3 DEF Delivered
<1>5. ASSUME NEW id \in Ids, UnderWay(id)' \/ Answered(id)', Driven(id)'
      PROVE  driver'.at \in {"push", "pushMarker", "cancel"}
  <2>1. driver'.at \in Working /\ driver'.id = id
    BY <1>5 DEF Driven
  <2>2. Driven(id)
    BY <2>1 DEF Stays, Driven
  <2>3. driver.at \in {"push", "pushMarker", "cancel"}
    BY <1>1, <1>5, <2>2 DEF Started
  <2> QED BY <2>1, <2>3 DEF Stays
<1> QED BY <1>1, <1>4, <1>5 DEF Started

(* The driver starts on a request that was just delivered.                 *)
LEMMA TakeKept ==
    ASSUME AppTypes, Single, Started, NEW x \in Ids,
           driver'.at = "engine", driver'.id = x,
           ~Delivered(x), Delivered(x)',
           \A y \in Ids : y # x => (Delivered(y)' <=> Delivered(y)),
           pending' = pending, answers' = answers, push' = push
    PROVE  Single' /\ Started'
<1>1. NoNewPush
  BY DEF NoNewPush, R!Pushing
<1>2. /\ Single'
      /\ \A id \in Ids : UnderWay(id)' \/ Answered(id)' =>
            (UnderWay(id) \/ Answered(id)) /\ Delivered(id)'
  BY <1>1, FewerKept
<1>3. ~UnderWay(x)' /\ ~Answered(x)'
  BY <1>2 DEF Started
<1>4. (driver.at \in Working => Delivered(driver.id))'
  BY DEF Delivered
<1> QED BY <1>2, <1>3, <1>4 DEF Started, Driven

(* The driver hands a frame to the loop.                                   *)
LEMMA SpawnKept ==
    ASSUME AppTypes, Single, Started,
           driver.at \in {"frame", "marker"}, driver'.at \in {"push", "pushMarker"},
           driver'.id = driver.id,
           NEW index \in 0..MaxIndex, NEW final \in BOOLEAN, Spawn(index, final),
           answers' = answers, push' = push, log' = log
    PROVE  /\ Single' /\ Started'
           /\ pending' \subseteq [id : Ids, frame : R!Frame]
<1> DEFINE x == driver.id
           c == [id |-> x, frame |-> [index |-> index, final |-> final]]
<1>1. x \in Ids /\ Delivered(x) /\ Driven(x)
  BY DEF AppTypes, Started, Driven, Working, Places
<1>2. ~UnderWay(x) /\ ~Answered(x)
  BY <1>1 DEF Started
<1>3. pending' = pending \cup {c} /\ c.id = x /\ c \in [id : Ids, frame : R!Frame]
  BY <1>1 DEF Spawn, R!Frame, R!Indices
<1> HIDE DEF c
<1>4. \A d \in pending : d.id # x
  BY <1>2 DEF UnderWay
<1>5. \A p \in Pushers : ~R!Pushing(p, x)
  BY <1>2 DEF UnderWay
<1>6. \A p \in Pushers : \A y : R!Pushing(p, y)' <=> R!Pushing(p, y)
  BY DEF R!Pushing
<1>7. \A y \in Ids : UnderWay(y)' <=> UnderWay(y) \/ y = x
  BY <1>3, <1>6 DEF UnderWay
<1>8. \A y \in Ids : (Answered(y)' <=> Answered(y)) /\ (Delivered(y)' <=> Delivered(y))
  BY DEF Answered, Delivered
<1>9. Single'
  <2>1. \A a \in answers : a.id \in Ids /\ a.id # x /\ ~UnderWay(a.id)
    BY <1>2 DEF Answered, Single, AppTypes
  <2>2. \A a \in answers' : ~UnderWay(a.id)'
    BY <2>1, <1>7
  <2>3. \A d, e \in pending' : d.id = e.id => d = e
    BY <1>3, <1>4 DEF Single
  <2>4. \A d \in pending', p \in Pushers : ~R!Pushing(p, d.id)'
    BY <1>3, <1>5, <1>6 DEF Single
  <2> QED BY <2>2, <2>3, <2>4, <1>6 DEF Single
<1>10. (driver.at \in Working => Delivered(driver.id))'
  BY <1>1, <1>8 DEF Delivered
<1>11. Started'
  BY <1>1, <1>7, <1>8, <1>10 DEF Started, Driven
<1> QED BY <1>3, <1>9, <1>11 DEF AppTypes

(* A push leaves the loop for the router.                                  *)
LEMMA BeginKept ==
    ASSUME AppTypes, RouterTypes, Single, Started, NEW p \in Pushers, NEW c \in pending,
           pending' = pending \ {c}, R!PushBegin(p, c.id, c.frame),
           answers' = answers, driver' = driver, log' = log
    PROVE  Single' /\ Started'
<1>1. c.id \in Ids
  BY DEF AppTypes
<1>2. /\ push'[p] = [step |-> "begun", id |-> c.id, frame |-> c.frame]
      /\ push[p] = R!Idle
      /\ \A q \in Pushers \ {p} : push'[q] = push[q]
  BY DEF R!PushBegin, RouterTypes
<1>3. \A q \in Pushers : \A y : R!Pushing(q, y)' <=> IF q = p THEN y = c.id ELSE R!Pushing(q, y)
  BY <1>2 DEF R!Pushing, R!Idle
<1>4. \A d \in pending' : d \in pending /\ d.id # c.id
  BY DEF Single
<1>5. \A q \in Pushers : ~R!Pushing(q, c.id)
  BY DEF Single
<1>6. \A y \in Ids : UnderWay(y)' => UnderWay(y)
  <2>1. ASSUME NEW y \in Ids, UnderWay(y)' PROVE UnderWay(y)
    <3>1. (\E d \in pending' : d.id = y) \/ (\E q \in Pushers : R!Pushing(q, y)')
      BY <2>1 DEF UnderWay
    <3> QED BY <3>1, <1>3, <1>4 DEF UnderWay
  <2> QED BY <2>1
<1>7. \A y \in Ids : (Answered(y)' <=> Answered(y)) /\ (Delivered(y)' <=> Delivered(y))
  BY DEF Answered, Delivered
<1>8. Single'
  <2>1. \A a \in answers' : ~UnderWay(a.id)'
    BY <1>6 DEF Single, AppTypes
  <2>2. \A d, e \in pending' : d.id = e.id => d = e
    BY <1>4 DEF Single
  <2>3. \A d \in pending', q \in Pushers : ~R!Pushing(q, d.id)'
    BY <1>3, <1>4 DEF Single
  <2>4. \A q, r \in Pushers, y \in Ids : R!Pushing(q, y)' /\ R!Pushing(r, y)' => q = r
    BY <1>3, <1>5 DEF Single
  <2> QED BY <2>1, <2>2, <2>3, <2>4 DEF Single
<1>9. (driver.at \in Working => Delivered(driver.id))'
  BY <1>7 DEF Started, AppTypes, Delivered
<1> QED BY <1>6, <1>7, <1>8, <1>9 DEF Started, Driven

(* A push of x is over, and its answer is there.                           *)
LEMMA AnswerKept ==
    ASSUME AppTypes, Single, Started, NEW x \in Ids, NEW ok \in BOOLEAN,
           UnderWay(x), ~UnderWay(x)', NoNewPush, pending' \subseteq pending,
           Answer(x, ok), driver' = driver, log' = log
    PROVE  /\ Single' /\ Started'
           /\ answers' \subseteq [id : Ids, ok : BOOLEAN]
<1> DEFINE a == [id |-> x, ok |-> ok]
<1>1. answers' = answers \cup {a} /\ a.id = x /\ a \in [id : Ids, ok : BOOLEAN]
  BY DEF Answer
<1> HIDE DEF a
<1>2. \A b \in answers : b.id # x /\ b.id \in Ids
  BY DEF Single, AppTypes
<1>3. \A y \in Ids : UnderWay(y)' => UnderWay(y)
  BY DEF UnderWay, NoNewPush
<1>4. \A y \in Ids : (Answered(y)' <=> Answered(y) \/ y = x) /\ (Delivered(y)' <=> Delivered(y))
  BY <1>1 DEF Answered, Delivered
<1>5. \A d \in pending : d.id \in Ids
  BY DEF AppTypes
<1>6. Single'
  <2>1. \A b \in answers' : ~UnderWay(b.id)'
    BY <1>1, <1>2, <1>3 DEF Single
  <2>2. \A b, e \in answers' : b.id = e.id => b = e
    BY <1>1, <1>2 DEF Single
  <2>3. \A d, e \in pending' : d.id = e.id => d = e
    BY DEF Single
  <2>4. \A d \in pending', q \in Pushers : ~R!Pushing(q, d.id)'
    BY <1>5 DEF Single, NoNewPush
  <2>5. \A q, r \in Pushers, y \in Ids : R!Pushing(q, y)' /\ R!Pushing(r, y)' => q = r
    BY DEF Single, NoNewPush
  <2> QED BY <2>1, <2>2, <2>3, <2>4, <2>5 DEF Single
<1>7. (driver.at \in Working => Delivered(driver.id))'
  BY <1>4 DEF Started, AppTypes, Delivered
<1>8. Started'
  BY <1>3, <1>4, <1>7 DEF Started, Driven
<1> QED BY <1>1, <1>6, <1>8 DEF AppTypes

(* The driver gets the answer it waits for.                                *)
LEMMA AnsweredKept ==
    ASSUME AppTypes, Single, Started, NEW a \in answers, answers' = answers \ {a},
           driver.at \in Working, driver.id = a.id,
           driver'.at \in Working => driver'.id = driver.id,
           pending' = pending, push' = push, log' = log
    PROVE  Single' /\ Started'
<1>1. a.id \in Ids /\ Delivered(a.id)
  BY DEF AppTypes, Started
<1>2. NoNewPush /\ \A y \in Ids : Delivered(y)' <=> Delivered(y)
  BY DEF NoNewPush, R!Pushing, Delivered
<1>3. /\ Single'
      /\ \A id \in Ids : UnderWay(id)' \/ Answered(id)' =>
            (UnderWay(id) \/ Answered(id)) /\ Delivered(id)'
  BY <1>2, FewerKept
<1>4. ~UnderWay(a.id)' /\ ~Answered(a.id)'
  <2>1. ~UnderWay(a.id)
    BY DEF Single
  <2>2. ~UnderWay(a.id)'
    BY <1>1, <1>2, <2>1 DEF UnderWay, NoNewPush
  <2>3. ~Answered(a.id)'
    BY DEF Answered, Single
  <2> QED BY <2>2, <2>3
<1>5. (driver.at \in Working => Delivered(driver.id))'
  BY <1>1, <1>2 DEF Delivered
<1> QED BY <1>3, <1>4, <1>5 DEF Started, Driven

-----------------------------------------------------------------------------
(* Every step keeps to the discipline. *)

RouterStep == RP!Next \/ UNCHANGED routerVars

Keeps == AppTypes' /\ LogInv' /\ Single' /\ Started' /\ RouterStep

HandlerTypes ==
    /\ qclosed \in BOOLEAN /\ drained \in BOOLEAN /\ stopping \in BOOLEAN
    /\ staged \subseteq Ids
    /\ loop \in Loop
    /\ client \in [Ids -> {"new", "accepting", "streaming", "refused", "ended", "gone"}]

QueueTypes ==
    /\ pending \subseteq [id : Ids, frame : R!Frame]
    /\ answers \subseteq [id : Ids, ok : BOOLEAN]

LEMMA TypesAre == AppTypes <=> HandlerTypes /\ DriverOK /\ QueueTypes
BY DEF AppTypes, HandlerTypes, DriverOK, QueueTypes

LEMMA LogSame ==
    ASSUME LogInv, log' = log, submitted' = submitted
    PROVE  LogInv' /\ \A x \in Ids : Delivered(x)' <=> Delivered(x)
BY DEF LogInv, Delivered

(* A step of a handler or of the lifespan touches neither the driver nor   *)
(* the pushes.                                                             *)
LEMMA AsideKept ==
    ASSUME Discipline, HandlerTypes', push' = push,
           driver' = driver, pending' = pending, answers' = answers,
           \A x \in Ids : Delivered(x) => Delivered(x)'
    PROVE  AppTypes' /\ Single' /\ Started'
<1>1. DriverOK' /\ QueueTypes'
  BY TypesAre DEF Discipline, DriverOK, QueueTypes, Total
<1>2. AppTypes'
  BY <1>1 DEF HandlerTypes, DriverOK, QueueTypes, AppTypes
<1>3. Stays /\ NoNewPush
  BY DEF Stays, NoNewPush, R!Pushing
<1> QED BY <1>2, <1>3, QuietKept DEF Discipline

LEMMA Entries ==
    ASSUME NEW id \in Ids,
           \/ R!AcceptInsert(id) \/ R!AcceptSubmit(id) \/ R!AcceptRollBack(id) \/ R!Subscribe(id)
           \/ R!Cancel(id) \/ R!Receive(id) \/ R!ReceiveEnd(id) \/ R!DropReceiver(id)
    PROVE  RouterStep
<1>1. \/ RP!AcceptInsert(id) \/ RP!AcceptSubmit(id) \/ RP!AcceptRollBack(id) \/ RP!Subscribe(id)
      \/ RP!Cancel(id) \/ RP!Receive(id) \/ RP!ReceiveEnd(id) \/ RP!DropReceiver(id)
  BY SameEntries
<1> QED BY <1>1, Zenon DEF RouterStep, RP!Next

LEMMA HandlerQuiet ==
    ASSUME Discipline, NEW id \in Ids,
           \/ HandlerAccept(id) \/ HandlerClosed(id) \/ HandlerFull(id) \/ HandlerSubscribe(id)
           \/ HandlerTooLate(id) \/ ClientReads(id) \/ ClientEnds(id) \/ ClientHangsUp(id)
           \/ CancelRoute(id)
    PROVE  Keeps
<1>1. /\ driver' = driver /\ pending' = pending /\ answers' = answers /\ log' = log
      /\ qclosed' = qclosed /\ drained' = drained /\ stopping' = stopping
  BY DEF HandlerAccept, HandlerClosed, HandlerFull, HandlerSubscribe, HandlerTooLate,
         ClientReads, ClientEnds, ClientHangsUp, CancelRoute, queueVars, appVars
<1>2. HandlerTypes'
  BY DEF HandlerAccept, HandlerClosed, HandlerFull, HandlerSubscribe, HandlerTooLate,
         ClientReads, ClientEnds, ClientHangsUp, CancelRoute, queueVars, appVars,
         Discipline, AppTypes, HandlerTypes, Loop, Free, Discarded
<1>3. \/ R!AcceptInsert(id) \/ R!AcceptRollBack(id) \/ R!Subscribe(id)
      \/ R!Cancel(id) \/ R!Receive(id) \/ R!ReceiveEnd(id) \/ R!DropReceiver(id)
      \/ UNCHANGED routerVars
  BY DEF HandlerAccept, HandlerClosed, HandlerFull, HandlerSubscribe, HandlerTooLate,
         ClientReads, ClientEnds, ClientHangsUp, CancelRoute
<1>4. RouterStep
  BY <1>3, Entries DEF RouterStep
<1>5. push' = push /\ submitted' = submitted
  BY <1>3, EntriesKeepPushes, EntriesKeepSubmitted
<1>6. LogInv' /\ \A x \in Ids : Delivered(x)' <=> Delivered(x)
  BY <1>1, <1>5, LogSame DEF Discipline
<1> QED BY <1>1, <1>2, <1>4, <1>5, <1>6, AsideKept DEF Keeps

LEMMA StopQuiet ==
    ASSUME Discipline, StopBegin \/ StopEnd
    PROVE  Keeps
<1>1. /\ driver' = driver /\ pending' = pending /\ answers' = answers /\ log' = log
  BY DEF StopBegin, StopEnd, PQ!Close, queueVars
<1>2. HandlerTypes'
  BY DEF StopBegin, StopEnd, PQ!Close, queueVars, Discipline, AppTypes, HandlerTypes, Loop, Free
<1>3. R!Shutdown \/ UNCHANGED routerVars
  BY DEF StopBegin, StopEnd
<1>4. R!Shutdown => RP!Shutdown
  BY DEF R!Shutdown, R!entryVars, R!streamVars, RP!Shutdown, RP!entryVars, RP!streamVars
<1>5. RouterStep
  BY <1>3, <1>4, Zenon DEF RouterStep, RP!Next
<1>6. push' = push /\ submitted' = submitted
  BY <1>3, EntriesKeepPushes, EntriesKeepSubmitted
<1>7. LogInv' /\ \A x \in Ids : Delivered(x)' <=> Delivered(x)
  BY <1>1, <1>6, LogSame DEF Discipline
<1> QED BY <1>1, <1>2, <1>5, <1>6, <1>7, AsideKept DEF Keeps

LEMMA SubmitKept ==
    ASSUME Discipline, NEW id \in Ids, HandlerSubmit(id)
    PROVE  Keeps
<1>1. PICK p \in Priorities : PQ!Put(id, p)
  BY DEF HandlerSubmit
<1>2. log \in Seq(PQ!Request)
  BY DEF Discipline, LogInv
<1>3. log' \in Seq(PQ!Request) /\ Appended(Len(log) + 1, id)
  BY <1>1, <1>2, LogPut
<1>4. \A x \in Ids : Delivered(x)' <=> Delivered(x)
  BY <1>3, DeliveredKept
<1>5. R!AcceptSubmit(id)
  BY DEF HandlerSubmit
<1>6. id \notin submitted /\ submitted' = submitted \cup {id}
  BY <1>5 DEF R!AcceptSubmit, R!Accepting
<1>7. LogInv'
  <2> DEFINE k == Len(log) + 1
  <2>1. /\ k \notin DOMAIN log /\ DOMAIN log' = DOMAIN log \cup {k}
        /\ \A m \in DOMAIN log : log'[m] = log[m]
        /\ log'[k].id = id
    BY <1>3 DEF Appended
  <2> HIDE DEF k
  <2>2. \A m \in DOMAIN log : log[m].id # id /\ log[m].id \in submitted
    BY <1>6 DEF Discipline, LogInv
  <2>3. \A m, n \in DOMAIN log' : log'[m].id = log'[n].id => m = n
    BY <2>1, <2>2 DEF Discipline, LogInv
  <2>4. \A n \in DOMAIN log' : log'[n].id \in submitted'
    BY <2>1, <2>2, <1>6
  <2>5. \A x \in submitted' : \E n \in DOMAIN log' : log'[n].id = x
    BY <2>1, <1>6 DEF Discipline, LogInv
  <2> QED BY <1>3, <2>3, <2>4, <2>5 DEF LogInv
<1>8. push' = push /\ RouterStep
  BY <1>5, EntriesKeepPushes, Entries
<1>9. HandlerTypes'
  BY <1>1 DEF HandlerSubmit, PQ!Put, Discipline, AppTypes, HandlerTypes, Loop, Free
<1>10. driver' = driver /\ pending' = pending /\ answers' = answers
  BY DEF HandlerSubmit
<1> QED BY <1>4, <1>7, <1>8, <1>9, <1>10, AsideKept DEF Keeps

LEMMA ForwardKept ==
    ASSUME Discipline, NEW id \in Ids, CancelForward(id)
    PROVE  Keeps
<1>1. PQ!Cancel(id) /\ UNCHANGED routerVars
  BY DEF CancelForward
<1>2. log \in Seq(PQ!Request)
  BY DEF Discipline, LogInv
<1> DEFINE S == {n \in DOMAIN log : log[n].fate = "queued" /\ log[n].id = id}
<1>3. log' \in Seq(PQ!Request) /\ Fated(S, "cancelled")
  BY <1>1, <1>2, LogCancel
<1>4. \A x \in Ids : Delivered(x)' <=> Delivered(x)
  <2>1. S \in SUBSET DOMAIN log
    OBVIOUS
  <2> HIDE DEF S
  <2> QED BY <2>1, <1>3, DeliveredKept
<1>5. LogInv'
  BY <1>1, <1>3 DEF Fated, routerVars, Discipline, LogInv
<1>6. push' = push /\ RouterStep
  BY <1>1 DEF routerVars, RouterStep
<1>7. HandlerTypes'
  BY DEF CancelForward, PQ!Cancel, Discipline, AppTypes, HandlerTypes, Loop, Free
<1>8. driver' = driver /\ pending' = pending /\ answers' = answers
  BY DEF CancelForward
<1> QED BY <1>4, <1>5, <1>6, <1>7, <1>8, AsideKept DEF Keeps

(* A step of the driver that neither takes a request nor hands on a frame. *)
LEMMA DriverKept ==
    ASSUME Discipline, DriverOK', Stays, HandlerTypes', RouterStep, push' = push,
           submitted' = submitted, log' = log, pending' = pending, answers' = answers
    PROVE  Keeps
<1>1. QueueTypes'
  BY TypesAre DEF Discipline, QueueTypes
<1>2. AppTypes'
  BY <1>1 DEF AppTypes, HandlerTypes, DriverOK, QueueTypes
<1>3. NoNewPush
  BY DEF NoNewPush, R!Pushing
<1>4. LogInv' /\ \A x \in Ids : Delivered(x)' <=> Delivered(x)
  BY LogSame DEF Discipline
<1> QED BY <1>2, <1>3, <1>4, QuietKept DEF Discipline, Keeps

LEMMA DriverQuiet ==
    ASSUME Discipline,
           \/ DriverPoll \/ DriverIdle \/ EngineYields \/ EngineRaises \/ EngineDone
           \/ DriverTimeout \/ DriverCancel
    PROVE  Keeps
<1> USE DEF Working, Places
<1>1. AppTypes /\ DriverOK
  BY TypesAre DEF Discipline
<1>2. /\ pending' = pending /\ answers' = answers /\ log' = log
      /\ HandlerTypes'
  BY <1>1 DEF DriverPoll, DriverIdle, PQ!Finish, EngineYields, EngineRaises, EngineDone, DriverTimeout,
         DriverCancel, queueVars, AppTypes, HandlerTypes
<1>3. RouterStep /\ push' = push /\ submitted' = submitted
  <2>1. CASE DriverCancel
    <3>1. driver.id \in Ids
      BY <1>1, <2>1 DEF DriverCancel, At, AppTypes
    <3>2. R!Cancel(driver.id) \/ UNCHANGED routerVars
      BY <2>1 DEF DriverCancel
    <3>3. RouterStep
      BY <3>1, <3>2, Entries DEF RouterStep
    <3> QED BY <3>2, <3>3, EntriesKeepPushes, EntriesKeepSubmitted
  <2>2. CASE ~DriverCancel
    <3>1. UNCHANGED routerVars
      BY <2>2 DEF DriverPoll, DriverIdle, EngineYields, EngineRaises, EngineDone, DriverTimeout
    <3> QED BY <3>1 DEF RouterStep, routerVars
  <2> QED BY <2>1, <2>2
<1>4. ASSUME NEW a \in Places \ Working, Go(a) PROVE DriverOK' /\ Stays
  BY <1>1, <1>4, DriverMoves DEF DriverAt, Stays
<1>5. DriverOK' /\ Stays
  <2>1. CASE DriverPoll
    <3>1. Go("stopped") \/ Go("next")
      BY <2>1 DEF DriverPoll
    <3> QED BY <3>1, <1>4
  <2>2. CASE DriverIdle \/ DriverCancel
    <3>1. Go("poll")
      BY <2>2 DEF DriverIdle, DriverCancel
    <3> QED BY <3>1, <1>4
  <2>3. CASE EngineYields
    <3>1. DriverOK' /\ DriverAt("frame")
      BY <1>1, <2>3, EngineGoesOn
    <3> QED BY <3>1, <2>3 DEF EngineYields, At, DriverAt, Stays
  <2>4. CASE EngineRaises \/ DriverTimeout
    <3>1. Go("cancel") /\ driver.at \in Working
      BY <2>4 DEF EngineRaises, DriverTimeout, At, Waiting
    <3>2. DriverOK' /\ DriverAt("cancel")
      BY <3>1, <1>1, DriverMoves
    <3> QED BY <3>1, <3>2 DEF DriverAt, Stays
  <2>5. CASE EngineDone
    <3>1. /\ driver.at = "engine" /\ driver.index + 1 = Total
          /\ Go("poll") \/ (Go("marker") /\ driver.index >= 0)
      BY <2>5 DEF EngineDone, At
    <3>2. CASE Go("poll")
      BY <3>2, <1>4
    <3>3. CASE Go("marker") /\ driver.index >= 0
      <4>1. DriverOK' /\ DriverAt("marker")
        BY <3>1, <3>3, <1>1, DriverMoves
      <4> QED BY <3>1, <4>1 DEF DriverAt, Stays
    <3> QED BY <3>1, <3>2, <3>3
  <2> QED BY <2>1, <2>2, <2>3, <2>4, <2>5
<1> QED BY <1>2, <1>3, <1>5, DriverKept

LEMMA TakesKept ==
    ASSUME Discipline, DriverTake
    PROVE  Keeps
<1>1. PICK n \in DOMAIN log, total \in Totals :
          /\ PQ!Take(n)
          /\ driver' = [at |-> "engine", id |-> log[n].id, index |-> -1,
                        made |-> [driver.made EXCEPT ![log[n].id] = total]]
  BY DEF DriverTake
<1>2. /\ log \in Seq(PQ!Request) /\ AppTypes /\ Single /\ Started
      /\ \A l, m \in DOMAIN log : log[l].id = log[m].id => l = m
  BY DEF Discipline, LogInv
<1>3. log' \in Seq(PQ!Request) /\ Fated({n}, "delivered") /\ log[n].id \in Ids
  BY <1>1, <1>2, LogTake
<1>4. /\ ~Delivered(log[n].id) /\ Delivered(log[n].id)'
      /\ \A x \in Ids : x # log[n].id => (Delivered(x)' <=> Delivered(x))
  BY <1>2, <1>3, DeliveredTaken
<1>5. UNCHANGED <<routerVars, staged, loop, client, stopping, pending, answers, qclosed, drained>>
  BY <1>1 DEF DriverTake, PQ!Take
<1>6. LogInv'
  BY <1>3, <1>5 DEF Fated, routerVars, Discipline, LogInv
<1>7. driver'.at = "engine" /\ driver'.id = log[n].id
  BY <1>1
<1>8. Single' /\ Started'
  <2>1. PICK x \in Ids : x = log[n].id
    BY <1>3
  <2>2. log'[n].id = x
    BY <1>3, <2>1 DEF Fated
  <2>3. ~Delivered(x) /\ \A y \in Ids : y # x => (Delivered(y)' <=> Delivered(y))
    BY <1>4, <2>1
  <2>4. Delivered(x)'
    BY <1>4, <2>2 DEF Delivered
  <2> QED BY <1>2, <1>5, <1>7, <2>1, <2>3, <2>4, TakeKept DEF routerVars
<1>9. DriverOK'
  <2>1. driver.made \in Made /\ total \in 0..MaxIndex
    BY <1>2, DriverIs, ServingAssumption DEF ServingAssumption
  <2>2. [driver.made EXCEPT ![log[n].id] = total] \in Made
    BY <2>1 DEF Made
  <2>3. driver' \in DriverType
    BY <1>1, <1>3, <2>2 DEF DriverType, Places
  <2>4. Total' = total
    BY <1>1, <1>3, <2>1 DEF Total, Made
  <2> QED BY <1>1, <1>3, <2>1, <2>3, <2>4 DEF DriverOK
<1>10. AppTypes'
  BY <1>5, <1>9, <1>2 DEF AppTypes, DriverOK
<1> QED BY <1>5, <1>6, <1>8, <1>10 DEF Keeps, RouterStep

LEMMA HandsOver ==
    ASSUME Discipline, DriverFrame \/ DriverMarker
    PROVE  Keeps
<1> USE DEF Working, Places
<1>1. AppTypes /\ Single /\ Started /\ DriverOK
  BY TypesAre DEF Discipline
<1>2. /\ UNCHANGED routerVars /\ answers' = answers /\ log' = log
      /\ HandlerTypes'
  BY <1>1 DEF DriverFrame, DriverMarker, queueVars, AppTypes, HandlerTypes
<1>3. RouterStep /\ push' = push /\ submitted' = submitted
  BY <1>2 DEF RouterStep, routerVars
<1>4. LogInv'
  BY <1>2, <1>3, LogSame DEF Discipline
<1>5. ASSUME NEW a \in {"push", "pushMarker"}, Go(a), driver.at \in {"frame", "marker"},
             a = "pushMarker" => driver.at = "marker",
             NEW index \in 0..MaxIndex, NEW final \in BOOLEAN, Spawn(index, final)
      PROVE  Keeps
  <2>1. /\ driver.index >= 0
        /\ a = "pushMarker" => driver.index + 1 = Total
    BY <1>1, <1>5, DriverIs
  <2>2. DriverOK' /\ DriverAt(a)
    BY <1>1, <1>5, <2>1, DriverMoves
  <2>3. driver'.at \in {"push", "pushMarker"} /\ driver'.id = driver.id
    BY <1>5, <2>2 DEF DriverAt
  <2>4. Single' /\ Started' /\ pending' \subseteq [id : Ids, frame : R!Frame]
    BY <1>1, <1>2, <1>3, <1>5, <2>3, SpawnKept
  <2>5. AppTypes'
    BY <1>1, <1>2, <2>2, <2>4 DEF AppTypes, HandlerTypes, DriverOK
  <2> QED BY <1>3, <1>4, <2>4, <2>5 DEF Keeps
<1>6. CASE DriverFrame
  <2>1. /\ driver.at = "frame"
        /\ \/ (Go("cancel") \/ Go("poll")) /\ pending' = pending
           \/ Go("push") /\ Spawn(driver.index, IsFinal)
    BY <1>6 DEF DriverFrame, At
  <2>2. CASE (Go("cancel") \/ Go("poll")) /\ pending' = pending
    <3>1. DriverOK' /\ (DriverAt("cancel") \/ DriverAt("poll"))
      BY <1>1, <2>1, <2>2, DriverMoves
    <3>2. Stays
      BY <2>1, <3>1 DEF DriverAt, Stays
    <3> QED BY <1>2, <1>3, <2>2, <3>1, <3>2, DriverKept
  <2>3. CASE Go("push") /\ Spawn(driver.index, IsFinal)
    <3>1. driver.index \in 0..MaxIndex
      BY <1>1, <2>1, DriverIs
    <3>2. IsFinal \in BOOLEAN
      BY DEF IsFinal
    <3> QED BY <1>5, <2>1, <2>3, <3>1, <3>2
  <2> QED BY <2>1, <2>2, <2>3
<1>7. CASE DriverMarker
  <2>1. driver.at = "marker" /\ Go("pushMarker") /\ Spawn(driver.index + 1, TRUE)
    BY <1>7 DEF DriverMarker, At
  <2>2. driver.index + 1 \in 0..MaxIndex
    BY <1>1, <2>1, DriverIs
  <2> QED BY <1>5, <2>1, <2>2
<1> QED BY <1>6, <1>7

(* A step of the loop or of tokio on the pushes.                           *)
LEMMA PushKept ==
    ASSUME Discipline, RouterStep, UNCHANGED <<queueVars, staged, loop, client, stopping>>,
           submitted' = submitted, DriverOK', QueueTypes', Single', Started'
    PROVE  Keeps
<1>1. HandlerTypes'
  BY TypesAre DEF Discipline, HandlerTypes, queueVars
<1>2. AppTypes'
  BY <1>1 DEF AppTypes, HandlerTypes, DriverOK, QueueTypes
<1>3. LogInv'
  BY LogSame DEF Discipline, queueVars
<1> QED BY <1>2, <1>3 DEF Keeps

LEMMA StartsKept ==
    ASSUME Discipline, NEW p \in Pushers, LoopStarts(p)
    PROVE  Keeps
<1>1. PICK c \in pending : pending' = pending \ {c} /\ R!PushBegin(p, c.id, c.frame)
  BY DEF LoopStarts
<1>2. /\ AppTypes /\ RouterTypes /\ Single /\ Started /\ DriverOK /\ QueueTypes
  BY RouterGives, TypesAre DEF Discipline
<1>3. /\ UNCHANGED <<queueVars, staged, loop, client, stopping>>
      /\ driver' = driver /\ answers' = answers /\ log' = log
  BY DEF LoopStarts, queueVars
<1>4. Single' /\ Started'
  BY <1>1, <1>2, <1>3, BeginKept
<1>5. RouterStep
  <2>1. c.id \in Ids /\ c.frame \in R!Frame /\ \A q \in Pushers : ~R!Pushing(q, c.id)
    BY <1>2 DEF AppTypes, Single
  <2>2. RP!PushBegin(p, c.id, c.frame) /\ c.frame \in RP!Frame
    BY <1>1, <2>1, SamePushes
  <2> QED BY <2>1, <2>2, Zenon DEF RouterStep, RP!Next
<1>6. submitted' = submitted
  BY <1>1 DEF R!PushBegin
<1>7. DriverOK' /\ QueueTypes'
  BY <1>1, <1>2, <1>3 DEF DriverOK, QueueTypes, Total
<1> QED BY <1>3, <1>4, <1>5, <1>6, <1>7, PushKept

LEMMA StartsClosedKept ==
    ASSUME Discipline, LoopStartsClosed
    PROVE  Keeps
<1>1. PICK c \in pending : pending' = pending \ {c} /\ Answer(c.id, FALSE)
  BY DEF LoopStartsClosed
<1>2. /\ AppTypes /\ RouterTypes /\ Single /\ Started /\ DriverOK /\ QueueTypes
  BY RouterGives, TypesAre DEF Discipline
<1>3. /\ UNCHANGED <<queueVars, staged, loop, client, stopping>> /\ UNCHANGED routerVars
      /\ driver' = driver /\ log' = log
  BY DEF LoopStartsClosed, queueVars
<1>4. push' = push /\ submitted' = submitted
  BY <1>3 DEF routerVars
<1>5. NoNewPush
  BY <1>4 DEF NoNewPush, R!Pushing
<1>6. c.id \in Ids /\ UnderWay(c.id)
  BY <1>2 DEF AppTypes, UnderWay
<1>7. PICK x \in Ids : x = c.id
  BY <1>6
<1>8. ~UnderWay(x)'
  BY <1>1, <1>2, <1>4, <1>7 DEF UnderWay, Single, R!Pushing
<1>9. Single' /\ Started' /\ answers' \subseteq [id : Ids, ok : BOOLEAN]
  BY <1>1, <1>2, <1>3, <1>5, <1>6, <1>7, <1>8, AnswerKept
<1>10. DriverOK' /\ QueueTypes'
  BY <1>1, <1>2, <1>3, <1>9 DEF DriverOK, QueueTypes, Total
<1> QED BY <1>3, <1>4, <1>9, <1>10, PushKept DEF RouterStep

LEMMA WorksKept ==
    ASSUME Discipline, NEW p \in Pushers, PushWorks(p)
    PROVE  Keeps
<1>1. /\ AppTypes /\ RouterTypes /\ Single /\ Started /\ DriverOK /\ QueueTypes
  BY RouterGives, TypesAre DEF Discipline
<1>2. /\ UNCHANGED <<queueVars, staged, loop, client, stopping>>
      /\ driver' = driver /\ pending' = pending /\ log' = log
  BY DEF PushWorks, queueVars
<1>3. /\ push[p] # R!Idle
      /\ \/ \E s : Moved(p, s) /\ answers' = answers
         \/ \E ok \in BOOLEAN : Returned(p) /\ Answer(push[p].id, ok)
  <2>1. /\ R!PushRefused(p) \/ R!PushFails(p) \/ R!PushComplete(p) =>
              push[p] # R!Idle /\ Returned(p)
        /\ R!PushValidate(p) => push[p].step = "begun" /\ Moved(p, "cloned")
        /\ R!PushSend(p) =>
              /\ push[p].step = "cloned"
              /\ IF push[p].frame.final THEN Moved(p, "sent") ELSE Returned(p)
    BY <1>1, PushSteps
  <2>2. push[p].step \in {"begun", "cloned"} => push[p] # R!Idle
    BY DEF R!Idle
  <2> QED BY <2>1, <2>2 DEF PushWorks
<1>4. push[p].id \in Ids
  BY <1>1, <1>3 DEF RouterTypes, R!Push, R!Idle
<1>5. RouterStep
  <2>1. RP!PushRefused(p) \/ RP!PushValidate(p) \/ RP!PushFails(p) \/ RP!PushSend(p)
        \/ RP!PushComplete(p)
    BY SamePushes DEF PushWorks
  <2> QED BY <2>1, Zenon DEF RouterStep, RP!Next, RP!PushStep
<1>6. submitted' = submitted
  BY DEF PushWorks, R!PushRefused, R!PushValidate, R!PushFails, R!PushSend, R!PushComplete
<1>7. NoNewPush
  BY <1>1, <1>3, FewerPushes
<1>8. \A x \in Ids : Delivered(x)' <=> Delivered(x)
  BY <1>2 DEF Delivered
<1>9. Single' /\ Started' /\ answers' \subseteq [id : Ids, ok : BOOLEAN]
  <2>1. CASE answers' = answers
    BY <1>1, <1>2, <1>7, <1>8, <2>1, StaysSame, QuietKept DEF AppTypes
  <2>2. ASSUME NEW ok \in BOOLEAN, Returned(p), Answer(push[p].id, ok)
        PROVE  Single' /\ Started' /\ answers' \subseteq [id : Ids, ok : BOOLEAN]
    <3>1. PICK x \in Ids : x = push[p].id
      BY <1>4
    <3>2. UnderWay(x)
      BY <1>3, <3>1 DEF UnderWay, R!Pushing
    <3>3. \A q \in Pushers : ~R!Pushing(q, x)'
      <4>1. R!Pushing(p, x)
        BY <1>3, <3>1 DEF R!Pushing
      <4>2. push'[p] = R!Idle
        BY <2>2, <1>1 DEF Returned, RouterTypes
      <4> QED BY <4>1, <4>2, <1>1, <1>7 DEF Single, NoNewPush, R!Pushing
    <3>4. \A d \in pending : d.id # x
      BY <1>1, <1>3, <3>1 DEF Single, R!Pushing
    <3>5. ~UnderWay(x)'
      BY <1>2, <3>3, <3>4 DEF UnderWay
    <3> QED BY <1>1, <1>2, <1>7, <2>2, <3>1, <3>2, <3>5, AnswerKept
  <2> QED BY <1>3, <2>1, <2>2
<1>10. DriverOK' /\ QueueTypes'
  BY <1>1, <1>2, <1>9 DEF DriverOK, QueueTypes, Total
<1> QED BY <1>2, <1>5, <1>6, <1>9, <1>10, PushKept

LEMMA AnswersKept ==
    ASSUME Discipline, LoopAnswers
    PROVE  Keeps
<1>1. PICK a \in answers :
          /\ answers' = answers \ {a}
          /\ IF Waiting /\ driver.id = a.id THEN Go(AfterPush(a.ok))
             ELSE UNCHANGED driver
  BY DEF LoopAnswers
<1>2. /\ AppTypes /\ Single /\ Started /\ DriverOK /\ QueueTypes
  BY TypesAre DEF Discipline
<1>3. /\ UNCHANGED <<queueVars, staged, loop, client, stopping>>
      /\ UNCHANGED routerVars /\ pending' = pending /\ log' = log
  BY DEF LoopAnswers, queueVars
<1>4. push' = push /\ submitted' = submitted
  BY <1>3 DEF routerVars
<1>5. QueueTypes'
  BY <1>1, <1>2, <1>3 DEF QueueTypes
<1>6. CASE Waiting /\ driver.id = a.id
  <2>1. driver.at \in Working
    BY <1>6 DEF Waiting, Working, Places
  <2>2. PICK k \in {"cancel", "engine", "poll"} : Go(k)
    BY <1>1, <1>6 DEF AfterPush
  <2>3. DriverOK' /\ DriverAt(k)
    BY <1>2, <2>1, <2>2, DriverMoves DEF Working, Places
  <2>4. Single' /\ Started'
    BY <1>1, <1>2, <1>3, <1>4, <1>6, <2>1, <2>3, AnsweredKept DEF DriverAt
  <2> QED BY <1>3, <1>4, <1>5, <2>3, <2>4, PushKept DEF RouterStep
<1>7. CASE ~(Waiting /\ driver.id = a.id)
  <2>1. driver' = driver
    BY <1>1, <1>7
  <2>2. DriverOK' /\ Stays
    BY <1>2, <2>1, StaysSame DEF DriverOK, Total
  <2>3. NoNewPush /\ \A x \in Ids : Delivered(x)' <=> Delivered(x)
    BY <1>3, <1>4 DEF NoNewPush, R!Pushing, Delivered
  <2>4. Single' /\ Started'
    BY <1>1, <1>2, <1>3, <2>2, <2>3, QuietKept
  <2> QED BY <1>3, <1>4, <1>5, <2>2, <2>4, PushKept DEF RouterStep
<1> QED BY <1>6, <1>7

LEMMA StepKept ==
    ASSUME Discipline, Next
    PROVE  Keeps
<1>1. ASSUME NEW id \in Ids,
             \/ HandlerAccept(id) \/ HandlerClosed(id) \/ ClientReads(id) \/ ClientEnds(id)
             \/ ClientHangsUp(id) \/ CancelRoute(id)
      PROVE  Keeps
  BY <1>1, HandlerQuiet
<1>2. CASE Handler
  <2>1. PICK id \in Ids :
            HandlerSubmit(id) \/ HandlerFull(id) \/ HandlerSubscribe(id) \/ HandlerTooLate(id)
            \/ CancelForward(id)
    BY <1>2 DEF Handler
  <2> QED BY <2>1, HandlerQuiet, SubmitKept, ForwardKept
<1>3. CASE Driver
  BY <1>3, DriverQuiet, TakesKept, HandsOver DEF Driver
<1>4. ASSUME NEW p \in Pushers, LoopStarts(p) \/ PushWorks(p) PROVE Keeps
  BY <1>4, StartsKept, WorksKept
<1>5. CASE LoopStartsClosed \/ LoopAnswers \/ StopBegin \/ StopEnd
  BY <1>5, StartsClosedKept, AnswersKept, StopQuiet
<1> QED BY <1>1, <1>2, <1>3, <1>4, <1>5 DEF Next

-----------------------------------------------------------------------------

LEMMA DisciplineInit == Init => Discipline
<1> SUFFICES ASSUME Init PROVE Discipline
  OBVIOUS
<1>1. RP!IndInv
  <2>1. RP!Init => RP!IndInv
    BY RouterConstants, RP!IndInit
  <2> QED BY <2>1, SameInit DEF Init
<1>2. driver \in DriverType /\ driver.at = "poll"
  <2>1. [id \in Ids |-> 0] \in Made
    BY ServingAssumption DEF Made, ServingAssumption
  <2> QED BY <2>1 DEF Init, DriverType
<1>3. AppTypes
  BY <1>2 DEF Init, AppTypes, Working, Places, Loop, Free
<1>4. LogInv
  BY DEF Init, R!Init, LogInv
<1>5. \A p \in Pushers : \A x : ~R!Pushing(p, x)
  BY DEF Init, R!Init, R!Pushing
<1>6. Single
  BY <1>5 DEF Init, Single
<1>7. Started
  BY <1>2, <1>5 DEF Init, Started, UnderWay, Answered, Working, Places
<1> QED BY <1>1, <1>3, <1>4, <1>6, <1>7 DEF Discipline

LEMMA DisciplineStep == Discipline /\ [Next]_vars => Discipline' /\ [RP!Next]_(RP!vars)
<1> SUFFICES ASSUME Discipline, [Next]_vars PROVE Discipline' /\ (RP!Next \/ UNCHANGED RP!vars)
  OBVIOUS
<1>1. UNCHANGED routerVars <=> UNCHANGED RP!vars
  BY DEF RP!vars, routerVars
<1>2. RP!IndInv /\ [RP!Next]_(RP!vars) => RP!IndInv'
  BY RouterConstants, RP!IndStep
<1>3. CASE Next
  <2>1. Keeps
    BY <1>3, StepKept
  <2>2. RP!Next \/ UNCHANGED RP!vars
    BY <1>1, <2>1 DEF Keeps, RouterStep
  <2> QED BY <1>2, <2>1, <2>2 DEF Keeps, Discipline
<1>4. CASE UNCHANGED vars
  <2>1. UNCHANGED RP!vars
    BY <1>4 DEF vars, routerVars, RP!vars
  <2>2. AppTypes' /\ LogInv' /\ Single' /\ Started'
    BY <1>4 DEF vars, routerVars, queueVars, appVars, Discipline, AppTypes, LogInv, Single, Started,
       Total, Delivered, UnderWay, Answered, Driven, R!Pushing
  <2> QED BY <1>2, <2>1, <2>2 DEF Discipline
<1> QED BY <1>3, <1>4

(* The application keeps to the discipline of its pushes in every state it *)
(* reaches, and its router to its own invariant.                           *)
THEOREM Invariance == Spec => []Discipline
BY DisciplineInit, DisciplineStep, PTL DEF Spec

(* Every variable of the application keeps its type.                       *)
THEOREM TypeCorrect == Spec => []TypeOK
<1>1. Discipline => TypeOK
  <2> SUFFICES ASSUME Discipline PROVE TypeOK
    OBVIOUS
  <2>1. RouterTypes /\ FrameTypes /\ AppTypes /\ LogInv
    BY RouterGives DEF Discipline
  <2>2. R!TypeOK
    BY <2>1 DEF R!TypeOK, RouterTypes, FrameTypes
  <2>3. driver.at \in Places /\ driver.made \in [Ids -> 0..MaxIndex]
    BY <2>1, DriverIs DEF Made
  <2>4. driver.at \in Working => driver.id \in Ids /\ Total \in Totals
    BY <2>1 DEF AppTypes
  <2> QED BY <2>1, <2>2, <2>3, <2>4 DEF TypeOK, AppTypes, LogInv
<1> QED BY <1>1, Invariance, PTL

(* Whatever the handlers, the driver and the lifespan do in whatever       *)
(* order, the router sees the calls it was written for: a request is       *)
(* pushed to by one push at a time, although one that timed out goes on    *)
(* after the driver has left it.                                           *)
THEOREM RouterIsUsedWell == Spec => UsesRouter
<1>1. Init => OnePush!Init
  BY SameInit DEF Init
<1>2. UNCHANGED RP!vars => UNCHANGED OnePush!vars
  BY DEF RP!vars, OnePush!vars
<1>3. Discipline /\ [Next]_vars => [OnePush!Next]_(OnePush!vars)
  BY <1>2, DisciplineStep, SameNext
<1> QED BY <1>1, <1>3, Invariance, PTL DEF Spec, UsesRouter, OnePush!Spec

(* So every stream of the application is the stream of frames that its     *)
(* client relies on (Streams): what the router promises, it keeps here.    *)
THEOREM StreamsAreKept == Spec => RP!ImplementsStreams
<1>1. Init => RP!Init
  BY SameInit DEF Init
<1>2. Discipline /\ [Next]_vars => [RP!Next]_(RP!vars)
  BY DisciplineStep
<1>3. RP!Spec => RP!ImplementsStreams
  BY RouterConstants, RP!RefinesStreams
<1> QED BY <1>1, <1>2, <1>3, Invariance, PTL DEF Spec, RP!Spec

-----------------------------------------------------------------------------
(* What has become of a request. *)

(* A request that has come to its end stays there; one that the scheduler  *)
(* took is live only if it was.                                            *)
StatesKept ==
    \A x \in Ids :
        /\ Settled(x) => Settled(x)'
        /\ x \in submitted /\ state'[x] \in R!Live => state[x] \in R!Live

LEMMA StateStep == Discipline /\ [Next]_vars => StatesKept
<1> SUFFICES ASSUME Discipline, [Next]_vars PROVE StatesKept
  OBVIOUS
<1>1. RouterTypes /\ RouterTypes' /\ (\A x \in submitted : state[x] # "absent")
  <2>1. Discipline' /\ Discipline
    BY DisciplineStep
  <2>2. RouterTypes'
    <3>1. (RP!IndInv => RouterTypes)'
      BY RouterGives, PTL
    <3> QED BY <2>1, <3>1 DEF Discipline
  <2> QED BY <2>1, <2>2, RouterGives DEF Discipline
<1>2. \A x \in Ids : state[x] \in R!Terminal => x \in submitted
  BY DEF Discipline, RP!IndInv, RP!OnlySubmitted, RP!Terminal, R!Terminal
<1>3. \A x \in Ids : state[x] \in R!Terminal => state'[x] \in R!Terminal
  <2>1. RP!Next \/ UNCHANGED RP!vars
    BY DisciplineStep
  <2>2. ASSUME NEW id \in Ids,
               \/ RP!AcceptInsert(id) \/ RP!AcceptSubmit(id) \/ RP!AcceptRollBack(id)
               \/ RP!Subscribe(id) \/ RP!Cancel(id) \/ RP!Receive(id)
               \/ RP!ReceiveEnd(id) \/ RP!DropReceiver(id)
        PROVE  \A x \in Ids : state[x] \in R!Terminal => state'[x] \in R!Terminal
    BY <1>1, <1>2, <2>2 DEF RouterTypes, R!Terminal, R!Live, RP!AcceptInsert, RP!AcceptSubmit, RP!AcceptRollBack,
       RP!Accepting, RP!Subscribe, RP!Cancel, RP!Receive, RP!ReceiveEnd, RP!DropReceiver,
       RP!entryVars, RP!streamVars
  <2>3. ASSUME NEW p \in Pushers, RP!PushStep(p)
        PROVE  \A x \in Ids : state[x] \in R!Terminal => state'[x] \in R!Terminal
    BY <1>1, <2>3 DEF RouterTypes, R!Terminal, R!Live, RP!PushStep, RP!PushRefused, RP!PushValidate,
       RP!PushFails, RP!PushSend, RP!PushComplete, RP!Fits, RP!Live, RP!entryVars
  <2>4. ASSUME NEW p \in Pushers, NEW id \in Ids, NEW frame \in RP!Frame, RP!PushBegin(p, id, frame)
        PROVE  state' = state
    BY <2>4 DEF RP!PushBegin, RP!entryVars
  <2>5. RP!Shutdown \/ UNCHANGED RP!vars => state' = state
    BY DEF RP!Shutdown, RP!entryVars, RP!vars
  <2> QED BY <2>1, <2>2, <2>3, <2>4, <2>5 DEF RP!Next
<1>4. ASSUME NEW x \in Ids, x \in submitted, state'[x] \in R!Live PROVE state[x] \in R!Live
  BY <1>1, <1>3, <1>4 DEF RouterTypes, R!Live, R!Terminal
<1> QED BY <1>3, <1>4 DEF StatesKept, Settled

(* A delivered request is one that the scheduler took.                     *)
LEMMA DeliveredIs ==
    ASSUME LogInv, NEW x \in Ids, Delivered(x)
    PROVE  x \in submitted
BY DEF LogInv, Delivered

-----------------------------------------------------------------------------
(* No request is forgotten. *)

PushesFinal == \A p \in Pushers : push[p].step = "sent" => push[p].frame.final

LogSettled == \A n \in DOMAIN log : log[n].fate = "cancelled" => Settled(log[n].id)

LoopSettled == loop.task = "cancelling" => loop.id \in submitted /\ Settled(loop.id)

LEMMA RouterInvIs == RouterInv <=> PushesFinal /\ LogSettled /\ LoopSettled
BY DEF RouterInv, PushesFinal, LogSettled, LoopSettled

LEMMA PushesFinalStep ==
    ASSUME RouterTypes, PushesFinal,
           \/ push' = push
           \/ \E p \in Pushers : PushWorks(p) \/ LoopStarts(p)
    PROVE  PushesFinal'
<1>1. ASSUME NEW p \in Pushers, PushWorks(p) PROVE PushesFinal'
  <2>1. \/ Returned(p) \/ Moved(p, "cloned")
        \/ push[p].frame.final /\ Moved(p, "sent")
    BY <1>1, PushSteps DEF PushWorks
  <2> QED BY <2>1 DEF PushesFinal, Returned, Moved, RouterTypes, R!Idle
<1>2. ASSUME NEW p \in Pushers, LoopStarts(p) PROVE PushesFinal'
  <2>1. PICK c \in pending : R!PushBegin(p, c.id, c.frame)
    BY <1>2 DEF LoopStarts
  <2> QED BY <2>1 DEF PushesFinal, R!PushBegin, RouterTypes
<1> QED BY <1>1, <1>2 DEF PushesFinal

LEMMA LogSettledStep ==
    ASSUME LogInv, StatesKept, LogSettled, LoopSettled,
           \/ log' = log
           \/ \E n, id : Appended(n, id)
           \/ \E n \in DOMAIN log : Fated({n}, "delivered")
           \/ \E S \in SUBSET DOMAIN log :
                 Fated(S, "cancelled") /\ \A n \in S : Settled(log[n].id)
    PROVE  LogSettled'
<1>1. \A n \in DOMAIN log : log[n].id \in Ids
  <2>1. log \in Seq(PQ!Request)
    BY DEF LogInv
  <2>2. \A n \in DOMAIN log : log[n] \in PQ!Request
    BY <2>1
  <2> QED BY <2>2 DEF PQ!Request
<1>2. \A n \in DOMAIN log : Settled(log[n].id) => state'[log[n].id] \in R!Terminal
  BY <1>1 DEF StatesKept, Settled
<1>3. \A n \in DOMAIN log' : log'[n].fate = "cancelled" => state'[log'[n].id] \in R!Terminal
  <2>1. CASE log' = log
    BY <1>2, <2>1 DEF LogSettled
  <2>2. ASSUME NEW k, NEW id, Appended(k, id)
        PROVE  \A n \in DOMAIN log' : log'[n].fate = "cancelled" => state'[log'[n].id] \in R!Terminal
    BY <1>2, <2>2 DEF LogSettled, Appended
  <2>3. ASSUME NEW k \in DOMAIN log, Fated({k}, "delivered")
        PROVE  \A n \in DOMAIN log' : log'[n].fate = "cancelled" => state'[log'[n].id] \in R!Terminal
    BY <1>2, <2>3 DEF LogSettled, Fated
  <2>4. ASSUME NEW S \in SUBSET DOMAIN log, Fated(S, "cancelled"), \A n \in S : Settled(log[n].id)
        PROVE  \A n \in DOMAIN log' : log'[n].fate = "cancelled" => state'[log'[n].id] \in R!Terminal
    BY <1>2, <2>4 DEF LogSettled, Fated
  <2> QED BY <2>1, <2>2, <2>3, <2>4
<1> QED BY <1>3 DEF LogSettled, Settled

(* How a step changes the log.                                             *)
LEMMA LogSteps ==
    ASSUME Discipline, LoopSettled, Next
    PROVE  \/ log' = log
           \/ \E n, id : Appended(n, id)
           \/ DriverTake /\ \E n \in DOMAIN log : Fated({n}, "delivered")
           \/ \E S \in SUBSET DOMAIN log :
                 Fated(S, "cancelled") /\ \A n \in S : Settled(log[n].id)
<1>1. log \in Seq(PQ!Request)
  BY DEF Discipline, LogInv
<1>2. ASSUME NEW id \in Ids, HandlerSubmit(id) PROVE Appended(Len(log) + 1, id)
  BY <1>1, <1>2, LogPut DEF HandlerSubmit
<1>3. ASSUME DriverTake PROVE \E n \in DOMAIN log : Fated({n}, "delivered")
  BY <1>1, <1>3, LogTake DEF DriverTake
<1>4. ASSUME NEW id \in Ids, CancelForward(id)
      PROVE  \E S \in SUBSET DOMAIN log :
                 Fated(S, "cancelled") /\ \A n \in S : Settled(log[n].id)
  <2> DEFINE S == {n \in DOMAIN log : log[n].fate = "queued" /\ log[n].id = id}
  <2>1. PQ!Cancel(id) /\ Settled(id)
    BY <1>4 DEF CancelForward, LoopSettled
  <2>2. Fated(S, "cancelled")
    BY <1>1, <2>1, LogCancel
  <2>3. S \in SUBSET DOMAIN log /\ \A n \in S : Settled(log[n].id)
    BY <2>1
  <2> HIDE DEF S
  <2> QED BY <2>2, <2>3
<1>5. ASSUME NEW id \in Ids,
             \/ HandlerAccept(id) \/ HandlerClosed(id) \/ ClientReads(id) \/ ClientEnds(id)
             \/ ClientHangsUp(id) \/ CancelRoute(id) \/ HandlerFull(id) \/ HandlerSubscribe(id)
             \/ HandlerTooLate(id)
      PROVE  log' = log
  BY <1>5 DEF HandlerAccept, HandlerClosed, ClientReads, ClientEnds, ClientHangsUp, CancelRoute,
              HandlerFull, HandlerSubscribe, HandlerTooLate, queueVars
<1>6. Driver /\ ~DriverTake => log' = log
  BY DEF Driver, DriverPoll, DriverIdle, PQ!Finish, EngineYields, EngineRaises, EngineDone,
         DriverFrame, DriverMarker, DriverTimeout, DriverCancel, queueVars
<1>7. (\E p \in Pushers : LoopStarts(p) \/ PushWorks(p)) \/ LoopStartsClosed \/ LoopAnswers
          \/ StopBegin \/ StopEnd => log' = log
  BY DEF LoopStarts, PushWorks, LoopStartsClosed, LoopAnswers, StopBegin, StopEnd, PQ!Close, queueVars
<1> QED BY <1>2, <1>3, <1>4, <1>5, <1>6, <1>7 DEF Next, Handler

LEMMA LoopSettledStep ==
    ASSUME Discipline, StatesKept, LoopSettled, Next
    PROVE  LoopSettled'
<1>1. loop \in Loop /\ submitted \subseteq submitted'
  <2>1. ASSUME NEW id \in Ids,
               \/ R!AcceptInsert(id) \/ R!AcceptRollBack(id) \/ R!Subscribe(id)
               \/ R!Cancel(id) \/ R!Receive(id) \/ R!ReceiveEnd(id) \/ R!DropReceiver(id)
               \/ R!AcceptSubmit(id)
        PROVE  submitted \subseteq submitted'
    BY <2>1, EntriesKeepSubmitted DEF R!AcceptSubmit
  <2>2. ASSUME NEW p \in Pushers, LoopStarts(p) \/ PushWorks(p) PROVE submitted' = submitted
    BY <2>2 DEF LoopStarts, PushWorks, R!PushBegin, R!PushRefused, R!PushValidate, R!PushFails,
                R!PushSend, R!PushComplete
  <2>3. UNCHANGED routerVars \/ R!Shutdown => submitted' = submitted
    BY DEF routerVars, R!Shutdown
  <2>4. driver.at = "cancel" => driver.id \in Ids
    BY DEF Discipline, AppTypes, Working, Places
  <2>5. Driver => UNCHANGED routerVars \/ (driver.id \in Ids /\ R!Cancel(driver.id))
    BY <2>4 DEF Driver, DriverPoll, DriverTake, DriverIdle, EngineYields, EngineRaises, EngineDone,
           DriverFrame, DriverMarker, DriverTimeout, DriverCancel, At
  <2>6. submitted \subseteq submitted'
    <3>1. ASSUME NEW id \in Ids,
                 \/ HandlerAccept(id) \/ HandlerClosed(id) \/ ClientReads(id) \/ ClientEnds(id)
                 \/ ClientHangsUp(id) \/ CancelRoute(id) \/ HandlerFull(id)
                 \/ HandlerSubscribe(id) \/ HandlerTooLate(id) \/ HandlerSubmit(id)
                 \/ CancelForward(id)
          PROVE  submitted \subseteq submitted'
      BY <3>1, <2>1, <2>3 DEF HandlerAccept, HandlerClosed, ClientReads, ClientEnds, ClientHangsUp,
         CancelRoute, HandlerFull, HandlerSubscribe, HandlerTooLate, HandlerSubmit, CancelForward
    <3>2. LoopStartsClosed \/ LoopAnswers \/ StopBegin \/ StopEnd => submitted' = submitted
      BY <2>3 DEF LoopStartsClosed, LoopAnswers, StopBegin, StopEnd
    <3>3. CASE Driver
      BY <2>1, <2>3, <2>5, <3>3
    <3> QED BY <2>2, <3>1, <3>2, <3>3 DEF Next, Handler
  <2> QED BY <2>6 DEF Discipline, AppTypes
<1>2. ASSUME NEW id \in Ids, CancelRoute(id) PROVE LoopSettled'
  <2>1. loop' = [task |-> "cancelling", id |-> id] /\ R!Cancel(id)
    BY <1>2 DEF CancelRoute
  <2>2. id \in submitted /\ state'[id] \in R!Terminal
    BY <2>1, RouterGives DEF R!Cancel, Discipline, RouterTypes, R!Terminal
  <2> QED BY <1>1, <2>1, <2>2 DEF LoopSettled, Settled
<1>3. CASE loop' = loop
  <2>1. loop.task = "cancelling" => loop.id \in Ids
    BY <1>1 DEF Loop, Free
  <2> QED BY <1>1, <1>3, <2>1 DEF LoopSettled, Settled, StatesKept
<1>4. CASE loop'.task # "cancelling"
  BY <1>4 DEF LoopSettled
<1>5. (\A id \in Ids : ~CancelRoute(id)) => loop' = loop \/ loop'.task # "cancelling"
  <2>1. ASSUME NEW id \in Ids,
               \/ HandlerAccept(id) \/ HandlerClosed(id) \/ ClientReads(id) \/ ClientEnds(id)
               \/ ClientHangsUp(id) \/ HandlerFull(id)
               \/ HandlerSubscribe(id) \/ HandlerTooLate(id) \/ HandlerSubmit(id)
               \/ CancelForward(id)
        PROVE  loop' = loop \/ loop'.task # "cancelling"
    BY <2>1 DEF HandlerAccept, HandlerClosed, ClientReads, ClientEnds, ClientHangsUp, appVars, Free,
       HandlerFull, HandlerSubscribe, HandlerTooLate, HandlerSubmit, CancelForward
  <2>2. Driver => loop' = loop
    BY DEF Driver, DriverPoll, DriverTake, DriverIdle, EngineYields, EngineRaises, EngineDone,
           DriverFrame, DriverMarker, DriverTimeout, DriverCancel
  <2>3. LoopStartsClosed \/ LoopAnswers => loop' = loop
    BY DEF LoopStartsClosed, LoopAnswers
  <2>5. StopBegin \/ StopEnd => loop'.task # "cancelling"
    <3>1. StopBegin \/ StopEnd => loop' = [task |-> "joining"] \/ loop' = [task |-> "free"]
      BY DEF StopBegin, StopEnd, Free
    <3> QED BY <3>1
  <2>4. ASSUME NEW p \in Pushers, LoopStarts(p) \/ PushWorks(p) PROVE loop' = loop
    BY <2>4 DEF LoopStarts, PushWorks
  <2> QED BY <2>1, <2>2, <2>3, <2>4, <2>5 DEF Next, Handler
<1> QED BY <1>2, <1>3, <1>4, <1>5

LEMMA RouterInvStep ==
    ASSUME Discipline, StatesKept, RouterInv, Next
    PROVE  RouterInv'
<1>1. PushesFinal /\ LogSettled /\ LoopSettled /\ LogInv /\ RouterTypes
  BY RouterInvIs, RouterGives DEF Discipline
<1>2. LogSettled' /\ LoopSettled'
  BY <1>1, LogSteps, LogSettledStep, LoopSettledStep
<1>3. push' = push \/ \E p \in Pushers : PushWorks(p) \/ LoopStarts(p)
  <2>1. ASSUME NEW id \in Ids,
               \/ HandlerAccept(id) \/ HandlerClosed(id) \/ ClientReads(id) \/ ClientEnds(id)
               \/ ClientHangsUp(id) \/ CancelRoute(id) \/ HandlerFull(id)
               \/ HandlerSubscribe(id) \/ HandlerTooLate(id) \/ HandlerSubmit(id)
               \/ CancelForward(id)
        PROVE  push' = push
    BY <2>1, EntriesKeepPushes DEF HandlerAccept, HandlerClosed, ClientReads, ClientEnds,
       ClientHangsUp, CancelRoute, HandlerFull, HandlerSubscribe, HandlerTooLate, HandlerSubmit,
       CancelForward
  <2>2. Driver => R!Cancel(driver.id) \/ UNCHANGED routerVars
    BY DEF Driver, DriverPoll, DriverTake, DriverIdle, EngineYields, EngineRaises, EngineDone,
           DriverFrame, DriverMarker, DriverTimeout, DriverCancel
  <2>3. LoopStartsClosed \/ LoopAnswers \/ StopBegin \/ StopEnd => R!Shutdown \/ UNCHANGED routerVars
    BY DEF LoopStartsClosed, LoopAnswers, StopBegin, StopEnd
  <2> QED BY <2>1, <2>2, <2>3, EntriesKeepPushes DEF Next, Handler
<1>4. PushesFinal'
  BY <1>1, <1>3, PushesFinalStep
<1> QED BY <1>2, <1>4 DEF RouterInv, PushesFinal, LogSettled, LoopSettled

(* A step of neither the driver, nor the loop, nor tokio on the pushes.    *)
Aside == UNCHANGED <<driver, pending, answers, push, sent>>

LEMMA Kinds ==
    ASSUME Next
    PROVE  \/ Aside
           \/ Driver
           \/ \E p \in Pushers : LoopStarts(p) \/ PushWorks(p)
           \/ LoopStartsClosed
           \/ LoopAnswers
<1>1. ASSUME NEW id \in Ids,
             \/ R!AcceptInsert(id) \/ R!AcceptSubmit(id) \/ R!AcceptRollBack(id)
             \/ R!Subscribe(id) \/ R!Cancel(id) \/ R!Receive(id) \/ R!ReceiveEnd(id)
             \/ R!DropReceiver(id) \/ R!Shutdown \/ UNCHANGED routerVars
      PROVE  push' = push /\ sent' = sent
  BY <1>1 DEF R!AcceptInsert, R!AcceptSubmit, R!AcceptRollBack, R!Subscribe, R!Cancel, R!Receive,
     R!ReceiveEnd, R!DropReceiver, R!Shutdown, R!entryVars, R!streamVars, routerVars
<1>2. ASSUME NEW id \in Ids,
             \/ HandlerAccept(id) \/ HandlerClosed(id) \/ ClientReads(id) \/ ClientEnds(id)
             \/ ClientHangsUp(id) \/ CancelRoute(id) \/ HandlerFull(id)
             \/ HandlerSubscribe(id) \/ HandlerTooLate(id) \/ HandlerSubmit(id)
             \/ CancelForward(id)
      PROVE  Aside
  <2>1. UNCHANGED <<driver, pending, answers>>
    BY <1>2 DEF HandlerAccept, HandlerClosed, ClientReads, ClientEnds,
     ClientHangsUp, CancelRoute, HandlerFull, HandlerSubscribe, HandlerTooLate, HandlerSubmit,
     CancelForward, appVars
  <2>2. push' = push /\ sent' = sent
    BY <1>1, <1>2 DEF HandlerAccept, HandlerClosed, ClientReads, ClientEnds,
     ClientHangsUp, CancelRoute, HandlerFull, HandlerSubscribe, HandlerTooLate, HandlerSubmit,
     CancelForward
  <2> QED BY <2>1, <2>2 DEF Aside
<1>3. StopBegin \/ StopEnd => Aside
  BY DEF StopBegin, StopEnd, Aside, R!Shutdown, R!streamVars, routerVars
<1> QED BY <1>2, <1>3 DEF Next, Handler

(* The driver keeps to its place in the clip.                              *)
LEMMA DriverSteps ==
    ASSUME AppTypes, Driver
    PROVE  /\ push' = push /\ sent' = sent /\ answers' = answers
           /\ ~DriverTake => driver'.made = driver.made
           /\ driver.at \in Working /\ driver'.at \in Working =>
                 driver'.id = driver.id /\ driver'.made = driver.made
           /\ driver'.at \in Working => DriverTake \/ driver.at \in Working
           /\ ~EngineYields /\ driver.at \in Working /\ driver'.at \in Working =>
                 driver'.index = driver.index
<1> USE DEF Working, Places
<1>1. push' = push /\ sent' = sent /\ answers' = answers
  BY DEF Driver, DriverPoll, DriverTake, DriverIdle, EngineYields, EngineRaises, EngineDone,
     DriverFrame, DriverMarker, DriverTimeout, DriverCancel, routerVars, R!Cancel
<1>2. CASE EngineYields
  <2>1. DriverAt("frame") /\ driver.at = "engine"
    BY <1>2, EngineGoesOn DEF EngineYields, At
  <2> QED BY <1>1, <1>2, <2>1 DEF DriverAt
<1>3. CASE DriverTake
  BY <1>1, <1>3 DEF DriverTake, At, EngineYields
<1>4. CASE ~EngineYields /\ ~DriverTake
  <2>1. PICK a \in Places : Go(a) /\ (a \in Working => driver.at \in Working)
    BY <1>4 DEF Driver, DriverPoll, DriverIdle, EngineRaises, EngineDone,
       DriverFrame, DriverMarker, DriverTimeout, DriverCancel, At, Waiting
  <2>2. driver \in DriverType
    BY DEF AppTypes
  <2>3. DriverAt(a) /\ (driver.at \in Working => driver'.index = driver.index)
    BY <2>1, <2>2, DriverGoes
  <2> QED BY <1>1, <1>4, <2>1, <2>3 DEF DriverAt
<1> QED BY <1>2, <1>3, <1>4

LEMMA SameDelivered ==
    ASSUME Discipline, LoopSettled, Next, ~DriverTake
    PROVE  \A x \in Ids : Delivered(x)' <=> Delivered(x)
BY LogSteps, DeliveredKept

(* What the driver waits for does not change under it.                     *)
LEMMA WaitSame ==
    ASSUME AppTypes, StatesKept, WaitingInv, driver' = driver, pending' \subseteq pending,
           \A p \in Pushers : R!Pushing(p, driver.id)' =>
               \/ R!Pushing(p, driver.id) /\ push'[p].frame = push[p].frame
               \/ \E c \in pending : c.id = driver.id /\ push'[p].frame = c.frame,
           \A a \in answers' : a \in answers \/
               (a.id = driver.id /\ a.ok /\ Waiting /\ Now.final => Settled(driver.id)')
    PROVE  WaitingInv'
<1>1. (Waiting' <=> Waiting) /\ Now' = Now
  BY DEF Waiting, Now, At, IsFinal, Total
<1>2. Waiting => driver.id \in Ids
  BY DEF AppTypes, Waiting, Working, Places
<1>3. ASSUME Waiting
      PROVE  /\ \A c \in pending' : c.id = driver.id => c.frame = Now
             /\ \A p \in Pushers : R!Pushing(p, driver.id)' => push'[p].frame = Now
             /\ \A a \in answers' : a.id = driver.id /\ a.ok /\ Now.final => Settled(driver.id)'
  <2>1. Settled(driver.id) => Settled(driver.id)'
    BY <1>2, <1>3 DEF StatesKept, Settled
  <2> QED BY <1>3, <2>1 DEF WaitingInv
<1> QED BY <1>1, <1>3 DEF WaitingInv, R!Pushing, Settled

LEMMA WaitWorks ==
    ASSUME Discipline, StatesKept, WaitingInv, NEW p \in Pushers, PushWorks(p)
    PROVE  WaitingInv'
<1>1. AppTypes /\ RouterTypes /\ \A x \in submitted : state[x] # "absent"
  BY RouterGives DEF Discipline
<1>2. /\ \/ Returned(p) \/ \E s : Moved(p, s)
      /\ push[p] # R!Idle
      /\ pending' = pending /\ driver' = driver
      /\ R!PushSend(p) => push[p].step = "cloned"
      /\ R!PushComplete(p) => push[p].step = "sent"
  <2>1. push[p].step \in {"begun", "cloned", "sent"} => push[p] # R!Idle
    BY DEF R!Idle
  <2> QED BY <1>1, <2>1, PushSteps DEF PushWorks
<1>3. push[p].id \in submitted /\ push[p].id \in Ids
  BY <1>1, <1>2 DEF Discipline, RP!IndInv, RP!OnlySubmitted, RP!Idle, R!Idle, RouterTypes, R!Push
<1>4. ASSUME NEW q \in Pushers, R!Pushing(q, driver.id)'
      PROVE  R!Pushing(q, driver.id) /\ push'[q].frame = push[q].frame
  BY <1>1, <1>2, <1>4 DEF R!Pushing, Returned, Moved, RouterTypes
<1>5. ASSUME NEW a \in answers', a \notin answers,
             a.id = driver.id, a.ok, Waiting, Now.final
      PROVE  Settled(driver.id)'
  <2>1. a.id = push[p].id
    BY <1>5 DEF PushWorks, Answer
  <2>2. push[p].frame = Now
    BY <1>2, <1>5, <2>1 DEF WaitingInv, R!Pushing
  <2>3. R!PushComplete(p)
    BY <1>5, <2>2 DEF PushWorks, Answer
  <2>4. state'[push[p].id] = "Complete"
    BY <1>1, <1>3, <2>3 DEF R!PushComplete, RouterTypes
  <2> QED BY <1>2, <1>5, <2>1, <2>4 DEF Settled, R!Terminal
<1>6. \A q \in Pushers : R!Pushing(q, driver.id)' =>
               R!Pushing(q, driver.id) /\ push'[q].frame = push[q].frame
  <2>1. (driver.id)' = driver.id
    BY <1>2
  <2> QED BY <1>4, <2>1 DEF R!Pushing
<1>7. Settled(driver.id)' <=> state'[driver.id] \in R!Terminal
  BY <1>2 DEF Settled
<1> QED BY <1>1, <1>2, <1>5, <1>6, <1>7, WaitSame

LEMMA WaitSpawn ==
    ASSUME Discipline, NEW a \in {"push", "pushMarker"}, driver.at \in {"frame", "marker"}, Go(a),
           IF a = "push" THEN Spawn(driver.index, IsFinal) ELSE Spawn(driver.index + 1, TRUE),
           push' = push, answers' = answers
    PROVE  WaitingInv'
<1> USE DEF Working, Places
<1>1. AppTypes /\ driver \in DriverType /\ driver.id \in Ids
  BY DEF Discipline, AppTypes
<1>2. driver'.at = a /\ driver'.id = driver.id /\ driver'.index = driver.index /\ Total' = Total
  BY <1>1, DriverGoes DEF DriverAt, Total
<1>3. Now' = [index |-> IF a = "push" THEN driver.index ELSE driver.index + 1,
              final |-> IF a = "push" THEN IsFinal ELSE TRUE]
  BY <1>2 DEF Now, At, IsFinal
<1>4. pending' = pending \cup {[id |-> driver.id, frame |-> Now']}
  BY <1>3 DEF Spawn
<1>5. ~UnderWay(driver.id) /\ ~Answered(driver.id)
  BY <1>1 DEF Discipline, Started, Driven
<1>6. \A c \in pending' : c.id = driver'.id => c.frame = Now'
  BY <1>2, <1>4, <1>5 DEF UnderWay
<1>7. \A p \in Pushers : push'[p] # R!Idle => push'[p].id # driver'.id
  BY <1>2, <1>5 DEF UnderWay, R!Pushing
<1>8. \A b \in answers' : b.id # driver'.id
  BY <1>2, <1>5 DEF Answered
<1> QED BY <1>6, <1>7, <1>8 DEF WaitingInv, R!Pushing

LEMMA WaitingInvStep ==
    ASSUME Discipline, StatesKept, WaitingInv, Next
    PROVE  WaitingInv'
<1>1. AppTypes /\ RouterTypes
  BY RouterGives DEF Discipline
<1>2. CASE Aside
  BY <1>1, <1>2, WaitSame DEF Aside, R!Pushing
<1>3. CASE Driver
  <2>1. CASE DriverFrame \/ DriverMarker
    <3>1. push' = push /\ answers' = answers
      BY <1>1, <1>3, DriverSteps
    <3>2. \/ ~Waiting'
          \/ DriverFrame /\ Go("push") /\ Spawn(driver.index, IsFinal)
          \/ DriverMarker /\ Go("pushMarker") /\ Spawn(driver.index + 1, TRUE)
      <4>1. ASSUME NEW k \in {"cancel", "poll"}, Go(k) PROVE ~Waiting'
        BY <1>1, <4>1, DriverMoves, <2>1 DEF DriverAt, Waiting, DriverFrame, DriverMarker, At,
           Working, Places
      <4> QED BY <2>1, <4>1 DEF DriverFrame, DriverMarker
    <3>3. CASE DriverFrame /\ Go("push") /\ Spawn(driver.index, IsFinal)
      BY <3>1, <3>3, WaitSpawn DEF DriverFrame, At
    <3>4. CASE DriverMarker /\ Go("pushMarker") /\ Spawn(driver.index + 1, TRUE)
      BY <3>1, <3>4, WaitSpawn DEF DriverMarker, At
    <3> QED BY <3>2, <3>3, <3>4 DEF WaitingInv
  <2>2. CASE ~DriverFrame /\ ~DriverMarker
    <3>1. CASE EngineYields
      BY <1>1, <3>1, EngineGoesOn DEF DriverAt, Waiting, WaitingInv
    <3>2. CASE DriverTake
      BY <3>2 DEF DriverTake, Waiting, WaitingInv
    <3>3. CASE ~EngineYields /\ ~DriverTake
      <4>1. PICK k \in Places \ {"push", "pushMarker"} : Go(k) /\ (k \in Working => driver.at \in Working)
        BY <1>3, <2>2, <3>3 DEF Driver, DriverPoll, DriverIdle, EngineRaises, EngineDone,
           DriverTimeout, DriverCancel, At, Waiting, Working, Places
      <4>2. driver \in DriverType
        BY <1>1 DEF AppTypes
      <4>3. driver'.at = k
        BY <4>1, <4>2, DriverGoes DEF DriverAt
      <4> QED BY <4>1, <4>3 DEF Waiting, WaitingInv
    <3> QED BY <3>1, <3>2, <3>3
  <2> QED BY <2>1, <2>2
<1>4. ASSUME NEW p \in Pushers, PushWorks(p) PROVE WaitingInv'
  BY <1>4, WaitWorks
<1>5. ASSUME NEW p \in Pushers, LoopStarts(p) PROVE WaitingInv'
  <2>1. PICK c \in pending : pending' = pending \ {c} /\ R!PushBegin(p, c.id, c.frame)
    BY <1>5 DEF LoopStarts
  <2>2. driver' = driver /\ answers' = answers
    BY <1>5 DEF LoopStarts
  <2>3. /\ push'[p] = [step |-> "begun", id |-> c.id, frame |-> c.frame]
        /\ \A q \in Pushers \ {p} : push'[q] = push[q]
    BY <1>1, <2>1 DEF R!PushBegin, RouterTypes
  <2>4. \A q \in Pushers : R!Pushing(q, driver.id)' =>
               \/ R!Pushing(q, driver.id) /\ push'[q].frame = push[q].frame
               \/ \E d \in pending : d.id = driver.id /\ push'[q].frame = d.frame
    BY <2>2, <2>3 DEF R!Pushing
  <2> QED BY <1>1, <2>1, <2>2, <2>4, WaitSame
<1>6. CASE LoopStartsClosed
  <2>1. /\ pending' \subseteq pending /\ driver' = driver /\ push' = push
        /\ \A a \in answers' : a \in answers \/ ~a.ok
    BY <1>6 DEF LoopStartsClosed, Answer, routerVars
  <2> QED BY <1>1, <2>1, WaitSame DEF R!Pushing
<1>7. CASE LoopAnswers
  <2>1. PICK a \in answers :
          /\ answers' = answers \ {a}
          /\ IF Waiting /\ driver.id = a.id THEN Go(AfterPush(a.ok)) ELSE UNCHANGED driver
    BY <1>7 DEF LoopAnswers
  <2>2. pending' = pending /\ push' = push
    BY <1>7 DEF LoopAnswers, routerVars
  <2>3. CASE driver' = driver
    BY <1>1, <2>1, <2>2, <2>3, WaitSame DEF R!Pushing
  <2>4. CASE Waiting /\ Go(AfterPush(a.ok))
    <3>1. PICK k \in {"cancel", "engine", "poll"} : Go(k)
      BY <2>4 DEF AfterPush
    <3>2. driver'.at = k
      BY <1>1, <2>4, <3>1, DriverGoes DEF AppTypes, DriverAt, Waiting, Working, Places
    <3> QED BY <3>2 DEF Waiting, WaitingInv
  <2> QED BY <2>1, <2>3, <2>4
<1> QED BY <1>2, <1>3, <1>4, <1>5, <1>6, <1>7, Kinds

-----------------------------------------------------------------------------

(* Where the driver gets to the end of the clip, and what it leaves.       *)
LEMMA ClipOverSame ==
    ASSUME AppTypes, StatesKept, ClipOver, driver' = driver
    PROVE  ClipOver'
<1>1. driver.at \in {"engine", "marker", "pushMarker"} => driver.id \in Ids
  BY DEF AppTypes, Working, Places
<1>2. /\ (At("engine") /\ driver.index + 1 = Total /\ driver.index >= 0 => Settled(driver.id))
      /\ (driver.at \in {"marker", "pushMarker"} => Settled(driver.id))
  BY DEF ClipOver
<1> QED BY <1>1, <1>2 DEF ClipOver, At, Total, Settled, StatesKept

LEMMA ClipOverStep ==
    ASSUME Discipline, StatesKept, WaitingInv, ClipOver, Next
    PROVE  ClipOver'
<1> USE DEF Working, Places
<1>1. AppTypes /\ driver \in DriverType
  BY DEF Discipline, AppTypes
<1>2. driver.at \in Working => driver.id \in Ids
  BY <1>1 DEF AppTypes
<1>3. ASSUME NEW k \in Places \ {"engine", "marker", "pushMarker"}, Go(k),
             k \in Working => driver.at \in Working
      PROVE  ClipOver'
  BY <1>1, <1>3, DriverGoes DEF DriverAt, ClipOver, At
<1>4. ASSUME NEW k \in {"marker", "pushMarker"}, Go(k), driver.at \in Working,
             Settled(driver.id)
      PROVE  ClipOver'
  <2>1. driver'.at = k /\ driver'.id = driver.id
    BY <1>1, <1>4, DriverGoes DEF DriverAt
  <2>2. state'[driver.id] \in R!Terminal
    BY <1>2, <1>4 DEF StatesKept, Settled
  <2> QED BY <2>1, <2>2 DEF ClipOver, At, Settled
<1>5. CASE Driver
  <2>1. CASE DriverTake
    BY <2>1 DEF DriverTake, ClipOver, At
  <2>2. CASE EngineYields
    BY <1>1, <2>2, EngineGoesOn DEF DriverAt, ClipOver, At
  <2>3. CASE EngineDone
    <3>1. /\ At("engine") /\ driver.index + 1 = Total
          /\ Go("poll") \/ (Go("marker") /\ driver.index >= 0)
      BY <2>3 DEF EngineDone
    <3>2. CASE Go("poll")
      BY <1>3, <3>2
    <3>3. CASE Go("marker") /\ driver.index >= 0
      BY <1>4, <3>1, <3>3 DEF ClipOver, At
    <3> QED BY <3>1, <3>2, <3>3
  <2>4. CASE DriverMarker
    BY <1>4, <2>4 DEF DriverMarker, ClipOver, At
  <2>5. CASE ~DriverTake /\ ~EngineYields /\ ~EngineDone /\ ~DriverMarker
    <3>1. PICK k \in Places \ {"engine", "marker", "pushMarker"} :
              Go(k) /\ (k \in Working => driver.at \in Working)
      BY <1>5, <2>5 DEF Driver, DriverPoll, DriverIdle, EngineRaises, DriverFrame,
         DriverTimeout, DriverCancel, At, Waiting
    <3> QED BY <1>3, <3>1
  <2> QED BY <2>1, <2>2, <2>3, <2>4, <2>5
<1>6. CASE LoopAnswers
  <2>1. PICK a \in answers :
          IF Waiting /\ driver.id = a.id THEN Go(AfterPush(a.ok)) ELSE UNCHANGED driver
    BY <1>6 DEF LoopAnswers
  <2>2. CASE driver' = driver
    BY <1>1, <2>2, ClipOverSame
  <2>3. CASE Waiting /\ driver.id = a.id /\ Go(AfterPush(a.ok))
    <3>1. CASE AfterPush(a.ok) # "engine"
      <4>1. PICK k \in {"cancel", "poll"} : Go(k)
        BY <2>3, <3>1 DEF AfterPush
      <4>2. driver.at \in Working
        BY <2>3 DEF Waiting
      <4> QED BY <1>3, <4>1, <4>2
    <3>2. CASE AfterPush(a.ok) = "engine"
      <4>1. a.ok /\ At("push")
        BY <3>2 DEF AfterPush
      <4>2. /\ driver'.at = "engine" /\ driver'.id = driver.id
            /\ driver'.index = driver.index /\ Total' = Total
        BY <1>1, <2>3, <3>2, <4>1, DriverGoes DEF DriverAt, At, Total
      <4>3. driver.index + 1 = Total => Settled(driver.id)
        <5>1. driver.index \in Int /\ Total \in Int
          BY <1>1, <4>1, DriverIs, ServingAssumption DEF At, ServingAssumption
        <5>2. Now = [index |-> driver.index, final |-> IsFinal]
          BY <4>1 DEF Now
        <5>3. driver.index + 1 = Total => IsFinal
          BY <5>1 DEF IsFinal
        <5>4. driver.index + 1 = Total => Now.final
          BY <5>2, <5>3
        <5> QED BY <2>3, <4>1, <5>4 DEF WaitingInv
      <4>4. Settled(driver.id) => state'[driver.id] \in R!Terminal
        BY <1>2, <4>1 DEF StatesKept, Settled, At
      <4> QED BY <4>2, <4>3, <4>4 DEF ClipOver, At, Settled
    <3> QED BY <3>1, <3>2
  <2> QED BY <2>1, <2>2, <2>3
<1>7. Aside \/ LoopStartsClosed \/ (\E p \in Pushers : LoopStarts(p) \/ PushWorks(p)) => driver' = driver
  BY DEF Aside, LoopStartsClosed, LoopStarts, PushWorks
<1> QED BY <1>1, <1>5, <1>6, <1>7, Kinds, ClipOverSame

-----------------------------------------------------------------------------

(* A request that the driver leaves has come to its end: an engine that    *)
(* yields a frame ends with a final one or with a marker.                  *)
LEMMA AttendedStep ==
    ASSUME 0 \notin Totals, Discipline, StatesKept, RouterInv, WaitingInv, ClipOver, Attended, Next
    PROVE  Attended'
<1> USE DEF Working, Places
<1>1. /\ AppTypes /\ driver \in DriverType /\ LogInv /\ RouterTypes /\ LoopSettled
      /\ Discipline' /\ [Next]_vars
  BY RouterInvIs, RouterGives, DisciplineStep DEF Discipline, AppTypes
<1>2. closed => closed'
  <2>1. RP!Next \/ UNCHANGED RP!vars
    BY <1>1, DisciplineStep
  <2> QED BY <2>1 DEF RP!Next, RP!AcceptInsert, RP!AcceptSubmit, RP!AcceptRollBack, RP!Subscribe,
       RP!Cancel, RP!Receive, RP!ReceiveEnd, RP!DropReceiver, RP!PushBegin, RP!PushStep,
       RP!PushRefused, RP!PushValidate, RP!PushFails, RP!PushSend, RP!PushComplete, RP!Shutdown,
       RP!vars
<1> SUFFICES ASSUME ~closed', NEW x \in Ids, Delivered(x)', state'[x] \in R!Live
             PROVE  driver'.at \in Working /\ driver'.id = x
  BY DEF Attended, Driven
<1>3. ASSUME Delivered(x)
      PROVE  driver.at \in Working /\ driver.id = x /\ state[x] \in R!Live
  <2>1. x \in submitted
    BY <1>1, <1>3, DeliveredIs
  <2>2. state[x] \in R!Live
    BY <2>1 DEF StatesKept
  <2> QED BY <1>2, <1>3, <2>2 DEF Attended, Driven
<1>4. CASE DriverTake
  <2>1. PICK n \in DOMAIN log, total \in Totals :
          /\ PQ!Take(n)
          /\ driver' = [at |-> "engine", id |-> log[n].id, index |-> -1,
                        made |-> [driver.made EXCEPT ![log[n].id] = total]]
    BY <1>4 DEF DriverTake
  <2>2. Fated({n}, "delivered")
    BY <1>1, <2>1, LogTake DEF LogInv
  <2>3. ~Delivered(x)
    BY <1>3, <1>4 DEF DriverTake, At
  <2>4. x # log[n].id => (Delivered(x)' <=> Delivered(x))
    BY <1>1, <2>2, DeliveredTaken DEF LogInv
  <2> QED BY <2>1, <2>3, <2>4
<1>5. CASE ~DriverTake
  <2>1. Delivered(x)
    BY <1>1, <1>5, SameDelivered
  <2>2. driver.at \in Working /\ driver.id = x /\ state[x] \in R!Live /\ ~Settled(x)
    BY <2>1, <1>3 DEF Settled, R!Live, R!Terminal
  <2>3. ~closed
    BY <1>2
  <2>4. ASSUME NEW k \in Working, Go(k) PROVE driver'.at \in Working /\ driver'.id = x
    BY <1>1, <2>2, <2>4, DriverGoes DEF DriverAt
  <2>5. CASE Driver
    <3>1. CASE EngineYields
      BY <1>1, <2>2, <3>1, EngineGoesOn DEF DriverAt
    <3>2. CASE EngineRaises \/ DriverMarker \/ DriverTimeout
      <4>1. Go("cancel") \/ Go("pushMarker")
        BY <3>2 DEF EngineRaises, DriverMarker, DriverTimeout
      <4> QED BY <4>1, <2>4
    <3>3. CASE EngineDone
      <4>1. At("engine") /\ driver.index + 1 = Total
        BY <3>3 DEF EngineDone
      <4>2. driver.index >= 0
        BY <1>1, <2>2, <4>1, DriverIs
      <4>3. FALSE
        BY <2>2, <4>1, <4>2 DEF ClipOver
      <4> QED BY <4>3
    <3>4. CASE DriverFrame
      <4>1. Go("cancel") \/ Go("push") \/ state[x] = "Cancelled"
        BY <2>2, <3>4 DEF DriverFrame
      <4>2. state[x] # "Cancelled"
        BY <2>2 DEF Settled, R!Terminal
      <4> QED BY <4>1, <4>2, <2>4
    <3>5. CASE DriverCancel
      <4>1. R!Cancel(x)
        BY <2>2, <2>3, <3>5 DEF DriverCancel, R!Cancellable
      <4>2. state'[x] = "Cancelled"
        BY <1>1, <4>1 DEF R!Cancel, RouterTypes
      <4> QED BY <4>2 DEF R!Live
    <3> QED BY <1>5, <2>2, <2>5, <3>1, <3>2, <3>3, <3>4, <3>5 DEF Driver, DriverPoll, DriverIdle, At
  <2>6. CASE LoopAnswers
    <3>1. PICK a \in answers :
            IF Waiting /\ driver.id = a.id THEN Go(AfterPush(a.ok)) ELSE UNCHANGED driver
      BY <2>6 DEF LoopAnswers
    <3>2. CASE driver' = driver
      BY <2>2, <3>2
    <3>3. CASE Waiting /\ Go(AfterPush(a.ok))
      <4>1. ~At("pushMarker")
        BY <2>2 DEF ClipOver, At
      <4>2. AfterPush(a.ok) \in {"cancel", "engine"}
        BY <3>3, <4>1 DEF AfterPush, Waiting, At
      <4> QED BY <2>4, <3>3, <4>2
    <3> QED BY <3>1, <3>2, <3>3
  <2>7. Aside \/ LoopStartsClosed \/ (\E p \in Pushers : LoopStarts(p) \/ PushWorks(p)) =>
            driver' = driver
    BY DEF Aside, LoopStartsClosed, LoopStarts, PushWorks
  <2> QED BY <2>2, <2>5, <2>6, <2>7, Kinds
<1> QED BY <1>4, <1>5

LEMMA CourseInit == Init => Course
BY DEF Init, R!Init, Course, RouterInv, WaitingInv, ClipOver, Waiting, At, Free, R!Idle

LEMMA CourseStep == Discipline /\ Course /\ [Next]_vars => Course'
<1> SUFFICES ASSUME Discipline, Course, [Next]_vars PROVE Course'
  OBVIOUS
<1>1. CASE Next
  BY <1>1, StateStep, RouterInvStep, WaitingInvStep, ClipOverStep DEF Course
<1>2. CASE UNCHANGED vars
  BY <1>2 DEF vars, routerVars, queueVars, appVars, Course, RouterInv, WaitingInv, ClipOver,
     Waiting, At, Now, IsFinal, Total, Settled, R!Pushing
<1> QED BY <1>1, <1>2

LEMMA CourseKept == Spec => []Course
BY CourseInit, CourseStep, Invariance, PTL DEF Spec

LEMMA AttendedInit == Init => Attended
BY DEF Init, Attended, Delivered

LEMMA AttendedKept ==
    ASSUME 0 \notin Totals
    PROVE  Discipline /\ Course /\ Attended /\ [Next]_vars => Attended'
<1> SUFFICES ASSUME Discipline, Course, Attended, [Next]_vars PROVE Attended'
  OBVIOUS
<1>1. CASE Next
  BY <1>1, StateStep, AttendedStep DEF Course
<1>2. CASE UNCHANGED vars
  BY <1>2 DEF vars, routerVars, queueVars, appVars, Attended, Delivered, Driven
<1> QED BY <1>1, <1>2

(* A request that is live in the router waits in the scheduler, or the     *)
(* driver is at work on it: no order of submissions, cancellations, failed *)
(* or late pushes leaves one behind.  The engine is one that yields a      *)
(* frame or raises; after an engine that ends without a frame the driver   *)
(* pushes no marker (it tests the index), and its request stays live.      *)
THEOREM NobodyIsForgotten ==
    ASSUME 0 \notin Totals
    PROVE  Spec => []NobodyForgotten
<1>1. Discipline /\ Course /\ Attended => NobodyForgotten
  <2> SUFFICES ASSUME Discipline, Course, Attended, ~closed, NEW x \in submitted,
                      state[x] \in R!Live
               PROVE  Waits(x) \/ Driven(x)
    BY DEF NobodyForgotten
  <2>1. x \in Ids
    BY RouterGives DEF Discipline, RouterTypes
  <2>2. PICK n \in DOMAIN log : log[n].id = x
    BY DEF Discipline, LogInv
  <2>3. log[n].fate \in PQ!Fate
    <3>1. log \in Seq(PQ!Request)
      BY DEF Discipline, LogInv
    <3>2. log[n] \in PQ!Request
      BY <3>1
    <3> QED BY <3>2 DEF PQ!Request
  <2>4. CASE log[n].fate = "queued"
    BY <2>2, <2>4 DEF Waits, PQ!Queued
  <2>5. CASE log[n].fate = "delivered"
    BY <2>1, <2>2, <2>5 DEF Attended, Delivered
  <2>6. log[n].fate # "cancelled"
    BY <2>2 DEF Course, RouterInv, Settled, R!Live, R!Terminal
  <2> QED BY <2>3, <2>4, <2>5, <2>6 DEF PQ!Fate
<1> QED BY <1>1, AttendedInit, AttendedKept, CourseKept, Invariance, PTL DEF Spec

-----------------------------------------------------------------------------
(* A clip that completes is whole. *)

PrefixInv == \A id \in Ids : Prefix(id)

PendingInv == \A c \in pending : MaySend(c.id, c.frame, "begun")

PushInv == \A p \in Pushers : push[p] # R!Idle => MaySend(push[p].id, push[p].frame, push[p].step)

SentInv ==
    /\ At("engine") => Len(sent[driver.id]) = driver.index + 1
    /\ At("frame") => Len(sent[driver.id]) = driver.index
    /\ At("push") =>
          \A a \in answers : a.id = driver.id /\ a.ok => Len(sent[driver.id]) = driver.index + 1

LEMMA ClipInvIs == ClipInv <=> PrefixInv /\ PendingInv /\ PushInv /\ SentInv
BY DEF ClipInv, PrefixInv, PendingInv, PushInv, SentInv

(* MaySend in the next state, of a frame and a step of this one.           *)
WillSend(id, frame, step) ==
    \/ /\ frame.index = driver'.made[id]
       /\ step = "begun" /\ state'[id] \in R!Terminal
    \/ /\ frame.index < driver'.made[id]
       /\ frame.final <=> frame.index + 1 = driver'.made[id]
       /\ step \in {"begun", "cloned"} => Len(sent'[id]) = frame.index
       /\ step = "sent" => Len(sent'[id]) = frame.index + 1

LEMMA WillSends ==
    /\ (\A c \in pending' : WillSend(c.id, c.frame, "begun")) => PendingInv'
    /\ (\A p \in Pushers : push'[p] # R!Idle =>
            WillSend(push'[p].id, push'[p].frame, push'[p].step)) => PushInv'
BY DEF WillSend, PendingInv, PushInv, MaySend, Settled

LEMMA StillSends ==
    ASSUME StatesKept, NEW x \in Ids, NEW frame, NEW step, MaySend(x, frame, step),
           sent'[x] = sent[x], driver'.made[x] = driver.made[x]
    PROVE  WillSend(x, frame, step)
BY DEF MaySend, WillSend, StatesKept, Settled

(* Only a push that returns completes a request.                           *)
LEMMA NoneCompletes ==
    ASSUME Discipline, [Next]_vars, push' = push
    PROVE  \A x \in Ids : state'[x] = "Complete" => state[x] = "Complete"
<1>1. RouterTypes
  BY RouterGives DEF Discipline
<1>2. RP!Next \/ UNCHANGED RP!vars
  BY DisciplineStep
<1>3. ASSUME NEW id \in Ids,
             \/ RP!AcceptInsert(id) \/ RP!AcceptSubmit(id) \/ RP!AcceptRollBack(id)
             \/ RP!Subscribe(id) \/ RP!Cancel(id) \/ RP!Receive(id)
             \/ RP!ReceiveEnd(id) \/ RP!DropReceiver(id)
      PROVE  \A x \in Ids : state'[x] = "Complete" => state[x] = "Complete"
  BY <1>1, <1>3 DEF RouterTypes, RP!AcceptInsert, RP!AcceptSubmit, RP!AcceptRollBack,
     RP!Accepting, RP!Subscribe, RP!Cancel, RP!Receive, RP!ReceiveEnd, RP!DropReceiver,
     RP!entryVars, RP!streamVars
<1>4. ASSUME NEW p \in Pushers, RP!PushStep(p)
      PROVE  \A x \in Ids : state'[x] = "Complete" => state[x] = "Complete"
  <2>1. ~RP!PushComplete(p)
    BY <1>1 DEF RP!PushComplete, RP!Return, RP!Idle, RouterTypes
  <2> QED BY <1>1, <1>4, <2>1 DEF RouterTypes, RP!PushStep, RP!PushRefused, RP!PushValidate,
     RP!PushFails, RP!PushSend, RP!entryVars
<1>5. ASSUME NEW p \in Pushers, NEW id \in Ids, NEW frame \in RP!Frame, RP!PushBegin(p, id, frame)
      PROVE  state' = state
  BY <1>5 DEF RP!PushBegin, RP!entryVars
<1>6. RP!Shutdown \/ UNCHANGED RP!vars => state' = state
  BY DEF RP!Shutdown, RP!entryVars, RP!vars
<1> QED BY <1>2, <1>3, <1>4, <1>5, <1>6 DEF RP!Next

(* A step that sends nothing and completes nothing keeps what may be sent. *)
MadeKept == \A x \in Ids : Delivered(x) => Delivered(x)' /\ driver'.made[x] = driver.made[x]

LEMMA PrefixSame ==
    ASSUME PrefixInv, MadeKept, sent' = sent, FrameTypes,
           \A x \in Ids : state'[x] = "Complete" => state[x] = "Complete"
    PROVE  PrefixInv'
<1>1. ASSUME NEW x \in Ids
      PROVE  /\ \A i \in DOMAIN sent[x] :
                   sent[x][i].index = i - 1 /\ (sent[x][i].final <=> i = driver'.made[x])
             /\ ~Delivered(x)' => sent[x] = <<>>
             /\ state'[x] = "Complete" => Delivered(x)' /\ Len(sent[x]) = driver'.made[x]
  <2>1. Prefix(x)
    BY DEF PrefixInv
  <2>2. CASE Delivered(x)
    BY <2>1, <2>2 DEF Prefix, MadeKept
  <2>3. CASE ~Delivered(x)
    <3>1. sent[x] = <<>> /\ state[x] # "Complete"
      BY <2>1, <2>3 DEF Prefix
    <3> QED BY <3>1
  <2> QED BY <2>2, <2>3
<1>2. ASSUME NEW x \in Ids PROVE Prefix(x)'
  BY <1>1 DEF Prefix
<1> QED BY <1>2 DEF PrefixInv

LEMMA ClipSame ==
    ASSUME Discipline, StatesKept, PrefixInv, PendingInv, PushInv, MadeKept, sent' = sent,
           \A x \in Ids : state'[x] = "Complete" => state[x] = "Complete",
           \A c \in pending' : c \in pending \/ WillSend(c.id, c.frame, "begun"),
           \A p \in Pushers : push'[p] # R!Idle =>
               \/ push'[p] = push[p]
               \/ WillSend(push'[p].id, push'[p].frame, push'[p].step)
    PROVE  PrefixInv' /\ PendingInv' /\ PushInv'
<1>1. AppTypes /\ RouterTypes /\ FrameTypes /\ Started
  BY RouterGives DEF Discipline
<1>2. ASSUME NEW x \in Ids, UnderWay(x) PROVE driver'.made[x] = driver.made[x]
  BY <1>1, <1>2 DEF Started, MadeKept
<1>3. \A c \in pending' : WillSend(c.id, c.frame, "begun")
  <2>1. ASSUME NEW c \in pending PROVE WillSend(c.id, c.frame, "begun")
    <3>1. c.id \in Ids /\ UnderWay(c.id)
      BY <1>1 DEF AppTypes, UnderWay
    <3>2. MaySend(c.id, c.frame, "begun")
      BY DEF PendingInv
    <3> QED BY <1>2, <3>1, <3>2, StillSends
  <2> QED BY <2>1
<1>4. \A p \in Pushers : push'[p] # R!Idle => WillSend(push'[p].id, push'[p].frame, push'[p].step)
  <2>1. ASSUME NEW p \in Pushers, push[p] # R!Idle
        PROVE  WillSend(push[p].id, push[p].frame, push[p].step)
    <3>1. push[p].id \in Ids /\ UnderWay(push[p].id)
      BY <1>1, <2>1 DEF RouterTypes, R!Push, UnderWay, R!Pushing
    <3>2. MaySend(push[p].id, push[p].frame, push[p].step)
      BY <2>1 DEF PushInv
    <3> QED BY <1>2, <3>1, <3>2, StillSends
  <2> QED BY <2>1
<1>5. PrefixInv'
  BY <1>1, PrefixSame
<1> QED BY <1>3, <1>4, <1>5, WillSends

LEMMA MadeStep ==
    ASSUME Discipline, LoopSettled, Next
    PROVE  MadeKept
<1>1. AppTypes /\ driver.made \in Made /\ LogInv
  BY DriverIs DEF Discipline
<1>2. CASE DriverTake
  <2>1. PICK n \in DOMAIN log, total \in Totals :
          /\ PQ!Take(n)
          /\ driver' = [at |-> "engine", id |-> log[n].id, index |-> -1,
                        made |-> [driver.made EXCEPT ![log[n].id] = total]]
    BY <1>2 DEF DriverTake
  <2>2. Fated({n}, "delivered") /\ log[n].id \in Ids
    BY <1>1, <2>1, LogTake DEF LogInv
  <2>3. ~Delivered(log[n].id) /\ \A y \in Ids : y # log[n].id => (Delivered(y)' <=> Delivered(y))
    BY <1>1, <2>2, DeliveredTaken DEF LogInv
  <2>4. \A y \in Ids : y # log[n].id => driver'.made[y] = driver.made[y]
    BY <1>1, <2>1 DEF Made
  <2> QED BY <2>3, <2>4 DEF MadeKept
<1>3. CASE ~DriverTake
  <2>1. \A x \in Ids : Delivered(x)' <=> Delivered(x)
    BY <1>3, SameDelivered
  <2>2. driver'.made = driver.made
    <3>1. CASE LoopAnswers
      <4>1. Waiting => driver.at \in Working
        BY DEF Waiting, Working, Places
      <4>2. driver' = driver \/ \E k \in {"cancel", "engine", "poll"} : Waiting /\ Go(k)
        BY <3>1 DEF LoopAnswers, AfterPush
      <4> QED BY <1>1, <4>1, <4>2, DriverGoes DEF AppTypes, DriverAt, Places
    <3>2. Driver => driver'.made = driver.made
      BY <1>1, <1>3, DriverSteps
    <3>3. Aside \/ LoopStartsClosed \/ (\E p \in Pushers : LoopStarts(p) \/ PushWorks(p)) =>
              driver' = driver
      BY DEF Aside, LoopStartsClosed, LoopStarts, PushWorks
    <3> QED BY <3>1, <3>2, <3>3, Kinds
  <2> QED BY <2>1, <2>2 DEF MadeKept
<1> QED BY <1>2, <1>3

(* What the driver itself knows of its clip.                               *)
LEMMA SentSame ==
    ASSUME SentInv, driver' = driver, sent' = sent,
           \A a \in answers' : a \in answers \/ ~a.ok
    PROVE  SentInv'
BY DEF SentInv, At

LEMMA ClipAside ==
    ASSUME Discipline, StatesKept, LoopSettled, ClipInv, Next,
           Aside \/ LoopStartsClosed \/ \E p \in Pushers : LoopStarts(p)
    PROVE  ClipInv'
<1>1. /\ PrefixInv /\ PendingInv /\ PushInv /\ SentInv /\ MadeKept /\ AppTypes /\ RouterTypes
  BY ClipInvIs, MadeStep, RouterGives DEF Discipline
<1>2. CASE Aside \/ LoopStartsClosed
  <2>1. /\ sent' = sent /\ push' = push /\ driver' = driver /\ pending' \subseteq pending
        /\ \A a \in answers' : a \in answers \/ ~a.ok
    BY <1>2 DEF Aside, LoopStartsClosed, routerVars, Answer
  <2>2. \A x \in Ids : state'[x] = "Complete" => state[x] = "Complete"
    BY <2>1, NoneCompletes
  <2>3. PrefixInv' /\ PendingInv' /\ PushInv'
    BY <1>1, <2>1, <2>2, ClipSame
  <2>4. SentInv'
    BY <1>1, <2>1, SentSame
  <2> QED BY <2>3, <2>4 DEF ClipInv, PrefixInv, PendingInv, PushInv, SentInv
<1>3. ASSUME NEW p \in Pushers, LoopStarts(p) PROVE ClipInv'
  <2>1. PICK c \in pending : pending' = pending \ {c} /\ R!PushBegin(p, c.id, c.frame)
    BY <1>3 DEF LoopStarts
  <2>2. driver' = driver /\ answers' = answers
    BY <1>3 DEF LoopStarts
  <2>3. /\ push'[p] = [step |-> "begun", id |-> c.id, frame |-> c.frame]
        /\ \A q \in Pushers \ {p} : push'[q] = push[q]
        /\ state' = state /\ sent' = sent
    BY <1>1, <2>1 DEF R!PushBegin, RouterTypes, R!entryVars, R!streamVars
  <2>4. WillSend(c.id, c.frame, "begun")
    <3>1. c.id \in Ids /\ Delivered(c.id) /\ MaySend(c.id, c.frame, "begun")
      BY <1>1 DEF AppTypes, Discipline, Started, UnderWay, PendingInv
    <3> QED BY <1>1, <2>3, <3>1, StillSends DEF MadeKept
  <2>5. \A q \in Pushers : push'[q] # R!Idle =>
               \/ push'[q] = push[q]
               \/ WillSend(push'[q].id, push'[q].frame, push'[q].step)
    BY <2>3, <2>4
  <2>6. PrefixInv' /\ PendingInv' /\ PushInv'
    BY <1>1, <2>1, <2>3, <2>5, ClipSame
  <2>7. SentInv'
    BY <1>1, <2>2, <2>3, SentSame
  <2> QED BY <2>6, <2>7 DEF ClipInv, PrefixInv, PendingInv, PushInv, SentInv
<1> QED BY <1>2, <1>3

LEMMA ClipAnswers ==
    ASSUME Discipline, StatesKept, LoopSettled, ClipInv, Next, LoopAnswers
    PROVE  ClipInv'
<1>1. /\ PrefixInv /\ PendingInv /\ PushInv /\ SentInv /\ MadeKept /\ AppTypes
      /\ driver \in DriverType
  BY ClipInvIs, MadeStep DEF Discipline, AppTypes
<1>2. PICK a \in answers :
          /\ answers' = answers \ {a}
          /\ IF Waiting /\ driver.id = a.id THEN Go(AfterPush(a.ok)) ELSE UNCHANGED driver
  BY DEF LoopAnswers
<1>3. sent' = sent /\ push' = push /\ pending' = pending
  BY DEF LoopAnswers, routerVars
<1>4. \A x \in Ids : state'[x] = "Complete" => state[x] = "Complete"
  BY <1>3, NoneCompletes
<1>5. PrefixInv' /\ PendingInv' /\ PushInv'
  BY <1>1, <1>3, <1>4, ClipSame
<1>6. SentInv'
  <2>1. CASE driver' = driver
    BY <1>1, <1>2, <1>3, <2>1, SentSame
  <2>2. CASE Waiting /\ driver.id = a.id /\ Go(AfterPush(a.ok))
    <3>1. driver.at \in Working
      BY <2>2 DEF Waiting, Working, Places
    <3>2. PICK k \in {"cancel", "engine", "poll"} : k = AfterPush(a.ok)
      BY DEF AfterPush
    <3>3. driver'.at = k /\ driver'.id = driver.id /\ driver'.index = driver.index
      BY <1>1, <2>2, <3>1, <3>2, DriverGoes DEF DriverAt, Places
    <3>4. k = "engine" => a.ok /\ At("push")
      BY <3>2 DEF AfterPush
    <3>5. k = "engine" => Len(sent[driver.id]) = driver.index + 1
      BY <1>1, <2>2, <3>4 DEF SentInv
    <3> QED BY <1>3, <3>2, <3>3, <3>5 DEF SentInv, At
  <2> QED BY <1>2, <2>1, <2>2
<1> QED BY <1>5, <1>6 DEF ClipInv, PrefixInv, PendingInv, PushInv, SentInv

LEMMA ClipDriver ==
    ASSUME Discipline, StatesKept, LoopSettled, ClipOver, ClipInv, Next, Driver
    PROVE  ClipInv'
<1> USE DEF Working, Places
<1>1. /\ PrefixInv /\ PendingInv /\ PushInv /\ SentInv /\ MadeKept /\ AppTypes
      /\ driver \in DriverType /\ LogInv /\ FrameTypes /\ Started
  BY ClipInvIs, MadeStep, RouterGives DEF Discipline, AppTypes
<1>2. /\ push' = push /\ sent' = sent /\ answers' = answers
      /\ driver.at \in Working /\ driver'.at \in Working =>
            driver'.id = driver.id /\ driver'.made = driver.made
      /\ driver'.at \in Working => DriverTake \/ driver.at \in Working
      /\ ~EngineYields /\ driver.at \in Working /\ driver'.at \in Working =>
            driver'.index = driver.index
  BY <1>1, DriverSteps
<1>3. \A x \in Ids : state'[x] = "Complete" => state[x] = "Complete"
  BY <1>2, NoneCompletes
<1>4. \A c \in pending' : c \in pending \/ WillSend(c.id, c.frame, "begun")
  <2>1. CASE DriverFrame /\ pending' # pending
    <3>1. At("frame") /\ Go("push") /\ Spawn(driver.index, IsFinal)
      BY <2>1 DEF DriverFrame
    <3>2. driver.id \in Ids /\ driver.index \in Int /\ Total \in Int /\ driver.index < Total
      BY <1>1, <3>1, DriverIs, ServingAssumption DEF At, ServingAssumption
    <3>3. driver'.made[driver.id] = Total
      BY <1>1, <3>1, DriverGoes DEF DriverAt, At, Total
    <3>4. Len(sent'[driver.id]) = driver.index
      BY <1>1, <1>2, <3>1 DEF SentInv
    <3>5. IsFinal <=> driver.index + 1 = Total
      BY <3>2 DEF IsFinal
    <3>6. WillSend(driver.id, [index |-> driver.index, final |-> IsFinal], "begun")
      BY <3>2, <3>3, <3>4, <3>5 DEF WillSend
    <3> QED BY <3>1, <3>6 DEF Spawn
  <2>2. CASE DriverMarker
    <3>1. At("marker") /\ Go("pushMarker") /\ Spawn(driver.index + 1, TRUE)
      BY <2>2 DEF DriverMarker
    <3>2. driver.id \in Ids /\ driver.index + 1 = Total /\ Settled(driver.id)
      BY <1>1, <3>1, DriverIs DEF At, ClipOver
    <3>3. driver'.made[driver.id] = Total
      BY <1>1, <3>1, DriverGoes DEF DriverAt, At, Total
    <3>4. state'[driver.id] \in R!Terminal
      BY <3>2 DEF StatesKept, Settled
    <3>5. WillSend(driver.id, [index |-> driver.index + 1, final |-> TRUE], "begun")
      BY <3>2, <3>3, <3>4 DEF WillSend
    <3>6. PICK c : c = [id |-> driver.id, frame |-> [index |-> driver.index + 1, final |-> TRUE]]
      OBVIOUS
    <3>7. c.id = driver.id /\ c.frame = [index |-> driver.index + 1, final |-> TRUE]
      BY <3>6
    <3>8. pending' = pending \cup {c} /\ WillSend(c.id, c.frame, "begun")
      BY <3>1, <3>5, <3>6, <3>7 DEF Spawn
    <3> QED BY <3>8
  <2>3. CASE pending' = pending
    BY <2>3
  <2>4. ~DriverFrame /\ ~DriverMarker => pending' = pending
    BY DEF Driver, DriverPoll, DriverTake, DriverIdle, EngineYields, EngineRaises, EngineDone,
       DriverTimeout, DriverCancel
  <2> QED BY <2>1, <2>2, <2>3, <2>4
<1>5. PrefixInv' /\ PendingInv' /\ PushInv'
  BY <1>1, <1>2, <1>3, <1>4, ClipSame
<1>6. SentInv'
  <2>1. CASE DriverTake
    <3>1. PICK n \in DOMAIN log, total \in Totals :
            /\ PQ!Take(n)
            /\ driver' = [at |-> "engine", id |-> log[n].id, index |-> -1,
                          made |-> [driver.made EXCEPT ![log[n].id] = total]]
      BY <2>1 DEF DriverTake
    <3>2. Fated({n}, "delivered") /\ log[n].id \in Ids
      BY <1>1, <3>1, LogTake DEF LogInv
    <3>3. ~Delivered(log[n].id)
      BY <1>1, <3>2, DeliveredTaken DEF LogInv
    <3>4. sent[log[n].id] = <<>>
      BY <1>1, <3>2, <3>3 DEF PrefixInv, Prefix
    <3>5. driver'.at = "engine" /\ driver'.id = log[n].id /\ driver'.index = -1
      BY <3>1
    <3>6. Len(sent'[driver'.id]) = driver'.index + 1
      BY <1>2, <3>4, <3>5
    <3> QED BY <3>5, <3>6 DEF SentInv, At
  <2>2. CASE EngineYields
    <3>1. At("engine") /\ driver'.at = "frame" /\ driver'.index = driver.index + 1
      BY <1>1, <2>2, EngineGoesOn DEF EngineYields, DriverAt
    <3>2. driver'.id = driver.id
      BY <1>2, <3>1 DEF At
    <3> QED BY <1>1, <1>2, <3>1, <3>2 DEF SentInv, At
  <2>3. CASE DriverFrame
    <3>1. At("frame") /\ driver'.at \in {"cancel", "poll", "push"}
      <4>1. PICK k \in {"cancel", "poll", "push"} : Go(k) /\ At("frame")
        BY <2>3 DEF DriverFrame
      <4>2. driver'.at = k
        BY <1>1, <4>1, DriverGoes DEF DriverAt, At
      <4> QED BY <4>1, <4>2
    <3>2. \A a \in answers : a.id # driver.id
      BY <1>1, <3>1 DEF Started, Driven, Answered, AppTypes, At
    <3>3. driver'.at = "push" => driver'.id = driver.id
      BY <1>2, <3>1 DEF At
    <3> QED BY <1>2, <3>1, <3>2, <3>3 DEF SentInv, At
  <2>4. CASE ~DriverTake /\ ~EngineYields /\ ~DriverFrame
    <3>1. PICK k \in Places \ {"engine", "frame", "push"} :
              Go(k) /\ (k \in Working => driver.at \in Working)
      BY <2>4 DEF Driver, DriverPoll, DriverIdle, EngineRaises, EngineDone, DriverMarker,
         DriverTimeout, DriverCancel, At, Waiting
    <3>2. driver'.at = k
      BY <1>1, <3>1, DriverGoes DEF DriverAt
    <3> QED BY <3>1, <3>2 DEF SentInv, At
  <2> QED BY <2>1, <2>2, <2>3, <2>4
<1> QED BY <1>5, <1>6 DEF ClipInv, PrefixInv, PendingInv, PushInv, SentInv

(* A push that sends: the frame is the next of its clip.                   *)
LEMMA ClipSends ==
    ASSUME Discipline, StatesKept, LoopSettled, WaitingInv, ClipInv, Next,
           NEW p \in Pushers, PushWorks(p), R!PushSend(p)
    PROVE  ClipInv'
<1>1. /\ PrefixInv /\ PendingInv /\ PushInv /\ SentInv /\ AppTypes
      /\ RouterTypes /\ FrameTypes /\ Started /\ Single
  BY ClipInvIs, RouterGives DEF Discipline
<1>2. /\ push[p].step = "cloned" /\ push[p] # R!Idle
      /\ IF push[p].frame.final THEN Moved(p, "sent") ELSE Returned(p)
  BY <1>1, PushSteps DEF R!Idle
<1>3. PICK x \in Ids, f \in R!Frame : x = push[p].id /\ f = push[p].frame
  BY <1>1, <1>2, PushIs
<1>4. /\ driver' = driver /\ pending' = pending /\ state' = state
      /\ sent' = [sent EXCEPT ![x] = Append(@, f)]
      /\ \A a \in answers' : a \in answers \/ ~a.ok \/ (a.id = x /\ ~f.final)
      /\ \A y \in Ids : Delivered(y)' <=> Delivered(y)
  <2>1. driver' = driver /\ pending' = pending /\ log' = log
    BY DEF PushWorks, queueVars
  <2>2. state' = state /\ sent' = [sent EXCEPT ![x] = Append(@, f)]
    BY <1>3 DEF R!PushSend, R!entryVars
  <2>3. \A a \in answers' : a \in answers \/ ~a.ok \/ (a.id = x /\ ~f.final)
    <3>1. ~R!PushComplete(p)
      BY <1>2 DEF R!PushComplete
    <3> QED BY <1>3, <3>1 DEF PushWorks, Answer
  <2> QED BY <2>1, <2>2, <2>3 DEF Delivered
<1>5. f.index \in Nat /\ driver.made[x] \in Nat /\ f.final \in BOOLEAN
  BY <1>1, <1>3, DriverIs, ServingAssumption DEF Made, R!Frame, R!Indices, ServingAssumption
<1>6. /\ Delivered(x) /\ UnderWay(x)
      /\ f.index < driver.made[x] /\ (f.final <=> f.index + 1 = driver.made[x])
      /\ Len(sent[x]) = f.index
  <2>1. UnderWay(x)
    BY <1>2, <1>3 DEF UnderWay, R!Pushing
  <2>2. MaySend(x, f, push[p].step)
    BY <1>1, <1>2, <1>3 DEF PushInv
  <2> QED BY <1>1, <1>2, <2>1, <2>2 DEF Started, MaySend
<1>7. /\ \A y \in Ids : y # x => sent'[y] = sent[y]
      /\ Len(sent'[x]) = f.index + 1 /\ DOMAIN sent'[x] = 1..(f.index + 1)
      /\ DOMAIN sent[x] = 1..f.index
      /\ \A i \in 1..f.index : sent'[x][i] = sent[x][i]
      /\ sent'[x][f.index + 1] = f
  <2>1. sent[x] \in Seq(R!Frame)
    BY <1>1 DEF FrameTypes
  <2> DEFINE Frames == R!Frame
  <2>2. sent[x] \in Seq(Frames) /\ f \in Frames
    BY <2>1
  <2> HIDE DEF Frames
  <2>3. /\ Append(sent[x], f) \in Seq(Frames) /\ Len(Append(sent[x], f)) = Len(sent[x]) + 1
        /\ \A i \in 1..Len(sent[x]) : Append(sent[x], f)[i] = sent[x][i]
        /\ Append(sent[x], f)[Len(sent[x]) + 1] = f
    BY <2>2, AppendProperties
  <2>4. /\ DOMAIN sent[x] = 1..Len(sent[x])
        /\ DOMAIN Append(sent[x], f) = 1..Len(Append(sent[x], f))
    BY <2>2, <2>3, LenProperties
  <2>5. sent'[x] = Append(sent[x], f) /\ \A y \in Ids : y # x => sent'[y] = sent[y]
    BY <1>1, <1>4 DEF FrameTypes
  <2> QED BY <1>6, <2>3, <2>4, <2>5
<1>8. PrefixInv'
  <2>1. ASSUME NEW y \in Ids, y # x PROVE Prefix(y)'
    <3>1. Prefix(y)
      BY <1>1 DEF PrefixInv
    <3> QED BY <1>4, <1>7, <2>1, <3>1 DEF Prefix
  <2>2. Prefix(x)'
    <3>1. Prefix(x)
      BY <1>1 DEF PrefixInv
    <3>2. \A i \in DOMAIN sent'[x] :
              sent'[x][i].index = i - 1 /\ (sent'[x][i].final <=> i = driver'.made[x])
      <4>1. ASSUME NEW i \in 1..f.index
            PROVE  sent'[x][i].index = i - 1 /\ (sent'[x][i].final <=> i = driver'.made[x])
        BY <1>4, <1>7, <3>1 DEF Prefix
      <4>2. ASSUME NEW i \in DOMAIN sent'[x]
            PROVE  sent'[x][i].index = i - 1 /\ (sent'[x][i].final <=> i = driver'.made[x])
        <5>1. i \in 1..f.index \/ i = f.index + 1
          BY <1>5, <1>7, <4>2
        <5>2. CASE i \in 1..f.index
          BY <4>1, <5>2
        <5>3. CASE i = f.index + 1
          <6>1. sent'[x][i] = f /\ i - 1 = f.index
            BY <1>5, <1>7, <5>3
          <6> QED BY <1>4, <1>6, <5>3, <6>1
        <5> QED BY <5>1, <5>2, <5>3
      <4> QED BY <4>2
    <3>3. state'[x] # "Complete"
      BY <1>4, <1>5, <1>6, <3>1 DEF Prefix
    <3> QED BY <1>4, <1>6, <3>2, <3>3 DEF Prefix
  <2> QED BY <2>1, <2>2 DEF PrefixInv
<1>9. PendingInv'
  <2>1. ASSUME NEW c \in pending PROVE WillSend(c.id, c.frame, "begun")
    <3>1. c.id \in Ids /\ c.id # x /\ MaySend(c.id, c.frame, "begun")
      BY <1>1, <1>2, <1>3 DEF AppTypes, Single, R!Pushing, PendingInv
    <3> QED BY <1>4, <1>7, <3>1, StillSends
  <2> QED BY <1>4, <2>1, WillSends
<1>10. PushInv'
  <2>1. ASSUME NEW q \in Pushers \ {p}, push'[q] # R!Idle
        PROVE  WillSend(push'[q].id, push'[q].frame, push'[q].step)
    <3>1. push'[q] = push[q]
      BY <1>1, <1>2 DEF Moved, Returned, RouterTypes
    <3>2. push[q] # R!Idle /\ push[q].id \in Ids
      BY <1>1, <2>1, <3>1, PushIs
    <3>3. push[q].id # x
      BY <1>1, <1>2, <1>3, <3>2 DEF Single, R!Pushing
    <3>4. MaySend(push[q].id, push[q].frame, push[q].step)
      BY <1>1, <3>2 DEF PushInv
    <3>5. WillSend(push[q].id, push[q].frame, push[q].step)
      BY <1>4, <1>7, <3>2, <3>3, <3>4, StillSends
    <3> QED BY <3>1, <3>5
  <2>2. ASSUME push'[p] # R!Idle
        PROVE  WillSend(push'[p].id, push'[p].frame, push'[p].step)
    <3>1. push'[p].step = "sent" /\ push'[p].id = x /\ push'[p].frame = f
      BY <1>1, <1>2, <1>3, <2>2 DEF Moved, Returned, RouterTypes
    <3> QED BY <1>4, <1>6, <1>7, <3>1 DEF WillSend
  <2> QED BY <2>1, <2>2, WillSends
<1>11. SentInv'
  <2>1. driver.at \in Working /\ driver.id = x => driver.at \in {"push", "pushMarker", "cancel"}
    BY <1>1, <1>6 DEF Started, Driven
  <2>2. driver.at \in Working => driver.id \in Ids
    BY <1>1 DEF AppTypes
  <2>3. At("engine") => Len(sent'[driver.id]) = driver.index + 1
    BY <1>1, <1>7, <2>1, <2>2 DEF SentInv, At, Working, Places
  <2>4. At("frame") => Len(sent'[driver.id]) = driver.index
    BY <1>1, <1>7, <2>1, <2>2 DEF SentInv, At, Working, Places
  <2>5. ASSUME At("push"), NEW a \in answers', a.id = driver.id, a.ok
        PROVE  Len(sent'[driver.id]) = driver.index + 1
    <3>1. CASE a \in answers
      <4>1. driver.id # x
        BY <1>1, <1>6, <2>5, <3>1 DEF Single
      <4>2. driver.id \in Ids
        BY <2>2, <2>5 DEF At, Working, Places
      <4>3. Len(sent[driver.id]) = driver.index + 1
        BY <1>1, <2>5, <3>1 DEF SentInv
      <4> QED BY <1>7, <4>1, <4>2, <4>3
    <3>2. CASE a \notin answers
      <4>1. driver.id = x
        BY <1>4, <2>5, <3>2
      <4>2. f = Now
        BY <1>2, <1>3, <2>5, <4>1 DEF WaitingInv, Waiting, At, R!Pushing
      <4>3. f.index = driver.index
        BY <2>5, <4>2 DEF Now
      <4> QED BY <1>7, <4>1, <4>3
    <3> QED BY <3>1, <3>2
  <2> QED BY <1>4, <2>3, <2>4, <2>5 DEF SentInv, At
<1> QED BY <1>8, <1>9, <1>10, <1>11 DEF ClipInv, PrefixInv, PendingInv, PushInv, SentInv

LEMMA ClipWorks ==
    ASSUME Discipline, StatesKept, LoopSettled, PushesFinal, WaitingInv, ClipInv, Next,
           NEW p \in Pushers, PushWorks(p), ~R!PushSend(p)
    PROVE  ClipInv'
<1>1. /\ PrefixInv /\ PendingInv /\ PushInv /\ SentInv /\ AppTypes
      /\ RouterTypes /\ FrameTypes /\ Started /\ Single /\ MadeKept
  BY ClipInvIs, RouterGives, MadeStep DEF Discipline
<1>2. /\ R!PushValidate(p) => push[p].step = "begun" /\ Moved(p, "cloned")
      /\ ~R!PushValidate(p) => Returned(p)
      /\ push[p] # R!Idle /\ push[p].step \in {"begun", "cloned", "sent"}
      /\ R!PushComplete(p) => push[p].step = "sent"
  <2>1. push[p].step \in {"begun", "cloned", "sent"} => push[p] # R!Idle
    BY DEF R!Idle
  <2> QED BY <1>1, <2>1, PushSteps DEF PushWorks
<1>3. PICK x \in Ids, f \in R!Frame : x = push[p].id /\ f = push[p].frame
  BY <1>1, <1>2, PushIs
<1>4. /\ driver' = driver /\ pending' = pending /\ sent' = sent
      /\ \A a \in answers' : a \in answers \/ ~a.ok \/ (a.id = x /\ R!PushComplete(p))
      /\ \A y \in Ids : Delivered(y)' <=> Delivered(y)
  <2>1. driver' = driver /\ pending' = pending /\ log' = log
    BY DEF PushWorks, queueVars
  <2>2. sent' = sent
    BY DEF PushWorks, R!PushValidate, R!PushRefused, R!PushFails, R!PushComplete, R!streamVars
  <2>3. \A a \in answers' : a \in answers \/ ~a.ok \/ (a.id = x /\ R!PushComplete(p))
    BY <1>3 DEF PushWorks, Answer
  <2> QED BY <2>1, <2>2, <2>3 DEF Delivered
<1>5. Delivered(x) /\ MaySend(x, f, push[p].step)
  BY <1>1, <1>2, <1>3 DEF Started, UnderWay, R!Pushing, PushInv
<1>6. R!PushComplete(p) =>
          Len(sent[x]) = f.index + 1 /\ f.final /\ f.index + 1 = driver.made[x]
  BY <1>2, <1>3, <1>5 DEF MaySend, PushesFinal
<1>7. ASSUME NEW y \in Ids, state'[y] = "Complete", state[y] # "Complete"
      PROVE  y = x /\ R!PushComplete(p)
  BY <1>1, <1>3, <1>7 DEF PushWorks, R!PushValidate, R!PushRefused, R!PushFails, R!PushComplete,
     RouterTypes, R!entryVars
<1>8. PrefixInv'
  <2>1. ASSUME NEW y \in Ids PROVE Prefix(y)'
    <3>1. Prefix(y)
      BY <1>1 DEF PrefixInv
    <3>2. state'[y] = "Complete" => Delivered(y) /\ Len(sent[y]) = driver.made[y]
      BY <1>5, <1>6, <1>7, <3>1 DEF Prefix
    <3> QED BY <1>4, <3>1, <3>2 DEF Prefix
  <2> QED BY <2>1 DEF PrefixInv
<1>9. PendingInv'
  <2>1. ASSUME NEW c \in pending PROVE WillSend(c.id, c.frame, "begun")
    BY <1>1, <1>4, StillSends DEF AppTypes, PendingInv
  <2> QED BY <1>4, <2>1, WillSends
<1>10. PushInv'
  <2>1. ASSUME NEW q \in Pushers \ {p}, push'[q] # R!Idle
        PROVE  WillSend(push'[q].id, push'[q].frame, push'[q].step)
    <3>1. push'[q] = push[q]
      BY <1>1, <1>2 DEF Moved, Returned, RouterTypes
    <3>2. push[q] # R!Idle /\ push[q].id \in Ids
      BY <1>1, <2>1, <3>1, PushIs
    <3>4. MaySend(push[q].id, push[q].frame, push[q].step)
      BY <1>1, <3>2 DEF PushInv
    <3>5. WillSend(push[q].id, push[q].frame, push[q].step)
      BY <1>4, <3>2, <3>4, StillSends
    <3> QED BY <3>1, <3>5
  <2>2. ASSUME push'[p] # R!Idle
        PROVE  WillSend(push'[p].id, push'[p].frame, push'[p].step)
    <3>1. R!PushValidate(p) /\ push[p].step = "begun"
      BY <1>1, <1>2, <2>2 DEF Returned, RouterTypes
    <3>2. push'[p].step = "cloned" /\ push'[p].id = x /\ push'[p].frame = f
      BY <1>2, <1>3, <3>1 DEF Moved
    <3>3. ~Settled(x)
      BY <1>3, <3>1 DEF R!PushValidate, R!Fits, Settled, R!Live, R!Terminal
    <3>4. /\ f.index < driver.made[x] /\ (f.final <=> f.index + 1 = driver.made[x])
          /\ Len(sent[x]) = f.index
      BY <1>5, <3>1, <3>3 DEF MaySend
    <3> QED BY <1>4, <3>2, <3>4 DEF WillSend
  <2> QED BY <2>1, <2>2, WillSends
<1>11. SentInv'
  <2>1. ASSUME At("push"), NEW a \in answers', a.id = driver.id, a.ok
        PROVE  Len(sent[driver.id]) = driver.index + 1
    <3>1. CASE a \in answers
      BY <1>1, <2>1, <3>1 DEF SentInv
    <3>2. CASE a \notin answers
      <4>1. driver.id = x /\ R!PushComplete(p)
        BY <1>4, <2>1, <3>2
      <4>2. f = Now
        BY <1>2, <1>3, <2>1, <4>1 DEF WaitingInv, Waiting, At, R!Pushing
      <4>3. f.index = driver.index
        BY <2>1, <4>2 DEF Now
      <4> QED BY <1>6, <4>1, <4>3
    <3> QED BY <3>1, <3>2
  <2> QED BY <1>1, <1>4, <2>1 DEF SentInv, At
<1> QED BY <1>8, <1>9, <1>10, <1>11 DEF ClipInv, PrefixInv, PendingInv, PushInv, SentInv

LEMMA ClipInit == Init => ClipInv
<1> SUFFICES ASSUME Init PROVE ClipInv
  OBVIOUS
<1>1. PrefixInv
  BY DEF Init, R!Init, PrefixInv, Prefix
<1>2. PendingInv /\ PushInv /\ SentInv
  BY DEF Init, R!Init, PendingInv, PushInv, SentInv, At
<1> QED BY <1>1, <1>2, ClipInvIs

LEMMA ClipStep == Discipline /\ Course /\ ClipInv /\ [Next]_vars => ClipInv'
<1> SUFFICES ASSUME Discipline, Course, ClipInv, [Next]_vars PROVE ClipInv'
  OBVIOUS
<1>1. StatesKept /\ LoopSettled /\ PushesFinal /\ WaitingInv /\ ClipOver
  BY StateStep, RouterInvIs DEF Course
<1>2. CASE Next
  BY <1>1, <1>2, Kinds, ClipAside, ClipAnswers, ClipDriver, ClipSends, ClipWorks
<1>3. CASE UNCHANGED vars
  BY <1>3 DEF vars, routerVars, queueVars, appVars, ClipInv, Prefix, MaySend, Settled, Delivered, At
<1> QED BY <1>2, <1>3

(* A client whose request completed was sent every frame that the engine   *)
(* made, in order, and the end with the last: late pushes, markers and     *)
(* cancellations leave no gap, no repetition and no second end.            *)
THEOREM ClipsAreWhole == Spec => []WholeClip
<1>1. ClipInv => WholeClip
  BY DEF ClipInv, Prefix, WholeClip
<1> QED BY <1>1, ClipInit, ClipStep, CourseKept, Invariance, PTL DEF Spec
=============================================================================
