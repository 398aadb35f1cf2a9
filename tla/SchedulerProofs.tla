--------------------------- MODULE SchedulerProofs ---------------------------
(***************************************************************************)
(* Theorems about Scheduler, for any set of ids, callers and consumers and *)
(* any capacity, with and without the GIL.                                 *)
(***************************************************************************)
EXTENDS Scheduler, SequenceTheorems, FiniteSetTheorems, TLAPS

-----------------------------------------------------------------------------
(* Lemmas about the data *)

LEMMA RankFacts ==
    /\ \A p \in Priority : Rank[p] \in 1..3
    /\ \A p, q \in Priority : Rank[p] = Rank[q] => p = q
BY DEF Rank, Priority

LEMMA SlotFacts ==
    ASSUME NEW b \in [Priority -> Seq(Nat)], NEW s \in SlotsOf(b)
    PROVE  /\ s = <<s[1], s[2]>>
           /\ s[1] \in Priority
           /\ s[2] \in 1..Len(b[s[1]])
           /\ b[s[1]][s[2]] \in Nat
BY DEF SlotsOf

LEMMA SlotIntro ==
    ASSUME NEW b, b \in [Priority -> Seq(Nat)],
           NEW p, p \in Priority, NEW i, i \in 1..Len(b[p])
    PROVE  <<p, i>> \in SlotsOf(b)
BY DEF SlotsOf

(* Pushing a ticket adds one slot and leaves the others alone.             *)
LEMMA SlotsAfterPush ==
    ASSUME bucket \in [Priority -> Seq(Nat)], NEW p \in Priority, NEW n \in Nat,
           bucket' = [bucket EXCEPT ![p] = Append(@, n)]
    PROVE  /\ Slot' = Slot \cup {<<p, Len(bucket[p]) + 1>>}
           /\ bucket'[p][Len(bucket[p]) + 1] = n
           /\ \A s \in Slot :
                 bucket'[s[1]][s[2]] = bucket[s[1]][s[2]] /\ (s[1] = p => s[2] <= Len(bucket[p]))
<1>1. bucket' \in [Priority -> Seq(Nat)]
  OBVIOUS
<1>2. /\ Len(bucket'[p]) = Len(bucket[p]) + 1
      /\ bucket'[p][Len(bucket[p]) + 1] = n
      /\ \A i \in 1..Len(bucket[p]) : bucket'[p][i] = bucket[p][i]
      /\ \A q \in Priority : q # p => bucket'[q] = bucket[q]
      /\ Len(bucket[p]) \in Nat
  BY AppendProperties
<1>3. \A s \in Slot :
         bucket'[s[1]][s[2]] = bucket[s[1]][s[2]] /\ (s[1] = p => s[2] <= Len(bucket[p]))
  BY <1>2, SlotFacts DEF Slot
<1>4. Slot \cup {<<p, Len(bucket[p]) + 1>>} \subseteq Slot'
  <2>1. ASSUME NEW s \in Slot PROVE s \in Slot'
    <3>1. s = <<s[1], s[2]>> /\ s[1] \in Priority /\ s[2] \in 1..Len(bucket[s[1]])
      BY SlotFacts DEF Slot
    <3>2. s[2] \in 1..Len(bucket'[s[1]])
      BY <1>2, <3>1
    <3> QED BY <1>1, <3>1, <3>2 DEF Slot, SlotsOf
  <2>2. <<p, Len(bucket[p]) + 1>> \in Slot'
    <3>1. Len(bucket[p]) + 1 \in 1..Len(bucket'[p])
      BY <1>2
    <3> QED BY <1>1, <3>1 DEF Slot, SlotsOf
  <2> QED BY <2>1, <2>2
<1>5. Slot' \subseteq Slot \cup {<<p, Len(bucket[p]) + 1>>}
  <2> SUFFICES ASSUME NEW s \in Slot', s # <<p, Len(bucket[p]) + 1>>
               PROVE  s \in Slot
    OBVIOUS
  <2>1. s = <<s[1], s[2]>> /\ s[1] \in Priority /\ s[2] \in 1..Len(bucket'[s[1]])
    BY <1>1, SlotFacts DEF Slot
  <2>2. s[2] \in 1..Len(bucket[s[1]])
    BY <1>2, <2>1
  <2> QED BY <2>1, <2>2, SlotIntro DEF Slot
<1> QED BY <1>2, <1>3, <1>4, <1>5

LEMMA SuffixFacts ==
    ASSUME NEW q \in Seq(Nat), NEW k \in 1..Len(q)
    PROVE  /\ SubSeq(q, k + 1, Len(q)) \in Seq(Nat)
           /\ Len(SubSeq(q, k + 1, Len(q))) = Len(q) - k
           /\ \A i \in 1 .. Len(q) - k : SubSeq(q, k + 1, Len(q))[i] = q[i + k]
<1>1. Len(q) \in Nat /\ k + 1 \in Nat /\ \A i \in 1..Len(q) : q[i] \in Nat
  OBVIOUS
<1>2. Len(SubSeq(q, k + 1, Len(q))) = Len(q) - k
  BY <1>1
<1>3. \A i \in 1 .. Len(q) - k : SubSeq(q, k + 1, Len(q))[i] = q[i + k]
  BY <1>1
<1>4. SubSeq(q, k + 1, Len(q)) \in Seq(Nat)
  BY <1>1
<1> QED BY <1>2, <1>3, <1>4

(* The slots of c are those of the buckets that lie behind s.              *)
RestOf(c, s) ==
    /\ \A t \in SlotsOf(c) :
          \E u \in Slot :
             /\ u # s /\ ~Before(u, s)
             /\ u[1] = t[1]
             /\ u[2] = IF t[1] = s[1] THEN t[2] + s[2] ELSE t[2]
             /\ c[t[1]][t[2]] = Ticket(u)
    /\ \A u \in Slot : u # s /\ ~Before(u, s) =>
          \E t \in SlotsOf(c) : t[1] = u[1] /\ c[t[1]][t[2]] = Ticket(u)

(* After a pop the slots that remain are those behind the popped one.      *)
LEMMA SlotsAfterPop ==
    ASSUME bucket \in [Priority -> Seq(Nat)], NEW s \in Slot, NEW c, c = Rest(s)
    PROVE  c \in [Priority -> Seq(Nat)] /\ RestOf(c, s)
<1>1. s = <<s[1], s[2]>> /\ s[1] \in Priority /\ s[2] \in 1..Len(bucket[s[1]])
  BY SlotFacts DEF Slot
<1> DEFINE tail == SubSeq(bucket[s[1]], s[2] + 1, Len(bucket[s[1]]))
<1>2. /\ tail \in Seq(Nat)
      /\ Len(tail) = Len(bucket[s[1]]) - s[2]
      /\ \A i \in 1..Len(tail) : tail[i] = bucket[s[1]][i + s[2]]
  <2> DEFINE b == bucket[s[1]]
  <2>1. b \in Seq(Nat) /\ s[2] \in 1..Len(b)
    BY <1>1
  <2> HIDE DEF b
  <2>2. /\ SubSeq(b, s[2] + 1, Len(b)) \in Seq(Nat)
        /\ Len(SubSeq(b, s[2] + 1, Len(b))) = Len(b) - s[2]
        /\ \A i \in 1 .. Len(b) - s[2] : SubSeq(b, s[2] + 1, Len(b))[i] = b[i + s[2]]
    BY <2>1, SuffixFacts
  <2> QED BY <2>2 DEF b
<1> HIDE DEF tail
<1>3. \A p \in Priority :
         c[p] = IF Rank[p] < Rank[s[1]] THEN <<>>
                ELSE IF p = s[1] THEN tail ELSE bucket[p]
  BY DEF Rest, tail
<1>4. c \in [Priority -> Seq(Nat)]
  <2>1. ASSUME NEW p \in Priority PROVE c[p] \in Seq(Nat)
    <3>1. <<>> \in Seq(Nat) /\ bucket[p] \in Seq(Nat)
      OBVIOUS
    <3> QED BY <1>2, <1>3, <3>1
  <2>2. c = [p \in Priority |-> c[p]]
    BY DEF Rest
  <2> QED BY <2>1, <2>2
<1>5. ASSUME NEW t \in SlotsOf(c)
      PROVE  \E u \in Slot :
                /\ u # s /\ ~Before(u, s)
                /\ u[1] = t[1]
                /\ u[2] = IF t[1] = s[1] THEN t[2] + s[2] ELSE t[2]
                /\ c[t[1]][t[2]] = Ticket(u)
  <2>1. t = <<t[1], t[2]>> /\ t[1] \in Priority /\ t[2] \in 1..Len(c[t[1]])
    BY <1>4, SlotFacts
  <2>2. ~(Rank[t[1]] < Rank[s[1]])
    BY <1>3, <2>1
  <2>3. CASE t[1] = s[1]
    <3>1. c[t[1]] = tail
      BY <1>1, <1>3, <2>2, <2>3
    <3>2. t[2] + s[2] \in 1..Len(bucket[s[1]]) /\ t[2] > 0
      <4>1. t[2] \in 1..Len(tail) /\ Len(tail) = Len(bucket[s[1]]) - s[2]
        BY <1>2, <2>1, <3>1
      <4>2. Len(bucket[s[1]]) \in Nat /\ s[2] \in 1..Len(bucket[s[1]])
        BY <1>1
      <4> QED BY <4>1, <4>2
    <3> DEFINE u == <<s[1], t[2] + s[2]>>
    <3>3. u \in Slot
      BY <1>1, <3>2, SlotIntro DEF Slot
    <3>4. u # s /\ ~Before(u, s)
      BY <1>1, <2>1, <2>2, <2>3, <3>2 DEF Before
    <3>5. c[t[1]][t[2]] = Ticket(u)
      BY <1>2, <2>1, <3>1 DEF Ticket
    <3> QED BY <2>3, <3>3, <3>4, <3>5
  <2>4. CASE t[1] # s[1]
    <3>1. c[t[1]] = bucket[t[1]]
      BY <1>3, <2>1, <2>2, <2>4
    <3>2. t \in Slot
      BY <2>1, <3>1, SlotIntro DEF Slot
    <3> QED BY <2>2, <2>4, <3>1, <3>2 DEF Before, Ticket
  <2> QED BY <2>3, <2>4
<1>6. ASSUME NEW u \in Slot, u # s, ~Before(u, s)
      PROVE  \E t \in SlotsOf(c) : t[1] = u[1] /\ c[t[1]][t[2]] = Ticket(u)
  <2>1. u = <<u[1], u[2]>> /\ u[1] \in Priority /\ u[2] \in 1..Len(bucket[u[1]])
    BY SlotFacts DEF Slot
  <2>2. ~(Rank[u[1]] < Rank[s[1]])
    BY <1>6 DEF Before
  <2>3. CASE u[1] = s[1]
    <3>1. u[2] > s[2]
      BY <1>1, <1>6, <2>1, <2>3 DEF Before
    <3>2. c[s[1]] = tail
      BY <1>1, <1>3, <2>2, <2>3
    <3>3. u[2] - s[2] \in 1..Len(c[s[1]])
      <4>1. Len(c[s[1]]) = Len(bucket[s[1]]) - s[2]
        BY <1>2, <3>2
      <4>2. Len(bucket[s[1]]) \in Nat /\ s[2] \in 1..Len(bucket[s[1]])
        BY <1>1
      <4>3. u[2] \in 1..Len(bucket[s[1]])
        BY <2>1, <2>3
      <4> QED BY <3>1, <4>1, <4>2, <4>3
    <3> DEFINE t == <<s[1], u[2] - s[2]>>
    <3>4. t \in SlotsOf(c)
      BY <1>1, <1>4, <3>3, SlotIntro
    <3>5. c[t[1]][t[2]] = bucket[s[1]][u[2]]
      <4>1. u[2] - s[2] \in 1..Len(tail) /\ (u[2] - s[2]) + s[2] = u[2]
        BY <1>1, <2>1, <3>2, <3>3
      <4>2. tail[u[2] - s[2]] = bucket[s[1]][u[2]]
        BY <1>2, <4>1
      <4> QED BY <3>2, <4>2
    <3> QED BY <2>3, <3>4, <3>5 DEF Ticket
  <2>4. CASE u[1] # s[1]
    <3>1. c[u[1]] = bucket[u[1]]
      BY <1>3, <2>1, <2>2, <2>4
    <3>2. u \in SlotsOf(c)
      BY <1>4, <2>1, <3>1, SlotIntro
    <3> QED BY <3>1, <3>2 DEF Ticket
  <2> QED BY <2>3, <2>4
<1> QED BY <1>4, <1>5, <1>6 DEF RestOf

-----------------------------------------------------------------------------
(* Type correctness *)

LEMMA OpFacts ==
    ASSUME TypeOK, NEW t \in Callers
    PROVE  /\ op[t].step = "submit" => op[t].id \in Ids /\ op[t].priority \in Priority
           /\ op[t].step = "cancel" => op[t].id \in Ids
           /\ Idle \in Operation
           /\ [step |-> "notify"] \in Operation
           /\ [step |-> "wake"] \in Operation
BY DEF TypeOK, Operation, Idle

LEMMA NewFate ==
    ASSUME NEW r \in Request, NEW f \in Fate
    PROVE  /\ [r EXCEPT !.fate = f] \in Request
           /\ [r EXCEPT !.fate = f].fate = f
           /\ [r EXCEPT !.fate = f].id = r.id
           /\ [r EXCEPT !.fate = f].priority = r.priority
BY DEF Request

LEMMA LogFacts ==
    ASSUME TypeOK
    PROVE  /\ DOMAIN log = 1..Len(log)
           /\ Len(log) \in Nat
           /\ \A n \in DOMAIN log :
                 /\ log[n] \in Request
                 /\ \A f \in Fate : [log[n] EXCEPT !.fate = f] \in Request
BY NewFate DEF TypeOK

(* Marking or delivering changes fates only.                               *)
LEMMA LogRewrite ==
    ASSUME NEW l \in Seq(Request), NEW r, r \in [DOMAIN l -> Request]
    PROVE  r \in Seq(Request) /\ DOMAIN r = DOMAIN l
BY SeqDef

LEMMA TypeInit == Init => TypeOK
<1> SUFFICES ASSUME Init PROVE TypeOK
  OBVIOUS
<1>1. log \in Seq(Request) /\ bucket \in [Priority -> Seq(Nat)]
  BY DEF Init
<1>2. op \in [Callers -> Operation]
  BY DEF Init, Operation
<1>3. waiters \in Seq(Consumers) /\ DOMAIN waiters = {}
  BY DEF Init
<1> QED BY <1>1, <1>2, <1>3 DEF Init, TypeOK, Place, Signal

LEMMA TypeNotifyOne ==
    ASSUME TypeOK, NotifyOne(waiters), UNCHANGED pc
    PROVE  /\ waiters' \in Seq(Consumers)
           /\ permit' \in BOOLEAN
           /\ signal' \in [Consumers -> Signal]
           /\ \A i \in DOMAIN waiters' : Asleep(waiters[i])'
           /\ \A i, j \in DOMAIN waiters' : waiters'[i] = waiters'[j] => i = j
<1>1. CASE waiters # <<>>
  <2>1. waiters' = Tail(waiters) /\ signal' = [signal EXCEPT ![waiters[1]] = "one"]
    BY <1>1 DEF NotifyOne, TypeOK
  <2>2. /\ waiters' \in Seq(Consumers)
        /\ Len(waiters') = Len(waiters) - 1
        /\ \A i \in 1..Len(waiters') : waiters'[i] = waiters[i + 1]
    BY <1>1, <2>1, HeadTailProperties DEF TypeOK
  <2>3. DOMAIN waiters' = 1..Len(waiters') /\ DOMAIN waiters = 1..Len(waiters)
        /\ Len(waiters) \in Nat
    BY <2>2 DEF TypeOK
  <2>4. \A i \in DOMAIN waiters' : i + 1 \in DOMAIN waiters /\ i + 1 # 1
    BY <2>2, <2>3
  <2>5. \A i, j \in DOMAIN waiters' : waiters'[i] = waiters'[j] => i = j
    <3> TAKE i, j \in DOMAIN waiters'
    <3> HAVE waiters'[i] = waiters'[j]
    <3>1. i + 1 = j + 1
      BY <2>2, <2>3, <2>4 DEF TypeOK
    <3> QED BY <2>2, <2>3, <3>1
  <2>6. \A i \in DOMAIN waiters' : Asleep(waiters[i])'
    <3> TAKE i \in DOMAIN waiters'
    <3>1. waiters'[i] = waiters[i + 1] /\ waiters[i + 1] # waiters[1]
      <4>1. i + 1 \in DOMAIN waiters /\ 1 \in DOMAIN waiters /\ i + 1 # 1
        BY <2>3, <2>4
      <4>2. waiters[i + 1] # waiters[1]
        BY <4>1 DEF TypeOK
      <4> QED BY <2>2, <2>3, <4>2
    <3>2. waiters[i + 1] \in Consumers /\ Asleep(waiters[i + 1])
      BY <2>3, <2>4 DEF TypeOK
    <3>3. signal'[waiters[i + 1]] = signal[waiters[i + 1]]
      BY <2>1, <3>1, <3>2 DEF TypeOK
    <3> QED BY <3>1, <3>2, <3>3 DEF Asleep
  <2> QED BY <1>1, <2>1, <2>2, <2>5, <2>6 DEF NotifyOne, TypeOK, Signal
<1>2. CASE waiters = <<>>
  BY <1>2 DEF NotifyOne, TypeOK, Asleep
<1> QED BY <1>1, <1>2

LEMMA WithoutFacts ==
    ASSUME TypeOK, NEW c \in Consumers
    PROVE  /\ Without(c) \in Seq(Consumers)
           /\ \A i \in DOMAIN Without(c) :
                 Without(c)[i] # c /\ \E j \in DOMAIN waiters : Without(c)[i] = waiters[j]
           /\ \A i, j \in DOMAIN Without(c) : Without(c)[i] = Without(c)[j] => i = j
<1>1. CASE \E i \in DOMAIN waiters : waiters[i] = c
  <2> DEFINE k == CHOOSE i \in DOMAIN waiters : waiters[i] = c
  <2>1. k \in DOMAIN waiters /\ waiters[k] = c
    BY <1>1
  <2> HIDE DEF k
  <2>2. Without(c) = [i \in 1..(Len(waiters) - 1) |->
                        waiters[IF i < k THEN i ELSE i + 1]]
    BY <1>1 DEF Without, k
  <2> DEFINE at(i) == IF i < k THEN i ELSE i + 1
  <2>3. DOMAIN waiters = 1..Len(waiters) /\ Len(waiters) \in Nat
    BY DEF TypeOK
  <2>4. \A i \in 1..(Len(waiters) - 1) : at(i) \in DOMAIN waiters /\ at(i) # k
    BY <2>1, <2>3
  <2>5. \A i, j \in 1..(Len(waiters) - 1) : at(i) = at(j) => i = j
    BY <2>1, <2>3
  <2>6. Len(waiters) - 1 \in Nat
    BY <2>1, <2>3
  <2>7. \A i \in DOMAIN waiters : waiters[i] \in Consumers
    BY DEF TypeOK
  <2>8. Without(c) \in [1..(Len(waiters) - 1) -> Consumers]
    BY <2>2, <2>4, <2>7
  <2> QED BY <2>1, <2>2, <2>4, <2>5, <2>6, <2>8, SeqDef DEF TypeOK
<1>2. CASE ~\E i \in DOMAIN waiters : waiters[i] = c
  BY <1>2 DEF Without, TypeOK
<1> QED BY <1>1, <1>2

LEMMA TypeStep == TypeOK /\ [Next]_vars => TypeOK'
<1> SUFFICES ASSUME TypeOK, [Next]_vars PROVE TypeOK'
  OBVIOUS
<1> USE OpFacts
<1>1. ASSUME NEW t \in Callers, NEW id \in Ids, NEW p \in Priority,
             SubmitBegin(t, id, p)
      PROVE  TypeOK'
  BY <1>1 DEF SubmitBegin, TypeOK, Now, Operation, queueVars, notifyVars, Asleep
<1>2. ASSUME NEW t \in Callers, NEW id \in Ids, CancelBegin(t, id)
      PROVE  TypeOK'
  BY <1>2 DEF CancelBegin, TypeOK, Now, Operation, queueVars, notifyVars, Asleep
<1>3. ASSUME NEW t \in Callers, ShutdownBegin(t)
      PROVE  TypeOK'
  BY <1>3 DEF ShutdownBegin, TypeOK, Now, queueVars, notifyVars, Asleep
<1>4. ASSUME NEW t \in Callers, SubmitQueueFull(t)
      PROVE  TypeOK'
  BY <1>4 DEF SubmitQueueFull, TypeOK, Now, queueVars, notifyVars, Asleep
<1>5. ASSUME NEW t \in Callers, SubmitPush(t)
      PROVE  TypeOK'
  <2>1. log' \in Seq(Request)
    BY <1>5 DEF SubmitPush, TypeOK, Request, Fate
  <2>2. bucket' \in [Priority -> Seq(Nat)]
    <3>1. Len(log) + 1 \in Nat
      BY DEF TypeOK
    <3> QED BY <1>5, <3>1 DEF SubmitPush, TypeOK
  <2> QED BY <1>5, <2>1, <2>2 DEF SubmitPush, TypeOK, Now, notifyVars, Asleep
<1>6. ASSUME NEW t \in Callers, SubmitNotify(t)
      PROVE  TypeOK'
  <2>1. UNCHANGED pc /\ NotifyOne(waiters)
    BY <1>6 DEF SubmitNotify
  <2> QED BY <1>6, <2>1, TypeNotifyOne DEF SubmitNotify, TypeOK, Now, queueVars
<1>7. ASSUME NEW t \in Callers, CancelMark(t)
      PROVE  TypeOK'
  <2>1. log' \in Seq(Request)
    <3>1. CASE Cancellable(op[t].id)
      <4>1. log' \in [DOMAIN log -> Request]
        BY <1>7, <3>1, LogFacts DEF CancelMark, Fate
      <4> QED BY <4>1, LogRewrite DEF TypeOK
    <3> QED BY <1>7, <3>1 DEF CancelMark, TypeOK
  <2> QED BY <1>7, <2>1 DEF CancelMark, TypeOK, Now, notifyVars, Asleep
<1>8. ASSUME NEW t \in Callers, ShutdownWake(t)
      PROVE  TypeOK'
  BY <1>8 DEF ShutdownWake, NotifyAll, TypeOK, Now, queueVars, Signal, Asleep
<1>9. ASSUME NEW c \in Consumers, NextCall(c)
      PROVE  TypeOK'
  BY <1>9 DEF NextCall, Rearm, Goto, TypeOK, queueVars, Place, Signal, Asleep
<1>10. ASSUME NEW c \in Consumers, NextItem(c)
       PROVE  TypeOK'
  <2>1. PICK s \in Slot : IsNext(s) /\ bucket' = Rest(s)
           /\ log' = [log EXCEPT ![Ticket(s)].fate = "delivered"]
    BY <1>10 DEF NextItem
  <2>2. bucket' \in [Priority -> Seq(Nat)]
    BY <2>1, SlotsAfterPop DEF TypeOK
  <2>3. log' \in Seq(Request)
    <3>1. log' \in [DOMAIN log -> Request]
      BY <2>1, LogFacts DEF Fate, TypeOK
    <3> QED BY <3>1, LogRewrite DEF TypeOK
  <2>4. cancelled' \subseteq Ids /\ known' \subseteq Ids
    BY <1>10 DEF NextItem, Popped, TypeOK
  <2>5. pc' \in [Consumers -> Place] /\ signal' \in [Consumers -> Signal]
    BY <1>10 DEF NextItem, Goto, TypeOK, Place, Signal
  <2>6. \A i \in DOMAIN waiters' : Asleep(waiters[i])'
    BY <1>10 DEF NextItem, Goto, TypeOK, Asleep
  <2> QED BY <1>10, <2>2, <2>3, <2>4, <2>5, <2>6 DEF NextItem, TypeOK
<1>11. ASSUME NEW c \in Consumers, NextEmpty(c)
       PROVE  TypeOK'
  <2>1. bucket' \in [Priority -> Seq(Nat)]
    <3>1. <<>> \in Seq(Nat)
      OBVIOUS
    <3> QED BY <1>11, <3>1 DEF NextEmpty
  <2>2. cancelled' \subseteq Ids /\ known' \subseteq Ids
    BY <1>11 DEF NextEmpty, Popped, TypeOK
  <2>3. pc' \in [Consumers -> Place] /\ signal' \in [Consumers -> Signal]
    BY <1>11 DEF NextEmpty, Goto, TypeOK, Place, Signal
  <2>4. \A i \in DOMAIN waiters' : Asleep(waiters[i])'
    BY <1>11 DEF NextEmpty, Goto, TypeOK, Asleep
  <2> QED BY <1>11, <2>1, <2>2, <2>3, <2>4 DEF NextEmpty, TypeOK
<1>12. ASSUME NEW c \in Consumers, AwaitPermit(c)
       PROVE  TypeOK'
  <2>1. pc' \in [Consumers -> Place] /\ signal' \in [Consumers -> Signal]
    BY <1>12 DEF AwaitPermit, Rearm, Goto, TypeOK, Place, Signal
  <2>2. \A i \in DOMAIN waiters' : Asleep(waiters[i])'
    BY <1>12 DEF AwaitPermit, Rearm, Goto, TypeOK, Asleep
  <2> QED BY <1>12, <2>1, <2>2 DEF AwaitPermit, TypeOK, queueVars
<1>13. ASSUME NEW c \in Consumers, AwaitSignalled(c)
       PROVE  TypeOK'
  BY <1>13 DEF AwaitSignalled, Rearm, Goto, TypeOK, queueVars, Place, Signal, Asleep
<1>14. ASSUME NEW c \in Consumers, AwaitRegister(c)
       PROVE  TypeOK'
  <2>1. /\ waiters' \in Seq(Consumers)
        /\ DOMAIN waiters = 1..Len(waiters)
        /\ DOMAIN waiters' = 1..(Len(waiters) + 1)
        /\ \A i \in DOMAIN waiters : waiters'[i] = waiters[i]
        /\ waiters'[Len(waiters) + 1] = c
        /\ Len(waiters) \in Nat
    BY <1>14, AppendProperties DEF AwaitRegister, TypeOK
  <2>2. \A i \in DOMAIN waiters : waiters[i] # c
    BY <1>14 DEF AwaitRegister, TypeOK, Asleep
  <2>3. \A i, j \in DOMAIN waiters' : waiters'[i] = waiters'[j] => i = j
    <3>1. \A i \in DOMAIN waiters' : i \in DOMAIN waiters \/ i = Len(waiters) + 1
      BY <2>1
    <3>2. \A i, j \in DOMAIN waiters : waiters[i] = waiters[j] => i = j
      BY DEF TypeOK
    <3> QED BY <2>1, <2>2, <3>1, <3>2
  <2>4. \A i \in DOMAIN waiters' : Asleep(waiters[i])'
    <3> TAKE i \in DOMAIN waiters'
    <3>1. CASE i \in DOMAIN waiters
      BY <1>14, <2>1, <2>2, <3>1 DEF AwaitRegister, Goto, TypeOK, Asleep
    <3>2. CASE i = Len(waiters) + 1
      BY <1>14, <2>1, <3>2 DEF AwaitRegister, Goto, TypeOK, Asleep
    <3> QED BY <2>1, <3>1, <3>2
  <2> QED BY <1>14, <2>1, <2>3, <2>4 DEF AwaitRegister, Goto, TypeOK, queueVars, Place
<1>15. ASSUME NEW c \in Consumers, Wake(c)
       PROVE  TypeOK'
  BY <1>15 DEF Wake, Rearm, Goto, TypeOK, queueVars, Place, Signal, Asleep
<1>16. ASSUME NEW c \in Consumers, Timeout(c)
       PROVE  TypeOK'
  <2>1. CASE signal[c] = "one" /\ waiters # <<>>
    <3>1. waiters' = Tail(waiters)
          /\ signal' = [signal EXCEPT ![c] = "none", ![waiters[1]] = "one"]
      BY <1>16, <2>1 DEF Timeout, TypeOK
    <3>2. /\ waiters' \in Seq(Consumers)
          /\ Len(waiters') = Len(waiters) - 1
          /\ \A i \in 1..Len(waiters') : waiters'[i] = waiters[i + 1]
      BY <2>1, <3>1, HeadTailProperties DEF TypeOK
    <3>3. DOMAIN waiters' = 1..Len(waiters') /\ DOMAIN waiters = 1..Len(waiters)
          /\ Len(waiters) \in Nat
      BY <3>2 DEF TypeOK
    <3>4. \A i \in DOMAIN waiters' : i + 1 \in DOMAIN waiters /\ i + 1 # 1
      BY <3>2, <3>3
    <3>5. \A i, j \in DOMAIN waiters' : waiters'[i] = waiters'[j] => i = j
      <4> TAKE i, j \in DOMAIN waiters'
      <4> HAVE waiters'[i] = waiters'[j]
      <4>1. i + 1 = j + 1
        BY <3>2, <3>3, <3>4 DEF TypeOK
      <4> QED BY <3>2, <3>3, <4>1
    <3>6. \A i \in DOMAIN waiters' : Asleep(waiters[i])'
      <4> TAKE i \in DOMAIN waiters'
      <4>1. waiters'[i] = waiters[i + 1] /\ waiters[i + 1] # waiters[1]
        BY <2>1, <3>2, <3>3, <3>4 DEF TypeOK
      <4>2. waiters[i + 1] \in Consumers /\ Asleep(waiters[i + 1])
        BY <3>3, <3>4 DEF TypeOK
      <4>3. waiters[i + 1] # c
        BY <2>1, <4>2 DEF Asleep
      <4> QED BY <1>16, <3>1, <4>1, <4>2, <4>3 DEF Timeout, Goto, TypeOK, Asleep
    <3>7. signal' \in [Consumers -> Signal] /\ permit' = permit
      BY <1>16, <2>1, <3>1 DEF Timeout, TypeOK, Signal
    <3> QED
      BY <1>16, <3>2, <3>5, <3>6, <3>7 DEF Timeout, Goto, TypeOK, queueVars, Place
  <2>2. CASE ~(signal[c] = "one" /\ waiters # <<>>)
    <3>1. waiters' = Without(c) /\ signal' = [signal EXCEPT ![c] = "none"]
          /\ permit' \in BOOLEAN
      BY <1>16, <2>2 DEF Timeout, TypeOK
    <3>2. \A i \in DOMAIN waiters' : Asleep(waiters[i])'
      BY <1>16, <3>1, WithoutFacts DEF Timeout, Goto, TypeOK, Asleep
    <3> QED
      BY <1>16, <3>1, <3>2, WithoutFacts
      DEF Timeout, Goto, TypeOK, queueVars, Place, Signal
  <2> QED BY <2>1, <2>2
<1>17. CASE UNCHANGED vars
  BY <1>17 DEF vars, TypeOK, Asleep
<1> QED
  BY <1>1, <1>2, <1>3, <1>4, <1>5, <1>6, <1>7, <1>8, <1>9, <1>10, <1>11, <1>12,
     <1>13, <1>14, <1>15, <1>16, <1>17 DEF Next, Proceed, Loop

(* Every variable of the scheduler keeps its type, and the list of waiters *)
(* of its Notify stays a list of sleeping consumers without repetition.    *)
THEOREM TypeCorrect == Spec => []TypeOK
BY TypeInit, TypeStep, PTL DEF Spec

-----------------------------------------------------------------------------
(* The queue invariant, when an accepted id is not submitted again         *)

LEMMA IndInit == Init => IndInv
<1> SUFFICES ASSUME Init PROVE IndInv
  OBVIOUS
<1>1. log = <<>> /\ DOMAIN log = {}
  BY DEF Init
<1>2. Slot = {}
  BY DEF Init, Slot, SlotsOf
<1>3. \A t \in Callers : op[t].step = "idle"
  BY DEF Init, Idle
<1>4. UniqueIds
  BY <1>1, <1>3 DEF UniqueIds
<1>5. NothingLost
  BY <1>1 DEF NothingLost, Queued, PQ!Queued
<1>6. SetsMatchQueue
  BY <1>2 DEF SetsMatchQueue, Init
<1> QED BY <1>2, <1>4, <1>5, <1>6, TypeInit DEF IndInv, Filed, Ordered

LEMMA SlotMembers ==
    ASSUME TypeOK
    PROVE  /\ \A s \in Slot :
                 /\ s = <<s[1], s[2]>>
                 /\ s[1] \in Priority
                 /\ s[2] \in 1..Len(bucket[s[1]])
                 /\ s[2] \in Nat
                 /\ Ticket(s) \in Nat
           /\ \A p \in Priority : Len(bucket[p]) \in Nat
<1>1. bucket \in [Priority -> Seq(Nat)]
  BY DEF TypeOK
<1>2. \A p \in Priority : Len(bucket[p]) \in Nat
  BY <1>1
<1>3. ASSUME NEW s \in Slot
      PROVE  /\ s = <<s[1], s[2]>>
             /\ s[1] \in Priority
             /\ s[2] \in 1..Len(bucket[s[1]])
             /\ s[2] \in Nat
             /\ Ticket(s) \in Nat
  <2>1. s \in SlotsOf(bucket)
    BY DEF Slot
  <2>2. /\ s = <<s[1], s[2]>>
        /\ s[1] \in Priority
        /\ s[2] \in 1..Len(bucket[s[1]])
        /\ bucket[s[1]][s[2]] \in Nat
    BY <1>1, <2>1, SlotFacts
  <2> QED BY <1>2, <2>2 DEF Ticket
<1> QED BY <1>2, <1>3

(* A slot is determined by the id of its request, so pop_next skips exactly*)
(* the slots whose request was cancelled.                                  *)
LEMMA OneSlotPerId ==
    ASSUME IndInv
    PROVE  /\ \A s, t \in Slot : IdAt(s) = IdAt(t) => s = t
           /\ \A s \in Slot :
                 /\ Skipped(s) <=> Ticket(s) \notin Queued
                 /\ Skipped(s) <=> IdAt(s) \in cancelled
           /\ \A s, t \in Slot : s = t \/ Before(s, t) \/ Before(t, s)
           /\ \A s, t \in Slot : Before(s, t) => s # t
<1>1. \A s \in Slot :
         /\ s = <<s[1], s[2]>> /\ s[1] \in Priority
         /\ s[2] \in Nat /\ Ticket(s) \in Nat
  BY SlotMembers DEF IndInv
<1>2. ASSUME NEW s \in Slot, NEW t \in Slot, IdAt(s) = IdAt(t)
      PROVE  s = t
  <2>1. Ticket(s) = Ticket(t)
    BY <1>2 DEF IndInv, UniqueIds, Filed, IdAt
  <2>2. s[1] = t[1]
    BY <2>1 DEF IndInv, Filed
  <2>3. ~(s[2] < t[2]) /\ ~(t[2] < s[2])
    BY <1>1, <2>1, <2>2 DEF IndInv, Ordered
  <2> QED BY <1>1, <2>2, <2>3
<1>3. \A s, t \in Slot : s = t \/ Before(s, t) \/ Before(t, s)
  <2> TAKE s, t \in Slot
  <2>1. CASE s[1] = t[1]
    BY <1>1, <2>1 DEF Before
  <2>2. CASE s[1] # t[1]
    BY <1>1, <2>2, RankFacts DEF Before
  <2> QED BY <2>1, <2>2
<1>4. \A s, t \in Slot : Before(s, t) => s # t
  BY <1>1, RankFacts DEF Before
<1>5. ASSUME NEW s \in Slot
      PROVE  /\ Skipped(s) <=> IdAt(s) \in cancelled
             /\ Skipped(s) <=> Ticket(s) \notin Queued
  <2>1. Skipped(s) <=> IdAt(s) \in cancelled
    BY <1>2, <1>4 DEF Skipped
  <2>2. IdAt(s) \in cancelled <=> Ticket(s) \notin Queued
    BY <1>2 DEF IndInv, SetsMatchQueue
  <2> QED BY <2>1, <2>2
<1> QED BY <1>2, <1>3, <1>4, <1>5

LEMMA Frame ==
    ASSUME IndInv, TypeOK', UNCHANGED queueVars,
           \A t \in Callers : op'[t].step = "submit" => op'[t] = op[t]
    PROVE  IndInv'
<1>1. Slot' = Slot /\ Queued' = Queued
  BY DEF queueVars, Slot, Queued, PQ!Queued
<1>2. UniqueIds'
  BY DEF queueVars, IndInv, UniqueIds
<1> QED
  BY <1>1, <1>2 DEF queueVars, IndInv, Filed, Ordered, NothingLost,
     SetsMatchQueue, Ticket, IdAt

LEMMA IndSubmitBegin ==
    ASSUME IndInv, TypeOK', ~MayReuse,
           NEW t \in Callers, NEW id \in Ids, NEW p \in Priority,
           SubmitBegin(t, id, p)
    PROVE  IndInv'
<1>1. Slot' = Slot /\ Queued' = Queued
  BY DEF SubmitBegin, queueVars, Slot, Queued, PQ!Queued
<1>2. UniqueIds'
  <2>1. op' = [op EXCEPT ![t] = [step |-> "submit", id |-> id, priority |-> p]]
        /\ op \in [Callers -> Operation] /\ log' = log
    BY DEF SubmitBegin, Now, queueVars, IndInv, TypeOK
  <2>2. Fresh(id)
    BY DEF SubmitBegin
  <2> QED BY <2>1, <2>2 DEF Fresh, IndInv, UniqueIds
<1> QED
  BY <1>1, <1>2 DEF SubmitBegin, queueVars, IndInv, Filed, Ordered, NothingLost,
     SetsMatchQueue, Ticket, IdAt

LEMMA IndSubmitPush ==
    ASSUME IndInv, TypeOK', NEW t \in Callers, SubmitPush(t)
    PROVE  IndInv'
<1>p. PICK n, p, id, new :
         /\ n = Len(log) + 1
         /\ p = op[t].priority
         /\ id = op[t].id
         /\ new = <<p, Len(bucket[p]) + 1>>
  OBVIOUS
<1>1. p \in Priority /\ id \in Ids /\ n \in Nat /\ DOMAIN log = 1..Len(log)
  BY <1>p, OpFacts DEF SubmitPush, IndInv, TypeOK
<1>2. /\ DOMAIN log' = DOMAIN log \cup {n}
      /\ \A m \in DOMAIN log : log'[m] = log[m]
      /\ log'[n] = [id |-> id, priority |-> p, fate |-> "queued"]
      /\ n \notin DOMAIN log /\ \A m \in DOMAIN log : m < n
  BY <1>p, <1>1 DEF SubmitPush, IndInv, TypeOK
<1>3. bucket' = [bucket EXCEPT ![p] = Append(@, n)]
  BY <1>p DEF SubmitPush
<1>4. /\ Slot' = Slot \cup {new}
      /\ Ticket(new)' = n
      /\ \A s \in Slot : Ticket(s)' = Ticket(s) /\ (s[1] = p => s[2] < Len(bucket[p]) + 1)
  <2>1. bucket \in [Priority -> Seq(Nat)]
    BY DEF IndInv, TypeOK
  <2>2. /\ \A s \in Slot : s[2] \in Nat
        /\ Len(bucket[p]) \in Nat
    BY <1>1, SlotMembers DEF IndInv
  <2>3. /\ Slot' = Slot \cup {new}
        /\ bucket'[p][Len(bucket[p]) + 1] = n
        /\ \A s \in Slot :
              bucket'[s[1]][s[2]] = bucket[s[1]][s[2]] /\ (s[1] = p => s[2] <= Len(bucket[p]))
    BY <1>p, <1>1, <1>3, <2>1, SlotsAfterPush
  <2>4. new[1] = p /\ new[2] = Len(bucket[p]) + 1
    BY <1>p
  <2> QED BY <2>2, <2>3, <2>4 DEF Ticket
<1>5. Queued' = Queued \cup {n}
  BY <1>2 DEF Queued, PQ!Queued
<1>6. UniqueIds'
  <2>1. op' = [op EXCEPT ![t] = [step |-> "notify"]] /\ op[t].step = "submit"
        /\ op \in [Callers -> Operation]
    BY DEF SubmitPush, Now, IndInv, TypeOK
  <2>2. \A u \in Callers : op'[u].step = "submit" => u # t /\ op'[u] = op[u]
    BY <2>1
  <2> QED BY <1>p, <1>2, <2>1, <2>2 DEF IndInv, UniqueIds
<1>7. \A s \in Slot : Ticket(s) \in DOMAIN log
  BY DEF IndInv, Filed
<1>8. Filed'
  BY <1>p, <1>2, <1>4, <1>7 DEF IndInv, Filed
<1>9. Ordered'
  <2> SUFFICES ASSUME NEW s \in Slot', NEW u \in Slot', s[1] = u[1], s[2] < u[2]
               PROVE  Ticket(s)' < Ticket(u)'
    BY DEF Ordered
  <2>1. CASE u = new /\ s = new
    BY <1>p, <1>1, <2>1, SlotMembers DEF IndInv
  <2>2. CASE u = new /\ s \in Slot
    BY <1>2, <1>4, <1>7, <2>2
  <2>3. CASE s = new /\ u \in Slot
    <3>1. u[1] = p /\ s[2] = Len(bucket[p]) + 1
      BY <1>p, <2>3
    <3>2. u[2] \in Nat /\ Len(bucket[p]) \in Nat
      BY <1>1, <2>3, SlotMembers DEF IndInv
    <3> QED BY <1>4, <2>3, <3>1, <3>2
  <2>4. CASE s \in Slot /\ u \in Slot
    BY <1>4, <2>4 DEF IndInv, Ordered
  <2> QED BY <1>4, <2>1, <2>2, <2>3, <2>4
<1>10. NothingLost'
  <2> SUFFICES ASSUME NEW m \in Queued'
               PROVE  \E s \in Slot' : Ticket(s)' = m /\ s[1] = log'[m].priority
    BY DEF NothingLost
  <2>1. CASE m = n
    BY <1>p, <1>2, <1>4, <2>1
  <2>2. CASE m \in Queued
    <3>1. m \in DOMAIN log
      BY <2>2 DEF Queued, PQ!Queued
    <3> QED BY <1>2, <1>4, <2>2, <3>1 DEF IndInv, NothingLost
  <2> QED BY <1>5, <2>1, <2>2
<1>11. SetsMatchQueue'
  <2>1. \A s \in Slot : IdAt(s)' = IdAt(s)
    BY <1>2, <1>4, <1>7 DEF IdAt
  <2>2. IdAt(new)' = id
    BY <1>2, <1>4 DEF IdAt
  <2>3. known' = known \cup {id} /\ cancelled' = cancelled
    BY <1>p DEF SubmitPush
  <2>4. \A s \in Slot : Ticket(s)' \in Queued' <=> Ticket(s) \in Queued
    BY <1>2, <1>4, <1>5, <1>7
  <2>5. Ticket(new)' \in Queued'
    BY <1>4, <1>5
  <2>6. known' = {IdAt(s)' : s \in Slot'}
    BY <1>4, <2>1, <2>2, <2>3 DEF IndInv, SetsMatchQueue
  <2>7. cancelled' = {IdAt(s)' : s \in {u \in Slot' : Ticket(u)' \notin Queued'}}
    BY <1>4, <2>1, <2>3, <2>4, <2>5 DEF IndInv, SetsMatchQueue
  <2> QED BY <2>6, <2>7 DEF SetsMatchQueue
<1> QED BY <1>6, <1>8, <1>9, <1>10, <1>11 DEF IndInv

LEMMA IndCancelMark ==
    ASSUME IndInv, TypeOK', NEW t \in Callers, CancelMark(t)
    PROVE  IndInv'
<1>1. PICK id : id = op[t].id
  OBVIOUS
<1>2. op' = [op EXCEPT ![t] = Idle] /\ op \in [Callers -> Operation]
      /\ Idle.step # "submit"
  BY DEF CancelMark, Now, IndInv, TypeOK, Idle
<1>3. CASE id \notin known
  <2>1. UNCHANGED queueVars
    BY <1>1, <1>3 DEF CancelMark, Cancellable, queueVars
  <2> QED BY <1>2, <2>1, Frame
<1>4. CASE id \in known
  <2>1. /\ DOMAIN log' = DOMAIN log
        /\ \A n \in DOMAIN log :
              /\ log'[n].id = log[n].id
              /\ log'[n].priority = log[n].priority
              /\ log'[n].fate = IF log[n].id = id /\ log[n].fate = "queued"
                                THEN "cancelled" ELSE log[n].fate
        /\ cancelled' = cancelled \cup {id}
    <3>1. /\ cancelled' = cancelled \cup {id}
          /\ log' = [n \in DOMAIN log |->
                       IF log[n].id = id /\ log[n].fate = "queued"
                       THEN [log[n] EXCEPT !.fate = "cancelled"]
                       ELSE log[n]]
      BY <1>1, <1>4 DEF CancelMark, Cancellable
    <3>2. DOMAIN log' = DOMAIN log
      BY <3>1
    <3>3. ASSUME NEW n \in DOMAIN log
          PROVE  /\ log'[n].id = log[n].id
                 /\ log'[n].priority = log[n].priority
                 /\ log'[n].fate = IF log[n].id = id /\ log[n].fate = "queued"
                                   THEN "cancelled" ELSE log[n].fate
      <4>1. log[n] \in Request /\ "cancelled" \in Fate
        BY LogFacts DEF IndInv, Fate
      <4>2. CASE log[n].id = id /\ log[n].fate = "queued"
        <5>1. log'[n] = [log[n] EXCEPT !.fate = "cancelled"]
          BY <3>1, <4>2
        <5> QED BY <4>1, <4>2, <5>1, NewFate
      <4>3. CASE ~(log[n].id = id /\ log[n].fate = "queued")
        <5>1. log'[n] = log[n]
          BY <3>1, <4>3
        <5> QED BY <4>3, <5>1
      <4> QED BY <4>2, <4>3
    <3> QED BY <3>1, <3>2, <3>3
  <2>2. Slot' = Slot /\ known' = known /\ \A s \in Slot : Ticket(s)' = Ticket(s)
    BY DEF CancelMark, Slot, Ticket
  <2>3. \A s \in Slot : Ticket(s) \in DOMAIN log /\ IdAt(s)' = IdAt(s)
    BY <2>1, <2>2 DEF IdAt, IndInv, Filed
  <2>4. \A n \in DOMAIN log :
           n \in Queued' <=> n \in Queued /\ log[n].id # id
    BY <2>1 DEF Queued, PQ!Queued
  <2>5. UniqueIds'
    BY <1>2, <2>1 DEF IndInv, UniqueIds
  <2>6. Filed'
    BY <2>1, <2>2, <2>3 DEF IndInv, Filed
  <2>7. Ordered'
    BY <2>2 DEF IndInv, Ordered
  <2>8. NothingLost'
    <3>1. Queued' \subseteq Queued /\ Queued \subseteq DOMAIN log
      BY <2>1, <2>4 DEF Queued, PQ!Queued
    <3> QED BY <2>1, <2>2, <3>1 DEF IndInv, NothingLost
  <2>9. SetsMatchQueue'
    <3>1. known' = {IdAt(s)' : s \in Slot'}
      BY <2>2, <2>3 DEF IndInv, SetsMatchQueue
    <3>2. PICK k \in Slot : IdAt(k) = id
      BY <1>4 DEF IndInv, SetsMatchQueue
    <3>3. \A s \in Slot : Ticket(s) \notin Queued' <=> Ticket(s) \notin Queued \/ IdAt(s) = id
      BY <2>3, <2>4 DEF IdAt
    <3>4. cancelled = {IdAt(s) : s \in {u \in Slot : Ticket(u) \notin Queued}}
      BY DEF IndInv, SetsMatchQueue
    <3>5. cancelled' = {IdAt(s)' : s \in {u \in Slot' : Ticket(u)' \notin Queued'}}
      BY <2>1, <2>2, <2>3, <3>2, <3>3, <3>4
    <3> QED BY <3>1, <3>5 DEF SetsMatchQueue
  <2> QED BY <2>5, <2>6, <2>7, <2>8, <2>9 DEF IndInv
<1> QED BY <1>3, <1>4

(* The popped request was live; what stays is what was behind it.          *)
LEMMA IndNextItem ==
    ASSUME IndInv, TypeOK', NEW c \in Consumers, NextItem(c)
    PROVE  IndInv'
<1>1. PICK s \in Slot :
         /\ IsNext(s)
         /\ Popped({u \in Slot : u = s \/ Before(u, s)})
         /\ bucket' = Rest(s)
         /\ log' = [log EXCEPT ![Ticket(s)].fate = "delivered"]
  BY DEF NextItem
<1>2. PICK n : n = Ticket(s)
  OBVIOUS
<1>3. n \in DOMAIN log /\ n \in Queued
  BY <1>1, <1>2, OneSlotPerId DEF IsNext, IndInv, Filed
<1>4. /\ DOMAIN log' = DOMAIN log
      /\ \A m \in DOMAIN log :
            /\ log'[m].id = log[m].id
            /\ log'[m].priority = log[m].priority
            /\ log'[m].fate = IF m = n THEN "delivered" ELSE log[m].fate
  BY <1>1, <1>2, <1>3, LogFacts, NewFate DEF Fate, IndInv, TypeOK
<1>5. \A m \in DOMAIN log : m \in Queued' <=> m \in Queued /\ m # n
  BY <1>3, <1>4 DEF Queued, PQ!Queued
<1>6. /\ \A t \in Slot' :
            \E u \in Slot :
               /\ u # s /\ ~Before(u, s)
               /\ u[1] = t[1]
               /\ u[2] = IF t[1] = s[1] THEN t[2] + s[2] ELSE t[2]
               /\ Ticket(t)' = Ticket(u)
      /\ \A u \in Slot : u # s /\ ~Before(u, s) =>
            \E t \in Slot' : t[1] = u[1] /\ Ticket(t)' = Ticket(u)
  <2>1. bucket \in [Priority -> Seq(Nat)]
    BY DEF IndInv, TypeOK
  <2>2. PICK b : b = bucket'
    OBVIOUS
  <2>3. RestOf(b, s)
    BY <1>1, <2>1, <2>2, SlotsAfterPop
  <2>4. Slot' = SlotsOf(b) /\ \A t : Ticket(t)' = b[t[1]][t[2]]
    BY <2>2 DEF Slot, Ticket
  <2> QED BY <2>3, <2>4 DEF RestOf
<1>7. \A u \in Slot : Ticket(u) \in DOMAIN log
  BY DEF IndInv, Filed
<1>8. \A u \in Slot : u # s => Ticket(u) # n
  BY <1>2, OneSlotPerId DEF IdAt
<1>9. \A u \in Slot : Before(u, s) => Ticket(u) \notin Queued
  BY <1>1, OneSlotPerId DEF IsNext
<1>10. UniqueIds'
  BY <1>4 DEF NextItem, IndInv, UniqueIds
<1>11. Filed'
  BY <1>4, <1>6, <1>7, <1>8 DEF IndInv, Filed
<1>12. Ordered'
  <2> SUFFICES ASSUME NEW t \in Slot', NEW v \in Slot', t[1] = v[1], t[2] < v[2]
               PROVE  Ticket(t)' < Ticket(v)'
    BY DEF Ordered
  <2>1. t[2] \in Nat /\ v[2] \in Nat /\ s[2] \in Nat
    <3>1. \A x \in Slot' : x[2] \in Nat
      BY SlotFacts DEF Slot, TypeOK
    <3> QED BY <3>1, SlotMembers DEF IndInv
  <2>2. PICK u \in Slot :
           /\ u[1] = t[1] /\ Ticket(t)' = Ticket(u)
           /\ u[2] = IF t[1] = s[1] THEN t[2] + s[2] ELSE t[2]
    BY <1>6
  <2>3. PICK w \in Slot :
           /\ w[1] = v[1] /\ Ticket(v)' = Ticket(w)
           /\ w[2] = IF v[1] = s[1] THEN v[2] + s[2] ELSE v[2]
    BY <1>6
  <2>4. u[1] = w[1] /\ u[2] < w[2]
    BY <2>1, <2>2, <2>3
  <2> QED BY <2>2, <2>3, <2>4 DEF IndInv, Ordered
<1>13. NothingLost'
  <2> SUFFICES ASSUME NEW m \in Queued'
               PROVE  \E t \in Slot' : Ticket(t)' = m /\ t[1] = log'[m].priority
    BY DEF NothingLost
  <2>1. m \in DOMAIN log
    BY <1>4 DEF Queued, PQ!Queued
  <2>2. m \in Queued /\ m # n
    BY <1>5, <2>1
  <2>3. PICK u \in Slot : Ticket(u) = m /\ u[1] = log[m].priority
    BY <2>2 DEF IndInv, NothingLost
  <2>4. u # s /\ ~Before(u, s)
    BY <1>2, <1>9, <2>2, <2>3
  <2> QED BY <1>4, <1>6, <2>1, <2>3, <2>4
<1>14. SetsMatchQueue'
  <2>1. \A t \in Slot' : \E u \in Slot :
           /\ u # s /\ ~Before(u, s)
           /\ IdAt(t)' = IdAt(u)
           /\ Ticket(t)' \in Queued' <=> Ticket(u) \in Queued
    BY <1>4, <1>5, <1>6, <1>7, <1>8 DEF IdAt
  <2>2. \A u \in Slot : u # s /\ ~Before(u, s) => \E t \in Slot' :
           /\ IdAt(t)' = IdAt(u)
           /\ Ticket(t)' \in Queued' <=> Ticket(u) \in Queued
    BY <1>4, <1>5, <1>6, <1>7, <1>8 DEF IdAt
  <2>3. known' = {IdAt(u) : u \in {v \in Slot : v # s /\ ~Before(v, s)}}
    <3>1. known' = known \ {IdAt(u) : u \in {v \in Slot : v = s \/ Before(v, s)}}
      BY <1>1 DEF Popped
    <3>2. known = {IdAt(u) : u \in Slot}
      BY DEF IndInv, SetsMatchQueue
    <3> QED BY <3>1, <3>2, OneSlotPerId
  <2>4. cancelled' = {IdAt(u) : u \in {v \in Slot : v # s /\ ~Before(v, s) /\ Ticket(v) \notin Queued}}
    <3>1. cancelled' = cancelled \ {IdAt(u) : u \in
              {v \in {w \in Slot : w = s \/ Before(w, s)} : Skipped(v)}}
      BY <1>1 DEF Popped
    <3>2. cancelled = {IdAt(u) : u \in {v \in Slot : Ticket(v) \notin Queued}}
      BY DEF IndInv, SetsMatchQueue
    <3> QED BY <1>2, <1>3, <3>1, <3>2, OneSlotPerId
  <2>5. known' = {IdAt(t)' : t \in Slot'}
    BY <2>1, <2>2, <2>3
  <2>6. cancelled' = {IdAt(t)' : t \in {v \in Slot' : Ticket(v)' \notin Queued'}}
    BY <2>1, <2>2, <2>4
  <2> QED BY <2>5, <2>6 DEF SetsMatchQueue
<1> QED BY <1>10, <1>11, <1>12, <1>13, <1>14 DEF IndInv

LEMMA IndNextEmpty ==
    ASSUME IndInv, TypeOK', NEW c \in Consumers, NextEmpty(c)
    PROVE  IndInv'
<1>1. \A s \in Slot : Ticket(s) \notin Queued
  BY OneSlotPerId DEF NextEmpty
<1>2. Queued' = Queued /\ Queued = {}
  <2>1. Queued = {}
    BY <1>1 DEF IndInv, NothingLost
  <2> QED BY <2>1 DEF NextEmpty, Queued, PQ!Queued
<1>3. Slot' = {}
  BY DEF NextEmpty, Slot, SlotsOf
<1>4. known' = {} /\ cancelled' = {}
  <2>1. known' = known \ {IdAt(s) : s \in Slot}
    BY DEF NextEmpty, Popped
  <2>2. cancelled' = cancelled \ {IdAt(s) : s \in {u \in Slot : Skipped(u)}}
    BY DEF NextEmpty, Popped
  <2> QED BY <2>1, <2>2 DEF IndInv, SetsMatchQueue, NextEmpty
<1>5. UniqueIds'
  BY DEF NextEmpty, IndInv, UniqueIds
<1> QED
  BY <1>2, <1>3, <1>4, <1>5
  DEF IndInv, Filed, Ordered, NothingLost, SetsMatchQueue

LEMMA IndStep == IndInv /\ [Next]_vars /\ ~MayReuse => IndInv'
<1> SUFFICES ASSUME IndInv, [Next]_vars, ~MayReuse PROVE IndInv'
  OBVIOUS
<1>0. TypeOK' /\ op \in [Callers -> Operation] /\ Idle.step = "idle"
  BY TypeStep DEF IndInv, TypeOK, Idle
<1>1. ASSUME NEW t \in Callers, NEW id \in Ids, NEW p \in Priority,
             SubmitBegin(t, id, p)
      PROVE  IndInv'
  BY <1>0, <1>1, IndSubmitBegin
<1>2. ASSUME NEW t \in Callers, NEW id \in Ids, CancelBegin(t, id)
      PROVE  IndInv'
  <2>1. UNCHANGED queueVars /\ op' = [op EXCEPT ![t] = [step |-> "cancel", id |-> id]]
    BY <1>2 DEF CancelBegin, Now
  <2> QED BY <1>0, <2>1, Frame
<1>3. ASSUME NEW t \in Callers, ShutdownBegin(t)
      PROVE  IndInv'
  <2>1. UNCHANGED queueVars /\ op' = [op EXCEPT ![t] = [step |-> "wake"]]
    BY <1>3 DEF ShutdownBegin, Now
  <2> QED BY <1>0, <2>1, Frame
<1>4. ASSUME NEW t \in Callers,
             SubmitQueueFull(t) \/ SubmitNotify(t) \/ ShutdownWake(t)
      PROVE  IndInv'
  <2>1. UNCHANGED queueVars /\ op' = [op EXCEPT ![t] = Idle]
    BY <1>4 DEF SubmitQueueFull, SubmitNotify, ShutdownWake, Now
  <2> QED BY <1>0, <2>1, Frame
<1>5. ASSUME NEW t \in Callers, SubmitPush(t)
      PROVE  IndInv'
  BY <1>0, <1>5, IndSubmitPush
<1>6. ASSUME NEW t \in Callers, CancelMark(t)
      PROVE  IndInv'
  BY <1>0, <1>6, IndCancelMark
<1>7. ASSUME NEW c \in Consumers, NextItem(c)
      PROVE  IndInv'
  BY <1>0, <1>7, IndNextItem
<1>8. ASSUME NEW c \in Consumers, NextEmpty(c)
      PROVE  IndInv'
  BY <1>0, <1>8, IndNextEmpty
<1>9. ASSUME NEW c \in Consumers,
             \/ NextCall(c) \/ AwaitPermit(c) \/ AwaitSignalled(c)
             \/ AwaitRegister(c) \/ Wake(c) \/ Timeout(c)
      PROVE  IndInv'
  <2>1. UNCHANGED <<queueVars, op>>
    BY <1>9 DEF NextCall, AwaitPermit, AwaitSignalled, AwaitRegister, Wake, Timeout
  <2> QED BY <1>0, <2>1, Frame
<1>10. CASE UNCHANGED vars
  <2>1. UNCHANGED <<queueVars, op>>
    BY <1>10 DEF vars, queueVars
  <2> QED BY <1>0, <2>1, Frame
<1> QED
  BY <1>1, <1>2, <1>3, <1>4, <1>5, <1>6, <1>7, <1>8, <1>9, <1>10
  DEF Next, Proceed, Loop

(* When ids are unique, the sets and the buckets agree in every reachable  *)
(* state: the strengthening holds always.                                  *)
THEOREM Invariance == ASSUME ~MayReuse PROVE Spec => []IndInv
<1>1. IndInv /\ [Next]_vars => IndInv'
  BY IndStep
<1> QED BY <1>1, IndInit, PTL DEF Spec

(* Every accepted request that was neither handed out nor cancelled is in  *)
(* the bucket of its priority.                                             *)
THEOREM NoRequestLost == ASSUME ~MayReuse PROVE Spec => []NothingLost
<1>1. IndInv => NothingLost
  BY DEF IndInv
<1> QED BY <1>1, Invariance, PTL

(* The known set and the skip-set are what the buckets say they are, at    *)
(* any time between two critical sections.                                 *)
THEOREM SetsAgree == ASSUME ~MayReuse PROVE Spec => []SetsMatchQueue
<1>1. IndInv => SetsMatchQueue
  BY DEF IndInv
<1> QED BY <1>1, Invariance, PTL

LEMMA FinalStep ==
    ASSUME IndInv, [Next]_vars
    PROVE  \A n \in DOMAIN log \ Queued : log'[n].fate = log[n].fate
<1> SUFFICES ASSUME NEW n \in DOMAIN log, n \notin Queued
             PROVE  log'[n].fate = log[n].fate
  OBVIOUS
<1>1. log[n].fate # "queued" /\ n \in 1..Len(log) /\ log \in Seq(Request)
  BY DEF Queued, PQ!Queued, IndInv, TypeOK
<1>2. ASSUME NEW t \in Callers, SubmitPush(t)
      PROVE  log'[n] = log[n]
  BY <1>1, <1>2 DEF SubmitPush
<1>3. ASSUME NEW t \in Callers, CancelMark(t)
      PROVE  log'[n] = log[n]
  BY <1>1, <1>3 DEF CancelMark
<1>4. ASSUME NEW c \in Consumers, NextItem(c)
      PROVE  log'[n] = log[n]
  <2>1. PICK s \in Slot : IsNext(s) /\ log' = [log EXCEPT ![Ticket(s)].fate = "delivered"]
    BY <1>4 DEF NextItem
  <2>2. Ticket(s) # n
    BY <2>1, OneSlotPerId DEF IsNext
  <2> QED BY <1>1, <2>1, <2>2
<1>5. CASE UNCHANGED log
  BY <1>5
<1> QED
  BY <1>2, <1>3, <1>4, <1>5
  DEF Next, Proceed, Loop, vars, queueVars, SubmitBegin, CancelBegin, ShutdownBegin,
      SubmitQueueFull, SubmitNotify, ShutdownWake, NextCall, NextEmpty,
      AwaitPermit, AwaitSignalled, AwaitRegister, Wake, Timeout

(* next() never hands out a request twice, nor one whose cancellation was  *)
(* confirmed to the caller.                                                *)
THEOREM CancellationIsFinal == ASSUME ~MayReuse PROVE Spec => CancelIsFinal
<1>1. IndInv /\ [Next]_vars
        => [\A n \in DOMAIN log \ Queued : log'[n].fate = log[n].fate]_vars
  BY FinalStep
<1> QED BY <1>1, Invariance, PTL DEF Spec, CancelIsFinal

-----------------------------------------------------------------------------
(* How many slots there are *)

LEMMA SameSize ==
    ASSUME NEW S, NEW T, IsFiniteSet(S), NEW f, f \in [S -> T],
           \A x, y \in S : f[x] = f[y] => x = y,
           \A y \in T : \E x \in S : f[x] = y
    PROVE  IsFiniteSet(T) /\ Cardinality(T) = Cardinality(S)
<1>1. f \in Bijection(S, T)
  BY DEF Bijection, Injection, Surjection, IsInjective
<1>2. ExistsBijection(S, T)
  BY <1>1 DEF ExistsBijection
<1> QED BY <1>2, FS_Bijection

LEMMA DisjointUnion ==
    ASSUME NEW S, NEW T, IsFiniteSet(S), IsFiniteSet(T), S \cap T = {}
    PROVE  /\ IsFiniteSet(S \cup T)
           /\ Cardinality(S \cup T) = Cardinality(S) + Cardinality(T)
           /\ Cardinality(S) \in Nat /\ Cardinality(T) \in Nat
<1>1. /\ IsFiniteSet(S \cup T)
      /\ Cardinality(S \cup T) = Cardinality(S) + Cardinality(T) - Cardinality(S \cap T)
  BY FS_Union
<1>2. Cardinality(S) \in Nat /\ Cardinality(T) \in Nat
  BY FS_CardinalityType
<1>3. Cardinality(S \cap T) = 0
  BY FS_EmptySet
<1> QED BY <1>1, <1>2, <1>3

LEMMA ColumnSize ==
    ASSUME NEW p, NEW n \in Nat
    PROVE  IsFiniteSet({p} \X (1..n)) /\ Cardinality({p} \X (1..n)) = n
<1> DEFINE S == {p}
           T == 1..n
<1>1. IsFiniteSet(T) /\ Cardinality(T) = n
  BY FS_Interval
<1>2. IsFiniteSet(S) /\ Cardinality(S) = 1
  BY FS_Singleton
<1> HIDE DEF S, T
<1>3. IsFiniteSet(S \X T) /\ Cardinality(S \X T) = Cardinality(S) * Cardinality(T)
  BY <1>1, <1>2, FS_Product
<1>4. IsFiniteSet(S \X T) /\ Cardinality(S \X T) = n
  BY <1>1, <1>2, <1>3
<1> QED BY <1>4 DEF S, T

LEMMA SlotCount ==
    ASSUME TypeOK
    PROVE  IsFiniteSet(Slot) /\ Cardinality(Slot) = Physical /\ Physical \in Nat
<1> DEFINE column(p) == {p} \X DOMAIN bucket[p]
<1>1. ASSUME NEW p \in Priority
      PROVE  /\ Len(bucket[p]) \in Nat
             /\ IsFiniteSet(column(p)) /\ Cardinality(column(p)) = Len(bucket[p])
  <2>1. Len(bucket[p]) \in Nat /\ DOMAIN bucket[p] = 1..Len(bucket[p])
    BY DEF TypeOK
  <2> QED BY <2>1, ColumnSize
<1>2. Slot = UNION {column(p) : p \in Priority}
  BY DEF Slot, SlotsOf
<1>3. \A p, q : p # q => column(p) \cap column(q) = {}
  OBVIOUS
<1> HIDE DEF column
<1> DEFINE two == column("high") \cup column("normal")
<1>4. Slot = two \cup column("low")
  BY <1>2 DEF Priority
<1>5. /\ "high" \in Priority /\ "normal" \in Priority /\ "low" \in Priority
      /\ column("high") \cap column("normal") = {}
      /\ two \cap column("low") = {}
  <2>1. "high" # "normal" /\ "high" # "low" /\ "normal" # "low"
    OBVIOUS
  <2>2. /\ column("high") \cap column("normal") = {}
        /\ column("high") \cap column("low") = {}
        /\ column("normal") \cap column("low") = {}
    BY <1>3, <2>1
  <2> QED BY <2>2 DEF Priority
<1>6. /\ IsFiniteSet(two)
      /\ Cardinality(two) = Len(bucket["high"]) + Len(bucket["normal"])
  BY <1>1, <1>5, DisjointUnion
<1> HIDE DEF two
<1>7. PICK h, m, l : h = Len(bucket["high"]) /\ m = Len(bucket["normal"])
                     /\ l = Len(bucket["low"])
  OBVIOUS
<1>8. h \in Nat /\ m \in Nat /\ l \in Nat
  BY <1>1, <1>5, <1>7
<1>9. IsFiniteSet(Slot) /\ Cardinality(Slot) = (h + m) + l
  <2>1. /\ IsFiniteSet(column("low")) /\ Cardinality(column("low")) = l
        /\ Cardinality(two) = h + m
    BY <1>1, <1>5, <1>6, <1>7
  <2> QED BY <1>4, <1>5, <1>6, <2>1, DisjointUnion
<1>10. Physical = h + m + l
  BY <1>7 DEF Physical
<1> QED BY <1>8, <1>9, <1>10

(* A slot holds a live request or a cancelled one, and each of either is   *)
(* in one slot.                                                            *)
LEMMA LenCounts ==
    ASSUME IndInv
    PROVE  LenIsLive /\ IsFiniteSet(Queued)
<1> DEFINE live == {s \in Slot : Ticket(s) \in Queued}
           dead == {s \in Slot : Ticket(s) \notin Queued}
           toTicket == [s \in live |-> Ticket(s)]
           toId == [s \in dead |-> IdAt(s)]
<1>1. IsFiniteSet(Slot) /\ Cardinality(Slot) = Physical /\ Physical \in Nat
  BY SlotCount DEF IndInv
<1>2. IsFiniteSet(live) /\ IsFiniteSet(dead)
  BY <1>1, FS_Subset
<1>3. Cardinality(live) \in Nat /\ Cardinality(dead) \in Nat
  BY <1>2, FS_CardinalityType
<1>4. live \cup dead = Slot /\ live \cap dead = {}
  OBVIOUS
<1>5. Physical = Cardinality(live) + Cardinality(dead)
  <2>1. Cardinality(live \cup dead) = Cardinality(live) + Cardinality(dead)
    <3> HIDE DEF live, dead
    <3> QED BY <1>2, <1>4, DisjointUnion
  <2> QED BY <1>1, <1>3, <1>4, <2>1
<1>6. IsFiniteSet(Queued) /\ Cardinality(Queued) = Cardinality(live)
  <2>1. toTicket \in [live -> Queued]
    OBVIOUS
  <2>2. \A s, t \in live : toTicket[s] = toTicket[t] => s = t
    BY OneSlotPerId DEF IdAt
  <2>3. \A n \in Queued : \E s \in live : toTicket[s] = n
    BY DEF IndInv, NothingLost
  <2> HIDE DEF live, toTicket
  <2> QED BY <1>2, <2>1, <2>2, <2>3, SameSize
<1>7. Cardinality(cancelled) = Cardinality(dead)
  <2>1. toId \in [dead -> cancelled]
    BY DEF IndInv, SetsMatchQueue
  <2>2. \A s, t \in dead : toId[s] = toId[t] => s = t
    BY OneSlotPerId
  <2>3. \A id \in cancelled : \E s \in dead : toId[s] = id
    BY DEF IndInv, SetsMatchQueue
  <2> HIDE DEF dead, toId
  <2> QED BY <1>2, <2>1, <2>2, <2>3, SameSize
<1> HIDE DEF live, dead
<1> QED BY <1>3, <1>5, <1>6, <1>7 DEF LenIsLive, Length

(* The number submit compares with the capacity is the number of live      *)
(* requests; cancelled items that are still in a bucket do not count.      *)
THEOREM LengthIsLive == ASSUME ~MayReuse PROVE Spec => []LenIsLive
<1>1. IndInv => LenIsLive
  BY LenCounts
<1> QED BY <1>1, Invariance, PTL

-----------------------------------------------------------------------------
(* What the two specifications of the queue see of a step *)

LEMMA SameVocabulary ==
    /\ PQ!Priority = Priority /\ PQ!Rank = Rank
    /\ OpenPQ!Priority = Priority /\ OpenPQ!Rank = Rank
    /\ \A S : PQ!Cardinality(S) = Cardinality(S)
    /\ \A S : OpenPQ!Cardinality(S) = Cardinality(S)
<1>1. PQ!Priority = Priority /\ OpenPQ!Priority = Priority
  BY DEF PQ!Priority, OpenPQ!Priority, Priority
<1>2. PQ!Rank = Rank /\ OpenPQ!Rank = Rank
  BY DEF PQ!Rank, OpenPQ!Rank, Rank, PQ!Priority, OpenPQ!Priority, Priority
<1>3. ASSUME NEW S
      PROVE  PQ!Cardinality(S) = Cardinality(S) /\ OpenPQ!Cardinality(S) = Cardinality(S)
  BY DEF PQ!Cardinality, OpenPQ!Cardinality, Cardinality
<1> QED BY <1>1, <1>2, <1>3

LEMMA PushPromise ==
    ASSUME IndInv, NEW t \in Callers, SubmitPush(t)
    PROVE  /\ op[t].id \in Ids /\ op[t].priority \in Priority
           /\ Cardinality(Queued) < Capacity
           /\ log' = Append(log, [id |-> op[t].id, priority |-> op[t].priority,
                                  fate |-> "queued"])
           /\ UNCHANGED <<closed, drained>>
<1>1. TypeOK /\ LenIsLive
  BY LenCounts DEF IndInv
<1> QED BY <1>1, OpFacts DEF SubmitPush, LenIsLive

LEMMA MarkPromise ==
    ASSUME IndInv, NEW t \in Callers, CancelMark(t)
    PROVE  /\ UNCHANGED <<closed, drained>>
           /\ \/ UNCHANGED log
              \/ \E id \in Ids :
                    log' = [n \in DOMAIN log |->
                              IF n \in Queued /\ log[n].id = id
                              THEN [log[n] EXCEPT !.fate = "cancelled"]
                              ELSE log[n]]
<1>1. UNCHANGED <<closed, drained>> /\ op[t].id \in Ids
  BY OpFacts DEF CancelMark, IndInv
<1>2. CASE Cancellable(op[t].id)
  <2>1. log' = [n \in DOMAIN log |->
                  IF log[n].id = op[t].id /\ log[n].fate = "queued"
                  THEN [log[n] EXCEPT !.fate = "cancelled"]
                  ELSE log[n]]
    BY <1>2 DEF CancelMark
  <2>2. \A n \in DOMAIN log : n \in Queued <=> log[n].fate = "queued"
    BY DEF Queued, PQ!Queued
  <2>3. log' = [n \in DOMAIN log |->
                  IF n \in Queued /\ log[n].id = op[t].id
                  THEN [log[n] EXCEPT !.fate = "cancelled"]
                  ELSE log[n]]
    BY <2>1, <2>2
  <2> QED BY <1>1, <2>3
<1>3. CASE ~Cancellable(op[t].id)
  BY <1>1, <1>3 DEF CancelMark
<1> QED BY <1>2, <1>3

(* The slot pop_next stops at holds the oldest live request of the highest *)
(* priority that has one.                                                  *)
LEMMA ItemPromise ==
    ASSUME IndInv, NEW c \in Consumers, NextItem(c)
    PROVE  /\ UNCHANGED <<closed, drained>>
           /\ \E n \in Queued :
                 /\ \A m \in Queued \ {n} : PQ!ServedBefore(n, m)
                 /\ log' = [log EXCEPT ![n].fate = "delivered"]
<1>1. PICK s \in Slot :
         IsNext(s) /\ log' = [log EXCEPT ![Ticket(s)].fate = "delivered"]
  BY DEF NextItem
<1>2. Ticket(s) \in Queued /\ \A u \in Slot : Before(u, s) => Ticket(u) \notin Queued
  BY <1>1, OneSlotPerId DEF IsNext
<1>3. ASSUME NEW m \in Queued, m # Ticket(s)
      PROVE  PQ!ServedBefore(Ticket(s), m)
  <2>1. PICK u \in Slot : Ticket(u) = m /\ u[1] = log[m].priority
    BY DEF IndInv, NothingLost
  <2>2. Before(s, u)
    BY <1>2, <1>3, <2>1, OneSlotPerId
  <2>3. log[Ticket(s)].priority = s[1]
    BY DEF IndInv, Filed
  <2>4. s[1] = u[1] /\ s[2] < u[2] => Ticket(s) < Ticket(u)
    BY DEF IndInv, Ordered
  <2> QED BY <2>1, <2>2, <2>3, <2>4, SameVocabulary DEF Before, PQ!ServedBefore
<1> QED BY <1>1, <1>2, <1>3 DEF NextItem

LEMMA EmptyPromise ==
    ASSUME IndInv, NEW c \in Consumers, NextEmpty(c)
    PROVE  /\ Queued = {}
           /\ UNCHANGED <<log, closed>>
           /\ drained' = (drained \/ closed)
<1>1. \A s \in Slot : Ticket(s) \notin Queued
  BY OneSlotPerId DEF NextEmpty
<1>2. Queued = {}
  BY <1>1 DEF IndInv, NothingLost
<1> QED BY <1>2 DEF NextEmpty

LEMMA QueueSilent ==
    ASSUME \/ \E t \in Callers :
                 \/ \E id \in Ids, p \in Priority : SubmitBegin(t, id, p)
                 \/ \E id \in Ids : CancelBegin(t, id)
                 \/ SubmitQueueFull(t) \/ SubmitNotify(t) \/ ShutdownWake(t)
           \/ \E c \in Consumers :
                 \/ NextCall(c) \/ AwaitPermit(c) \/ AwaitSignalled(c)
                 \/ AwaitRegister(c) \/ Wake(c) \/ Timeout(c)
    PROVE  UNCHANGED <<log, closed, drained>>
BY DEF SubmitBegin, CancelBegin, SubmitQueueFull, SubmitNotify, ShutdownWake,
       NextCall, AwaitPermit, AwaitSignalled, AwaitRegister, Wake, Timeout, queueVars

LEMMA OpenQueueStep == IndInv /\ [Next]_vars => [OpenPQ!Next]_(OpenPQ!vars)
<1> SUFFICES ASSUME IndInv, [Next]_vars PROVE OpenPQ!Next \/ UNCHANGED OpenPQ!vars
  OBVIOUS
<1>1. ASSUME NEW t \in Callers, SubmitPush(t) PROVE OpenPQ!Next
  <2>1. PICK id \in Ids, p \in Priority : id = op[t].id /\ p = op[t].priority
    BY <1>1, PushPromise
  <2>2. OpenPQ!Put(id, p)
    BY <1>1, <2>1, PushPromise, SameVocabulary DEF OpenPQ!Put, OpenPQ!Queued, Queued, PQ!Queued
  <2> QED BY <2>2, SameVocabulary, Zenon DEF OpenPQ!Next
<1>2. ASSUME NEW t \in Callers, CancelMark(t)
      PROVE  OpenPQ!Next \/ UNCHANGED OpenPQ!vars
  <2>1. CASE UNCHANGED log
    BY <1>2, <2>1, MarkPromise DEF OpenPQ!vars
  <2>2. CASE log' # log
    <3>1. PICK id \in Ids :
             log' = [n \in DOMAIN log |->
                       IF n \in Queued /\ log[n].id = id
                       THEN [log[n] EXCEPT !.fate = "cancelled"]
                       ELSE log[n]]
      BY <1>2, <2>2, MarkPromise
    <3>2. OpenPQ!Cancel(id)
      BY <1>2, <3>1, MarkPromise DEF OpenPQ!Cancel, OpenPQ!Queued, Queued, PQ!Queued
    <3> QED BY <3>2, Zenon DEF OpenPQ!Next
  <2> QED BY <2>1, <2>2
<1>3. ASSUME NEW t \in Callers, ShutdownBegin(t) PROVE OpenPQ!Next
  <2>1. OpenPQ!Close
    BY <1>3 DEF ShutdownBegin, OpenPQ!Close, queueVars
  <2> QED BY <2>1, Zenon DEF OpenPQ!Next
<1>4. ASSUME NEW c \in Consumers, NextItem(c) PROVE OpenPQ!Next
  <2>1. PICK n \in Queued :
           /\ \A m \in Queued \ {n} : PQ!ServedBefore(n, m)
           /\ log' = [log EXCEPT ![n].fate = "delivered"]
    BY <1>4, ItemPromise
  <2>2. n \in DOMAIN log
    BY DEF Queued, PQ!Queued
  <2>3. OpenPQ!Take(n)
    BY <1>4, <2>1, ItemPromise, SameVocabulary
    DEF OpenPQ!Take, OpenPQ!Queued, OpenPQ!ServedBefore, PQ!ServedBefore, Queued, PQ!Queued
  <2> QED BY <2>2, <2>3, Zenon DEF OpenPQ!Next
<1>5. ASSUME NEW c \in Consumers, NextEmpty(c) PROVE UNCHANGED OpenPQ!vars
  BY <1>5, EmptyPromise DEF OpenPQ!vars
<1>6. UNCHANGED <<log, closed, drained>> => UNCHANGED OpenPQ!vars
  BY DEF OpenPQ!vars
<1>7. UNCHANGED vars => UNCHANGED <<log, closed, drained>>
  BY DEF vars
<1> QED
  BY <1>1, <1>2, <1>3, <1>4, <1>5, <1>6, <1>7, QueueSilent DEF Next, Proceed, Loop

(* The Rust scheduler hands requests out in the order of their priority    *)
(* and, within one, of their acceptance, and never holds more of them than *)
(* its capacity: any number of threads, with or without the GIL.           *)
THEOREM RefinesOpenQueue == ASSUME ~MayReuse PROVE Spec => ImplementsOpenQueue
<1>1. Init => OpenPQ!Init
  BY DEF Init, OpenPQ!Init
<1> QED BY <1>1, Invariance, OpenQueueStep, PTL DEF Spec, ImplementsOpenQueue, OpenPQ!Spec

(* What the GIL adds: a shutdown never overlaps a submit, so no submit is  *)
(* under way once the queue is closed, and none can push after a None.     *)
ClosedIsQuiet ==
    /\ drained => closed
    /\ closed => \A t \in Callers : op[t].step # "submit"

LEMMA QuietStep ==
    ASSUME UsesGil, TypeOK, ClosedIsQuiet, [Next]_vars
    PROVE  ClosedIsQuiet'
<1>1. ASSUME NEW t \in Callers, ShutdownBegin(t) PROVE ClosedIsQuiet'
  <2>1. \A u \in Callers : op'[u].step # "submit"
    BY <1>1 DEF ShutdownBegin, Free, Now, Idle, TypeOK
  <2> QED BY <1>1, <2>1 DEF ShutdownBegin, ClosedIsQuiet
<1>2. ASSUME NEW t \in Callers, \E id \in Ids, p \in Priority : SubmitBegin(t, id, p)
      PROVE  ClosedIsQuiet'
  BY <1>2 DEF SubmitBegin, ClosedIsQuiet
<1>3. ASSUME NEW t \in Callers,
             (\E id \in Ids : CancelBegin(t, id)) \/ Proceed(t)
      PROVE  ClosedIsQuiet'
  <2>1. \E o : op' = [op EXCEPT ![t] = o] /\ o.step # "submit"
    <3>1. ASSUME NEW id \in Ids, CancelBegin(t, id)
          PROVE  op' = [op EXCEPT ![t] = [step |-> "cancel", id |-> id]]
      BY <3>1 DEF CancelBegin, Now
    <3>2. Proceed(t) => \/ op' = [op EXCEPT ![t] = [step |-> "idle"]]
                        \/ op' = [op EXCEPT ![t] = [step |-> "notify"]]
      BY DEF Proceed, SubmitQueueFull, SubmitPush, SubmitNotify, CancelMark,
             ShutdownWake, Now, Idle
    <3>3. \A id : [step |-> "cancel", id |-> id].step # "submit"
      OBVIOUS
    <3>4. CASE Proceed(t)
      <4>1. [step |-> "idle"].step # "submit" /\ [step |-> "notify"].step # "submit"
        OBVIOUS
      <4> QED BY <3>2, <3>4, <4>1
    <3>5. CASE \E id \in Ids : CancelBegin(t, id)
      BY <3>1, <3>3, <3>5
    <3> QED BY <1>3, <3>4, <3>5
  <2>2. UNCHANGED <<closed, drained>>
    BY <1>3 DEF CancelBegin, Proceed, SubmitQueueFull, SubmitPush, SubmitNotify,
                CancelMark, ShutdownWake
  <2> QED BY <2>1, <2>2 DEF ClosedIsQuiet, TypeOK
<1>4. ASSUME NEW c \in Consumers, NextCall(c) \/ Loop(c) \/ Timeout(c)
      PROVE  ClosedIsQuiet'
  <2>1. UNCHANGED <<closed, op>> /\ (drained' = drained \/ drained' = (drained \/ closed))
    BY <1>4 DEF NextCall, Loop, Timeout, NextItem, NextEmpty, AwaitPermit,
                AwaitSignalled, AwaitRegister, Wake
  <2>2. drained' => drained \/ closed
    BY <2>1
  <2> QED BY <2>1, <2>2 DEF ClosedIsQuiet
<1>5. CASE UNCHANGED vars
  BY <1>5 DEF vars, ClosedIsQuiet
<1> QED BY <1>1, <1>2, <1>3, <1>4, <1>5 DEF Next

LEMMA QueueStep ==
    IndInv /\ ClosedIsQuiet /\ [Next]_vars => [PQ!Next]_(PQ!vars)
<1> SUFFICES ASSUME IndInv, ClosedIsQuiet, [Next]_vars PROVE PQ!Next \/ UNCHANGED PQ!vars
  OBVIOUS
<1>1. ASSUME NEW t \in Callers, SubmitPush(t) PROVE PQ!Next
  <2>1. PICK id \in Ids, p \in Priority : id = op[t].id /\ p = op[t].priority
    BY <1>1, PushPromise
  <2>2. ~drained
    BY <1>1 DEF ClosedIsQuiet, SubmitPush
  <2>3. PQ!Put(id, p)
    BY <1>1, <2>1, <2>2, PushPromise, SameVocabulary DEF PQ!Put, Queued
  <2> QED BY <2>3, SameVocabulary, Zenon DEF PQ!Next
<1>2. ASSUME NEW t \in Callers, CancelMark(t)
      PROVE  PQ!Next \/ UNCHANGED PQ!vars
  <2>1. CASE UNCHANGED log
    BY <1>2, <2>1, MarkPromise DEF PQ!vars
  <2>2. CASE log' # log
    <3>1. PICK id \in Ids :
             log' = [n \in DOMAIN log |->
                       IF n \in Queued /\ log[n].id = id
                       THEN [log[n] EXCEPT !.fate = "cancelled"]
                       ELSE log[n]]
      BY <1>2, <2>2, MarkPromise
    <3>2. PQ!Cancel(id)
      BY <1>2, <3>1, MarkPromise DEF PQ!Cancel, Queued
    <3> QED BY <3>2, Zenon DEF PQ!Next
  <2> QED BY <2>1, <2>2
<1>3. ASSUME NEW t \in Callers, ShutdownBegin(t) PROVE PQ!Next
  <2>1. PQ!Close
    BY <1>3 DEF ShutdownBegin, PQ!Close, queueVars
  <2> QED BY <2>1, Zenon DEF PQ!Next
<1>4. ASSUME NEW c \in Consumers, NextItem(c) PROVE PQ!Next
  <2>1. PICK n \in Queued :
           /\ \A m \in Queued \ {n} : PQ!ServedBefore(n, m)
           /\ log' = [log EXCEPT ![n].fate = "delivered"]
    BY <1>4, ItemPromise
  <2>2. n \in DOMAIN log
    BY DEF Queued, PQ!Queued
  <2>3. PQ!Take(n)
    BY <1>4, <2>1, ItemPromise DEF PQ!Take, Queued
  <2> QED BY <2>2, <2>3, Zenon DEF PQ!Next
<1>5. ASSUME NEW c \in Consumers, NextEmpty(c)
      PROVE  PQ!Next \/ UNCHANGED PQ!vars
  <2>1. CASE closed
    <3>1. PQ!Finish
      BY <1>5, <2>1, EmptyPromise DEF PQ!Finish, Queued
    <3> QED BY <3>1, Zenon DEF PQ!Next
  <2>2. CASE ~closed
    <3>1. UNCHANGED drained
      BY <1>5, <2>2, EmptyPromise DEF IndInv, TypeOK
    <3> QED BY <1>5, <3>1, EmptyPromise DEF PQ!vars
  <2> QED BY <2>1, <2>2
<1>6. UNCHANGED <<log, closed, drained>> => UNCHANGED PQ!vars
  BY DEF PQ!vars
<1>7. UNCHANGED vars => UNCHANGED <<log, closed, drained>>
  BY DEF vars
<1> QED
  BY <1>1, <1>2, <1>3, <1>4, <1>5, <1>6, <1>7, QueueSilent DEF Next, Proceed, Loop

(* Through the PyO3 wrapper it is the whole priority queue: nothing is     *)
(* accepted once next_blocking() has answered None.                        *)
THEOREM RefinesQueue == ASSUME ~MayReuse, UsesGil PROVE Spec => ImplementsQueue
<1>1. Init => PQ!Init /\ ClosedIsQuiet
  BY DEF Init, PQ!Init, ClosedIsQuiet, Idle
<1>2. IndInv /\ ClosedIsQuiet /\ [Next]_vars => ClosedIsQuiet'
  BY QuietStep DEF IndInv
<1> QED BY <1>1, <1>2, Invariance, QueueStep, PTL DEF Spec, ImplementsQueue, PQ!Spec

-----------------------------------------------------------------------------
(* The wake-ups of Notify, with one consumer *)

(* A consumer that sleeps is on the list of waiters and no permit is       *)
(* stored; while a live request waits, one that sleeps or is about to has  *)
(* its wake-up coming, from a stored permit, a delivered signal, or a      *)
(* submitter that has still to notify.                                     *)
Notifying == \E t \in Callers : op[t].step = "notify"

WakeupInv ==
    \A c \in Consumers :
        /\ Asleep(c) => ~permit /\ \E i \in DOMAIN waiters : waiters[i] = c
        /\ Queued # {} /\ Asleep(c) => Notifying
        /\ Queued # {} /\ pc[c] = "empty" => permit \/ signal[c] # "none" \/ Notifying

LEMMA WakeupInit == Init => WakeupInv
BY DEF Init, WakeupInv, Asleep

(* A step that leaves the Notify alone, adds no live request and takes no  *)
(* submitter's promise to notify back keeps the wake-ups in place.         *)
LEMMA WakeupFrame ==
    ASSUME WakeupInv, UNCHANGED <<notifyVars, pc>>,
           Queued' # {} => Queued # {},
           Notifying => Notifying'
    PROVE  WakeupInv'
BY DEF WakeupInv, notifyVars, Asleep

LEMMA StillNotifying ==
    ASSUME TypeOK, NEW t \in Callers, op[t].step # "notify",
           NEW o, op' = [op EXCEPT ![t] = o], Notifying
    PROVE  Notifying'
<1>1. PICK u \in Callers : op[u].step = "notify"
  BY DEF Notifying
<1>2. op'[u] = op[u]
  BY <1>1 DEF TypeOK
<1> QED BY <1>1, <1>2 DEF Notifying

LEMMA WakeupNotify ==
    ASSUME TypeOK, WakeupInv, \A c, d \in Consumers : c = d,
           NEW t \in Callers, SubmitNotify(t)
    PROVE  WakeupInv'
<1> SUFFICES ASSUME NEW c \in Consumers
             PROVE  /\ ~Asleep(c)'
                    /\ pc'[c] = "empty" => permit' \/ signal'[c] # "none"
  BY DEF WakeupInv
<1>1. UNCHANGED pc /\ NotifyOne(waiters)
  BY DEF SubmitNotify
<1>2. CASE waiters # <<>>
  <2>1. 1 \in DOMAIN waiters /\ waiters[1] = c /\ Asleep(c)
    BY <1>2 DEF TypeOK
  <2>2. signal'[c] = "one"
    BY <1>1, <1>2, <2>1 DEF NotifyOne, TypeOK
  <2> QED BY <2>2 DEF Asleep
<1>3. CASE waiters = <<>>
  BY <1>1, <1>3 DEF NotifyOne, WakeupInv, Asleep
<1> QED BY <1>2, <1>3

LEMMA WakeupConsumer ==
    ASSUME IndInv, WakeupInv, \A c, d \in Consumers : c = d,
           NEW c \in Consumers, NextCall(c) \/ Loop(c) \/ Timeout(c)
    PROVE  WakeupInv'
<1> USE DEF WakeupInv, Asleep
<1>1. pc \in [Consumers -> Place]
  BY DEF IndInv, TypeOK
<1>2. CASE \/ NextCall(c) \/ NextItem(c) \/ AwaitPermit(c) \/ AwaitSignalled(c)
           \/ Wake(c) \/ Timeout(c)
  <2>1. pc'[c] = "armed" \/ pc'[c] = "out"
    BY <1>1, <1>2 DEF NextCall, NextItem, AwaitPermit, AwaitSignalled, Wake, Timeout,
                      Rearm, Goto
  <2> QED BY <2>1
<1>3. CASE NextEmpty(c)
  <2>1. Queued' = {}
    BY <1>3, EmptyPromise DEF Queued, PQ!Queued
  <2>2. pc'[c] # "waiting"
    BY <1>1, <1>3 DEF NextEmpty, Goto
  <2> QED BY <2>1, <2>2
<1>4. CASE AwaitRegister(c)
  <2>1. UNCHANGED <<log, op, permit, signal>> /\ ~permit /\ signal[c] = "none"
        /\ pc[c] = "empty" /\ pc'[c] = "waiting" /\ waiters' = Append(waiters, c)
    BY <1>1, <1>4 DEF AwaitRegister, Goto, queueVars
  <2>2. \E i \in DOMAIN waiters' : waiters'[i] = c
    <3>1. waiters \in Seq(Consumers)
      BY DEF IndInv, TypeOK
    <3>2. Len(waiters) + 1 \in DOMAIN waiters' /\ waiters'[Len(waiters) + 1] = c
      BY <2>1, <3>1, AppendProperties
    <3> QED BY <3>2
  <2>3. Queued' = Queued /\ (Notifying => Notifying')
    BY <2>1 DEF Queued, PQ!Queued, Notifying
  <2> QED BY <2>1, <2>2, <2>3
<1> QED BY <1>2, <1>3, <1>4 DEF Loop

LEMMA WakeupStep ==
    ASSUME IndInv, WakeupInv, \A c, d \in Consumers : c = d, [Next]_vars
    PROVE  WakeupInv'
<1>0. TypeOK
  BY DEF IndInv
<1>1. ASSUME NEW t \in Callers, SubmitPush(t) PROVE WakeupInv'
  <2>1. op' = [op EXCEPT ![t] = [step |-> "notify"]] /\ UNCHANGED <<notifyVars, pc>>
    BY <1>1 DEF SubmitPush, Now
  <2>2. Notifying'
    BY <1>0, <2>1 DEF Notifying, TypeOK
  <2> QED BY <2>1, <2>2 DEF WakeupInv, notifyVars, Asleep
<1>2. ASSUME NEW t \in Callers, SubmitNotify(t) PROVE WakeupInv'
  BY <1>0, <1>2, WakeupNotify
<1>3. ASSUME NEW t \in Callers,
             \/ \E id \in Ids, p \in Priority : SubmitBegin(t, id, p)
             \/ \E id \in Ids : CancelBegin(t, id)
             \/ ShutdownBegin(t) \/ SubmitQueueFull(t) \/ CancelMark(t)
      PROVE  WakeupInv'
  <2>1. op[t].step # "notify" /\ \E o : op' = [op EXCEPT ![t] = o]
    BY <1>3 DEF SubmitBegin, CancelBegin, ShutdownBegin, SubmitQueueFull, CancelMark,
                Free, Now, Idle
  <2>2. Notifying => Notifying'
    BY <1>0, <2>1, StillNotifying
  <2>3. UNCHANGED <<notifyVars, pc>>
    BY <1>3 DEF SubmitBegin, CancelBegin, ShutdownBegin, SubmitQueueFull, CancelMark
  <2>4. Queued' # {} => Queued # {}
    <3>1. CASE CancelMark(t)
      BY <3>1 DEF CancelMark, Queued, PQ!Queued
    <3>2. CASE UNCHANGED log
      BY <3>2 DEF Queued, PQ!Queued
    <3> QED BY <1>3, <3>1, <3>2
            DEF SubmitBegin, CancelBegin, ShutdownBegin, SubmitQueueFull, queueVars
  <2> QED BY <2>2, <2>3, <2>4, WakeupFrame
<1>4. ASSUME NEW t \in Callers, ShutdownWake(t) PROVE WakeupInv'
  <2>1. \A c \in Consumers : pc'[c] # "out" => signal'[c] # "none"
    BY <1>4 DEF ShutdownWake, NotifyAll
  <2> QED BY <2>1 DEF WakeupInv, Asleep
<1>5. ASSUME NEW c \in Consumers, NextCall(c) \/ Loop(c) \/ Timeout(c)
      PROVE  WakeupInv'
  BY <1>5, WakeupConsumer
<1>6. CASE UNCHANGED vars
  <2>1. UNCHANGED <<notifyVars, pc>> /\ Queued' = Queued /\ (Notifying => Notifying')
    BY <1>6 DEF vars, notifyVars, Queued, PQ!Queued, Notifying
  <2> QED BY <2>1, WakeupFrame
<1> QED BY <1>1, <1>2, <1>3, <1>4, <1>5, <1>6 DEF Next, Proceed

(* With one consumer, the engine driver, no wake-up is lost: it never      *)
(* sleeps on a live request unless a submitter has still to notify it.     *)
(* Submits, cancels and shutdowns of any number of threads interleave.     *)
THEOREM WakeupsKept ==
    ASSUME ~MayReuse, \A c, d \in Consumers : c = d
    PROVE  Spec => []NoLostWakeup
<1>1. IndInv /\ WakeupInv /\ [Next]_vars => WakeupInv'
  BY WakeupStep
<1>2. WakeupInv => NoLostWakeup
  BY DEF WakeupInv, NoLostWakeup, Notifying
<1> QED BY <1>1, <1>2, WakeupInit, Invariance, PTL DEF Spec

=============================================================================
