----------------------------- MODULE RuntimeProofs -----------------------------
(***************************************************************************)
(* Theorems about the parts of the runtime that no other module composes:  *)
(* the fallback scheduler, for any set of ids and consumers and any        *)
(* capacity; the latent cache, for any requests, frames and number of      *)
(* pages; the latent planner, for any configurations, clips and plans; and *)
(* the batch engines, for any configurations, steps and distances.         *)
(***************************************************************************)
EXTENDS SchedulerFallback, LatentCache, LatentPlanner, BatchEngine,
        SequenceTheorems, FiniteSetTheorems, WellFoundedInduction, TLAPS

-----------------------------------------------------------------------------
(* Sequences and finite sets *)

LEMMA WithoutFacts ==
    ASSUME NEW S, NEW q \in Seq(S), NEW i \in 1..Len(q)
    PROVE  /\ Without(q, i) \in Seq(S)
           /\ Len(Without(q, i)) = Len(q) - 1
           /\ \A j \in 1..(Len(q) - 1) :
                 /\ (IF j < i THEN j ELSE j + 1) \in 1..Len(q)
                 /\ Without(q, i)[j] = q[IF j < i THEN j ELSE j + 1]
<1>1. Len(q) \in Nat /\ \A j \in 1..Len(q) : q[j] \in S
  BY ElementOfSeq
<1>2. Len(q) - 1 \in Nat
  BY <1>1
<1>3. \A j \in 1..(Len(q) - 1) : (IF j < i THEN j ELSE j + 1) \in 1..Len(q)
  BY <1>1
<1>4. Without(q, i) \in [1..(Len(q) - 1) -> S]
  BY <1>1, <1>3 DEF Without
<1>5. Without(q, i) \in Seq(S)
  BY <1>2, <1>4, SeqDef
<1>6. Len(Without(q, i)) = Len(q) - 1
  BY <1>2, <1>4, <1>5
<1> QED BY <1>3, <1>5, <1>6 DEF Without

LEMMA TailIsWithout ==
    ASSUME NEW S, NEW q \in Seq(S), q # <<>>
    PROVE  Tail(q) = Without(q, 1) /\ Head(q) = q[1] /\ 1 \in 1..Len(q)
<1>1. /\ Tail(q) \in Seq(S) /\ Len(Tail(q)) = Len(q) - 1 /\ Head(q) = q[1]
      /\ \A j \in 1..Len(Tail(q)) : Tail(q)[j] = q[j + 1]
  BY HeadTailProperties
<1>2. 1 \in 1..Len(q) /\ Len(q) \in Nat
  BY EmptySeq, LenProperties
<1>3. /\ Without(q, 1) \in Seq(S) /\ Len(Without(q, 1)) = Len(q) - 1
      /\ \A j \in 1..(Len(q) - 1) : Without(q, 1)[j] = q[j + 1]
  BY <1>2, WithoutFacts
<1>4. Tail(q) = Without(q, 1)
  BY <1>1, <1>3, SeqEqual
<1> QED BY <1>1, <1>2, <1>4

LEMMA SameSize ==
    ASSUME NEW S, NEW T, IsFiniteSet(S), NEW f, f \in [S -> T],
           \A x, y \in S : f[x] = f[y] => x = y,
           \A y \in T : \E x \in S : f[x] = y
    PROVE  IsFiniteSet(T) /\ Cardinality(T) = Cardinality(S)
<1>1. f \in Bijection(S, T)
  BY DEF Bijection, Injection, Surjection, IsInjective
<1>2. ExistsBijection(S, T)
  BY <1>1 DEF ExistsBijection
<1> QED BY <1>2, FS_Bijection

LEMMA DisjointUnion ==
    ASSUME NEW S, NEW T, IsFiniteSet(S), IsFiniteSet(T), S \cap T = {}
    PROVE  /\ IsFiniteSet(S \cup T)
           /\ Cardinality(S \cup T) = Cardinality(S) + Cardinality(T)
           /\ Cardinality(S) \in Nat /\ Cardinality(T) \in Nat
<1>1. /\ IsFiniteSet(S \cup T)
      /\ Cardinality(S \cup T) = Cardinality(S) + Cardinality(T) - Cardinality(S \cap T)
  BY FS_Union
<1>2. Cardinality(S) \in Nat /\ Cardinality(T) \in Nat
  BY FS_CardinalityType
<1>3. Cardinality(S \cap T) = 0
  BY FS_EmptySet
<1> QED BY <1>1, <1>2, <1>3

LEMMA ColumnSize ==
    ASSUME NEW p, NEW n \in Nat
    PROVE  IsFiniteSet({p} \X (1..n)) /\ Cardinality({p} \X (1..n)) = n
<1> DEFINE S == {p}
           T == 1..n
<1>1. IsFiniteSet(T) /\ Cardinality(T) = n
  BY FS_Interval
<1>2. IsFiniteSet(S) /\ Cardinality(S) = 1
  BY FS_Singleton
<1> HIDE DEF S, T
<1>3. IsFiniteSet(S \X T) /\ Cardinality(S \X T) = Cardinality(S) * Cardinality(T)
  BY <1>1, <1>2, FS_Product
<1>4. IsFiniteSet(S \X T) /\ Cardinality(S \X T) = n
  BY <1>1, <1>2, <1>3
<1> QED BY <1>4 DEF S, T

-----------------------------------------------------------------------------
(* The scheduler *)

(* Ids are unique; a deque holds queued requests of its priority in the    *)
(* order of acceptance, every queued request is in a deque, and the id set *)
(* has the ids of the queued requests.  A None of a shut down queue means  *)
(* that nothing is accepted any more.                                      *)
QueueTypes ==
    /\ log \in Seq(Request)
    /\ queues \in [Priority -> Seq(Nat)]
    /\ closed \in BOOLEAN /\ drained \in BOOLEAN

UniqueIds == \A m, n \in DOMAIN log : log[m].id = log[n].id => m = n

Filed ==
    \A p \in Priority : \A i \in 1..Len(queues[p]) :
        queues[p][i] \in Queued /\ log[queues[p][i]].priority = p

Ordered ==
    \A p \in Priority : \A i, j \in 1..Len(queues[p]) :
        i < j => queues[p][i] < queues[p][j]

NothingLost ==
    \A n \in Queued : \E i \in 1..Len(queues[log[n].priority]) :
        queues[log[n].priority][i] = n

QueueInv ==
    /\ QueueTypes /\ UniqueIds /\ Filed /\ Ordered /\ NothingLost
    /\ known = {log[n].id : n \in Queued}
    /\ drained => closed

LEMMA QueueInit == Init => QueueInv
<1> SUFFICES ASSUME Init PROVE QueueInv
  OBVIOUS
<1>1. log = <<>> /\ DOMAIN log = {} /\ Queued = {}
  BY DEF Init, Queued, PQ!Queued
<1>2. /\ queues \in [Priority -> Seq(Nat)]
      /\ \A p \in Priority : 1..Len(queues[p]) = {}
  BY DEF Init
<1>3. QueueTypes /\ UniqueIds
  <2>1. log \in Seq(Request)
    BY <1>1, EmptySeq
  <2> QED BY <1>1, <1>2, <2>1 DEF Init, QueueTypes, UniqueIds
<1>4. Filed /\ Ordered /\ NothingLost
  BY <1>1, <1>2 DEF Filed, Ordered, NothingLost
<1> QED BY <1>1, <1>3, <1>4 DEF Init, QueueInv

LEMMA QueueFrame == QueueInv /\ UNCHANGED <<log, queues, known, closed, drained>> => QueueInv'
<1> SUFFICES ASSUME QueueInv, UNCHANGED <<log, queues, known, closed, drained>> PROVE QueueInv'
  OBVIOUS
<1>1. Queued' = Queued
  BY DEF Queued, PQ!Queued
<1>2. QueueTypes' /\ UniqueIds'
  BY DEF QueueInv, QueueTypes, UniqueIds
<1>3. Filed'
  BY <1>1 DEF QueueInv, Filed
<1>4. Ordered'
  BY DEF QueueInv, Ordered
<1>5. NothingLost'
  BY <1>1 DEF QueueInv, NothingLost
<1> QED BY <1>1, <1>2, <1>3, <1>4, <1>5 DEF QueueInv

LEMMA LogFacts ==
    ASSUME QueueInv
    PROVE  /\ DOMAIN log = 1..Len(log) /\ Len(log) \in Nat
           /\ \A n \in DOMAIN log : log[n] \in Request /\ n \in Nat
           /\ \A p \in Priority : Len(queues[p]) \in Nat
                 /\ DOMAIN queues[p] = 1..Len(queues[p])
           /\ \A n \in Queued : n \in DOMAIN log /\ log[n].priority \in Priority
<1>1. QueueTypes
  BY DEF QueueInv
<1>2. /\ DOMAIN log = 1..Len(log) /\ Len(log) \in Nat
      /\ \A n \in DOMAIN log : log[n] \in Request
  BY <1>1 DEF QueueTypes
<1>3. \A p \in Priority : Len(queues[p]) \in Nat /\ DOMAIN queues[p] = 1..Len(queues[p])
  BY <1>1 DEF QueueTypes
<1>4. \A n \in Queued : n \in DOMAIN log
  BY DEF Queued, PQ!Queued
<1> QED BY <1>2, <1>3, <1>4 DEF Request

LEMMA QueueSubmit ==
    ASSUME QueueInv, NEW id \in Ids, NEW p \in Priority, Submit(id, p)
    PROVE  QueueInv' /\ \E n : n \notin Queued /\ Queued' = Queued \cup {n}
<1>p. PICK n : n = Len(log) + 1
  OBVIOUS
<1>1. /\ log' \in Seq(Request) /\ n \in Nat
      /\ DOMAIN log' = DOMAIN log \cup {n} /\ n \notin DOMAIN log
      /\ \A m \in DOMAIN log : log'[m] = log[m] /\ m < n
      /\ log'[n] = [id |-> id, priority |-> p, fate |-> "queued"]
      /\ \A m \in DOMAIN log : log[m].id # id
  <2>1. log \in Seq(Request) /\ log' = Append(log, [id |-> id, priority |-> p, fate |-> "queued"])
        /\ \A m \in DOMAIN log : log[m].id # id
    BY DEF Submit, QueueInv, QueueTypes
  <2>2. [id |-> id, priority |-> p, fate |-> "queued"] \in Request
    BY DEF Request, Fate
  <2>3. /\ log' \in Seq(Request) /\ Len(log') = Len(log) + 1
        /\ \A m \in 1..Len(log) : log'[m] = log[m]
        /\ log'[Len(log) + 1] = [id |-> id, priority |-> p, fate |-> "queued"]
    BY <2>1, <2>2, AppendProperties
  <2>4. DOMAIN log' = 1..Len(log')
    BY <2>3
  <2> QED BY <1>p, <2>1, <2>3, <2>4, LogFacts
<1>2. Queued' = Queued \cup {n}
  BY <1>1 DEF Queued, PQ!Queued
<1>3. /\ queues' \in [Priority -> Seq(Nat)]
      /\ \A r \in Priority : r # p => queues'[r] = queues[r]
      /\ Len(queues'[p]) = Len(queues[p]) + 1
      /\ queues'[p][Len(queues[p]) + 1] = n
      /\ \A i \in 1..Len(queues[p]) : queues'[p][i] = queues[p][i]
  <2>1. queues' = [queues EXCEPT ![p] = Append(queues[p], n)] /\ queues[p] \in Seq(Nat)
    BY <1>p DEF Submit, QueueInv, QueueTypes
  <2>2. /\ Append(queues[p], n) \in Seq(Nat)
        /\ Len(Append(queues[p], n)) = Len(queues[p]) + 1
        /\ \A i \in 1..Len(queues[p]) : Append(queues[p], n)[i] = queues[p][i]
        /\ Append(queues[p], n)[Len(queues[p]) + 1] = n
    BY <1>1, <2>1, AppendProperties
  <2> QED BY <2>1, <2>2 DEF QueueInv, QueueTypes
<1>4. \A r \in Priority : \A i \in 1..Len(queues'[r]) :
         \/ r = p /\ i = Len(queues[p]) + 1 /\ queues'[r][i] = n
         \/ i \in 1..Len(queues[r]) /\ queues'[r][i] = queues[r][i]
  <2> TAKE r \in Priority
  <2> TAKE i \in 1..Len(queues'[r])
  <2>1. CASE r # p
    BY <1>3, <2>1
  <2>2. CASE r = p
    <3>1. i \in 1..Len(queues[p]) \/ i = Len(queues[p]) + 1
      BY <1>3, <2>2, LogFacts
    <3> QED BY <1>3, <2>2, <3>1
  <2> QED BY <2>1, <2>2
<1>5. \A r \in Priority : 1..Len(queues[r]) \subseteq 1..Len(queues'[r])
         /\ \A i \in 1..Len(queues[r]) : queues'[r][i] = queues[r][i]
  <2> TAKE r \in Priority
  <2>1. CASE r # p
    BY <1>3, <2>1
  <2>2. CASE r = p
    BY <1>3, <2>2, LogFacts
  <2> QED BY <2>1, <2>2
<1>6. \A m, k \in DOMAIN log' : log'[m].id = log'[k].id => m = k
  BY <1>1 DEF QueueInv, UniqueIds
<1>7. \A r \in Priority : \A i \in 1..Len(queues'[r]) :
         queues'[r][i] \in Queued' /\ log'[queues'[r][i]].priority = r
  <2> TAKE r \in Priority
  <2> TAKE i \in 1..Len(queues'[r])
  <2>1. CASE r = p /\ queues'[r][i] = n
    BY <1>1, <1>2, <2>1
  <2>2. CASE i \in 1..Len(queues[r]) /\ queues'[r][i] = queues[r][i]
    BY <1>1, <1>2, <2>2, LogFacts DEF QueueInv, Filed
  <2> QED BY <1>4, <2>1, <2>2
<1>8. \A r \in Priority : \A i, j \in 1..Len(queues'[r]) :
         i < j => queues'[r][i] < queues'[r][j]
  <2> TAKE r \in Priority
  <2> TAKE i, j \in 1..Len(queues'[r])
  <2> HAVE i < j
  <2>1. i \in 1..Len(queues[r]) /\ queues'[r][i] = queues[r][i]
    <3>1. ~(r = p /\ i = Len(queues[p]) + 1)
      BY <1>3, LogFacts
    <3> QED BY <1>4, <3>1
  <2>2. queues[r][i] \in DOMAIN log
    BY <2>1, LogFacts DEF QueueInv, Filed
  <2>3. CASE r = p /\ j = Len(queues[p]) + 1 /\ queues'[r][j] = n
    BY <1>1, <2>1, <2>2, <2>3
  <2>4. CASE j \in 1..Len(queues[r]) /\ queues'[r][j] = queues[r][j]
    BY <2>1, <2>4 DEF QueueInv, Ordered
  <2> QED BY <1>4, <2>3, <2>4
<1>9. \A m \in Queued' : \E i \in 1..Len(queues'[log'[m].priority]) :
         queues'[log'[m].priority][i] = m
  <2> TAKE m \in Queued'
  <2>1. CASE m = n
    <3>1. Len(queues[p]) + 1 \in 1..Len(queues'[p])
      BY <1>3, LogFacts
    <3> QED BY <1>1, <1>3, <2>1, <3>1
  <2>2. CASE m \in Queued
    <3>1. log'[m].priority = log[m].priority /\ log[m].priority \in Priority
      BY <1>1, <2>2, LogFacts
    <3>2. PICK i \in 1..Len(queues[log[m].priority]) : queues[log[m].priority][i] = m
      BY <2>2 DEF QueueInv, NothingLost
    <3> QED BY <1>5, <3>1, <3>2
  <2> QED BY <1>2, <2>1, <2>2
<1>10. known' = {log'[m].id : m \in Queued'}
  <2>1. known' = known \cup {id} /\ \A m \in Queued : log'[m].id = log[m].id
    BY <1>1, LogFacts DEF Submit
  <2> QED BY <1>1, <1>2, <2>1 DEF QueueInv
<1>11. UNCHANGED <<closed, drained>>
  BY DEF Submit
<1>12. n \notin Queued
  BY <1>1, LogFacts
<1> QED
  BY <1>1, <1>2, <1>12, <1>3, <1>6, <1>7, <1>8, <1>9, <1>10, <1>11
  DEF QueueInv, QueueTypes, UniqueIds, Filed, Ordered, NothingLost

(* What cancel() and a pop have in common: a queued request leaves.        *)
Leaves(p, i, fate) ==
    /\ queues' = [queues EXCEPT ![p] = Without(@, i)]
    /\ log' = [log EXCEPT ![queues[p][i]].fate = fate]
    /\ known' = known \ {log[queues[p][i]].id}
    /\ UNCHANGED <<closed, drained>>

LEMMA QueueLeaves ==
    ASSUME QueueInv, NEW p \in Priority, NEW i \in 1..Len(queues[p]),
           NEW f \in {"delivered", "cancelled"}, Leaves(p, i, f)
    PROVE  /\ QueueInv'
           /\ queues[p][i] \in Queued /\ Queued' = Queued \ {queues[p][i]}
<1>p. PICK n : n = queues[p][i]
  OBVIOUS
<1>1. n \in Queued /\ n \in DOMAIN log /\ log[n].priority = p
  BY <1>p, LogFacts DEF QueueInv, Filed
<1>2. /\ log' \in Seq(Request) /\ DOMAIN log' = DOMAIN log
      /\ \A m \in DOMAIN log :
            /\ log'[m].id = log[m].id
            /\ log'[m].priority = log[m].priority
            /\ log'[m].fate = IF m = n THEN f ELSE log[m].fate
  <2>1. log' = [log EXCEPT ![n] = [log[n] EXCEPT !.fate = f]] /\ log \in Seq(Request)
    BY <1>p DEF Leaves, QueueInv, QueueTypes
  <2>2. /\ [log[n] EXCEPT !.fate = f] \in Request
        /\ [log[n] EXCEPT !.fate = f].id = log[n].id
        /\ [log[n] EXCEPT !.fate = f].priority = log[n].priority
        /\ [log[n] EXCEPT !.fate = f].fate = f
    BY <1>1, LogFacts DEF Request, Fate
  <2>3. n \in 1..Len(log)
    BY <1>1, LogFacts
  <2>4. log' \in Seq(Request) /\ DOMAIN log' = DOMAIN log
    BY <2>1, <2>2, <2>3, ExceptSeq
  <2> QED BY <1>1, <2>1, <2>2, <2>4
<1>3. Queued' = Queued \ {n}
  BY <1>1, <1>2 DEF Queued, PQ!Queued
<1> DEFINE at(r, j) == IF r # p \/ j < i THEN j ELSE j + 1
<1>4. /\ queues' \in [Priority -> Seq(Nat)]
      /\ \A r \in Priority : r # p => queues'[r] = queues[r]
      /\ Len(queues'[p]) = Len(queues[p]) - 1
      /\ \A j \in 1..(Len(queues[p]) - 1) :
            /\ (IF j < i THEN j ELSE j + 1) \in 1..Len(queues[p])
            /\ queues'[p][j] = queues[p][IF j < i THEN j ELSE j + 1]
  <2>1. queues' = [queues EXCEPT ![p] = Without(queues[p], i)] /\ queues[p] \in Seq(Nat)
    BY DEF Leaves, QueueInv, QueueTypes
  <2>2. /\ Without(queues[p], i) \in Seq(Nat)
        /\ Len(Without(queues[p], i)) = Len(queues[p]) - 1
        /\ \A j \in 1..(Len(queues[p]) - 1) :
              /\ (IF j < i THEN j ELSE j + 1) \in 1..Len(queues[p])
              /\ Without(queues[p], i)[j] = queues[p][IF j < i THEN j ELSE j + 1]
    BY <2>1, WithoutFacts
  <2> QED BY <2>1, <2>2 DEF QueueInv, QueueTypes
<1>5. \A r \in Priority : \A j \in 1..Len(queues'[r]) :
         /\ at(r, j) \in 1..Len(queues[r])
         /\ queues'[r][j] = queues[r][at(r, j)]
         /\ r = p => at(r, j) # i
  <2> TAKE r \in Priority
  <2> TAKE j \in 1..Len(queues'[r])
  <2>1. CASE r # p
    BY <1>4, <2>1
  <2>2. CASE r = p
    BY <1>4, <2>2, LogFacts
  <2> QED BY <2>1, <2>2
<1>6. \A m, k \in DOMAIN log' : log'[m].id = log'[k].id => m = k
  BY <1>2 DEF QueueInv, UniqueIds
<1>7. \A r \in Priority : \A j \in 1..Len(queues'[r]) :
         queues'[r][j] \in Queued' /\ log'[queues'[r][j]].priority = r
  <2> TAKE r \in Priority
  <2> TAKE j \in 1..Len(queues'[r])
  <2>1. PICK k \in 1..Len(queues[r]) : queues'[r][j] = queues[r][k] /\ (r = p => k # i)
    BY <1>5
  <2>2. queues[r][k] \in Queued /\ log[queues[r][k]].priority = r
    BY DEF QueueInv, Filed
  <2>3. queues[r][k] # n
    <3>1. CASE r # p
      BY <1>1, <2>2, <3>1
    <3>2. CASE r = p
      <4>1. k < i \/ i < k
        BY <2>1, <3>2, LogFacts
      <4>2. queues[p][k] < n \/ n < queues[p][k]
        BY <1>p, <3>2, <4>1 DEF QueueInv, Ordered
      <4>3. n \in Nat
        BY <1>1, LogFacts
      <4> QED BY <3>2, <4>2, <4>3
    <3> QED BY <3>1, <3>2
  <2> QED BY <1>2, <1>3, <2>1, <2>2, <2>3, LogFacts
<1>8. \A r \in Priority : \A j, k \in 1..Len(queues'[r]) :
         j < k => queues'[r][j] < queues'[r][k]
  <2> TAKE r \in Priority
  <2> TAKE j, k \in 1..Len(queues'[r])
  <2> HAVE j < k
  <2>1. at(r, j) < at(r, k)
    <3>1. j \in Int /\ k \in Int /\ i \in Int
      OBVIOUS
    <3> QED BY <3>1
  <2>2. /\ at(r, j) \in 1..Len(queues[r]) /\ queues'[r][j] = queues[r][at(r, j)]
        /\ at(r, k) \in 1..Len(queues[r]) /\ queues'[r][k] = queues[r][at(r, k)]
    BY <1>5
  <2> HIDE DEF at
  <2> QED BY <2>1, <2>2 DEF QueueInv, Ordered
<1>9. \A m \in Queued' : \E j \in 1..Len(queues'[log'[m].priority]) :
         queues'[log'[m].priority][j] = m
  <2> TAKE m \in Queued'
  <2>1. m \in Queued /\ m # n /\ log'[m].priority = log[m].priority
    BY <1>2, <1>3, LogFacts
  <2>2. PICK r \in Priority : r = log[m].priority
    BY <2>1, LogFacts
  <2>3. PICK k \in 1..Len(queues[r]) : queues[r][k] = m
    BY <2>1, <2>2 DEF QueueInv, NothingLost
  <2>4. CASE r # p
    BY <1>4, <2>1, <2>2, <2>3, <2>4
  <2>5. CASE r = p
    <3>1. k # i /\ k \in 1..Len(queues[p])
      BY <1>p, <2>1, <2>3, <2>5
    <3> DEFINE j == IF k < i THEN k ELSE k - 1
    <3>2. j \in 1..(Len(queues[p]) - 1) /\ (IF j < i THEN j ELSE j + 1) = k
      BY <3>1, LogFacts
    <3> HIDE DEF j
    <3>3. queues'[p][j] = m /\ j \in 1..Len(queues'[p])
      BY <1>4, <2>3, <2>5, <3>2
    <3> QED BY <2>1, <2>2, <2>5, <3>3
  <2> QED BY <2>4, <2>5
<1>10. known' = {log'[m].id : m \in Queued'}
  <2>1. known' = known \ {log[n].id} /\ \A m \in Queued : log'[m].id = log[m].id
    BY <1>p, <1>2, LogFacts DEF Leaves
  <2>2. \A m \in Queued : log[m].id = log[n].id => m = n
    BY <1>1, LogFacts DEF QueueInv, UniqueIds
  <2> QED BY <1>3, <2>1, <2>2 DEF QueueInv
<1>11. UNCHANGED <<closed, drained>>
  BY DEF Leaves
<1> QED
  BY <1>p, <1>1, <1>2, <1>3, <1>4, <1>6, <1>7, <1>8, <1>9, <1>10, <1>11
  DEF QueueInv, QueueTypes, UniqueIds, Filed, Ordered, NothingLost

LEMMA CancelLeaves ==
    ASSUME QueueInv, NEW id \in Ids, Cancel(id)
    PROVE  \E p \in Priority : \E i \in 1..Len(queues[p]) :
              log[queues[p][i]].id = id /\ Leaves(p, i, "cancelled")
<1>1. PICK p \in Priority : \E i \in DOMAIN queues[p] :
         /\ log[queues[p][i]].id = id
         /\ queues' = [queues EXCEPT ![p] = Without(@, i)]
         /\ log' = [log EXCEPT ![queues[p][i]].fate = "cancelled"]
  BY DEF Cancel
<1>2. PICK i \in 1..Len(queues[p]) :
         /\ log[queues[p][i]].id = id
         /\ queues' = [queues EXCEPT ![p] = Without(@, i)]
         /\ log' = [log EXCEPT ![queues[p][i]].fate = "cancelled"]
  BY <1>1, LogFacts
<1>3. known' = known \ {id} /\ UNCHANGED <<closed, drained>>
  BY DEF Cancel, Forgotten
<1> QED BY <1>2, <1>3 DEF Leaves

LEMMA ItemLeaves ==
    ASSUME QueueInv, NEW c \in Consumers, NextItem(c)
    PROVE  \E p \in Priority :
              IsFirst(p) /\ 1 \in 1..Len(queues[p]) /\ Leaves(p, 1, "delivered")
<1>1. PICK p \in Priority :
         /\ IsFirst(p)
         /\ queues' = [queues EXCEPT ![p] = Tail(queues[p])]
         /\ log' = [log EXCEPT ![Head(queues[p])].fate = "delivered"]
         /\ known' = known \ {log[Head(queues[p])].id}
  BY DEF NextItem
<1>2. queues[p] \in Seq(Nat) /\ queues[p] # <<>>
  BY <1>1 DEF IsFirst, QueueInv, QueueTypes
<1>3. Tail(queues[p]) = Without(queues[p], 1) /\ Head(queues[p]) = queues[p][1]
      /\ 1 \in 1..Len(queues[p])
  BY <1>2, TailIsWithout
<1>4. UNCHANGED <<closed, drained>>
  BY DEF NextItem
<1> QED BY <1>1, <1>3, <1>4 DEF Leaves

LEMMA SizeIsLive ==
    ASSUME QueueInv
    PROVE  IsFiniteSet(Queued) /\ Cardinality(Queued) = Size /\ Size \in Nat
<1> DEFINE column(p) == {p} \X (1..Len(queues[p]))
           slot == UNION {column(p) : p \in Priority}
           at == [s \in slot |-> queues[s[1]][s[2]]]
<1>1. \A p \in Priority : Len(queues[p]) \in Nat
  BY LogFacts
<1>2. \A p \in Priority : IsFiniteSet(column(p)) /\ Cardinality(column(p)) = Len(queues[p])
  BY <1>1, ColumnSize
<1>3. PICK h, m, l : h = Len(queues["high"]) /\ m = Len(queues["normal"])
                     /\ l = Len(queues["low"])
  OBVIOUS
<1>4. h \in Nat /\ m \in Nat /\ l \in Nat /\ Size = h + m + l
  BY <1>1, <1>3 DEF Size, Priority
<1>5. IsFiniteSet(slot) /\ Cardinality(slot) = Size
  <2> DEFINE two == column("high") \cup column("normal")
  <2>1. slot = two \cup column("low")
    BY DEF Priority
  <2>2. column("high") \cap column("normal") = {} /\ two \cap column("low") = {}
    <3>1. \A p, q : p # q => column(p) \cap column(q) = {}
      OBVIOUS
    <3>2. "high" # "normal" /\ "high" # "low" /\ "normal" # "low"
      OBVIOUS
    <3> HIDE DEF column
    <3> QED BY <3>1, <3>2
  <2>3. /\ IsFiniteSet(column("high")) /\ Cardinality(column("high")) = h
        /\ IsFiniteSet(column("normal")) /\ Cardinality(column("normal")) = m
        /\ IsFiniteSet(column("low")) /\ Cardinality(column("low")) = l
    <3> HIDE DEF column
    <3> QED BY <1>2, <1>3 DEF Priority
  <2> HIDE DEF column, slot
  <2>4. IsFiniteSet(two) /\ Cardinality(two) = h + m
    BY <2>2, <2>3, DisjointUnion
  <2> HIDE DEF two
  <2>5. IsFiniteSet(slot) /\ Cardinality(slot) = (h + m) + l
    BY <2>1, <2>2, <2>3, <2>4, DisjointUnion
  <2> QED BY <1>4, <2>5
<1>6. \A s \in slot : s = <<s[1], s[2]>> /\ s[1] \in Priority /\ s[2] \in 1..Len(queues[s[1]])
  OBVIOUS
<1>7. at \in [slot -> Queued]
  <2>1. \A s \in slot : queues[s[1]][s[2]] \in Queued
    BY <1>6 DEF QueueInv, Filed
  <2> QED BY <2>1
<1>8. \A s, t \in slot : at[s] = at[t] => s = t
  <2> TAKE s, t \in slot
  <2> HAVE at[s] = at[t]
  <2>1. s[1] = t[1]
    BY <1>6 DEF QueueInv, Filed
  <2>2. s[2] \in Int /\ t[2] \in Int /\ queues[s[1]][s[2]] = queues[t[1]][t[2]]
        /\ queues[s[1]][s[2]] \in Nat
    BY <1>6, <1>7, LogFacts DEF QueueInv, QueueTypes
  <2>3. ~(s[2] < t[2]) /\ ~(t[2] < s[2])
    BY <1>6, <2>1, <2>2 DEF QueueInv, Ordered
  <2> QED BY <1>6, <2>1, <2>2, <2>3
<1>9. \A n \in Queued : \E s \in slot : at[s] = n
  <2> TAKE n \in Queued
  <2>1. PICK i \in 1..Len(queues[log[n].priority]) : queues[log[n].priority][i] = n
    BY DEF QueueInv, NothingLost
  <2>2. <<log[n].priority, i>> \in slot
    BY LogFacts
  <2> QED BY <2>1, <2>2
<1> HIDE DEF slot, at
<1>10. IsFiniteSet(Queued) /\ Cardinality(Queued) = Cardinality(slot)
  BY <1>5, <1>7, <1>8, <1>9, SameSize
<1>11. Size \in Nat
  BY <1>4
<1> QED BY <1>5, <1>10, <1>11

LEMMA EmptyIsEmpty ==
    ASSUME QueueInv, Size = 0
    PROVE  Queued = {}
<1>1. IsFiniteSet(Queued) /\ Cardinality(Queued) = 0
  BY SizeIsLive
<1> QED BY <1>1, FS_EmptySet

LEMMA QueueStep == QueueInv /\ [Next]_vars => QueueInv'
<1> SUFFICES ASSUME QueueInv, [Next]_vars PROVE QueueInv'
  OBVIOUS
<1>1. ASSUME NEW id \in Ids, NEW p \in Priority, Submit(id, p) PROVE QueueInv'
  BY <1>1, QueueSubmit
<1>2. ASSUME NEW id \in Ids, Cancel(id) PROVE QueueInv'
  BY <1>2, CancelLeaves, QueueLeaves
<1>3. ASSUME NEW c \in Consumers, NextItem(c) PROVE QueueInv'
  BY <1>3, ItemLeaves, QueueLeaves
<1>4. CASE Shutdown \/ \E c \in Consumers : NextNone(c)
  <2>1. UNCHANGED <<log, queues, known>>
    BY <1>4 DEF Shutdown, NextNone
  <2>2. closed' \in BOOLEAN /\ drained' \in BOOLEAN /\ (drained' => closed')
    BY <1>4 DEF Shutdown, NextNone, QueueInv, QueueTypes
  <2> QED BY <2>1, <2>2
          DEF QueueInv, QueueTypes, UniqueIds, Filed, Ordered, NothingLost, Queued, PQ!Queued
<1>5. CASE \E c \in Consumers : NextCall(c) \/ NextWait(c) \/ WaitTimeout(c)
  BY <1>5, QueueFrame DEF NextCall, NextWait, WaitTimeout
<1>6. CASE UNCHANGED vars
  BY <1>6, QueueFrame DEF vars
<1> QED BY <1>1, <1>2, <1>3, <1>4, <1>5, <1>6 DEF Next

-----------------------------------------------------------------------------
(* The queue it implements *)

LEMMA SameVocabulary ==
    /\ PQ!Priority = Priority /\ PQ!Rank = Rank
    /\ \A S : PQ!Cardinality(S) = Cardinality(S)
<1>1. PQ!Priority = Priority
  BY DEF PQ!Priority, Priority
<1>2. PQ!Rank = Rank
  BY DEF PQ!Rank, Rank, PQ!Priority, Priority
<1>3. ASSUME NEW S PROVE PQ!Cardinality(S) = Cardinality(S)
  BY DEF PQ!Cardinality, Cardinality
<1> QED BY <1>1, <1>2, <1>3

LEMMA StepIsQueued == QueueInv /\ [Next]_vars => [PQ!Next]_(PQ!vars)
<1> SUFFICES ASSUME QueueInv, [Next]_vars PROVE PQ!Next \/ UNCHANGED PQ!vars
  OBVIOUS
<1>1. ASSUME NEW id \in Ids, NEW p \in Priority, Submit(id, p) PROVE PQ!Next
  <2>1. ~drained
    BY <1>1 DEF Submit, QueueInv
  <2>2. Cardinality(Queued) < Capacity
    BY <1>1, SizeIsLive DEF Submit, Room
  <2>3. PQ!Put(id, p)
    BY <1>1, <2>1, <2>2, SameVocabulary DEF Submit, PQ!Put, Queued
  <2> QED BY <2>3, SameVocabulary, Zenon DEF PQ!Next
<1>2. ASSUME NEW id \in Ids, Cancel(id) PROVE PQ!Next
  <2>p. PICK p \in Priority : \E i \in 1..Len(queues[p]) :
           log[queues[p][i]].id = id /\ Leaves(p, i, "cancelled")
    BY <1>2, CancelLeaves
  <2>1. PICK i \in 1..Len(queues[p]) :
           log[queues[p][i]].id = id /\ Leaves(p, i, "cancelled")
    BY <2>p
  <2>2. PICK n : n = queues[p][i]
    OBVIOUS
  <2>3. n \in Queued /\ n \in DOMAIN log
    BY <2>2, LogFacts DEF QueueInv, Filed
  <2>4. \A m \in DOMAIN log : m \in Queued /\ log[m].id = id <=> m = n
    BY <2>1, <2>2, <2>3 DEF QueueInv, UniqueIds
  <2>5. log' = [log EXCEPT ![n].fate = "cancelled"]
    BY <2>1, <2>2 DEF Leaves
  <2>6. log' = [m \in DOMAIN log |->
                  IF m \in Queued /\ log[m].id = id
                  THEN [log[m] EXCEPT !.fate = "cancelled"]
                  ELSE log[m]]
    BY <2>3, <2>4, <2>5
  <2>7. PQ!Cancel(id)
    BY <2>1, <2>6 DEF Leaves, PQ!Cancel, Queued
  <2> QED BY <2>7, Zenon DEF PQ!Next
<1>3. CASE Shutdown
  <2>1. PQ!Close
    BY <1>3 DEF Shutdown, PQ!Close
  <2> QED BY <2>1, Zenon DEF PQ!Next
<1>4. ASSUME NEW c \in Consumers, NextItem(c) PROVE PQ!Next
  <2>1. PICK p \in Priority :
           IsFirst(p) /\ 1 \in 1..Len(queues[p]) /\ Leaves(p, 1, "delivered")
    BY <1>4, ItemLeaves
  <2>2. PICK n : n = queues[p][1]
    OBVIOUS
  <2>3. n \in Queued /\ n \in DOMAIN log /\ log[n].priority = p
    BY <2>1, <2>2, LogFacts DEF QueueInv, Filed
  <2>4. ASSUME NEW m \in Queued, m # n PROVE PQ!ServedBefore(n, m)
    <3>1. PICK q \in Priority : q = log[m].priority
      BY LogFacts
    <3>2. PICK k \in 1..Len(queues[q]) : queues[q][k] = m
      BY <3>1 DEF QueueInv, NothingLost
    <3>3. CASE q = p
      <4>1. 1 < k
        BY <2>2, <2>4, <3>2, <3>3
      <4>2. n < m
        BY <2>1, <2>2, <3>2, <3>3, <4>1 DEF QueueInv, Ordered
      <4> QED BY <2>3, <3>1, <3>3, <4>2 DEF PQ!ServedBefore
    <3>4. CASE q # p
      <4>1. ~(Rank[q] < Rank[p])
        <5>1. Len(queues[q]) # 0
          BY <3>2, LogFacts
        <5>2. queues[q] # <<>>
          BY <5>1
        <5> QED BY <2>1, <5>2 DEF IsFirst
      <4>2. Rank[p] < Rank[q]
        BY <3>4, <4>1 DEF Rank, Priority
      <4> QED BY <2>3, <3>1, <4>2, SameVocabulary DEF PQ!ServedBefore
    <3> QED BY <3>3, <3>4
  <2>5. PQ!Take(n)
    BY <2>1, <2>2, <2>3, <2>4 DEF Leaves, PQ!Take, Queued
  <2> QED BY <2>3, <2>5, Zenon DEF PQ!Next
<1>5. ASSUME NEW c \in Consumers, NextNone(c) PROVE PQ!Next \/ UNCHANGED PQ!vars
  <2>1. CASE closed
    <3>1. Queued = {}
      BY <1>5, EmptyIsEmpty DEF NextNone
    <3>2. PQ!Finish
      BY <1>5, <2>1, <3>1 DEF NextNone, PQ!Finish, Queued
    <3> QED BY <3>2, Zenon DEF PQ!Next
  <2>2. CASE ~closed
    BY <1>5, <2>2 DEF NextNone, PQ!vars, QueueInv, QueueTypes
  <2> QED BY <2>1, <2>2
<1>6. CASE \E c \in Consumers : NextCall(c) \/ NextWait(c) \/ WaitTimeout(c)
  BY <1>6 DEF NextCall, NextWait, WaitTimeout, PQ!vars
<1>7. CASE UNCHANGED vars
  BY <1>7 DEF vars, PQ!vars
<1> QED BY <1>1, <1>2, <1>3, <1>4, <1>5, <1>6, <1>7 DEF Next

(* The Python scheduler implements the same priority queue as the Rust     *)
(* one, for any ids, consumers and capacity.                               *)
THEOREM RefinesQueue == Spec => ImplementsQueue
<1>1. Init => PQ!Init
  BY DEF Init, PQ!Init
<1> QED BY <1>1, QueueInit, QueueStep, StepIsQueued, PTL
        DEF Spec, ImplementsQueue, PQ!Spec

-----------------------------------------------------------------------------
(* The consumers that sleep in wait() *)

AwakeSet == {c \in Consumers : pc[c] = "awake"}

(* The Condition lists the sleepers, each once.  As long as somebody       *)
(* sleeps, there is an awake consumer for every queued request; nobody     *)
(* sleeps on a scheduler that is shut down.                                *)
SleepInv ==
    /\ pc \in [Consumers -> {"out", "awake", "waiting"}]
    /\ waiters \in Seq(Consumers)
    /\ \A i \in 1..Len(waiters) : pc[waiters[i]] = "waiting"
    /\ \A i, j \in 1..Len(waiters) : waiters[i] = waiters[j] => i = j
    /\ closed => waiters = <<>>
    /\ ~closed => IsFiniteSet(AwakeSet)
    /\ waiters # <<>> => Cardinality(Queued) <= Cardinality(AwakeSet)

LEMMA SleepInit == Init => SleepInv
<1> SUFFICES ASSUME Init PROVE SleepInv
  OBVIOUS
<1>1. AwakeSet = {} /\ waiters = <<>> /\ waiters \in Seq(Consumers)
      /\ 1..Len(waiters) = {} /\ pc \in [Consumers -> {"out", "awake", "waiting"}]
  BY EmptySeq DEF Init, AwakeSet
<1> QED BY <1>1, FS_EmptySet DEF SleepInv

(* The list without one of its sleepers, who is awake or gone.             *)
LEMMA SleepWithout ==
    ASSUME SleepInv, NEW i \in 1..Len(waiters), waiters' = Without(waiters, i),
           NEW place \in {"out", "awake"}, pc' = [pc EXCEPT ![waiters[i]] = place]
    PROVE  /\ pc' \in [Consumers -> {"out", "awake", "waiting"}]
           /\ waiters' \in Seq(Consumers)
           /\ \A j \in 1..Len(waiters') : pc'[waiters'[j]] = "waiting"
           /\ \A j, k \in 1..Len(waiters') : waiters'[j] = waiters'[k] => j = k
           /\ waiters[i] \in Consumers /\ pc[waiters[i]] = "waiting"
<1> DEFINE at(j) == IF j < i THEN j ELSE j + 1
<1>1. /\ waiters \in Seq(Consumers) /\ Len(waiters) \in Nat
      /\ \A j \in 1..Len(waiters) : waiters[j] \in Consumers /\ pc[waiters[j]] = "waiting"
      /\ pc \in [Consumers -> {"out", "awake", "waiting"}]
  BY ElementOfSeq DEF SleepInv
<1>2. /\ waiters' \in Seq(Consumers) /\ Len(waiters') = Len(waiters) - 1
      /\ \A j \in 1..(Len(waiters) - 1) : at(j) \in 1..Len(waiters) /\ waiters'[j] = waiters[at(j)]
  BY <1>1, WithoutFacts
<1>3. \A j, k \in 1..Len(waiters') : at(j) # i /\ (at(j) = at(k) => j = k)
  BY <1>1, <1>2
<1> HIDE DEF at
<1>4. \A j, k \in 1..Len(waiters') : waiters'[j] = waiters'[k] => j = k
  BY <1>2, <1>3 DEF SleepInv
<1>5. \A j \in 1..Len(waiters') : waiters'[j] # waiters[i]
  BY <1>2, <1>3 DEF SleepInv
<1>6. \A j \in 1..Len(waiters') : pc'[waiters'[j]] = "waiting"
  BY <1>1, <1>2, <1>5
<1> QED BY <1>1, <1>2, <1>4, <1>6

(* notify() makes one of the sleepers awake, if there is one.              *)
LEMMA SleepNotify ==
    ASSUME SleepInv, Notify, UNCHANGED closed, ~closed,
           IsFiniteSet(Queued), NEW n, Queued' \subseteq Queued \cup {n}
    PROVE  SleepInv'
<1>1. CASE waiters = <<>>
  <2>1. UNCHANGED <<waiters, pc, closed>> /\ waiters' = <<>>
    BY <1>1 DEF Notify
  <2> QED BY <2>1 DEF SleepInv, AwakeSet
<1>2. CASE waiters # <<>>
  <2>1. waiters' = Tail(waiters) /\ pc' = [pc EXCEPT ![Head(waiters)] = "awake"]
    BY <1>2 DEF Notify
  <2>2. /\ 1 \in 1..Len(waiters)
        /\ waiters' = Without(waiters, 1) /\ pc' = [pc EXCEPT ![waiters[1]] = "awake"]
    BY <1>2, <2>1, TailIsWithout DEF SleepInv
  <2>3. /\ pc' \in [Consumers -> {"out", "awake", "waiting"}]
        /\ waiters' \in Seq(Consumers)
        /\ \A j \in 1..Len(waiters') : pc'[waiters'[j]] = "waiting"
        /\ \A j, k \in 1..Len(waiters') : waiters'[j] = waiters'[k] => j = k
        /\ waiters[1] \in Consumers /\ pc[waiters[1]] = "waiting"
    BY <2>2, SleepWithout
  <2>4. AwakeSet' = AwakeSet \cup {waiters[1]} /\ waiters[1] \notin AwakeSet
    BY <2>2, <2>3 DEF AwakeSet, SleepInv
  <2>5. IsFiniteSet(AwakeSet) /\ Cardinality(Queued) <= Cardinality(AwakeSet)
    BY <1>2 DEF SleepInv
  <2>6. IsFiniteSet(AwakeSet') /\ Cardinality(AwakeSet') = Cardinality(AwakeSet) + 1
    BY <2>4, <2>5, FS_AddElement
  <2>7. IsFiniteSet(Queued \cup {n}) /\ Cardinality(Queued \cup {n}) <= Cardinality(Queued) + 1
        /\ Cardinality(Queued) \in Nat
    BY FS_AddElement, FS_CardinalityType
  <2>8. IsFiniteSet(Queued') /\ Cardinality(Queued') <= Cardinality(Queued \cup {n})
    BY <2>7, FS_Subset
  <2>9. Cardinality(Queued') \in Nat /\ Cardinality(Queued \cup {n}) \in Nat
        /\ Cardinality(AwakeSet) \in Nat
    BY <2>5, <2>7, <2>8, FS_CardinalityType
  <2>10. Cardinality(Queued') <= Cardinality(AwakeSet')
    BY <2>5, <2>6, <2>7, <2>8, <2>9
  <2> QED BY <2>3, <2>6, <2>10 DEF SleepInv
<1> QED BY <1>1, <1>2

(* A consumer that comes into next_blocking() or leaves it without having  *)
(* slept.                                                                  *)
LEMMA SleepMove ==
    ASSUME SleepInv, NEW c \in Consumers, pc[c] # "waiting",
           NEW place \in {"out", "awake"}, pc' = [pc EXCEPT ![c] = place],
           UNCHANGED <<closed, waiters>>,
           waiters # <<>> => Cardinality(Queued') <= Cardinality(AwakeSet')
    PROVE  SleepInv'
<1>1. /\ pc' \in [Consumers -> {"out", "awake", "waiting"}]
      /\ \A i \in 1..Len(waiters) : pc'[waiters[i]] = "waiting"
  BY DEF SleepInv
<1>2. ~closed => IsFiniteSet(AwakeSet')
  <2> HAVE ~closed
  <2>1. IsFiniteSet(AwakeSet) /\ AwakeSet' \subseteq AwakeSet \cup {c}
    BY DEF SleepInv, AwakeSet
  <2>2. IsFiniteSet(AwakeSet \cup {c})
    BY <2>1, FS_AddElement
  <2> QED BY <2>1, <2>2, FS_Subset
<1> QED BY <1>1, <1>2 DEF SleepInv

LEMMA SleepStep == QueueInv /\ SleepInv /\ [Next]_vars => SleepInv'
<1> SUFFICES ASSUME QueueInv, SleepInv, [Next]_vars PROVE SleepInv'
  OBVIOUS
<1>q. IsFiniteSet(Queued) /\ Cardinality(Queued) \in Nat
  BY SizeIsLive
<1>1. ASSUME NEW id \in Ids, NEW p \in Priority, Submit(id, p) PROVE SleepInv'
  <2>1. PICK n : Queued' = Queued \cup {n}
    BY <1>1, QueueSubmit
  <2>2. Notify /\ UNCHANGED closed /\ ~closed
    BY <1>1 DEF Submit, Announce
  <2> QED BY <1>q, <2>1, <2>2, SleepNotify
<1>2. ASSUME NEW id \in Ids, Cancel(id) PROVE SleepInv'
  <2>1. Queued' \subseteq Queued \cup {id}
    BY <1>2, CancelLeaves, QueueLeaves
  <2>2. Notify /\ UNCHANGED closed /\ ~closed
    BY <1>2 DEF Cancel
  <2> QED BY <1>q, <2>1, <2>2, SleepNotify
<1>3. CASE Shutdown
  <2>1. waiters' = <<>> /\ closed'
        /\ pc' = [c \in Consumers |-> IF pc[c] = "waiting" THEN "awake" ELSE pc[c]]
    BY <1>3 DEF Shutdown, NotifyAll
  <2>2. pc' \in [Consumers -> {"out", "awake", "waiting"}]
    BY <2>1 DEF SleepInv
  <2>3. waiters' \in Seq(Consumers) /\ 1..Len(waiters') = {}
    BY <2>1, EmptySeq
  <2> QED BY <2>1, <2>2, <2>3 DEF SleepInv
<1>4. ASSUME NEW c \in Consumers, NextCall(c) PROVE SleepInv'
  <2>1. /\ pc[c] = "out" /\ pc' = [pc EXCEPT ![c] = "awake"]
        /\ UNCHANGED <<closed, waiters>> /\ Queued' = Queued
    BY <1>4 DEF NextCall, Queued, PQ!Queued
  <2>2. waiters # <<>> => Cardinality(Queued') <= Cardinality(AwakeSet')
    <3> HAVE waiters # <<>>
    <3>1. IsFiniteSet(AwakeSet) /\ Cardinality(Queued) <= Cardinality(AwakeSet)
      BY DEF SleepInv
    <3>2. AwakeSet' = AwakeSet \cup {c} /\ c \notin AwakeSet
      BY <2>1 DEF AwakeSet, SleepInv
    <3>3. Cardinality(AwakeSet') = Cardinality(AwakeSet) + 1 /\ Cardinality(AwakeSet) \in Nat
      BY <3>1, <3>2, FS_AddElement, FS_CardinalityType
    <3> QED BY <1>q, <2>1, <3>1, <3>3
  <2> QED BY <2>1, <2>2, SleepMove
<1>5. ASSUME NEW c \in Consumers, NextItem(c) PROVE SleepInv'
  <2>1. /\ pc[c] = "awake" /\ pc' = [pc EXCEPT ![c] = "out"]
        /\ UNCHANGED <<closed, waiters>>
    BY <1>5 DEF NextItem
  <2>2. PICK n \in Queued : Queued' = Queued \ {n}
    BY <1>5, ItemLeaves, QueueLeaves
  <2>3. waiters # <<>> => Cardinality(Queued') <= Cardinality(AwakeSet')
    <3> HAVE waiters # <<>>
    <3>1. IsFiniteSet(AwakeSet) /\ Cardinality(Queued) <= Cardinality(AwakeSet)
      BY DEF SleepInv
    <3>2. AwakeSet' = AwakeSet \ {c} /\ c \in AwakeSet
      BY <2>1 DEF AwakeSet, SleepInv
    <3>3. /\ Cardinality(AwakeSet') = Cardinality(AwakeSet) - 1
          /\ Cardinality(AwakeSet) \in Nat
          /\ Cardinality(Queued') = Cardinality(Queued) - 1
      BY <1>q, <2>2, <3>1, <3>2, FS_RemoveElement, FS_CardinalityType
    <3> QED BY <1>q, <3>1, <3>3
  <2> QED BY <2>1, <2>3, SleepMove
<1>6. ASSUME NEW c \in Consumers, NextNone(c) PROVE SleepInv'
  <2>1. /\ pc[c] = "awake" /\ pc' = [pc EXCEPT ![c] = "out"]
        /\ UNCHANGED <<closed, waiters>> /\ Queued' = Queued /\ Queued = {}
    BY <1>6, EmptyIsEmpty DEF NextNone, Queued, PQ!Queued
  <2>2. waiters # <<>> => Cardinality(Queued') <= Cardinality(AwakeSet')
    <3> HAVE waiters # <<>>
    <3>1. IsFiniteSet(AwakeSet) /\ AwakeSet' = AwakeSet \ {c}
      BY <2>1 DEF SleepInv, AwakeSet
    <3>2. IsFiniteSet(AwakeSet')
      BY <3>1, FS_RemoveElement
    <3>3. Cardinality(AwakeSet') \in Nat /\ Cardinality(Queued') = 0
      BY <2>1, <3>2, FS_CardinalityType, FS_EmptySet
    <3> QED BY <3>3
  <2> QED BY <2>1, <2>2, SleepMove
<1>7. ASSUME NEW c \in Consumers, NextWait(c) PROVE SleepInv'
  <2>1. /\ pc[c] = "awake" /\ pc' = [pc EXCEPT ![c] = "waiting"]
        /\ waiters' = Append(waiters, c)
        /\ ~closed /\ UNCHANGED closed /\ Queued' = Queued /\ Queued = {}
    BY <1>7, EmptyIsEmpty DEF NextWait, Queued, PQ!Queued
  <2>2. /\ waiters \in Seq(Consumers) /\ Len(waiters) \in Nat
        /\ pc \in [Consumers -> {"out", "awake", "waiting"}]
        /\ \A i \in 1..Len(waiters) : waiters[i] \in Consumers /\ waiters[i] # c
    BY <2>1, ElementOfSeq DEF SleepInv
  <2>3. /\ waiters' \in Seq(Consumers) /\ Len(waiters') = Len(waiters) + 1
        /\ \A i \in 1..Len(waiters) : waiters'[i] = waiters[i]
        /\ waiters'[Len(waiters) + 1] = c
    BY <2>1, <2>2, AppendProperties
  <2>4. \A i \in 1..Len(waiters') : i \in 1..Len(waiters) \/ i = Len(waiters) + 1
    BY <2>2, <2>3
  <2>5. \A i \in 1..Len(waiters') : pc'[waiters'[i]] = "waiting"
    BY <2>1, <2>2, <2>3, <2>4 DEF SleepInv
  <2>6. \A i, j \in 1..Len(waiters') : waiters'[i] = waiters'[j] => i = j
    BY <2>2, <2>3, <2>4 DEF SleepInv
  <2>7. IsFiniteSet(AwakeSet')
    <3>1. IsFiniteSet(AwakeSet) /\ AwakeSet' = AwakeSet \ {c}
      BY <2>1 DEF SleepInv, AwakeSet
    <3> QED BY <3>1, FS_RemoveElement
  <2>8. Cardinality(Queued') <= Cardinality(AwakeSet')
    <3>1. Cardinality(AwakeSet') \in Nat /\ Cardinality(Queued') = 0
      BY <2>1, <2>7, FS_CardinalityType, FS_EmptySet
    <3> QED BY <3>1
  <2>9. pc' \in [Consumers -> {"out", "awake", "waiting"}]
    BY <2>1, <2>2
  <2> QED BY <2>1, <2>3, <2>5, <2>6, <2>7, <2>8, <2>9 DEF SleepInv
<1>8. ASSUME NEW c \in Consumers, WaitTimeout(c) PROVE SleepInv'
  <2>1. /\ pc' = [pc EXCEPT ![c] = "awake"] /\ UNCHANGED closed /\ Queued' = Queued
        /\ \E i \in DOMAIN waiters : waiters[i] = c /\ waiters' = Without(waiters, i)
    BY <1>8 DEF WaitTimeout, Queued, PQ!Queued
  <2>2. PICK i \in 1..Len(waiters) : waiters[i] = c /\ waiters' = Without(waiters, i)
    BY <2>1 DEF SleepInv
  <2>3. /\ pc' \in [Consumers -> {"out", "awake", "waiting"}]
        /\ waiters' \in Seq(Consumers)
        /\ \A j \in 1..Len(waiters') : pc'[waiters'[j]] = "waiting"
        /\ \A j, k \in 1..Len(waiters') : waiters'[j] = waiters'[k] => j = k
        /\ pc[c] = "waiting"
    BY <2>1, <2>2, SleepWithout
  <2>4. ~closed /\ waiters # <<>>
    BY <2>2, EmptySeq DEF SleepInv
  <2>5. IsFiniteSet(AwakeSet) /\ AwakeSet' = AwakeSet \cup {c} /\ c \notin AwakeSet
    BY <2>1, <2>3, <2>4 DEF SleepInv, AwakeSet
  <2>6. /\ IsFiniteSet(AwakeSet') /\ Cardinality(AwakeSet') = Cardinality(AwakeSet) + 1
        /\ Cardinality(AwakeSet) \in Nat
    BY <2>5, FS_AddElement, FS_CardinalityType
  <2>7. Cardinality(Queued') <= Cardinality(AwakeSet')
    <3>1. Cardinality(Queued) <= Cardinality(AwakeSet)
      BY <2>4 DEF SleepInv
    <3> QED BY <1>q, <2>1, <2>6, <3>1
  <2> QED BY <2>1, <2>3, <2>4, <2>6, <2>7 DEF SleepInv
<1>9. CASE UNCHANGED vars
  <2>1. UNCHANGED <<pc, waiters, closed>> /\ AwakeSet' = AwakeSet /\ Queued' = Queued
    BY <1>9 DEF vars, AwakeSet, Queued, PQ!Queued
  <2> QED BY <2>1 DEF SleepInv
<1>10. CASE \E c \in Consumers : \/ NextCall(c) \/ NextItem(c) \/ NextNone(c) \/ NextWait(c)
                                  \/ WaitTimeout(c)
  BY <1>4, <1>5, <1>6, <1>7, <1>8, <1>10
<1> QED BY <1>1, <1>2, <1>3, <1>9, <1>10 DEF Next

(* Every variable keeps its type, and the id set of the Python scheduler   *)
(* is exactly the set of the ids in its deques.                            *)
THEOREM TypeCorrect == Spec => []TypeOK
<1>1. QueueInv /\ SleepInv => TypeOK
  <2> SUFFICES ASSUME QueueInv, SleepInv PROVE TypeOK
    OBVIOUS
  <2>1. UNION {Range(queues[p]) : p \in Priority} = Queued
    <3>1. \A p \in Priority : Range(queues[p]) = {queues[p][i] : i \in 1..Len(queues[p])}
      BY LogFacts DEF Range
    <3>2. ASSUME NEW n \in Queued PROVE n \in UNION {Range(queues[p]) : p \in Priority}
      <4>1. PICK p \in Priority : p = log[n].priority
        BY LogFacts
      <4>2. \E i \in 1..Len(queues[p]) : queues[p][i] = n
        BY <4>1 DEF QueueInv, NothingLost
      <4>3. n \in Range(queues[p])
        BY <3>1, <4>2
      <4> QED BY <4>3
    <3>3. ASSUME NEW p \in Priority PROVE Range(queues[p]) \subseteq Queued
      BY <3>1 DEF QueueInv, Filed
    <3> QED BY <3>2, <3>3
  <2>2. known = {log[n].id : n \in Queued}
    BY DEF QueueInv
  <2>3. known \subseteq Ids
    BY <2>2, LogFacts DEF Request
  <2> QED BY <2>1, <2>2, <2>3 DEF TypeOK, QueueInv, QueueTypes, SleepInv
<1> QED BY <1>1, QueueInit, QueueStep, SleepInit, SleepStep, PTL DEF Spec

(* No wake-up of the Condition is lost, for any number of consumers: one   *)
(* that sleeps while requests are queued has an awake one beside it.       *)
THEOREM WakeupsKept == Spec => []NoLostWakeup
<1>1. QueueInv /\ SleepInv => NoLostWakeup
  <2> SUFFICES ASSUME QueueInv, SleepInv, Queued # {}, waiters # <<>>
               PROVE  \E c \in Consumers : pc[c] = "awake"
    BY DEF NoLostWakeup
  <2>1. IsFiniteSet(AwakeSet) /\ Cardinality(Queued) <= Cardinality(AwakeSet)
    BY DEF SleepInv
  <2>2. Cardinality(Queued) \in Nat /\ Cardinality(Queued) # 0
    BY SizeIsLive, FS_EmptySet
  <2>3. AwakeSet # {}
    BY <2>1, <2>2, FS_EmptySet
  <2> QED BY <2>3 DEF AwakeSet
<1> QED BY <1>1, QueueInit, QueueStep, SleepInit, SleepStep, PTL DEF Spec

-----------------------------------------------------------------------------
(* The latent cache *)

(* A finite set has a least element for every relation that orders any two *)
(* of its elements.                                                        *)
LEMMA LeastExists ==
    ASSUME NEW S, IsFiniteSet(S), S # {}, NEW R,
           \A x, y \in S : x # y => <<x, y>> \in R \/ <<y, x>> \in R,
           \A x, y, z \in S : <<x, y>> \in R /\ <<y, z>> \in R => <<x, z>> \in R
    PROVE  \E v \in S : \A x \in S \ {v} : <<v, x>> \in R
<1> DEFINE least(T) == \E v \in T : \A x \in T \ {v} : <<v, x>> \in R
           bad == {T \in SUBSET S : T # {} /\ ~least(T)}
<1> SUFFICES ASSUME ~least(S) PROVE FALSE
  OBVIOUS
<1>1. IsWellFoundedOn(StrictSubsetOrdering(S), SUBSET S)
  <2>1. IsWellFoundedOn(StrictSubsetOrdering(S), FiniteSubsetsOf(S))
    BY FS_StrictSubsetOrderingWellFounded
  <2>2. FiniteSubsetsOf(S) = SUBSET S
    BY FS_FiniteSubsetsOfFinite
  <2> QED BY <2>1, <2>2
<1>2. PICK T \in bad : \A U \in bad : ~(<<U, T>> \in StrictSubsetOrdering(S))
  <2>1. bad \subseteq SUBSET S /\ bad # {}
    OBVIOUS
  <2> HIDE DEF bad
  <2> QED BY <1>1, <2>1, WFMin
<1>3. PICK x \in T : TRUE
  OBVIOUS
<1>4. T \ {x} \notin bad
  <2>1. <<T \ {x}, T>> \in StrictSubsetOrdering(S)
    BY <1>3 DEF StrictSubsetOrdering
  <2> QED BY <1>2, <2>1
<1>5. CASE T \ {x} = {}
  BY <1>3, <1>5
<1>6. CASE T \ {x} # {}
  <2>1. PICK v \in T \ {x} : \A y \in (T \ {x}) \ {v} : <<v, y>> \in R
    BY <1>4, <1>6
  <2>2. CASE <<v, x>> \in R
    <3>1. \A y \in T \ {v} : <<v, y>> \in R
      BY <2>1, <2>2
    <3> QED BY <2>1, <3>1
  <2>3. CASE <<x, v>> \in R
    <3>1. \A y \in T \ {x} : <<x, y>> \in R
      BY <1>3, <2>1, <2>3
    <3> QED BY <1>3, <3>1
  <2> QED BY <1>3, <2>1, <2>2, <2>3
<1> QED BY <1>5, <1>6

(* Ids are given once: every id in the cache or in a request's hands is    *)
(* below the next one, and no two requests hold the same.                  *)
CacheInv ==
    /\ CacheTypeOK
    /\ PinnedPagesStay
    /\ \A h \in held : h.page_id < next_id
    /\ \A g, h \in held : g.page_id = h.page_id => g = h

LEMMA CacheStart == CacheInit => CacheInv
<1> SUFFICES ASSUME CacheInit PROVE CacheInv
  OBVIOUS
<1>1. DOMAIN pages = {} /\ held = {} /\ next_id = 0
  BY DEF CacheInit
<1>2. 0 \in 0..MaxPages
  BY CacheAssumption DEF CacheAssumption
<1> QED BY <1>1, <1>2 DEF CacheInv, CacheTypeOK, PinnedPagesStay

(* The page evicted is an unpinned one.                                    *)
LEMMA VictimIsEvictable ==
    ASSUME CacheTypeOK, NEW current \in Frames, Evictable # {}
    PROVE  Victim(current) \in Evictable
<1> DEFINE first(v, id) == \/ Behind(pages[v], pages[id], current)
                           \/ ~Behind(pages[id], pages[v], current) /\ v < id
           R == {e \in Evictable \X Evictable : first(e[1], e[2])}
<1>1. IsFiniteSet(Evictable)
  <2>1. Evictable \subseteq 0..(next_id - 1) /\ next_id - 1 \in Int
    BY DEF CacheTypeOK, Evictable
  <2>2. IsFiniteSet(0..(next_id - 1))
    BY <2>1, FS_Interval
  <2> QED BY <2>1, <2>2, FS_Subset
<1>2. ASSUME NEW id \in Evictable
      PROVE  /\ pages[id].frame_index - current \in Int
             /\ pages[id].last_used_step \in Int
             /\ id \in Int
  <2>1. pages[id] \in Page /\ id \in 0..(next_id - 1)
    BY DEF CacheTypeOK, Evictable
  <2>2. pages[id].frame_index \in Int /\ pages[id].last_used_step \in Int /\ current \in Int
    BY <2>1, CacheAssumption DEF Page, CacheAssumption
  <2>3. id \in Int
    BY <2>1
  <2> QED BY <2>2, <2>3
<1>3. \A x, y \in Evictable : x # y => first(x, y) \/ first(y, x)
  BY <1>2 DEF Behind
<1>4. \A x, y, z \in Evictable : first(x, y) /\ first(y, z) => first(x, z)
  BY <1>2 DEF Behind
<1>5. \A x, y \in Evictable : <<x, y>> \in R <=> first(x, y)
  OBVIOUS
<1> HIDE DEF first, R
<1>6. \E v \in Evictable : \A x \in Evictable \ {v} : <<v, x>> \in R
  BY <1>1, <1>3, <1>4, <1>5, LeastExists
<1>7. \E v \in Evictable : \A x \in Evictable \ {v} : first(v, x)
  BY <1>5, <1>6
<1> QED BY <1>7 DEF Victim, first

LEMMA CacheAllocate ==
    ASSUME CacheInv, NEW r \in Requests, NEW f \in Frames, NEW s \in DiffSteps,
           NEW current \in Frames, Allocate(r, f, s, current)
    PROVE  CacheInv'
<1> DEFINE left == IF IsFull THEN DOMAIN pages \ {Victim(current)} ELSE DOMAIN pages
           page == [request_id |-> r, frame_index |-> f, last_used_step |-> s, in_use |-> TRUE]
           handle == [request_id |-> r, page_id |-> next_id, pinned |-> TRUE]
<1>1. /\ DOMAIN pages' = left \cup {next_id}
      /\ \A id \in left \cup {next_id} :
            pages'[id] = IF id = next_id THEN page ELSE pages[id]
      /\ held' = held \cup {handle}
      /\ next_id' = next_id + 1 /\ next_id < MaxPages
  BY DEF Allocate, PageId
<1>2. /\ left \subseteq DOMAIN pages
      /\ \A id \in DOMAIN pages \ left : ~pages[id].in_use
  BY VictimIsEvictable DEF Allocate, CacheInv, Evictable
<1>3. /\ page \in Page /\ page.in_use /\ page.request_id = r
      /\ handle.page_id = next_id /\ handle.pinned /\ handle.request_id = r
  BY DEF Page
<1> HIDE DEF left, page, handle
<1>4. /\ next_id \in Nat /\ next_id \notin DOMAIN pages
      /\ \A h \in held : h.page_id # next_id /\ h.page_id \in Nat /\ h.page_id < next_id
      /\ DOMAIN pages \subseteq 0..(next_id - 1) /\ MaxPages \in Nat
  BY CacheAssumption DEF CacheInv, CacheTypeOK, Handle, CacheAssumption
<1>5. CacheTypeOK'
  <2>1. handle \in Handle
    BY <1>4 DEF Handle, handle
  <2>2. DOMAIN pages' \subseteq 0..(next_id' - 1)
    BY <1>1, <1>2, <1>4
  <2>3. next_id' \in 0..MaxPages
    BY <1>1, <1>4
  <2>4. \A id \in DOMAIN pages' : pages'[id] \in Page
    BY <1>1, <1>2, <1>3 DEF CacheInv, CacheTypeOK
  <2> QED BY <1>1, <2>1, <2>2, <2>3, <2>4 DEF CacheInv, CacheTypeOK
<1>6. PinnedPagesStay'
  <2> SUFFICES ASSUME NEW h \in held'
               PROVE  /\ h.pinned => h.page_id \in DOMAIN pages'
                      /\ h.page_id \in DOMAIN pages' =>
                            /\ pages'[h.page_id].request_id = h.request_id
                            /\ pages'[h.page_id].in_use = h.pinned
    BY DEF PinnedPagesStay
  <2>1. CASE h = handle
    BY <1>1, <1>3, <2>1
  <2>2. CASE h \in held
    <3>1. /\ h.pinned => h.page_id \in DOMAIN pages
          /\ h.page_id \in DOMAIN pages =>
                /\ pages[h.page_id].request_id = h.request_id
                /\ pages[h.page_id].in_use = h.pinned
          /\ h.pinned \in BOOLEAN
      BY <2>2 DEF CacheInv, PinnedPagesStay, CacheTypeOK, Handle
    <3>2. h.page_id # next_id
      BY <1>4, <2>2
    <3> QED BY <1>1, <1>2, <3>1, <3>2
  <2> QED BY <1>1, <2>1, <2>2
<1>7. \A h \in held' : h.page_id < next_id'
  BY <1>1, <1>3, <1>4
<1>8. \A g, h \in held' : g.page_id = h.page_id => g = h
  BY <1>1, <1>3, <1>4 DEF CacheInv
<1> QED BY <1>5, <1>6, <1>7, <1>8 DEF CacheInv

LEMMA CacheUnpin ==
    ASSUME CacheInv, NEW h \in held, Unpin(h)
    PROVE  CacheInv'
<1> DEFINE after == [h EXCEPT !.pinned = FALSE]
<1>1. /\ DOMAIN pages' = DOMAIN pages
      /\ \A id \in DOMAIN pages \ {h.page_id} : pages'[id] = pages[id]
      /\ h.page_id \in DOMAIN pages =>
            /\ pages'[h.page_id] \in Page
            /\ pages'[h.page_id].request_id = pages[h.page_id].request_id
            /\ pages'[h.page_id].in_use = FALSE
      /\ held' = (held \ {h}) \cup {after} /\ next_id' = next_id
  BY DEF Unpin, CacheInv, CacheTypeOK, Page
<1>2. /\ after \in Handle /\ after.request_id = h.request_id
      /\ after.page_id = h.page_id /\ ~after.pinned /\ after.pinned \in BOOLEAN
  BY DEF CacheInv, CacheTypeOK, Handle
<1> HIDE DEF after
<1>3. \A g \in held : g # h => g.page_id # h.page_id
  BY DEF CacheInv
<1>4. CacheTypeOK'
  BY <1>1, <1>2 DEF CacheInv, CacheTypeOK
<1>5. PinnedPagesStay'
  <2>1. ASSUME NEW g \in held, g # h
        PROVE  /\ g.pinned => g.page_id \in DOMAIN pages'
               /\ g.page_id \in DOMAIN pages' =>
                     /\ pages'[g.page_id].request_id = g.request_id
                     /\ pages'[g.page_id].in_use = g.pinned
    BY <1>1, <1>3, <2>1 DEF CacheInv, PinnedPagesStay
  <2>2. /\ ~after.pinned
        /\ after.page_id \in DOMAIN pages' =>
              /\ pages'[after.page_id].request_id = after.request_id
              /\ pages'[after.page_id].in_use = after.pinned
    BY <1>1, <1>2 DEF CacheInv, PinnedPagesStay
  <2> QED BY <1>1, <2>1, <2>2 DEF PinnedPagesStay
<1>6. \A g \in held' : g.page_id < next_id'
  BY <1>1, <1>2 DEF CacheInv
<1>7. \A g, k \in held' : g.page_id = k.page_id => g = k
  BY <1>1, <1>2, <1>3 DEF CacheInv
<1> QED BY <1>4, <1>5, <1>6, <1>7 DEF CacheInv

LEMMA CacheStep == CacheInv /\ [CacheNext]_cacheVars => CacheInv'
<1> SUFFICES ASSUME CacheInv, [CacheNext]_cacheVars PROVE CacheInv'
  OBVIOUS
<1>1. ASSUME NEW r \in Requests, NEW f \in Frames, NEW s \in DiffSteps,
             NEW current \in Frames, Allocate(r, f, s, current)
      PROVE  CacheInv'
  BY <1>1, CacheAllocate
<1>2. ASSUME NEW h \in held, Unpin(h) PROVE CacheInv'
  BY <1>2, CacheUnpin
<1>3. ASSUME NEW h \in held, NEW s \in DiffSteps, Touch(h, s) PROVE CacheInv'
  <2>1. /\ DOMAIN pages' = DOMAIN pages
        /\ \A id \in DOMAIN pages :
              /\ pages'[id] \in Page
              /\ pages'[id].request_id = pages[id].request_id
              /\ pages'[id].in_use = pages[id].in_use
        /\ UNCHANGED <<next_id, held>>
    BY <1>3 DEF Touch, CacheInv, CacheTypeOK, Page
  <2> QED BY <2>1 DEF CacheInv, CacheTypeOK, PinnedPagesStay
<1>4. ASSUME NEW r \in Requests, ReleaseRequest(r) PROVE CacheInv'
  <2>1. /\ DOMAIN pages' = {id \in DOMAIN pages : pages[id].request_id # r}
        /\ \A id \in DOMAIN pages' : pages'[id] = pages[id]
        /\ held' = {h \in held : h.request_id # r} /\ next_id' = next_id
    BY <1>4 DEF ReleaseRequest, Kept
  <2>2. CacheTypeOK'
    BY <2>1 DEF CacheInv, CacheTypeOK
  <2>3. PinnedPagesStay'
    BY <2>1 DEF CacheInv, PinnedPagesStay
  <2> QED BY <2>1, <2>2, <2>3 DEF CacheInv
<1>5. CASE UNCHANGED cacheVars
  BY <1>5 DEF cacheVars, CacheInv, CacheTypeOK, PinnedPagesStay
<1> QED BY <1>1, <1>2, <1>3, <1>4, <1>5 DEF CacheNext, AllocateFullyPinned

(* A pinned page stays in the cache until its request unpins it, and a     *)
(* page id never names another request's page, for any number of pages,    *)
(* requests, frames and steps, and any sequence of allocations, evictions, *)
(* unpins and releases.                                                    *)
THEOREM PinnedStay == CacheSpec => [](CacheTypeOK /\ PinnedPagesStay)
<1>1. CacheInv => CacheTypeOK /\ PinnedPagesStay
  BY DEF CacheInv
<1> QED BY <1>1, CacheStart, CacheStep, PTL DEF CacheSpec

-----------------------------------------------------------------------------
(* Numbers and sequences *)

(* A set with 0, and with the successor of each of its elements, is Nat.   *)
LEMMA AllNumbers ==
    ASSUME NEW S \in SUBSET Nat, 0 \in S, \A m \in S : m + 1 \in S
    PROVE  S = Nat
<1> DEFINE rest == Nat \ S
<1> SUFFICES ASSUME rest # {} PROVE FALSE
  OBVIOUS
<1>1. PICK x \in rest : \A y \in rest : ~(<<y, x>> \in OpToRel(<, Nat))
  BY NatLessThanWellFounded, WFMin
<1>2. x - 1 \in S
  <2>1. x # 0 /\ x \in Nat
    BY <1>1
  <2> SUFFICES ASSUME x - 1 \notin S PROVE FALSE
    OBVIOUS
  <2>2. x - 1 \in rest
    BY <2>1
  <2>3. <<x - 1, x>> \in OpToRel(<, Nat)
    BY <2>1 DEF OpToRel
  <2> QED BY <1>1, <2>2, <2>3
<1>3. (x - 1) + 1 \in S
  BY <1>2
<1>4. x \in Nat /\ x \notin S
  BY <1>1
<1>5. (x - 1) + 1 = x
  BY ONLY <1>4
<1> QED BY <1>3, <1>4, <1>5

(* A sequence, of whatever is in it.                                       *)
IsSeq(s) == s \in Seq(Range(s))

LEMMA SeqIs ==
    ASSUME NEW S, NEW s \in Seq(S)
    PROVE  IsSeq(s) /\ Len(s) \in Nat /\ DOMAIN s = 1..Len(s)
<1>1. Len(s) \in Nat /\ DOMAIN s = 1..Len(s) /\ s \in [1..Len(s) -> S]
  BY LenProperties
<1>2. s \in [1..Len(s) -> Range(s)]
  BY <1>1 DEF Range
<1> QED BY <1>1, <1>2 DEF IsSeq

LEMMA FunIsSeq ==
    ASSUME NEW n \in Nat, NEW T, NEW s \in [1..n -> T]
    PROVE  IsSeq(s) /\ Len(s) = n
<1>1. s \in Seq(T)
  OBVIOUS
<1>2. Len(s) \in Nat /\ DOMAIN s = 1..Len(s) /\ DOMAIN s = 1..n
  BY <1>1, LenProperties
<1> QED BY <1>1, <1>2, SeqIs

LEMMA SeqFacts ==
    ASSUME NEW s, IsSeq(s)
    PROVE  /\ Len(s) \in Nat
           /\ DOMAIN s = 1..Len(s)
           /\ s = [i \in 1..Len(s) |-> s[i]]
<1>1. s \in Seq(Range(s))
  BY DEF IsSeq
<1>2. Len(s) \in Nat /\ DOMAIN s = 1..Len(s) /\ s \in [1..Len(s) -> Range(s)]
  BY <1>1, LenProperties
<1> QED BY <1>2

LEMMA SeqAppend ==
    ASSUME NEW s, IsSeq(s), NEW x
    PROVE  /\ IsSeq(Append(s, x))
           /\ Len(Append(s, x)) = Len(s) + 1
           /\ \A i \in 1..Len(s) : Append(s, x)[i] = s[i]
           /\ Append(s, x)[Len(s) + 1] = x
           /\ Front(Append(s, x)) = s
           /\ Last(Append(s, x)) = x
<1> DEFINE T == Range(s) \cup {x}
           a == Append(s, x)
<1>1. s \in Seq(T)
  <2>1. s \in Seq(Range(s)) /\ Range(s) \subseteq T
    BY DEF IsSeq
  <2> HIDE DEF T
  <2> QED BY <2>1, SeqMonotonic
<1> HIDE DEF T
<1>2. x \in T
  BY DEF T
<1>3. a \in Seq(T) /\ Len(a) = Len(s) + 1 /\ a[Len(s) + 1] = x
      /\ \A i \in 1..Len(s) : a[i] = s[i]
  BY <1>1, <1>2, AppendProperties
<1>4. IsSeq(a) /\ Len(s) \in Nat
  BY <1>1, <1>3, SeqIs
<1>5. Front(a) = s
  <2>1. Front(a) = SubSeq(a, 1, Len(s))
    BY <1>3, <1>4 DEF Front
  <2>2. SubSeq(a, 1, Len(s)) = [i \in 1..Len(s) |-> a[i]]
    BY <1>3, <1>4
  <2>3. s = [i \in 1..Len(s) |-> s[i]]
    BY SeqFacts
  <2>4. [i \in 1..Len(s) |-> a[i]] = [i \in 1..Len(s) |-> s[i]]
    BY <1>3
  <2> HIDE DEF a
  <2> QED BY <2>1, <2>2, <2>3, <2>4
<1>6. Last(a) = x
  BY <1>3 DEF Last
<1> QED BY <1>3, <1>4, <1>5, <1>6

LEMMA SeqFront ==
    ASSUME NEW s, IsSeq(s), Len(s) > 0
    PROVE  /\ IsSeq(Front(s)) /\ Len(Front(s)) = Len(s) - 1
           /\ s = Append(Front(s), Last(s))
<1>1. Len(s) \in Nat /\ DOMAIN s = 1..Len(s) /\ s = [i \in 1..Len(s) |-> s[i]]
  BY SeqFacts
<1>2. s \in Seq(Range(s))
  BY DEF IsSeq
<1>3. /\ SubSeq(s, 1, Len(s) - 1) \in Seq(Range(s))
      /\ Len(SubSeq(s, 1, Len(s) - 1)) = Len(s) - 1
      /\ \A i \in 1..Len(s) - 1 : SubSeq(s, 1, Len(s) - 1)[i] = s[i]
  BY <1>1, <1>2
<1>4. IsSeq(Front(s)) /\ Len(Front(s)) = Len(s) - 1 /\ \A i \in 1..Len(s) - 1 : Front(s)[i] = s[i]
  BY <1>3, SeqIs DEF Front
<1> DEFINE a == Append(Front(s), Last(s))
<1>5. /\ IsSeq(a) /\ Len(a) = Len(s)
      /\ \A i \in 1..Len(s) - 1 : a[i] = s[i]
      /\ a[Len(s)] = Last(s)
  <2> DEFINE f == Front(s)  x == Last(s)
  <2>1. /\ IsSeq(Append(f, x)) /\ Len(Append(f, x)) = Len(f) + 1
        /\ \A i \in 1..Len(f) : Append(f, x)[i] = f[i]
        /\ Append(f, x)[Len(f) + 1] = x
    BY <1>4, SeqAppend
  <2>2. Len(f) + 1 = Len(s) /\ Len(f) = Len(s) - 1
    BY <1>1, <1>4
  <2> QED BY <1>4, <2>1, <2>2
<1>6. \A i \in 1..Len(s) : a[i] = s[i]
  <2> TAKE i \in 1..Len(s)
  <2>1. i \in 1..Len(s) - 1 \/ i = Len(s)
    BY <1>1
  <2> HIDE DEF a
  <2> QED BY <1>5, <2>1 DEF Last
<1>7. a = [i \in 1..Len(s) |-> a[i]]
  <2> HIDE DEF a
  <2> QED BY <1>5, SeqFacts
<1> HIDE DEF a
<1>8. a = s
  BY <1>1, <1>6, <1>7
<1> QED BY <1>4, <1>8 DEF a

(* The last frames of a sequence.                                          *)
LEMMA SeqLastOf ==
    ASSUME NEW s, IsSeq(s), NEW n \in Nat \ {0}
    PROVE  /\ IsSeq(LastOf(n, s))
           /\ Len(LastOf(n, s)) = IF n < Len(s) THEN n ELSE Len(s)
           /\ Len(s) > 0 => Last(LastOf(n, s)) = Last(s)
<1>1. Len(s) \in Nat
  BY SeqFacts
<1>2. CASE n < Len(s)
  <2> DEFINE t == SubSeq(s, Len(s) - n + 1, Len(s))
  <2>1. s \in Seq(Range(s))
    BY DEF IsSeq
  <2>2. Len(s) - n + 1 \in 1..Len(s) + 1 /\ Len(s) \in Len(s) - n + 1 - 1..Len(s)
    BY <1>1, <1>2
  <2>3. t \in Seq(Range(s)) /\ Len(t) = n /\ t[n] = s[Len(s)]
    BY <1>1, <1>2, <2>1, <2>2
  <2>4. LastOf(n, s) = t
    BY <1>2 DEF LastOf
  <2> HIDE DEF t
  <2> QED BY <1>2, <2>3, <2>4, SeqIs DEF Last
<1>3. CASE ~(n < Len(s))
  BY <1>3 DEF LastOf
<1> QED BY <1>2, <1>3
-----------------------------------------------------------------------------
(* Computations that go through a sequence: all of the planner's are of    *)
(* one form, and tag says which is meant.                                  *)

Taken(tag, w, r, x) ==
    CASE tag = "kvs"    -> Completed(r, x)
      [] tag = "window" -> Rolled(r, x)
      [] tag = "looped" -> Walked(r, x)
      [] tag = "shared" -> Shared(r, x)
      [] tag = "scored" -> Tried(w, r, x)

(* g[n] is what the first n elements of s make of base.                    *)
Through(tag, w, g, base, s, N) ==
    g = [n \in 0..N |-> IF n = 0 THEN base ELSE Taken(tag, w, g[n - 1], s[n])]

LEMMA ThroughSteps ==
    ASSUME NEW tag, NEW w, NEW g, NEW base, NEW s, NEW N \in Nat,
           Through(tag, w, g, base, s, N)
    PROVE  /\ g[0] = base
           /\ \A n \in 1..N : g[n] = Taken(tag, w, g[n - 1], s[n])
<1>1. \A n \in 0..N : g[n] = IF n = 0 THEN base ELSE Taken(tag, w, g[n - 1], s[n])
  BY DEF Through
<1> QED BY <1>1

LEMMA ThroughExists ==
    ASSUME NEW tag, NEW w, NEW base, NEW s, NEW N \in Nat
    PROVE  \E g : Through(tag, w, g, base, s, N)
<1> DEFINE S == {n \in Nat : \E g : Through(tag, w, g, base, s, n)}
<1>1. 0 \in S
  <2> DEFINE g == [n \in 0..0 |-> base]
  <2>1. \A n \in 0..0 : n = 0
    OBVIOUS
  <2>2. g = [n \in 0..0 |-> IF n = 0 THEN base ELSE Taken(tag, w, g[n - 1], s[n])]
    BY <2>1
  <2> HIDE DEF g
  <2>3. Through(tag, w, g, base, s, 0)
    BY <2>2 DEF Through
  <2> QED BY <2>3
<1>2. ASSUME NEW m \in S PROVE m + 1 \in S
  <2>1. m \in Nat
    OBVIOUS
  <2>2. PICK g : Through(tag, w, g, base, s, m)
    OBVIOUS
  <2> HIDE DEF S
  <2>3. g[0] = base /\ \A n \in 1..m : g[n] = Taken(tag, w, g[n - 1], s[n])
    BY <2>1, <2>2, ThroughSteps
  <2> DEFINE h == [n \in 0..m + 1 |-> IF n = m + 1 THEN Taken(tag, w, g[m], s[m + 1]) ELSE g[n]]
  <2>4. /\ h[0] = g[0]
        /\ h[m + 1] = Taken(tag, w, h[m], s[m + 1])
        /\ \A n \in 0..m : h[n] = g[n]
    BY <2>1
  <2>5. h = [n \in 0..m + 1 |-> h[n]]
    OBVIOUS
  <2> HIDE DEF h
  <2>6. \A n \in 0..m + 1 : h[n] = IF n = 0 THEN base ELSE Taken(tag, w, h[n - 1], s[n])
    <3> TAKE n \in 0..m + 1
    <3>1. CASE n = 0
      BY <2>3, <2>4, <3>1
    <3>2. CASE n \in 1..m
      <4>1. h[n] = g[n] /\ h[n - 1] = g[n - 1]
        BY <2>1, <2>4, <3>2
      <4> QED BY <2>1, <2>3, <3>2, <4>1
    <3>3. CASE n = m + 1
      BY <2>1, <2>4, <3>3
    <3> QED BY <2>1, <3>1, <3>2, <3>3
  <2>7. Through(tag, w, h, base, s, m + 1)
    BY <2>5, <2>6 DEF Through
  <2> QED BY <2>1, <2>7 DEF S
<1>3. S = Nat
  <2>1. S \in SUBSET Nat
    OBVIOUS
  <2> HIDE DEF S
  <2> QED BY <1>1, <1>2, <2>1, AllNumbers
<1> QED BY <1>3

SameUpTo(K, s, t) == \A i \in 1..K : s[i] = t[i]

LEMMA ThroughAgrees ==
    ASSUME NEW tag, NEW w, NEW base, NEW s, NEW t, NEW N \in Nat, NEW M \in Nat,
           NEW K \in Nat, K <= N, K <= M, SameUpTo(K, s, t),
           NEW g, Through(tag, w, g, base, s, N),
           NEW h, Through(tag, w, h, base, t, M)
    PROVE  g[K] = h[K]
<1> DEFINE S == {i \in Nat : i <= K => g[i] = h[i]}
<1>1. /\ g[0] = base /\ \A n \in 1..N : g[n] = Taken(tag, w, g[n - 1], s[n])
      /\ h[0] = base /\ \A n \in 1..M : h[n] = Taken(tag, w, h[n - 1], t[n])
  BY ThroughSteps
<1>2. 0 \in S
  BY <1>1
<1>3. ASSUME NEW m \in S PROVE m + 1 \in S
  <2>1. CASE m + 1 <= K
    <3>1. m \in Nat /\ m + 1 \in 1..N /\ m + 1 \in 1..M /\ m + 1 \in 1..K
      BY <2>1
    <3>2. g[m] = h[m] /\ (m + 1) - 1 = m
      BY <2>1
    <3>3. s[m + 1] = t[m + 1]
      BY <3>1 DEF SameUpTo
    <3> QED BY <1>1, <3>1, <3>2, <3>3
  <2>2. CASE ~(m + 1 <= K)
    BY <2>2
  <2> QED BY <2>1, <2>2
<1>4. S = Nat
  <2>1. S \in SUBSET Nat
    OBVIOUS
  <2> HIDE DEF S
  <2> QED BY <1>2, <1>3, <2>1, AllNumbers
<1> QED BY <1>4

-----------------------------------------------------------------------------
(* The planner's computations, each as such a function.                    *)

LEMMA PrefixIs ==
    ASSUME NEW s, Len(s) \in Nat
    PROVE  \E g : Through("kvs", 0, g, <<>>, s, Len(s)) /\ ZeroActionPrefix(s) = g[Len(s)]
<1>1. PICK g : Through("kvs", 0, g, <<>>, s, Len(s))
  BY ThroughExists
<1>2. \E h : h = [n \in 0..Len(s) |-> IF n = 0 THEN <<>> ELSE Completed(h[n - 1], s[n])]
  BY <1>1 DEF Through, Taken
<1> QED BY <1>2 DEF ZeroActionPrefix, Through, Taken

LEMMA BatchedIs ==
    ASSUME NEW w, NEW acts, Len(acts) \in Nat
    PROVE  \E g : /\ Through("window", 0, g, w.context, acts, Len(acts))
                  /\ RolloutBatched(w, acts) = g[Len(acts)]
<1>1. PICK g : Through("window", 0, g, w.context, acts, Len(acts))
  BY ThroughExists
<1>2. \E h : h = [n \in 0..Len(acts) |-> IF n = 0 THEN w.context ELSE Rolled(h[n - 1], acts[n])]
  BY <1>1 DEF Through, Taken
<1> QED BY <1>2 DEF RolloutBatched, Through, Taken

LEMMA LoopedIs ==
    ASSUME NEW table, NEW w, NEW acts, Len(acts) \in Nat
    PROVE  \E g : /\ Through("looped", 0, g, [table |-> table, state |-> w, raised |-> FALSE],
                              acts, Len(acts))
                  /\ RolloutLooped(table, w, acts) = g[Len(acts)]
<1> DEFINE base == [table |-> table, state |-> w, raised |-> FALSE]
<1>1. PICK g : Through("looped", 0, g, base, acts, Len(acts))
  BY ThroughExists
<1>2. \E h : h = [n \in 0..Len(acts) |-> IF n = 0 THEN base ELSE Walked(h[n - 1], acts[n])]
  BY <1>1 DEF Through, Taken
<1> QED BY <1>2 DEF RolloutLooped, Through, Taken

LEMMA SharedIs ==
    ASSUME NEW w, NEW acts, Len(acts) \in Nat
    PROVE  \E g : /\ Through("shared", 0, g, [cache |-> InitCache(w.context), terminal |-> <<>>],
                              acts, Len(acts))
                  /\ RolloutBatchedCached(w, acts) = g[Len(acts)]
<1> DEFINE base == [cache |-> InitCache(w.context), terminal |-> <<>>]
<1>1. PICK g : Through("shared", 0, g, base, acts, Len(acts))
  BY ThroughExists
<1>2. \E h : h = [n \in 0..Len(acts) |-> IF n = 0 THEN base ELSE Shared(h[n - 1], acts[n])]
  BY <1>1 DEF Through, Taken
<1> QED BY <1>2 DEF RolloutBatchedCached, Through, Taken

LEMMA ScoredIs ==
    ASSUME NEW w, NEW candidates, Len(candidates) \in Nat
    PROVE  \E g : /\ Through("scored", w, g, [table |-> kvCache, state |-> w, raised |-> FALSE],
                              candidates, Len(candidates))
                  /\ Scored(w, candidates) = g[IF config.batched THEN 0 ELSE Len(candidates)]
<1> DEFINE base == [table |-> kvCache, state |-> w, raised |-> FALSE]
<1>1. PICK g : Through("scored", w, g, base, candidates, Len(candidates))
  BY ThroughExists
<1>2. \E h : h = [n \in 0..Len(candidates) |->
                     IF n = 0 THEN base ELSE Tried(w, h[n - 1], candidates[n])]
  BY <1>1 DEF Through, Taken
<1> QED BY <1>2 DEF Scored, Through, Taken

-----------------------------------------------------------------------------
(* Caches *)

LEMMA PrefixSeq ==
    ASSUME NEW s, IsSeq(s)
    PROVE  IsSeq(ZeroActionPrefix(s)) /\ Len(ZeroActionPrefix(s)) = Len(s)
<1>1. Len(s) \in Nat
  BY SeqFacts
<1>2. PICK g : Through("kvs", 0, g, <<>>, s, Len(s)) /\ ZeroActionPrefix(s) = g[Len(s)]
  BY <1>1, PrefixIs
<1>3. g[0] = <<>> /\ \A n \in 1..Len(s) : g[n] = Completed(g[n - 1], s[n])
  BY <1>1, <1>2, ThroughSteps DEF Taken
<1> DEFINE S == {n \in Nat : n <= Len(s) => IsSeq(g[n]) /\ Len(g[n]) = n}
<1>4. 0 \in S
  <2>1. IsSeq(<<>>) /\ Len(<<>>) = 0
    <3>1. <<>> \in Seq({})
      OBVIOUS
    <3> QED BY <3>1, SeqIs
  <2> QED BY <1>3, <2>1
<1>5. ASSUME NEW m \in S PROVE m + 1 \in S
  <2>1. CASE m + 1 <= Len(s)
    <3>1. m \in Nat /\ m + 1 \in 1..Len(s) /\ (m + 1) - 1 = m /\ m <= Len(s)
      BY <1>1, <2>1
    <3>2. IsSeq(g[m]) /\ Len(g[m]) = m
      BY <3>1
    <3>3. g[m + 1] = Append(g[m], Pass(g[m], s[m + 1], Zero))
      BY <1>3, <3>1 DEF Completed
    <3>4. IsSeq(g[m + 1]) /\ Len(g[m + 1]) = m + 1
      BY <3>2, <3>3, SeqAppend
    <3> QED BY <3>1, <3>4
  <2>2. CASE ~(m + 1 <= Len(s))
    BY <2>2
  <2> QED BY <2>1, <2>2
<1>6. S = Nat
  <2>1. S \in SUBSET Nat
    OBVIOUS
  <2> HIDE DEF S
  <2> QED BY <1>4, <1>5, <2>1, AllNumbers
<1>7. Len(s) \in S
  BY <1>1, <1>6
<1> QED BY <1>1, <1>2, <1>7

(* One frame more costs one more pass.                                     *)
LEMMA PrefixAppend ==
    ASSUME NEW s, IsSeq(s), NEW x
    PROVE  ZeroActionPrefix(Append(s, x)) = Completed(ZeroActionPrefix(s), x)
<1> DEFINE t == Append(s, x)  n == Len(s)
<1>1. n \in Nat /\ IsSeq(t) /\ Len(t) = n + 1 /\ t[n + 1] = x /\ \A i \in 1..n : s[i] = t[i]
  BY SeqFacts, SeqAppend
<1> HIDE DEF t, n
<1>2. PICK g : Through("kvs", 0, g, <<>>, s, n) /\ ZeroActionPrefix(s) = g[n]
  BY <1>1, PrefixIs DEF n
<1>3. n + 1 \in Nat
  BY <1>1
<1>4. PICK h : Through("kvs", 0, h, <<>>, t, n + 1) /\ ZeroActionPrefix(t) = h[n + 1]
  BY <1>1, <1>3, PrefixIs
<1>5. g[n] = h[n]
  <2>1. n <= n /\ n <= n + 1 /\ SameUpTo(n, s, t)
    BY <1>1 DEF SameUpTo
  <2>2. n \in Nat
    BY <1>1
  <2>3. Through("kvs", 0, g, <<>>, s, n) /\ Through("kvs", 0, h, <<>>, t, n + 1)
    BY <1>2, <1>4
  <2> QED BY ONLY <2>1, <2>2, <1>3, <2>3, ThroughAgrees
<1>6. h[n + 1] = Completed(h[n], t[n + 1])
  <2>1. n + 1 \in 1..n + 1 /\ (n + 1) - 1 = n
    BY <1>1
  <2>2. h[n + 1] = Taken("kvs", 0, h[(n + 1) - 1], t[n + 1])
    BY <1>3, <1>4, <2>1, ThroughSteps
  <2> QED BY <2>1, <2>2 DEF Taken
<1> QED BY <1>1, <1>2, <1>4, <1>5, <1>6 DEF t

(* The cache of a context is whole: it predicts as the full predictor      *)
(* does, and with the prediction appended is the cache of the context      *)
(* with one more frame.                                                    *)
LEMMA CacheIs ==
    ASSUME NEW c, IsSeq(c), Len(c) > 0
    PROVE  /\ InitCache(c) = [kvs |-> ZeroActionPrefix(Front(c)), pending |-> <<Last(c)>>]
           /\ IsSeq(InitCache(c).kvs) /\ Len(InitCache(c).kvs) + 1 = Len(c)
           /\ InitCache(c).pending = <<Last(c)>>
<1>1. IsSeq(Front(c)) /\ Len(Front(c)) = Len(c) - 1 /\ Len(c) \in Nat
  BY SeqFront, SeqFacts
<1>2. IsSeq(ZeroActionPrefix(Front(c))) /\ Len(ZeroActionPrefix(Front(c))) = Len(c) - 1
  BY <1>1, PrefixSeq
<1> QED BY <1>1, <1>2 DEF InitCache

LEMMA CacheAdvances ==
    ASSUME NEW c, IsSeq(c), Len(c) > 0, NEW act, NEW block
    PROVE  /\ StepCached(InitCache(c), act)[1] = Predictor(c, act)
           /\ AppendFrame(StepCached(InitCache(c), act)[2], block) = InitCache(Append(c, block))
<1> DEFINE kvs == ZeroActionPrefix(Front(c))
<1>1. InitCache(c) = [kvs |-> kvs, pending |-> <<Last(c)>>]
  BY CacheIs
<1>2. StepCached(InitCache(c), act)[1] = Predictor(c, act)
  BY <1>1 DEF StepCached, Predictor
<1>3. AppendFrame(StepCached(InitCache(c), act)[2], block)
         = [kvs |-> Completed(kvs, Last(c)), pending |-> <<block>>]
  BY <1>1 DEF StepCached, AppendFrame
<1>4. Completed(kvs, Last(c)) = ZeroActionPrefix(c)
  <2>1. IsSeq(Front(c)) /\ c = Append(Front(c), Last(c))
    BY SeqFront
  <2> QED BY <2>1, PrefixAppend
<1>5. Front(Append(c, block)) = c /\ Last(Append(c, block)) = block
  BY SeqAppend
<1> QED BY <1>2, <1>3, <1>4, <1>5 DEF InitCache

-----------------------------------------------------------------------------
(* A step, of a table and a world state that are as they should be.        *)

EntryFits(entry) ==
    /\ IsSeq(entry.context) /\ Len(entry.context) \in 1..config.window
    /\ entry.cache = [kvs |-> entry.cache.kvs, pending |-> <<Last(entry.context)>>]
    /\ IsSeq(entry.cache.kvs) /\ Len(entry.cache.kvs) + 1 = Len(entry.context)
    /\ config.policy = "reinit" => entry.cache = InitCache(entry.context)

TableFits(table) == \A sid \in DOMAIN table : EntryFits(table[sid])

WorldFits(w) ==
    /\ IsSeq(w.context) /\ Len(w.context) \in 1..config.window
    /\ w.acts \in Seq(Actions)
    /\ w = [sid |-> w.sid, context |-> w.context, seed |-> w.seed, acts |-> w.acts]

LEMMA ConfigIs ==
    ASSUME config \in Configs
    PROVE  /\ config.window \in Nat \ {0} /\ config.seed \in Nat /\ config.sink \in Nat
           /\ config.policy \in Policies
           /\ config.cached \in BOOLEAN /\ config.batched \in BOOLEAN /\ config.warm \in BOOLEAN
BY PlannerAssumption

LEMMA GrownIs ==
    ASSUME config \in Configs, NEW c, IsSeq(c), Len(c) \in 1..config.window, NEW block
    PROVE  /\ IsSeq(Grown(c, block))
           /\ Len(Grown(c, block)) = IF Saturated(c) THEN config.window ELSE Len(c) + 1
           /\ Len(Grown(c, block)) \in 1..config.window
           /\ Last(Grown(c, block)) = block
           /\ ~Saturated(c) => Grown(c, block) = Append(c, block)
<1> DEFINE a == Append(c, block)
<1>1. IsSeq(a) /\ Len(a) = Len(c) + 1 /\ Last(a) = block
  BY SeqAppend
<1>2. config.window \in Nat \ {0}
  BY ConfigIs
<1> HIDE DEF a
<1>3. /\ IsSeq(LastOf(config.window, a)) /\ Last(LastOf(config.window, a)) = block
      /\ Len(LastOf(config.window, a)) = IF config.window < Len(a) THEN config.window ELSE Len(a)
  <2>1. Len(a) > 0
    BY <1>1
  <2> QED BY <1>1, <1>2, <2>1, SeqLastOf
<1>4. ~Saturated(c) => LastOf(config.window, a) = a
  BY <1>1, <1>2 DEF Saturated, LastOf
<1>5. Grown(c, block) = LastOf(config.window, a)
  BY DEF Grown, a
<1>6. Saturated(c) <=> config.window < Len(a)
  BY <1>1, <1>2 DEF Saturated
<1> QED BY <1>1, <1>2, <1>3, <1>4, <1>5, <1>6 DEF a

LEMMA SeqRemoveAt ==
    ASSUME NEW s, IsSeq(s), NEW i \in 1..Len(s)
    PROVE  IsSeq(RemoveAt(s, i)) /\ Len(RemoveAt(s, i)) = Len(s) - 1
<1>1. Len(s) \in Nat /\ s \in Seq(Range(s))
  BY SeqFacts DEF IsSeq
<1> DEFINE a == SubSeq(s, 1, i - 1)  b == SubSeq(s, i + 1, Len(s))
<1>2. a \in Seq(Range(s)) /\ Len(a) = i - 1
  BY <1>1
<1>3. b \in Seq(Range(s)) /\ Len(b) = Len(s) - i
  BY <1>1
<1> HIDE DEF a, b
<1>4. a \o b \in Seq(Range(s)) /\ Len(a \o b) = Len(a) + Len(b)
  BY <1>2, <1>3
<1>5. RemoveAt(s, i) = a \o b
  BY DEF RemoveAt, a, b
<1>6. (i - 1) + (Len(s) - i) = Len(s) - 1
  BY <1>1
<1> QED BY <1>2, <1>3, <1>4, <1>5, <1>6, SeqIs

LEMMA TableWith ==
    ASSUME NEW table, TableFits(table), NEW x, NEW e, EntryFits(e)
    PROVE  TableFits(Stored(table, x, e)) /\ DOMAIN Stored(table, x, e) = DOMAIN table \cup {x}
BY DEF TableFits, Stored

LEMMA TableWithout ==
    ASSUME NEW table, TableFits(table), NEW x
    PROVE  TableFits(Removed(table, x)) /\ DOMAIN Removed(table, x) = DOMAIN table \ {x}
BY DEF TableFits, Removed, Restrict

(* The cache a step predicts through is whole.                             *)
CacheUsed(table, w) ==
    IF InSync(table, w.sid, w.context) THEN table[w.sid].cache ELSE InitCache(w.context)

LEMMA CacheUsedIs ==
    ASSUME config \in Configs, NEW table, TableFits(table), NEW w, WorldFits(w)
    PROVE  /\ CacheUsed(table, w) = [kvs |-> CacheUsed(table, w).kvs,
                                     pending |-> <<Last(w.context)>>]
           /\ IsSeq(CacheUsed(table, w).kvs)
           /\ Len(CacheUsed(table, w).kvs) + 1 = Len(w.context)
           /\ config.policy = "reinit" => CacheUsed(table, w) = InitCache(w.context)
<1>1. IsSeq(w.context) /\ Len(w.context) \in 1..config.window /\ Len(w.context) > 0
  BY ConfigIs DEF WorldFits
<1>2. CASE InSync(table, w.sid, w.context)
  <2>1. EntryFits(table[w.sid]) /\ table[w.sid].context = w.context
    BY <1>2 DEF InSync, TableFits
  <2>2. CacheUsed(table, w) = table[w.sid].cache
    BY <1>2 DEF CacheUsed
  <2> QED BY <2>1, <2>2 DEF EntryFits
<1>3. CASE ~InSync(table, w.sid, w.context)
  <2>1. CacheUsed(table, w) = InitCache(w.context)
    BY <1>3 DEF CacheUsed
  <2> QED BY <1>1, <2>1, CacheIs
<1> QED BY <1>2, <1>3

(* What a step keeps of the session's cache.                               *)
LEMMA SyncedFits ==
    ASSUME config \in Configs, NEW table, TableFits(table), NEW w, WorldFits(w), NEW act,
           ~StepRaises(table, w, act), CachedPath(table, w), NEW block
    PROVE  LET made == CachedStep(table, w, act)
               after == Synced(table, w, Grown(w.context, block), made[2], block)
           IN  /\ TableFits(after)
               /\ DOMAIN after \subseteq DOMAIN table \cup {w.sid}
<1> DEFINE cache == CacheUsed(table, w)
           made == CachedStep(table, w, act)
           context == Grown(w.context, block)
           appended == AppendFrame(made[2], block)
           after == Synced(table, w, context, made[2], block)
<1> SUFFICES TableFits(after) /\ DOMAIN after \subseteq DOMAIN table \cup {w.sid}
  OBVIOUS
<1>1. /\ cache = [kvs |-> cache.kvs, pending |-> <<Last(w.context)>>]
      /\ IsSeq(cache.kvs) /\ Len(cache.kvs) + 1 = Len(w.context)
      /\ config.policy = "reinit" => cache = InitCache(w.context)
  BY CacheUsedIs
<1>2. /\ IsSeq(w.context) /\ Len(w.context) \in 1..config.window
      /\ config.window \in Nat \ {0} /\ config.sink \in Nat /\ config.policy \in Policies
      /\ Len(w.context) > 0
  BY ConfigIs DEF WorldFits
<1>3. /\ IsSeq(context) /\ Len(context) \in 1..config.window /\ Last(context) = block
      /\ Len(context) = IF Saturated(w.context) THEN config.window ELSE Len(w.context) + 1
      /\ ~Saturated(w.context) => context = Append(w.context, block)
  BY <1>2, GrownIs
<1>4. made = StepCached(cache, act)
  BY DEF CachedStep, CacheUsed
<1> HIDE DEF cache, context
<1>5. appended = [kvs |-> Completed(cache.kvs, cache.pending[1]), pending |-> <<block>>]
  BY <1>4 DEF StepCached, AppendFrame
<1>6. made[2].kvs = Completed(cache.kvs, cache.pending[1])
  BY <1>4 DEF StepCached
<1>7. IsSeq(appended.kvs) /\ Len(appended.kvs) = Len(w.context)
  BY <1>1, <1>5, SeqAppend DEF Completed
<1> HIDE DEF made
<1>8. CASE Saturated(w.context) /\ config.policy = "reinit"
  <2>1. after = Removed(table, w.sid)
    BY <1>8 DEF Synced
  <2> HIDE DEF after
  <2> QED BY <2>1, TableWithout
<1>9. CASE Saturated(w.context) /\ config.policy # "reinit"
  <2>1. config.policy = "slide"
    BY <1>2, <1>9 DEF Policies
  <2>2. CanEvict(made[2], config.sink)
    BY <1>9, <2>1 DEF StepRaises, made
  <2> DEFINE kept == Evict(appended, config.sink)
             entry == [cache |-> kept, context |-> context]
  <2>3. after = Stored(table, w.sid, entry)
    BY <1>9 DEF Synced
  <2>4. config.sink + 1 \in 1..Len(appended.kvs)
    <3>1. config.sink < Len(appended.kvs)
      BY <1>5, <1>6, <2>2 DEF CanEvict
    <3> QED BY <1>2, <1>7, <3>1
  <2>5. kept = [kvs |-> RemoveAt(appended.kvs, config.sink + 1), pending |-> <<block>>]
    BY <1>5 DEF Evict
  <2>6. IsSeq(kept.kvs) /\ Len(kept.kvs) = Len(w.context) - 1
    <3>1. kept.kvs = RemoveAt(appended.kvs, config.sink + 1)
      BY <2>5
    <3> HIDE DEF appended, kept
    <3> QED BY <1>7, <2>4, <3>1, SeqRemoveAt
  <2>7. Len(w.context) = Len(context)
    BY <1>2, <1>3, <1>9 DEF Saturated
  <2>8. EntryFits(entry)
    <3>1. kept = [kvs |-> kept.kvs, pending |-> <<Last(context)>>]
      BY <1>3, <2>5
    <3>2. Len(kept.kvs) + 1 = Len(context)
      BY <1>2, <2>6, <2>7
    <3> HIDE DEF kept
    <3> QED BY <1>3, <1>9, <2>6, <3>1, <3>2 DEF EntryFits
  <2> HIDE DEF entry, after
  <2> QED BY <2>3, <2>8, TableWith
<1>10. CASE ~Saturated(w.context)
  <2> DEFINE entry == [cache |-> appended, context |-> context]
  <2>1. after = Stored(table, w.sid, entry)
    BY <1>10 DEF Synced
  <2>2. config.policy = "reinit" => appended = InitCache(context)
    <3> SUFFICES ASSUME config.policy = "reinit" PROVE appended = InitCache(context)
      OBVIOUS
    <3>1. appended = AppendFrame(StepCached(InitCache(w.context), act)[2], block)
      BY <1>1, <1>4
    <3>2. context = Append(w.context, block)
      BY <1>3, <1>10
    <3> HIDE DEF appended
    <3> QED BY <1>2, <3>1, <3>2, CacheAdvances
  <2>3. appended = [kvs |-> appended.kvs, pending |-> <<Last(context)>>]
    BY <1>3, <1>5
  <2>4. Len(appended.kvs) + 1 = Len(context)
    BY <1>2, <1>3, <1>7, <1>10
  <2>5. EntryFits(entry)
    <3> HIDE DEF appended
    <3> QED BY <1>3, <1>7, <2>2, <2>3, <2>4 DEF EntryFits
  <2> HIDE DEF entry, after
  <2> QED BY <2>1, <2>5, TableWith
<1> QED BY <1>8, <1>9, <1>10

LEMMA WorldExcept ==
    ASSUME NEW w, NEW x, NEW act,
           w = [sid |-> w.sid, context |-> w.context, seed |-> w.seed, acts |-> w.acts]
    PROVE  [w EXCEPT !.context = x, !.acts = Append(@, act)]
             = [sid |-> w.sid, context |-> x, seed |-> w.seed, acts |-> Append(w.acts, act)]
<1> DEFINE Fields == {"sid", "context", "seed", "acts"}  y == Append(w.acts, act)
<1>1. w = [k \in Fields |-> w[k]]
  OBVIOUS
<1>2. [w EXCEPT !.context = x] = [k \in Fields |-> IF k = "context" THEN x ELSE w[k]]
  BY <1>1
<1>3. [[w EXCEPT !.context = x] EXCEPT !.acts = y]
        = [k \in Fields |-> IF k = "acts" THEN y ELSE IF k = "context" THEN x ELSE w[k]]
  BY <1>2
<1> QED BY <1>3

LEMMA AdvanceFits ==
    ASSUME config \in Configs, NEW table, TableFits(table), NEW w, WorldFits(w),
           NEW act \in Actions
    PROVE  LET after == Advance(table, w, act)
           IN  /\ TableFits(after.table)
               /\ DOMAIN after.table \subseteq DOMAIN table \cup {w.sid}
               /\ WorldFits(after.state)
               /\ after.state.sid = w.sid /\ after.state.seed = w.seed
               /\ after.raised \in BOOLEAN /\ (after.raised <=> StepRaises(table, w, act))
               /\ after.raised => after.state = w
               /\ ~after.raised => after.state.acts = Append(w.acts, act)
               /\ config.policy = "reinit" => /\ ~after.raised
                                              /\ after.state.context = Rolled(w.context, act)
<1> DEFINE after == Advance(table, w, act)
           viaCache == CachedPath(table, w)
           made == CachedStep(table, w, act)
           block == Normed(IF viaCache THEN made[1] ELSE Predictor(w.context, act))
           context == Grown(w.context, block)
<1> SUFFICES /\ TableFits(after.table)
             /\ DOMAIN after.table \subseteq DOMAIN table \cup {w.sid}
             /\ WorldFits(after.state)
             /\ after.state.sid = w.sid /\ after.state.seed = w.seed
             /\ after.raised \in BOOLEAN /\ (after.raised <=> StepRaises(table, w, act))
             /\ after.raised => after.state = w
             /\ ~after.raised => after.state.acts = Append(w.acts, act)
             /\ config.policy = "reinit" => /\ ~after.raised
                                            /\ after.state.context = Rolled(w.context, act)
  OBVIOUS
<1>1. CASE StepRaises(table, w, act)
  <2>1. after = [table |-> table, state |-> w, raised |-> TRUE]
    BY <1>1 DEF Advance
  <2>2. config.policy # "reinit"
    BY <1>1 DEF StepRaises
  <2> HIDE DEF after
  <2> QED BY <1>1, <2>1, <2>2
<1>2. CASE ~StepRaises(table, w, act)
  <2>1. after = [table |-> IF viaCache THEN Synced(table, w, context, made[2], block)
                          ELSE IF config.cached THEN Removed(table, w.sid) ELSE table,
                state |-> [w EXCEPT !.context = context, !.acts = Append(@, act)],
                raised |-> FALSE]
    BY <1>2 DEF Advance
  <2>2. w = [sid |-> w.sid, context |-> w.context, seed |-> w.seed, acts |-> w.acts]
    BY DEF WorldFits
  <2>3. [w EXCEPT !.context = context, !.acts = Append(@, act)]
          = [sid |-> w.sid, context |-> context, seed |-> w.seed, acts |-> Append(w.acts, act)]
    <3> HIDE DEF context
    <3> QED BY <2>2, WorldExcept
  <2>4. IsSeq(context) /\ Len(context) \in 1..config.window
    BY GrownIs DEF WorldFits
  <2>5. Append(w.acts, act) \in Seq(Actions)
    BY DEF WorldFits
  <2>6. config.policy = "reinit" => context = Rolled(w.context, act)
    <3> SUFFICES ASSUME config.policy = "reinit" PROVE block = Normed(Predictor(w.context, act))
      BY DEF Rolled
    <3>1. viaCache => made = StepCached(InitCache(w.context), act)
      BY CacheUsedIs DEF CachedStep, CacheUsed
    <3>2. StepCached(InitCache(w.context), act)[1] = Predictor(w.context, act)
      BY CacheAdvances, ConfigIs DEF WorldFits
    <3> QED BY <3>1, <3>2
  <2>7. viaCache => /\ TableFits(Synced(table, w, context, made[2], block))
                    /\ DOMAIN Synced(table, w, context, made[2], block)
                         \subseteq DOMAIN table \cup {w.sid}
    BY <1>2, SyncedFits
  <2>8. TableFits(Removed(table, w.sid)) /\ DOMAIN Removed(table, w.sid) = DOMAIN table \ {w.sid}
    BY TableWithout
  <2>9. TableFits(after.table) /\ DOMAIN after.table \subseteq DOMAIN table \cup {w.sid}
    <3> HIDE DEF after, viaCache, made, block, context
    <3> QED BY <2>1, <2>7, <2>8
  <2>10. after.state = [sid |-> w.sid, context |-> context, seed |-> w.seed,
                        acts |-> Append(w.acts, act)]
    BY <2>1, <2>3
  <2>11. after.raised = FALSE
    BY <2>1
  <2> HIDE DEF after, viaCache, made, block, context
  <2>12. /\ after.state.sid = w.sid /\ after.state.seed = w.seed
         /\ after.state.context = context /\ after.state.acts = Append(w.acts, act)
    BY <2>10
  <2>13. WorldFits(after.state)
    <3>1. after.state = [sid |-> after.state.sid, context |-> after.state.context,
                         seed |-> after.state.seed, acts |-> after.state.acts]
      BY <2>10
    <3> QED BY <2>4, <2>5, <2>12, <3>1 DEF WorldFits
  <2> QED BY <1>2, <2>6, <2>9, <2>11, <2>12, <2>13
<1> QED BY <1>1, <1>2

-----------------------------------------------------------------------------
(* Rollouts *)

LEMMA BatchedStart ==
    ASSUME NEW w, NEW acts, Len(acts) = 0
    PROVE  RolloutBatched(w, acts) = w.context
<1>1. Len(acts) \in Nat
  OBVIOUS
<1>2. PICK g : Through("window", 0, g, w.context, acts, Len(acts))
               /\ RolloutBatched(w, acts) = g[Len(acts)]
  BY <1>1, BatchedIs
<1> QED BY <1>1, <1>2, ThroughSteps

LEMMA BatchedAppend ==
    ASSUME NEW w, NEW acts, IsSeq(acts), NEW act
    PROVE  RolloutBatched(w, Append(acts, act)) = Rolled(RolloutBatched(w, acts), act)
<1> DEFINE t == Append(acts, act)  n == Len(acts)
<1>1. n \in Nat /\ Len(t) = n + 1 /\ t[n + 1] = act /\ \A i \in 1..n : acts[i] = t[i]
  BY SeqFacts, SeqAppend
<1> HIDE DEF t, n
<1>2. PICK g : Through("window", 0, g, w.context, acts, n) /\ RolloutBatched(w, acts) = g[n]
  BY <1>1, BatchedIs DEF n
<1>3. n + 1 \in Nat /\ n \in Nat
  BY <1>1
<1>4. PICK h : Through("window", 0, h, w.context, t, n + 1) /\ RolloutBatched(w, t) = h[n + 1]
  BY <1>1, <1>3, BatchedIs
<1>5. g[n] = h[n]
  <2>1. n <= n /\ n <= n + 1 /\ SameUpTo(n, acts, t)
    BY <1>1 DEF SameUpTo
  <2>2. Through("window", 0, g, w.context, acts, n) /\ Through("window", 0, h, w.context, t, n + 1)
    BY <1>2, <1>4
  <2> QED BY ONLY <2>1, <2>2, <1>3, ThroughAgrees
<1>6. h[n + 1] = Rolled(h[n], t[n + 1])
  <2>1. n + 1 \in 1..n + 1 /\ (n + 1) - 1 = n
    BY <1>1
  <2>2. h[n + 1] = Taken("window", 0, h[(n + 1) - 1], t[n + 1])
    BY <1>3, <1>4, <2>1, ThroughSteps
  <2> QED BY <2>1, <2>2 DEF Taken
<1> QED BY <1>1, <1>2, <1>4, <1>5, <1>6 DEF t

(* A rollout reads of a world state its context.                           *)
LEMMA BatchedReads ==
    ASSUME NEW w, NEW v, w.context = v.context, NEW acts
    PROVE  RolloutBatched(w, acts) = RolloutBatched(v, acts)
BY DEF RolloutBatched

(* The looped rollout leaves a table that fits, and under "reinit" the     *)
(* window the full predictor gives.                                        *)
LEMMA LoopedFits ==
    ASSUME config \in Configs, NEW table, TableFits(table), NEW w, WorldFits(w),
           NEW acts \in Seq(Actions)
    PROVE  LET after == RolloutLooped(table, w, acts)
           IN  /\ TableFits(after.table)
               /\ DOMAIN after.table \subseteq DOMAIN table \cup {w.sid}
               /\ after.raised \in BOOLEAN
               /\ config.policy = "reinit" => after.state.context = RolloutBatched(w, acts)
<1> DEFINE base == [table |-> table, state |-> w, raised |-> FALSE]
<1>1. Len(acts) \in Nat /\ \A i \in 1..Len(acts) : acts[i] \in Actions
  OBVIOUS
<1>2. PICK g : Through("looped", 0, g, base, acts, Len(acts))
               /\ RolloutLooped(table, w, acts) = g[Len(acts)]
  BY <1>1, LoopedIs
<1>3. g[0] = base /\ \A n \in 1..Len(acts) : g[n] = Walked(g[n - 1], acts[n])
  <2> HIDE DEF base
  <2> QED BY <1>1, <1>2, ThroughSteps DEF Taken
<1>4. PICK h : Through("window", 0, h, w.context, acts, Len(acts))
               /\ RolloutBatched(w, acts) = h[Len(acts)]
  BY <1>1, BatchedIs
<1>5. h[0] = w.context /\ \A n \in 1..Len(acts) : h[n] = Rolled(h[n - 1], acts[n])
  BY <1>1, <1>4, ThroughSteps DEF Taken
<1> DEFINE Good(n) == /\ TableFits(g[n].table)
                      /\ DOMAIN g[n].table \subseteq DOMAIN table \cup {w.sid}
                      /\ WorldFits(g[n].state) /\ g[n].state.sid = w.sid
                      /\ g[n].raised \in BOOLEAN
                      /\ config.policy = "reinit" => /\ ~g[n].raised
                                                     /\ g[n].state.context = h[n]
           S == {n \in Nat : n <= Len(acts) => Good(n)}
<1>6. 0 \in S
  <2>1. g[0].table = table /\ g[0].state = w /\ g[0].raised = FALSE /\ h[0] = w.context
    BY <1>3, <1>5
  <2>2. Good(0)
    BY <2>1
  <2> HIDE DEF Good
  <2> QED BY <2>2
<1>7. ASSUME NEW m \in S PROVE m + 1 \in S
  <2>1. CASE m + 1 <= Len(acts)
    <3>1. m \in Nat /\ m + 1 \in 1..Len(acts) /\ (m + 1) - 1 = m /\ m <= Len(acts)
      BY <1>1, <2>1
    <3>2. Good(m) /\ acts[m + 1] \in Actions
      BY <1>1, <3>1
    <3>3. g[m + 1] = Walked(g[m], acts[m + 1]) /\ h[m + 1] = Rolled(h[m], acts[m + 1])
      BY <1>3, <1>5, <3>1
    <3>4. CASE g[m].raised
      <4>1. g[m + 1] = g[m]
        BY <3>3, <3>4 DEF Walked
      <4> QED BY <3>1, <3>2, <3>4, <4>1
    <3>5. CASE ~g[m].raised
      <4> DEFINE act == acts[m + 1]  tab == g[m].table  v == g[m].state
                 after == Advance(tab, v, act)
      <4>1. TableFits(tab) /\ WorldFits(v) /\ act \in Actions
        BY <3>2
      <4>2. g[m + 1] = after
        BY <3>3, <3>5 DEF Walked
      <4> HIDE DEF act, tab, v
      <4>3. /\ TableFits(after.table)
            /\ DOMAIN after.table \subseteq DOMAIN tab \cup {v.sid}
            /\ WorldFits(after.state)
            /\ after.state.sid = v.sid
            /\ after.raised \in BOOLEAN
            /\ config.policy = "reinit" => /\ ~after.raised
                                           /\ after.state.context = Rolled(v.context, act)
        BY <4>1, AdvanceFits
      <4> HIDE DEF after
      <4>4. Good(m + 1)
        BY <3>2, <3>3, <4>2, <4>3 DEF tab, v, act
      <4> QED BY <3>1, <4>4
    <3> QED BY <3>4, <3>5
  <2>2. CASE ~(m + 1 <= Len(acts))
    BY <2>2
  <2> QED BY <2>1, <2>2
<1>8. S = Nat
  <2>1. S \in SUBSET Nat
    OBVIOUS
  <2> HIDE DEF S
  <2> QED BY <1>6, <1>7, <2>1, AllNumbers
<1>9. Good(Len(acts))
  <2> HIDE DEF Good
  <2> QED BY <1>1, <1>8
<1> QED BY <1>2, <1>4, <1>9

(* So does the rollout over a shared prefix, as long as nothing is evicted. *)
LEMMA SharedExact ==
    ASSUME config \in Configs, NEW w, WorldFits(w),
           NEW acts \in Seq(Actions), acts # <<>>, Fits(w, Len(acts))
    PROVE  RolloutBatchedCached(w, acts).terminal = Last(RolloutBatched(w, acts))
<1> DEFINE base == [cache |-> InitCache(w.context), terminal |-> <<>>]
           N == Len(acts)
<1>1. N \in Nat /\ N > 0
  OBVIOUS
<1>2. PICK g : Through("shared", 0, g, base, acts, N) /\ RolloutBatchedCached(w, acts) = g[N]
  BY <1>1, SharedIs
<1>3. g[0] = base /\ \A n \in 1..N : g[n] = Shared(g[n - 1], acts[n])
  <2> HIDE DEF base, N
  <2> QED BY <1>1, <1>2, ThroughSteps DEF Taken
<1>4. PICK h : Through("window", 0, h, w.context, acts, N) /\ RolloutBatched(w, acts) = h[N]
  BY <1>1, BatchedIs
<1>5. h[0] = w.context /\ \A n \in 1..N : h[n] = Rolled(h[n - 1], acts[n])
  <2> HIDE DEF N
  <2> QED BY <1>1, <1>4, ThroughSteps DEF Taken
<1>6. /\ IsSeq(w.context) /\ Len(w.context) \in Nat \ {0} /\ config.window \in Nat \ {0}
      /\ Len(w.context) + N <= config.window
  BY ConfigIs DEF WorldFits, Fits
<1> HIDE DEF N
<1> DEFINE Good(n) == /\ IsSeq(h[n]) /\ Len(h[n]) = Len(w.context) + n
                      /\ g[n].cache = InitCache(h[n])
                      /\ n > 0 => g[n].terminal = Last(h[n])
           S == {n \in Nat : n <= N => Good(n)}
<1>7. 0 \in S
  BY <1>3, <1>5, <1>6
<1>8. ASSUME NEW m \in S PROVE m + 1 \in S
  <2>1. CASE m + 1 <= N
    <3> DEFINE act == acts[m + 1]  c == h[m]
               block == Normed(Predictor(c, act))
    <3>1. m \in Nat /\ m + 1 \in 1..N /\ (m + 1) - 1 = m /\ m <= N
      BY <1>1, <2>1
    <3>2. Good(m)
      BY <3>1
    <3>3. g[m + 1] = Shared(g[m], act) /\ h[m + 1] = Grown(c, block)
      BY <1>3, <1>5, <3>1 DEF Rolled
    <3>4. /\ IsSeq(c) /\ Len(c) = Len(w.context) + m /\ Len(c) > 0 /\ Len(c) \in 1..config.window
          /\ ~Saturated(c)
      BY <1>1, <1>6, <2>1, <3>1, <3>2 DEF Saturated
    <3>5. StepCached(g[m].cache, act)[1] = Predictor(c, act)
          /\ AppendFrame(StepCached(g[m].cache, act)[2], block) = InitCache(Append(c, block))
      <4>1. g[m].cache = InitCache(c)
        BY <3>2
      <4> HIDE DEF c, block, act
      <4> QED BY <3>4, <4>1, CacheAdvances
    <3>6. Grown(c, block) = Append(c, block)
      <4> HIDE DEF c, block
      <4> QED BY <3>4, GrownIs
    <3>7. IsSeq(Append(c, block)) /\ Len(Append(c, block)) = Len(c) + 1 /\ Last(Append(c, block)) = block
      <4> HIDE DEF c, block
      <4> QED BY <3>4, SeqAppend
    <3>8. g[m + 1].cache = InitCache(Append(c, block)) /\ g[m + 1].terminal = block
      BY <3>3, <3>5 DEF Shared
    <3>9. h[m + 1] = Append(c, block)
      BY <3>3, <3>6
    <3>10. Len(c) + 1 = Len(w.context) + (m + 1)
      BY <1>6, <3>1, <3>4
    <3> HIDE DEF c, block
    <3>11. Good(m + 1)
      BY <3>7, <3>8, <3>9, <3>10
    <3> HIDE DEF Good
    <3> QED BY <3>1, <3>11
  <2>2. CASE ~(m + 1 <= N)
    BY <2>2
  <2> QED BY <2>1, <2>2
<1>9. S = Nat
  <2>1. S \in SUBSET Nat
    OBVIOUS
  <2> HIDE DEF S
  <2> QED BY <1>7, <1>8, <2>1, AllNumbers
<1>10. Good(N)
  <2> HIDE DEF Good
  <2> QED BY <1>1, <1>9
<1> QED BY <1>1, <1>2, <1>4, <1>10

(* Scoring a plan's candidates leaves a table that fits.                   *)
LEMMA ScoredFits ==
    ASSUME config \in Configs, TableFits(kvCache), NEW w, WorldFits(w),
           NEW candidates \in Seq(Seq(Actions))
    PROVE  LET after == Scored(w, candidates)
           IN  /\ TableFits(after.table)
               /\ DOMAIN after.table \subseteq DOMAIN kvCache \cup {w.sid}
               /\ after.raised \in BOOLEAN
<1> DEFINE base == [table |-> kvCache, state |-> w, raised |-> FALSE]
           N == Len(candidates)
<1>1. N \in Nat /\ \A i \in 1..N : candidates[i] \in Seq(Actions)
  OBVIOUS
<1>2. PICK g : /\ Through("scored", w, g, base, candidates, N)
               /\ Scored(w, candidates) = g[IF config.batched THEN 0 ELSE N]
  BY <1>1, ScoredIs
<1>3. g[0] = base /\ \A n \in 1..N : g[n] = Tried(w, g[n - 1], candidates[n])
  <2> HIDE DEF base, N
  <2> QED BY <1>1, <1>2, ThroughSteps DEF Taken
<1> HIDE DEF N
<1> DEFINE Good(n) == /\ TableFits(g[n].table)
                      /\ DOMAIN g[n].table \subseteq DOMAIN kvCache \cup {w.sid}
                      /\ g[n].raised \in BOOLEAN
           S == {n \in Nat : n <= N => Good(n)}
<1>4. 0 \in S
  <2>1. g[0].table = kvCache /\ g[0].raised = FALSE
    BY <1>3
  <2>2. Good(0)
    BY <2>1
  <2> HIDE DEF Good
  <2> QED BY <2>2
<1>5. ASSUME NEW m \in S PROVE m + 1 \in S
  <2>1. CASE m + 1 <= N
    <3> DEFINE acts == candidates[m + 1]  tab == g[m].table
               after == RolloutLooped(tab, w, acts)
    <3>1. m \in Nat /\ m + 1 \in 1..N /\ (m + 1) - 1 = m /\ m <= N
      BY <1>1, <2>1
    <3>2. Good(m) /\ acts \in Seq(Actions)
      BY <1>1, <3>1
    <3>3. g[m + 1] = IF g[m].raised THEN g[m] ELSE after
      BY <1>3, <3>1 DEF Tried
    <3>4. TableFits(tab)
      BY <3>2
    <3> HIDE DEF acts, tab
    <3>5. /\ TableFits(after.table)
          /\ DOMAIN after.table \subseteq DOMAIN tab \cup {w.sid}
          /\ after.raised \in BOOLEAN
      BY <3>2, <3>4, LoopedFits
    <3> HIDE DEF after
    <3>6. Good(m + 1)
      BY <3>2, <3>3, <3>5 DEF tab
    <3> QED BY <3>1, <3>6
  <2>2. CASE ~(m + 1 <= N)
    BY <2>2
  <2> QED BY <2>1, <2>2
<1>6. S = Nat
  <2>1. S \in SUBSET Nat
    OBVIOUS
  <2> HIDE DEF S
  <2> QED BY <1>4, <1>5, <2>1, AllNumbers
<1>7. Good(0) /\ Good(N)
  <2> HIDE DEF Good
  <2> QED BY <1>1, <1>6
<1> QED BY <1>2, <1>7

-----------------------------------------------------------------------------
(* The planner's invariant: every world state and every cache entry fits   *)
(* the window, an entry under "reinit" is exactly the cache of the context *)
(* it is filed under, nothing is kept of a session nobody holds, and every *)
(* context is what replaying its actions gives.                            *)

Held == {w.sid : w \in states}

PlannerInv ==
    /\ config \in Configs
    /\ \A w \in states : WorldFits(w)
    /\ TableFits(kvCache) /\ DOMAIN kvCache \subseteq Held
    /\ DOMAIN planMean \subseteq Held
    /\ \A sid \in DOMAIN planMean : planMean[sid] \in Seq(Actions)
    /\ StatesAreExact

LEMMA PlannerInvTypes == PlannerInv => PlannerTypeOK
<1> SUFFICES ASSUME PlannerInv PROVE PlannerTypeOK
  OBVIOUS
<1>1. \A w \in states : Len(w.context) \in 1..config.window
  BY DEF PlannerInv, WorldFits
<1>2. ASSUME NEW sid \in DOMAIN kvCache
      PROVE  /\ Len(kvCache[sid].cache.kvs) + 1 = Len(kvCache[sid].context)
             /\ kvCache[sid].cache.pending = <<Last(kvCache[sid].context)>>
  <2>1. EntryFits(kvCache[sid])
    BY DEF PlannerInv, TableFits
  <2> DEFINE e == kvCache[sid]
  <2>2. e.cache = [kvs |-> e.cache.kvs, pending |-> <<Last(e.context)>>]
    BY <2>1 DEF EntryFits
  <2> QED BY <2>1, <2>2 DEF EntryFits
<1> QED BY <1>1, <1>2 DEF PlannerInv, PlannerTypeOK, Held

LEMMA PlannerInvTerminals == PlannerInv => TerminalsAgree
<1> SUFFICES ASSUME PlannerInv, config.policy = "reinit", NEW w \in states, NEW acts \in Noises
             PROVE  /\ Last(RolloutLooped(kvCache, w, acts).state.context)
                         = Last(RolloutBatched(w, acts))
                    /\ Fits(w, Len(acts)) =>
                         RolloutBatchedCached(w, acts).terminal = Last(RolloutBatched(w, acts))
  BY DEF TerminalsAgree
<1>1. config \in Configs /\ TableFits(kvCache) /\ WorldFits(w)
  BY DEF PlannerInv
<1>2. acts \in Seq(Actions) /\ acts # <<>>
  BY PlannerAssumption
<1>3. RolloutLooped(kvCache, w, acts).state.context = RolloutBatched(w, acts)
  BY <1>1, <1>2, LoopedFits
<1> QED BY <1>1, <1>2, <1>3, SharedExact

LEMMA PlannerStart == PlannerInit => PlannerInv
BY DEF PlannerInit, PlannerInv, TableFits, StatesAreExact, Held

LEMMA ReplayOf ==
    ASSUME NEW w, WorldFits(w)
    PROVE  [w EXCEPT !.context = w.seed].context = w.seed
<1>1. w = [sid |-> w.sid, context |-> w.context, seed |-> w.seed, acts |-> w.acts]
  BY DEF WorldFits
<1>2. "context" \in DOMAIN w
  BY <1>1
<1> QED BY <1>2

LEMMA ResetKeeps ==
    ASSUME PlannerInv, NEW sid \in Sessions, NEW clip \in Clips, Reset(sid, clip)
    PROVE  PlannerInv'
<1> DEFINE seed == IF config.seed = 0 THEN config.window ELSE Min({config.seed, config.window})
           frames == LastOf(seed, clip)
           context == [i \in DOMAIN frames |-> Normed(frames[i])]
           new == [sid |-> sid, context |-> context, seed |-> context, acts |-> <<>>]
<1>1. /\ states' = states \cup {new}
      /\ config' = config /\ kvCache' = kvCache /\ planMean' = planMean
  BY DEF Reset
<1>2. config \in Configs
  BY DEF PlannerInv
<1>3. seed \in 1..config.window
  <2>1. config.window \in Nat \ {0} /\ config.seed \in Nat
    BY <1>2, ConfigIs
  <2>2. ASSUME config.seed # 0
        PROVE  Min({config.seed, config.window}) \in 1..config.window
    <3> DEFINE P == {config.seed, config.window}
    <3>1. \E x \in P : \A y \in P : x <= y
      <4>1. config.seed <= config.window \/ config.window <= config.seed
        BY <2>1
      <4> QED BY <2>1, <4>1
    <3>2. Min(P) \in P /\ \A y \in P : Min(P) <= y
      <4> HIDE DEF P
      <4> QED BY <3>1 DEF Min
    <3> QED BY <2>1, <2>2, <3>2
  <2> QED BY <2>1, <2>2
<1>4. IsSeq(clip) /\ Len(clip) \in Nat \ {0}
  <2>1. clip \in Seq(Range(clip)) /\ clip # <<>>
    BY PlannerAssumption
  <2> QED BY <2>1 DEF IsSeq
<1>5. IsSeq(frames) /\ Len(frames) \in 1..config.window
  <2>1. seed \in Nat \ {0} /\ config.window \in Nat /\ seed <= config.window
    BY <1>2, <1>3, ConfigIs
  <2> HIDE DEF seed
  <2>2. /\ IsSeq(LastOf(seed, clip))
        /\ Len(LastOf(seed, clip)) = IF seed < Len(clip) THEN seed ELSE Len(clip)
    BY <1>4, <2>1, SeqLastOf
  <2> QED BY <1>4, <2>1, <2>2
<1>6. IsSeq(context) /\ Len(context) = Len(frames)
  <2>1. DOMAIN frames = 1..Len(frames) /\ Len(frames) \in Nat
    BY <1>5, SeqFacts
  <2> HIDE DEF frames
  <2>2. context \in [1..Len(frames) -> Range(context)]
    BY <2>1 DEF Range
  <2> HIDE DEF context
  <2> QED BY <2>1, <2>2, FunIsSeq
<1>7. WorldFits(new)
  <2>1. <<>> \in Seq(Actions)
    OBVIOUS
  <2> HIDE DEF context, frames
  <2> QED BY <1>5, <1>6, <2>1 DEF WorldFits
<1>8. new.context = RolloutBatched([new EXCEPT !.context = new.seed], new.acts)
  <2>1. new.acts = <<>> /\ new.context = context /\ new.seed = context
    OBVIOUS
  <2> HIDE DEF new
  <2>2. [new EXCEPT !.context = new.seed].context = new.seed
    BY <1>7, ReplayOf
  <2> QED BY <2>1, <2>2, BatchedStart
<1> HIDE DEF new
<1>9. StatesAreExact'
  <2>1. \A w \in states : config.policy = "reinit" =>
           w.context = RolloutBatched([w EXCEPT !.context = w.seed], w.acts)
    BY DEF PlannerInv, StatesAreExact
  <2>2. \A w, acts : RolloutBatched(w, acts)' = RolloutBatched(w, acts)
    BY <1>1 DEF RolloutBatched, Rolled, Grown
  <2> QED BY <1>1, <1>8, <2>1, <2>2 DEF StatesAreExact
<1>10. \A w \in states' : WorldFits(w)'
  BY <1>1, <1>7 DEF PlannerInv, WorldFits
<1>11. TableFits(kvCache)'
  BY <1>1 DEF PlannerInv, TableFits, EntryFits
<1>12. Held \subseteq Held'
  BY <1>1 DEF Held
<1> QED BY <1>1, <1>9, <1>10, <1>11, <1>12 DEF PlannerInv

(* What an operation that leaves the configuration alone must show.        *)
LEMMA KeepsPlannerInv ==
    ASSUME PlannerInv, config' = config,
           \A w \in states' : WorldFits(w),
           TableFits(kvCache'), DOMAIN kvCache' \subseteq Held', DOMAIN planMean' \subseteq Held',
           \A sid \in DOMAIN planMean' : planMean'[sid] \in Seq(Actions),
           config.policy = "reinit" => \A w \in states' :
              w.context = RolloutBatched([w EXCEPT !.context = w.seed], w.acts)
    PROVE  PlannerInv'
<1>1. (\A w \in states : WorldFits(w))'
  BY DEF WorldFits
<1>2. TableFits(kvCache)'
  BY DEF TableFits, EntryFits
<1>3. StatesAreExact'
  <2>1. \A w, acts : RolloutBatched(w, acts)' = RolloutBatched(w, acts)
    BY DEF RolloutBatched, Rolled, Grown
  <2> QED BY <2>1 DEF StatesAreExact
<1> QED BY <1>1, <1>2, <1>3 DEF PlannerInv

LEMMA StepKeeps ==
    ASSUME PlannerInv, NEW w \in states, NEW act \in Actions, Step(w, act)
    PROVE  PlannerInv'
<1> DEFINE after == Advance(kvCache, w, act)
<1>1. /\ ~after.raised
      /\ kvCache' = after.table
      /\ states' = states \cup {after.state} \/ states' = (states \ {w}) \cup {after.state}
      /\ config' = config /\ planMean' = planMean
  BY DEF Step
<1>2. config \in Configs /\ TableFits(kvCache) /\ WorldFits(w)
  BY DEF PlannerInv
<1>3. /\ TableFits(after.table)
      /\ DOMAIN after.table \subseteq DOMAIN kvCache \cup {w.sid}
      /\ WorldFits(after.state)
      /\ after.state.sid = w.sid /\ after.state.seed = w.seed
      /\ after.raised \in BOOLEAN /\ (after.raised <=> StepRaises(kvCache, w, act))
      /\ after.raised => after.state = w
      /\ ~after.raised => after.state.acts = Append(w.acts, act)
      /\ config.policy = "reinit" => /\ ~after.raised
                                     /\ after.state.context = Rolled(w.context, act)
  BY ONLY <1>2, AdvanceFits
<1> DEFINE v == after.state
<1> HIDE DEF after
<1>4. Held' = Held
  BY <1>1, <1>3 DEF Held
<1>5. \A x \in states' : WorldFits(x)
  BY <1>1, <1>3 DEF PlannerInv
<1>6. ASSUME config.policy = "reinit"
      PROVE  v.context = RolloutBatched([v EXCEPT !.context = v.seed], v.acts)
  <2> DEFINE old == [w EXCEPT !.context = w.seed]  new == [v EXCEPT !.context = v.seed]
  <2>1. w.context = RolloutBatched(old, w.acts)
    BY <1>6 DEF PlannerInv, StatesAreExact
  <2>2. old.context = w.seed /\ new.context = v.seed
    <3>1. old.context = w.seed
      BY <1>2, ReplayOf
    <3> HIDE DEF v
    <3>2. new.context = v.seed
      BY <1>3, ReplayOf DEF v
    <3> QED BY <3>1, <3>2
  <2>3. v.seed = w.seed /\ v.acts = Append(w.acts, act) /\ v.context = Rolled(w.context, act)
    BY <1>1, <1>3, <1>6
  <2> HIDE DEF old, new, v
  <2>4. RolloutBatched(new, v.acts) = RolloutBatched(old, v.acts)
    <3>1. new.context = old.context
      BY <2>2, <2>3
    <3> QED BY <3>1, BatchedReads
  <2>5. IsSeq(w.acts)
    BY <1>2, SeqIs DEF WorldFits
  <2>6. RolloutBatched(old, Append(w.acts, act)) = Rolled(RolloutBatched(old, w.acts), act)
    BY <2>5, BatchedAppend
  <2> QED BY <2>1, <2>3, <2>4, <2>6 DEF new
<1>7. config.policy = "reinit" => \A x \in states' :
              x.context = RolloutBatched([x EXCEPT !.context = x.seed], x.acts)
  <2> SUFFICES ASSUME config.policy = "reinit", NEW x \in states'
               PROVE  x.context = RolloutBatched([x EXCEPT !.context = x.seed], x.acts)
    OBVIOUS
  <2>1. CASE x \in states
    BY <2>1 DEF PlannerInv, StatesAreExact
  <2>2. CASE x = v
    BY <1>6, <2>2
  <2> QED BY <1>1, <2>1, <2>2
<1>8. DOMAIN kvCache' \subseteq Held' /\ DOMAIN planMean' \subseteq Held'
  <2>1. DOMAIN kvCache \subseteq Held /\ DOMAIN planMean \subseteq Held /\ w.sid \in Held
    BY DEF PlannerInv, Held
  <2> QED BY <1>1, <1>3, <1>4, <2>1
<1>9. \A sid \in DOMAIN planMean' : planMean'[sid] \in Seq(Actions)
  BY <1>1 DEF PlannerInv
<1> QED BY <1>1, <1>3, <1>5, <1>7, <1>8, <1>9, KeepsPlannerInv

(* A warm start and the draws around it are sequences of actions.          *)
LEMMA SampledIs ==
    ASSUME PlannerInv, NEW w \in states, NEW noise \in Seq(Actions),
           NEW horizon, Len(noise) = horizon, noise # <<>>
    PROVE  Sampled(WarmStart(w.sid, horizon), noise) \in Seq(Actions)
<1> DEFINE mean == WarmStart(w.sid, horizon)
<1>1. horizon \in Nat \ {0}
  OBVIOUS
<1>2. mean \in Seq(Actions) /\ Len(mean) = horizon
  <2>1. CASE config.warm /\ w.sid \in DOMAIN planMean /\ Len(planMean[w.sid]) = horizon
    <3> DEFINE p == planMean[w.sid]
    <3>1. p \in Seq(Actions) /\ Len(p) = horizon
      BY <2>1 DEF PlannerInv
    <3>2. mean = Append(Tail(p), Last(p))
      BY <2>1 DEF WarmStart
    <3> HIDE DEF p, mean
    <3>3. Last(p) \in Actions
      BY <1>1, <3>1 DEF Last
    <3>4. Tail(p) \in Seq(Actions) /\ Len(Tail(p)) = horizon - 1
      BY <1>1, <3>1
    <3> QED BY <1>1, <3>2, <3>3, <3>4
  <2>2. CASE ~(config.warm /\ w.sid \in DOMAIN planMean /\ Len(planMean[w.sid]) = horizon)
    <3>1. mean = [i \in 1..horizon |-> Zero]
      BY <2>2 DEF WarmStart
    <3> QED BY <1>1, <3>1 DEF Zero, Actions
  <2> QED BY <2>1, <2>2
<1> HIDE DEF mean
<1>3. DOMAIN mean = 1..horizon /\ Sampled(mean, noise) = [i \in 1..horizon |-> (mean[i] + noise[i]) % 2]
  BY <1>1, <1>2 DEF Sampled
<1>4. \A i \in 1..horizon : (mean[i] + noise[i]) % 2 \in Actions
  <2> TAKE i \in 1..horizon
  <2>1. mean[i] \in {0, 1} /\ noise[i] \in {0, 1}
    BY <1>1, <1>2 DEF Actions
  <2>2. (0 + 0) % 2 = 0 /\ (0 + 1) % 2 = 1 /\ (1 + 0) % 2 = 1 /\ (1 + 1) % 2 = 0
    OBVIOUS
  <2> QED BY <2>1, <2>2 DEF Actions
<1> QED BY <1>1, <1>3, <1>4 DEF mean

LEMMA PlanKeeps ==
    ASSUME PlannerInv, NEW w \in states, NEW first \in Noises, NEW second \in Noises,
           Plan(w, <<first, second>>)
    PROVE  PlannerInv'
<1> DEFINE noises == <<first, second>>
           horizon == Len(noises[1])
           mean == WarmStart(w.sid, horizon)
           seqs == [i \in DOMAIN noises |-> Sampled(mean, noises[i])]
           scored == Scored(w, seqs)
<1>1. /\ \A i \in DOMAIN noises : Len(noises[i]) = horizon
      /\ kvCache' = scored.table
      /\ \/ planMean' = planMean
         \/ \E elite \in Range(seqs) : planMean' = Stored(planMean, w.sid, elite)
      /\ config' = config /\ states' = states
  BY DEF Plan
<1>2. \A i \in {1, 2} : Sampled(mean, noises[i]) \in Seq(Actions)
  <2>1. \A i \in {1, 2} : noises[i] \in Noises /\ Len(noises[i]) = horizon
    BY <1>1
  <2>2. \A i \in {1, 2} : noises[i] \in Seq(Actions) /\ noises[i] # <<>>
    BY <2>1, PlannerAssumption
  <2> HIDE DEF noises, horizon
  <2> QED BY <2>1, <2>2, SampledIs
<1>3. seqs \in Seq(Seq(Actions)) /\ Range(seqs) \subseteq Seq(Actions)
  <2>1. DOMAIN noises = {1, 2} /\ {1, 2} = 1..2
    OBVIOUS
  <2>2. seqs = [i \in 1..2 |-> Sampled(mean, noises[i])]
    BY <2>1
  <2> HIDE DEF seqs, noises, mean
  <2> DEFINE Plans == Seq(Actions)
  <2> HIDE DEF Plans
  <2>3. seqs \in [1..2 -> Plans]
    BY <1>2, <2>1, <2>2 DEF Plans
  <2>4. seqs \in Seq(Plans)
    <3>1. \A n \in Nat : [1..n -> Plans] \subseteq Seq(Plans)
      OBVIOUS
    <3> QED BY <2>3, <3>1
  <2>5. Range(seqs) \subseteq Plans
    BY ONLY <2>3 DEF Range
  <2> QED BY <2>4, <2>5 DEF Plans
<1> HIDE DEF seqs
<1>4. config \in Configs /\ TableFits(kvCache) /\ WorldFits(w)
  BY DEF PlannerInv
<1>5. TableFits(scored.table) /\ DOMAIN scored.table \subseteq DOMAIN kvCache \cup {w.sid}
  BY <1>3, <1>4, ScoredFits
<1> HIDE DEF scored
<1>6. w.sid \in Held /\ Held' = Held
  BY <1>1 DEF Held
<1>7. /\ DOMAIN planMean' \subseteq Held'
      /\ \A sid \in DOMAIN planMean' : planMean'[sid] \in Seq(Actions)
  <2>1. CASE planMean' = planMean
    BY <1>6, <2>1 DEF PlannerInv
  <2>2. CASE \E elite \in Range(seqs) : planMean' = Stored(planMean, w.sid, elite)
    <3>1. PICK elite \in Range(seqs) : planMean' = Stored(planMean, w.sid, elite)
      BY <2>2
    <3>2. elite \in Seq(Actions)
      BY <1>3
    <3>3. /\ DOMAIN planMean' = DOMAIN planMean \cup {w.sid}
          /\ \A y \in DOMAIN planMean' : planMean'[y] = IF y = w.sid THEN elite ELSE planMean[y]
      BY <3>1 DEF Stored
    <3> QED BY <1>6, <3>2, <3>3 DEF PlannerInv
  <2> QED BY <1>1, <2>1, <2>2
<1>8. DOMAIN kvCache' \subseteq Held'
  BY <1>1, <1>5, <1>6 DEF PlannerInv
<1>9. /\ \A x \in states' : WorldFits(x)
      /\ config.policy = "reinit" => \A x \in states' :
              x.context = RolloutBatched([x EXCEPT !.context = x.seed], x.acts)
  BY <1>1 DEF PlannerInv, StatesAreExact
<1> QED BY <1>1, <1>5, <1>7, <1>8, <1>9, KeepsPlannerInv

LEMMA ReleaseKeeps ==
    ASSUME PlannerInv, NEW sid, Release(sid)
    PROVE  PlannerInv'
<1>1. /\ kvCache' = Removed(kvCache, sid) /\ planMean' = Removed(planMean, sid)
      /\ states' = {w \in states : w.sid # sid} /\ config' = config
  BY DEF Release
<1>2. TableFits(kvCache') /\ DOMAIN kvCache' = DOMAIN kvCache \ {sid}
  BY <1>1, TableWithout DEF PlannerInv
<1>3. /\ DOMAIN planMean' = DOMAIN planMean \ {sid}
      /\ \A x \in DOMAIN planMean' : planMean'[x] = planMean[x]
  BY <1>1 DEF Removed, Restrict
<1>4. Held' = Held \ {sid}
  BY <1>1 DEF Held
<1>5. /\ \A x \in states' : WorldFits(x)
      /\ config.policy = "reinit" => \A x \in states' :
              x.context = RolloutBatched([x EXCEPT !.context = x.seed], x.acts)
  BY <1>1 DEF PlannerInv, StatesAreExact
<1>6. DOMAIN kvCache' \subseteq Held' /\ DOMAIN planMean' \subseteq Held'
  BY <1>2, <1>3, <1>4 DEF PlannerInv
<1>7. \A x \in DOMAIN planMean' : planMean'[x] \in Seq(Actions)
  BY <1>3 DEF PlannerInv
<1> QED BY <1>1, <1>2, <1>5, <1>6, <1>7, KeepsPlannerInv

LEMMA StutterKeeps == PlannerInv /\ UNCHANGED plannerVars => PlannerInv'
<1> SUFFICES ASSUME PlannerInv, UNCHANGED plannerVars PROVE PlannerInv'
  OBVIOUS
<1>1. /\ config' = config /\ kvCache' = kvCache /\ planMean' = planMean /\ states' = states
      /\ Held' = Held
  BY DEF plannerVars, Held
<1> QED BY <1>1, KeepsPlannerInv DEF PlannerInv, StatesAreExact

LEMMA NextKeeps == PlannerInv /\ [PlannerNext]_plannerVars => PlannerInv'
<1> SUFFICES ASSUME PlannerInv, [PlannerNext]_plannerVars PROVE PlannerInv'
  OBVIOUS
<1>1. CASE \E sid \in Sessions, clip \in Clips : Reset(sid, clip)
  BY <1>1, ResetKeeps
<1>2. CASE \E w \in states, act \in Actions : Step(w, act)
  BY <1>2, StepKeeps
<1>3. CASE \E w \in states, act \in Actions : StepFails(w, act)
  BY <1>3, StutterKeeps DEF StepFails
<1>4. CASE \E w \in states, first, second \in Noises : Plan(w, <<first, second>>)
  BY <1>4, PlanKeeps
<1>5. CASE \E sid \in Sessions : Release(sid)
  BY <1>5, ReleaseKeeps
<1>6. CASE UNCHANGED plannerVars
  BY <1>6, StutterKeeps
<1> QED BY <1>1, <1>2, <1>3, <1>4, <1>5, <1>6 DEF PlannerNext

LEMMA PlannerInvariance == PlannerSpec => []PlannerInv
BY PlannerStart, NextKeeps, PTL DEF PlannerSpec

(* The planner's tables are of their types: what is kept of a session has  *)
(* one key/value per frame of its context but the pending one, and nothing *)
(* is kept of a released session (models/vjepa2_ac.py, _kv_cache).         *)
THEOREM PlannerTypes == PlannerSpec => []PlannerTypeOK
BY PlannerInvariance, PlannerInvTypes, PTL

(* No cache is ever a wrong answer: whatever steps, plans, branches and    *)
(* releases came before, every state held is what the full predictor gives *)
(* for its actions, and looped, batched and shared-prefix rollouts of any  *)
(* candidate end in the same frame (models/vjepa2_ac.py, _step_cached,     *)
(* _rollout_energy, _rollout_energy_batched_cached).                       *)
THEOREM RolloutsAreExact == PlannerSpec => []RolloutIsExact
<1>1. PlannerInv => RolloutIsExact
  BY PlannerInvTerminals DEF RolloutIsExact, PlannerInv
<1> QED BY <1>1, PlannerInvariance, PTL

-----------------------------------------------------------------------------
(* The batch engines: what the loop has of its steps                       *)

(* One step further from the warmup, in a cadence of k.                    *)
LEMMA NextInCadence ==
    ASSUME NEW n \in Nat, NEW k \in Nat \ {0}, (n + 1) % k # 0
    PROVE  (n + 1) % k = (n % k) + 1
<1> DEFINE q == n \div k  r == n % k
<1>1. q \in Nat /\ r \in 0..k - 1 /\ n = k * q + r
  OBVIOUS
<1>2. CASE r + 1 = k
  <2>1. n + 1 = k * (q + 1)
    BY <1>1, <1>2
  <2>2. (k * (q + 1)) % k = 0
    BY <1>1
  <2> QED BY <2>1, <2>2
<1>3. CASE r + 1 < k
  <2>1. n + 1 = k * q + (r + 1)
    BY <1>1
  <2> HIDE DEF q, r
  <2>2. (k * q + (r + 1)) % k = r + 1
    BY <1>1, <1>3
  <2> QED BY <2>1, <2>2 DEF r
<1> QED BY <1>1, <1>2, <1>3

(* What holds of a call's prediction once the decision of step s is made:  *)
(* how far it lies back, by the caching mode.                              *)
Spaced(r, s) ==
    /\ r.cached \in 0..s /\ r.since \in 0..s
    /\ Mode = "none" => r.cached = s
    /\ Mode = "fixed" =>
          IF build.skipEvery >= 2 /\ s >= build.warmup
          THEN s - r.cached <= (s - build.warmup) % build.skipEvery
          ELSE r.cached = s
    /\ Mode = "adaptive" =>
          /\ s - r.cached = r.since
          /\ build.forceEvery > 0 => r.since <= build.forceEvery
          /\ s = Steps - 1 => r.cached = s

CallFits(r) ==
    /\ r \in Call
    /\ r.at \in {"load", "build", "text", "gate", "start"} =>
          r.step = 0 /\ r.cached = None /\ r.since = 0
    /\ r.at = "forward" =>
          /\ r.step < Steps
          /\ r.step = 0 => r.cached = None /\ r.since = 0
          /\ r.step > 0 => Spaced(r, r.step - 1)
    /\ r.at = "advance" => r.step < Steps /\ Spaced(r, r.step)

BatchInv ==
    /\ build \in BatchConfigs
    /\ dit \in {"none", "plain", "compiled"} /\ uncompiled \in BOOLEAN
    /\ DOMAIN run = Threads
    /\ \A t \in Threads : run[t] = Idle \/ CallFits(run[t])
    /\ calls \in 0..MaxRequests /\ overlapped \subseteq Threads

LEMMA BuildIs ==
    ASSUME build \in BatchConfigs
    PROVE  /\ build.model \in {"cosmos", "wan"} /\ build.compile \in BOOLEAN /\ build.ceiling \in Nat
           /\ build.native \in BOOLEAN /\ build.mode \in {"none", "fixed", "adaptive"}
           /\ build.skipEvery \in Nat /\ build.warmup \in Nat /\ build.threshold \in Nat
           /\ build.forceEvery \in Nat
           /\ Mode \in {"none", "fixed", "adaptive"}
           /\ Steps \in Nat \ {0}
<1>1. build \in Config /\ Steps \in Nat \ {0}
  BY BatchAssumption
<1> QED BY <1>1 DEF Config, Mode

LEMMA CallIs ==
    ASSUME NEW r \in Call
    PROVE  /\ r # Idle /\ r.step \in 0..Steps /\ r.cached \in 0..Steps \cup {None}
           /\ r.drift \in Nat /\ r.since \in 0..Steps /\ r.frames \in FrameCounts
           /\ r.on \in {"none", "plain", "compiled"} /\ r.stray \in BOOLEAN
<1>1. r.at # "idle"
  BY DEF Call
<1>2. r # Idle
  BY <1>1 DEF Idle
<1> QED BY <1>2 DEF Call

(* The decision of a step, and the forward it makes.                       *)
Decided(r, delta) ==
    LET measured == IF Measures(r) THEN delta ELSE 0
    IN  IF Skips(r, delta)
        THEN [r EXCEPT !.at = "advance", !.drift = @ + measured, !.since = @ + 1]
        ELSE [r EXCEPT !.at = "advance", !.cached = r.step, !.on = dit,
                       !.drift = IF Mode = "adaptive" THEN 0 ELSE @,
                       !.since = IF Mode = "adaptive" THEN 0 ELSE @]

LEMMA DecidedFits ==
    ASSUME build \in BatchConfigs, dit \in {"none", "plain", "compiled"},
           NEW r, CallFits(r), r.at = "forward", NEW delta \in Deltas
    PROVE  CallFits(Decided(r, delta)) /\ Decided(r, delta).at = "advance"
<1> DEFINE d == Decided(r, delta)
<1> SUFFICES CallFits(d) /\ d.at = "advance"
  OBVIOUS
<1>1. r \in Call /\ r.step < Steps /\ (r.step = 0 => r.cached = None /\ r.since = 0)
      /\ (r.step > 0 => Spaced(r, r.step - 1))
  BY DEF CallFits
<1>2. /\ r.step \in 0..Steps /\ r.cached \in 0..Steps \cup {None} /\ r.drift \in Nat
      /\ r.since \in 0..Steps
  BY <1>1, CallIs
<1>3. delta \in Nat
  BY BatchAssumption
<1>4. /\ Mode \in {"none", "fixed", "adaptive"} /\ Steps \in Nat \ {0}
      /\ build.skipEvery \in Nat /\ build.warmup \in Nat /\ build.forceEvery \in Nat
  BY BuildIs
<1>5. CASE Skips(r, delta)
  <2> DEFINE measured == IF Measures(r) THEN delta ELSE 0
  <2>1. d = [r EXCEPT !.at = "advance", !.drift = r.drift + measured, !.since = r.since + 1]
    BY <1>5 DEF Decided
  <2>2. \/ Mode = "fixed" /\ FixedSkips(r)
        \/ Mode = "adaptive" /\ Measures(r)
    BY <1>5 DEF Skips, AdaptiveSkips
  <2>3. r.cached # None /\ r.step > 0 /\ Spaced(r, r.step - 1)
    BY <1>1, <1>2, <2>2 DEF FixedSkips, Measures
  <2>4. r.cached \in 0..r.step - 1 /\ r.since \in 0..r.step - 1
    BY <2>3 DEF Spaced
  <2>5. /\ d \in Call /\ d.at = "advance" /\ d.step = r.step /\ d.cached = r.cached
        /\ d.since = r.since + 1
    <3>1. measured \in Nat /\ r.since + 1 \in 0..Steps
      BY <1>1, <1>2, <1>3, <1>4, <2>4
    <3>2. r.drift + measured \in Nat
      <4> HIDE DEF measured
      <4> QED BY <1>2, <3>1
    <3> HIDE DEF d, measured
    <3> QED BY <1>1, <2>1, <3>1, <3>2 DEF Call
  <2>6. Spaced(d, d.step)
    <3> HIDE DEF d, measured
    <3>1. CASE Mode = "fixed" /\ FixedSkips(r)
      <4>1. /\ build.skipEvery >= 2 /\ r.step >= build.warmup
            /\ (r.step - build.warmup) % build.skipEvery # 0
        BY <3>1 DEF FixedSkips
      <4>2. r.step # build.warmup
        <5>1. 0 % build.skipEvery = 0
          BY <1>4, <4>1
        <5> QED BY <1>2, <1>4, <4>1, <5>1
      <4> DEFINE n == (r.step - 1) - build.warmup
      <4>3. n \in Nat /\ n + 1 = r.step - build.warmup /\ r.step - 1 >= build.warmup
        BY <1>2, <1>4, <4>1, <4>2
      <4>4. (n + 1) % build.skipEvery = (n % build.skipEvery) + 1
        <5> HIDE DEF n
        <5> QED BY <1>4, <4>1, <4>3, NextInCadence
      <4>5. (r.step - 1) - r.cached <= n % build.skipEvery
        BY <2>3, <3>1, <4>1, <4>3 DEF Spaced
      <4> DEFINE a == n % build.skipEvery  b == (r.step - build.warmup) % build.skipEvery
      <4>6. b = a + 1 /\ a \in Nat
        BY <1>4, <4>1, <4>3, <4>4
      <4> HIDE DEF a, b, n
      <4>7. r.step - r.cached <= b
        <5>1. (r.step - 1) - r.cached <= a
          BY <4>5 DEF a
        <5> QED BY <1>2, <2>4, <4>6, <5>1
      <4> QED BY <1>2, <2>4, <2>5, <3>1, <4>1, <4>7 DEF Spaced, b
    <3>2. CASE Mode = "adaptive" /\ Measures(r)
      <4>1. r.step # Steps - 1 /\ (build.forceEvery > 0 => r.since < build.forceEvery)
        BY <1>2, <1>4, <3>2 DEF Measures, Floor, IsLast
      <4>2. (r.step - 1) - r.cached = r.since
        BY <2>3, <3>2 DEF Spaced
      <4> QED BY <1>2, <1>4, <2>4, <2>5, <3>2, <4>1, <4>2 DEF Spaced
    <3> QED BY <2>2, <3>1, <3>2
  <2> HIDE DEF d
  <2> QED BY <1>1, <2>5, <2>6 DEF CallFits
<1>6. CASE ~Skips(r, delta)
  <2> DEFINE drift == IF Mode = "adaptive" THEN 0 ELSE r.drift
             since == IF Mode = "adaptive" THEN 0 ELSE r.since
  <2>1. d = [r EXCEPT !.at = "advance", !.cached = r.step, !.on = dit, !.drift = drift,
                      !.since = since]
    BY <1>6 DEF Decided
  <2>2. drift \in Nat /\ since \in 0..r.step /\ (Mode = "adaptive" => since = 0)
    <3>1. r.since \in 0..r.step
      BY <1>1, <1>2 DEF Spaced
    <3> QED BY <1>2, <3>1
  <2> HIDE DEF drift, since
  <2>3. /\ d \in Call /\ d.at = "advance" /\ d.step = r.step /\ d.cached = r.step
        /\ d.since = since
    <3>1. r.step \in 0..Steps /\ since \in 0..Steps
      BY <1>2, <1>4, <2>2
    <3> HIDE DEF d
    <3> QED BY <1>1, <2>1, <2>2, <3>1 DEF Call
  <2> HIDE DEF d
  <2>4. Spaced(d, d.step)
    <3>1. build.skipEvery >= 2 /\ r.step >= build.warmup =>
             (r.step - build.warmup) % build.skipEvery >= 0
      BY <1>2, <1>4
    <3>2. r.step - r.step = 0
      BY <1>2
    <3> QED BY <1>2, <1>4, <2>2, <2>3, <3>1, <3>2 DEF Spaced
  <2> QED BY <1>1, <2>3, <2>4 DEF CallFits
<1> QED BY <1>5, <1>6

(* A call goes from place to place up to the loop, and from the clip on.   *)
Early == {"load", "build", "text", "gate", "start"}

LEMMA CallGoes ==
    ASSUME build \in BatchConfigs, NEW r, CallFits(r), NEW place,
           \/ r.at \in Early /\ place \in Early \cup {"forward", "pipeline"}
           \/ place = "yield"
    PROVE  CallFits([r EXCEPT !.at = place])
<1> DEFINE d == [r EXCEPT !.at = place]
<1> SUFFICES CallFits(d)
  OBVIOUS
<1>1. r \in Call
  BY DEF CallFits
<1>2. place \in {"load", "build", "text", "gate", "start", "forward", "pipeline", "yield"}
  BY DEF Early
<1>3. d \in Call
  BY <1>1, <1>2 DEF Call
<1>4. d.at = place /\ d.step = r.step /\ d.cached = r.cached /\ d.since = r.since
  BY <1>1 DEF Call
<1>5. r.at \in Early => r.step = 0 /\ r.cached = None /\ r.since = 0
  BY DEF CallFits, Early
<1>6. Steps \in Nat \ {0}
  BY BuildIs
<1>7. place = "yield" => place \notin Early \cup {"forward", "advance"}
  BY DEF Early
<1>8. place \in Early \cup {"forward", "pipeline"} => place # "advance"
  BY DEF Early
<1>9. /\ place \in Early => d.step = 0 /\ d.cached = None /\ d.since = 0
      /\ place = "forward" => d.step = 0 /\ d.cached = None /\ d.since = 0
      /\ place # "advance"
  BY <1>4, <1>5, <1>7, <1>8
<1> HIDE DEF d
<1> QED BY <1>3, <1>4, <1>6, <1>9 DEF CallFits, Early

LEMMA CallBegins ==
    ASSUME build \in BatchConfigs, NEW n \in FrameCounts
    PROVE  CallFits([at |-> "load", frames |-> n, step |-> 0, cached |-> None, drift |-> 0,
                     since |-> 0, on |-> "none", stray |-> FALSE])
<1>1. Steps \in Nat \ {0}
  BY BuildIs
<1>2. 0 \in 0..Steps
  BY <1>1
<1> QED BY <1>1, <1>2 DEF CallFits, Call

LEMMA CallSteps ==
    ASSUME build \in BatchConfigs, NEW r, CallFits(r), r.at = "advance", NEW stray \in BOOLEAN
    PROVE  CallFits([r EXCEPT !.at = IF IsLast(r) THEN "video" ELSE "forward", !.step = @ + 1,
                              !.stray = stray])
<1> DEFINE place == IF IsLast(r) THEN "video" ELSE "forward"
           d == [r EXCEPT !.at = place, !.step = r.step + 1, !.stray = stray]
<1> SUFFICES CallFits(d)
  OBVIOUS
<1>1. r \in Call /\ r.step < Steps /\ Spaced(r, r.step)
  BY DEF CallFits
<1>2. r.step \in 0..Steps /\ Steps \in Nat \ {0}
  BY <1>1, CallIs, BuildIs
<1>3. d \in Call
  <2>1. r.step + 1 \in 0..Steps /\ place \in {"video", "forward"}
    BY <1>1, <1>2
  <2> HIDE DEF place
  <2> QED BY <1>1, <2>1 DEF Call
<1>4. d.at = place /\ d.step = r.step + 1 /\ d.cached = r.cached /\ d.since = r.since
  BY <1>1 DEF Call
<1> HIDE DEF d
<1>5. d.at = "forward" => d.step < Steps
  BY <1>1, <1>2, <1>4 DEF IsLast
<1>6. d.at \in {"video", "forward"} /\ d.step > 0 /\ d.step - 1 = r.step
  BY <1>2, <1>4
<1>7. Spaced(d, d.step - 1)
  BY <1>1, <1>4, <1>6 DEF Spaced
<1> QED BY <1>2, <1>3, <1>5, <1>6, <1>7 DEF CallFits

LEMMA CallPipes ==
    ASSUME build \in BatchConfigs, dit \in {"none", "plain", "compiled"}, NEW r, CallFits(r)
    PROVE  CallFits([r EXCEPT !.at = "video", !.on = dit])
<1> DEFINE d == [r EXCEPT !.at = "video", !.on = dit]
<1>1. r \in Call
  BY DEF CallFits
<1>2. d \in Call /\ d.at = "video"
  BY <1>1 DEF Call
<1> HIDE DEF d
<1> QED BY <1>2 DEF CallFits, d

LEMMA KeepsBatchInv ==
    ASSUME BatchInv, build' = build, dit' \in {"none", "plain", "compiled"}, uncompiled' \in BOOLEAN,
           calls' \in 0..MaxRequests, overlapped' \subseteq Threads, DOMAIN run' = Threads,
           \A t \in Threads : run'[t] = Idle \/ CallFits(run'[t])
    PROVE  BatchInv'
<1>1. (\A t \in Threads : run[t] = Idle \/ CallFits(run[t]))'
  BY DEF CallFits, Spaced, Mode
<1> QED BY <1>1 DEF BatchInv

(* A step of one call, told by what becomes of it.                         *)
LEMMA MovesBatchInv ==
    ASSUME BatchInv, build' = build, dit' \in {"none", "plain", "compiled"}, uncompiled' \in BOOLEAN,
           calls' \in 0..MaxRequests, overlapped' \subseteq Threads,
           NEW t \in Threads, NEW v, run' = [run EXCEPT ![t] = v], v = Idle \/ CallFits(v)
    PROVE  BatchInv'
<1>1. DOMAIN run' = Threads /\ \A u \in Threads : run'[u] = IF u = t THEN v ELSE run[u]
  BY DEF BatchInv
<1>2. \A u \in Threads : run'[u] = Idle \/ CallFits(run'[u])
  BY <1>1 DEF BatchInv
<1> QED BY <1>1, <1>2, KeepsBatchInv

LEMMA BatchStart == BatchInit => BatchInv
<1> SUFFICES ASSUME BatchInit PROVE BatchInv
  OBVIOUS
<1>1. MaxRequests \in Nat
  BY BatchAssumption
<1>2. calls \in 0..MaxRequests
  BY <1>1 DEF BatchInit
<1> QED BY <1>2 DEF BatchInit, BatchInv

(* A thread that is somewhere has a call, of which this holds.             *)
LEMMA AtIs ==
    ASSUME BatchInv, NEW t \in Threads, NEW place, At(t, place), place # "idle"
    PROVE  CallFits(run[t]) /\ run[t].at = place /\ run[t] # Idle
<1>1. run[t].at = place
  BY DEF At
<1>2. run[t] # Idle
  BY <1>1 DEF Idle
<1> QED BY <1>1, <1>2 DEF BatchInv

LEMMA BatchKeeps ==
    ASSUME BatchInv, [BatchNext]_batchVars
    PROVE  BatchInv'
<1> USE DEF BatchInv
<1>0. /\ build \in BatchConfigs
      /\ dit \in {"none", "plain", "compiled"} /\ uncompiled \in BOOLEAN
      /\ calls \in 0..MaxRequests /\ overlapped \subseteq Threads
      /\ Compiled \in {"none", "plain", "compiled"} /\ build.compile \in BOOLEAN
  BY BuildIs DEF Compiled
<1>1. ASSUME NEW t \in Threads, Begin(t) PROVE BatchInv'
  <2>1. PICK n \in FrameCounts :
          run' = [run EXCEPT ![t] = [at |-> "load", frames |-> n, step |-> 0, cached |-> None,
                                     drift |-> 0, since |-> 0, on |-> "none", stray |-> FALSE]]
    BY <1>1 DEF Begin
  <2>2. calls' \in 0..MaxRequests /\ overlapped' \subseteq Threads
    <3>1. MaxRequests \in Nat /\ calls < MaxRequests /\ calls' = calls + 1
      BY <1>1, BatchAssumption DEF Begin
    <3>2. overlapped' \subseteq Threads
      BY <1>0, <1>1 DEF Begin, Busy
    <3> QED BY <1>0, <3>1, <3>2
  <2>3. build' = build /\ dit' = dit /\ uncompiled' = uncompiled
    BY <1>1 DEF Begin
  <2> QED BY <1>0, <2>1, <2>2, <2>3, CallBegins, MovesBatchInv
<1>2. ASSUME NEW t \in Threads, Load(t) PROVE BatchInv'
  <2> DEFINE place == IF dit = "none" THEN "build" ELSE IF build.model = "wan" THEN "pipeline" ELSE "text"
             v == [run[t] EXCEPT !.at = place]
  <2>1. CallFits(run[t]) /\ run[t].at = "load"
    BY <1>2, AtIs DEF Load
  <2>2. CallFits(v)
    BY <1>0, <2>1, CallGoes DEF Early
  <2>3. run' = [run EXCEPT ![t] = v] /\ UNCHANGED <<build, dit, uncompiled, calls, overlapped>>
    BY <1>2 DEF Load, Go
  <2> HIDE DEF v
  <2> QED BY <1>0, <2>2, <2>3, MovesBatchInv
<1>3. ASSUME NEW t \in Threads, BuildCosmos(t) PROVE BatchInv'
  <2> DEFINE v == [run[t] EXCEPT !.at = "text"]
  <2>1. CallFits(run[t]) /\ run[t].at = "build"
    BY <1>3, AtIs DEF BuildCosmos
  <2>2. CallFits(v)
    BY <1>0, <2>1, CallGoes DEF Early
  <2>3. /\ run' = [run EXCEPT ![t] = v] /\ UNCHANGED <<build, calls, overlapped>>
        /\ dit' = Compiled /\ uncompiled' = build.compile
    BY <1>3 DEF BuildCosmos, Go
  <2> HIDE DEF v
  <2> QED BY <1>0, <2>2, <2>3, MovesBatchInv
<1>4. ASSUME NEW t \in Threads, BuildWan(t) PROVE BatchInv'
  <2> DEFINE v == [run[t] EXCEPT !.at = "pipeline"]
  <2>1. CallFits(run[t]) /\ run[t].at = "build"
    BY <1>4, AtIs DEF BuildWan
  <2>2. CallFits(v)
    BY <1>0, <2>1, CallGoes DEF Early
  <2>3. run' = [run EXCEPT ![t] = v] /\ UNCHANGED <<build, uncompiled, calls, overlapped>> /\ dit' = Compiled
    BY <1>4 DEF BuildWan, Go
  <2> HIDE DEF v
  <2> QED BY <1>0, <2>2, <2>3, MovesBatchInv
<1>5. ASSUME NEW t \in Threads, CheckText(t) PROVE BatchInv'
  <2> DEFINE v == [run[t] EXCEPT !.at = "gate"]
  <2>1. CallFits(run[t]) /\ run[t].at = "text"
    BY <1>5, AtIs DEF CheckText
  <2>2. CallFits(v)
    BY <1>0, <2>1, CallGoes DEF Early
  <2>3. /\ run' = [run EXCEPT ![t] = v] \/ run' = [run EXCEPT ![t] = Idle]
        /\ UNCHANGED <<build, dit, uncompiled, calls, overlapped>>
    BY <1>5 DEF CheckText, Go
  <2> HIDE DEF v
  <2> QED BY <1>0, <2>2, <2>3, MovesBatchInv
<1>6. ASSUME NEW t \in Threads, Gate(t) PROVE BatchInv'
  <2> DEFINE place == IF build.native THEN "start" ELSE "pipeline"
             v == [run[t] EXCEPT !.at = place]
  <2>1. CallFits(run[t]) /\ run[t].at = "gate"
    BY <1>6, AtIs DEF Gate
  <2>2. CallFits(v)
    BY <1>0, <2>1, CallGoes DEF Early
  <2>3. /\ run' = [run EXCEPT ![t] = v] /\ UNCHANGED <<build, uncompiled, calls, overlapped>>
        /\ dit' \in {"none", "plain", "compiled"}
    BY <1>0, <1>6 DEF Gate, Begins, Go
  <2> HIDE DEF v
  <2> QED BY <1>0, <2>2, <2>3, MovesBatchInv
<1>7. ASSUME NEW t \in Threads, Start(t) PROVE BatchInv'
  <2> DEFINE v == [run[t] EXCEPT !.at = "forward"]
  <2>1. CallFits(run[t]) /\ run[t].at = "start"
    BY <1>7, AtIs DEF Start
  <2>2. CallFits(v)
    BY <1>0, <2>1, CallGoes DEF Early
  <2>3. run' = [run EXCEPT ![t] = v] /\ UNCHANGED <<build, dit, uncompiled, calls, overlapped>>
    BY <1>7 DEF Start, Go
  <2> HIDE DEF v
  <2> QED BY <1>0, <2>2, <2>3, MovesBatchInv
<1>8. ASSUME NEW t \in Threads, Forward(t) PROVE BatchInv'
  <2>1. CallFits(run[t]) /\ run[t].at = "forward"
    BY <1>8, AtIs DEF Forward
  <2>2. PICK delta \in Deltas : run' = [run EXCEPT ![t] = Decided(run[t], delta)]
    BY <1>8 DEF Forward, Decided
  <2>3. CallFits(Decided(run[t], delta))
    BY <1>0, <2>1, DecidedFits
  <2>4. UNCHANGED <<build, dit, uncompiled, calls, overlapped>>
    BY <1>8 DEF Forward
  <2> QED BY <1>0, <2>2, <2>3, <2>4, MovesBatchInv
<1>9. ASSUME NEW t \in Threads, SchedulerStep(t) PROVE BatchInv'
  <2> DEFINE r == run[t]
             stray == r.stray \/ IndexFor(r) # r.step
             v == [r EXCEPT !.at = IF IsLast(r) THEN "video" ELSE "forward", !.step = @ + 1,
                            !.stray = stray]
  <2>1. CallFits(r) /\ r.at = "advance"
    BY <1>9, AtIs DEF SchedulerStep
  <2>2. stray \in BOOLEAN
    OBVIOUS
  <2>3. run' = [run EXCEPT ![t] = v] /\ UNCHANGED <<build, dit, uncompiled, calls, overlapped>>
    BY <1>9 DEF SchedulerStep
  <2>4. CallFits(v)
    <3> HIDE DEF r, stray
    <3> QED BY <1>0, <2>1, <2>2, CallSteps
  <2> HIDE DEF v
  <2> QED BY <1>0, <2>3, <2>4, MovesBatchInv
<1>14. ASSUME NEW t \in Threads, SchedulerRaises(t) PROVE BatchInv'
  <2>1. run' = [run EXCEPT ![t] = Idle] /\ UNCHANGED <<build, dit, uncompiled, calls, overlapped>>
    BY <1>14 DEF SchedulerRaises
  <2> QED BY <1>0, <2>1, MovesBatchInv
<1>10. ASSUME NEW t \in Threads, Pipeline(t) PROVE BatchInv'
  <2> DEFINE v == [run[t] EXCEPT !.at = "video", !.on = dit]
  <2>1. CallFits(run[t])
    BY <1>10, AtIs DEF Pipeline
  <2>2. CallFits(v)
    BY <1>0, <2>1, CallPipes
  <2>3. run' = [run EXCEPT ![t] = v] /\ UNCHANGED <<build, dit, uncompiled, calls, overlapped>>
    BY <1>10 DEF Pipeline
  <2> HIDE DEF v
  <2> QED BY <1>0, <2>2, <2>3, MovesBatchInv
<1>11. ASSUME NEW t \in Threads, CheckVideo(t) PROVE BatchInv'
  <2> DEFINE v == [run[t] EXCEPT !.at = "yield"]
  <2>1. CallFits(run[t]) /\ run[t].at = "video"
    BY <1>11, AtIs DEF CheckVideo
  <2>2. CallFits(v)
    BY <1>0, <2>1, CallGoes
  <2>3. /\ run' = [run EXCEPT ![t] = v] \/ run' = [run EXCEPT ![t] = Idle]
        /\ UNCHANGED <<build, dit, uncompiled, calls, overlapped>>
    BY <1>11 DEF CheckVideo, Go
  <2> HIDE DEF v
  <2> QED BY <1>0, <2>2, <2>3, MovesBatchInv
<1>12. ASSUME NEW t \in Threads, Yield(t) PROVE BatchInv'
  <2>1. run' = [run EXCEPT ![t] = Idle] /\ UNCHANGED <<build, dit, uncompiled, calls, overlapped>>
    BY <1>12 DEF Yield
  <2> QED BY <1>0, <2>1, MovesBatchInv
<1>13. CASE UNCHANGED batchVars
  BY <1>13, KeepsBatchInv DEF batchVars
<1> QED BY <1>1, <1>2, <1>3, <1>4, <1>5, <1>6, <1>7, <1>8, <1>9, <1>10, <1>11, <1>12, <1>13,
           <1>14
        DEF BatchNext

LEMMA BatchInvariance == BatchSpec => []BatchInv
BY BatchStart, BatchKeeps, PTL DEF BatchSpec

(* A prediction that is reused is not older than the caching mode allows,  *)
(* with any number of callers: what it rests on is a call's own            *)
(* (runtime/denoise.py, _denoise_impl).                                    *)
THEOREM PredictionsStayFresh == BatchSpec => []PredictionsFresh
<1>1. BatchInv => PredictionsFresh
  <2> SUFFICES ASSUME BatchInv, NEW t \in Threads, run[t] # Idle, run[t].at = "advance"
               PROVE  LET age == run[t].step - run[t].cached IN
                      CASE Mode = "none" -> age = 0
                        [] Mode = "fixed" -> age = 0 \/ age < build.skipEvery
                        [] Mode = "adaptive" ->
                             /\ build.forceEvery > 0 => age <= build.forceEvery
                             /\ IsLast(run[t]) => age = 0
    BY DEF PredictionsFresh
  <2> DEFINE r == run[t]
  <2>1. r \in Call /\ Spaced(r, r.step)
    BY DEF BatchInv, CallFits
  <2>2. r.step \in 0..Steps /\ r.cached \in 0..r.step /\ r.since \in Nat
    BY <2>1, CallIs DEF Spaced
  <2>3. /\ Mode \in {"none", "fixed", "adaptive"} /\ build.skipEvery \in Nat
        /\ build.warmup \in Nat /\ build.forceEvery \in Nat /\ Steps \in Nat \ {0}
    BY BuildIs DEF BatchInv
  <2> HIDE DEF r
  <2>4. CASE Mode = "none"
    BY <2>1, <2>2, <2>4 DEF Spaced, r
  <2>5. CASE Mode = "fixed"
    <3>1. CASE build.skipEvery >= 2 /\ r.step >= build.warmup
      <4> DEFINE late == (r.step - build.warmup) % build.skipEvery
      <4>1. late \in Nat /\ late < build.skipEvery
        BY <2>2, <2>3, <3>1
      <4>2. r.step - r.cached <= late
        BY <2>1, <2>5, <3>1 DEF Spaced
      <4> HIDE DEF late
      <4>3. r.step - r.cached < build.skipEvery
        BY <2>2, <2>3, <4>1, <4>2
      <4> QED BY <2>5, <4>3 DEF r
    <3>2. CASE ~(build.skipEvery >= 2 /\ r.step >= build.warmup)
      BY <2>1, <2>2, <2>5, <3>2 DEF Spaced, r
    <3> QED BY <3>1, <3>2
  <2>6. CASE Mode = "adaptive"
    BY <2>1, <2>2, <2>3, <2>6 DEF Spaced, IsLast, r
  <2> QED BY <2>3, <2>4, <2>5, <2>6
<1> QED BY <1>1, BatchInvariance, PTL

-----------------------------------------------------------------------------
(* A call that has the engine to itself: nobody swaps the transformer, or  *)
(* moves the scheduler's index, between two steps of it.                   *)

AboveCeiling(r) == build.model = "cosmos" /\ build.ceiling > 0 /\ r.frames > build.ceiling

Alone(r) ==
    /\ ~r.stray
    /\ r.at = "forward" => index \in {None, r.step}
    /\ r.at = "advance" => index = r.step
    /\ AboveCeiling(r) =>
          /\ r.on # "compiled"
          /\ r.at \in {"start", "forward", "advance", "pipeline"} => dit # "compiled"

SharedInv ==
    /\ BatchInv
    /\ index \in 0..Steps \cup {None}
    /\ build.model = "cosmos" /\ dit = "compiled" => uncompiled
    /\ \A t \in Threads \ overlapped :
          run[t] # Idle => Alone(run[t]) /\ (run[t].at # "yield" => Busy = {t})

LEMMA SharedStart == BatchInit => SharedInv
BY BatchStart DEF BatchInit, SharedInv

(* What a step of a call must show, and only for a call without company:   *)
(* the others that had none are done with the pipeline.                    *)
LEMMA MovesSharedInv ==
    ASSUME SharedInv, BatchInv', build' = build, overlapped' = overlapped,
           index' \in 0..Steps \cup {None},
           build.model = "cosmos" /\ dit' = "compiled" => uncompiled',
           NEW t \in Threads, run[t] # Idle, run[t].at # "yield",
           NEW v, run' = [run EXCEPT ![t] = v],
           t \notin overlapped => v = Idle \/
             /\ ~v.stray
             /\ v.at = "forward" => index' \in {None, v.step}
             /\ v.at = "advance" => index' = v.step
             /\ AboveCeiling(v) =>
                   /\ v.on # "compiled"
                   /\ v.at \in {"start", "forward", "advance", "pipeline"} => dit' # "compiled"
    PROVE  SharedInv'
<1>1. t \in Busy /\ \A u \in Threads : run'[u] = IF u = t THEN v ELSE run[u]
  BY DEF SharedInv, BatchInv, Busy
<1>2. ASSUME NEW u \in Threads \ overlapped, run'[u] # Idle
      PROVE  Alone(run[u])' /\ (run'[u].at # "yield" => Busy' = {u})
  <2>1. CASE u = t
    <3>1. run'[u] = v /\ v # Idle /\ t \notin overlapped
      BY <1>1, <1>2, <2>1
    <3>2. Alone(run[u])'
      BY <3>1 DEF Alone, AboveCeiling
    <3>3. Busy = {t}
      BY <3>1 DEF SharedInv
    <3>4. v.at # "yield" => Busy' = {t}
      BY <1>1, <3>1, <3>3 DEF Busy
    <3> QED BY <2>1, <3>1, <3>2, <3>4
  <2>2. CASE u # t
    <3>1. run'[u] = run[u] /\ run[u] # Idle
      BY <1>1, <1>2, <2>2
    <3>2. Alone(run[u]) /\ run[u].at = "yield"
      BY <1>1, <2>2, <3>1 DEF SharedInv
    <3> QED BY <3>1, <3>2 DEF Alone, AboveCeiling
  <2> QED BY <2>1, <2>2
<1> QED BY <1>2 DEF SharedInv

(* A call that begins is without company only if no other is under way.    *)
LEMMA BeginsSharedInv ==
    ASSUME SharedInv, BatchInv', NEW t \in Threads, Begin(t)
    PROVE  SharedInv'
<1>1. PICK n \in FrameCounts :
        run' = [run EXCEPT ![t] = [at |-> "load", frames |-> n, step |-> 0, cached |-> None,
                                   drift |-> 0, since |-> 0, on |-> "none", stray |-> FALSE]]
  BY DEF Begin
<1> DEFINE v == [at |-> "load", frames |-> n, step |-> 0, cached |-> None,
                 drift |-> 0, since |-> 0, on |-> "none", stray |-> FALSE]
<1>2. v.at = "load" /\ v.stray = FALSE /\ v.on = "none" /\ v # Idle
  BY DEF Idle
<1>3. /\ UNCHANGED <<build, dit, uncompiled, index>> /\ run[t] = Idle
      /\ overlapped' = IF Busy = {} THEN overlapped \ {t} ELSE overlapped \cup Busy \cup {t}
  BY DEF Begin
<1> HIDE DEF v
<1>4. \A u \in Threads : run'[u] = IF u = t THEN v ELSE run[u]
  BY <1>1 DEF SharedInv, BatchInv, v
<1>5. ASSUME NEW u \in Threads \ overlapped', run'[u] # Idle
      PROVE  Alone(run[u])' /\ (run'[u].at # "yield" => Busy' = {u})
  <2>1. CASE u = t
    <3>1. Busy = {}
      BY <1>3, <1>5, <2>1
    <3>2. Busy' = {t}
      BY <1>2, <1>4, <3>1 DEF Busy
    <3>3. Alone(run[u])'
      BY <1>2, <1>4, <2>1 DEF Alone
    <3> QED BY <2>1, <3>2, <3>3
  <2>2. CASE u # t
    <3>1. run'[u] = run[u] /\ run[u] # Idle /\ u \notin overlapped /\ u \notin Busy
      BY <1>3, <1>4, <1>5, <2>2
    <3>2. Alone(run[u]) /\ run[u].at = "yield"
      BY <3>1 DEF SharedInv, Busy
    <3> QED BY <1>3, <3>1, <3>2 DEF Alone, AboveCeiling
  <2> QED BY <2>1, <2>2
<1> QED BY <1>3, <1>5 DEF SharedInv

(* A call that ends behind its clip leaves the others where they are.      *)
LEMMA YieldsSharedInv ==
    ASSUME SharedInv, BatchInv', NEW t \in Threads, Yield(t)
    PROVE  SharedInv'
<1>1. /\ UNCHANGED <<build, dit, uncompiled, index, overlapped>>
      /\ \A u \in Threads : run'[u] = IF u = t THEN Idle ELSE run[u]
      /\ run[t].at = "yield"
  BY DEF Yield, At, SharedInv, BatchInv
<1>2. Busy' = Busy
  BY <1>1 DEF Busy
<1>3. ASSUME NEW u \in Threads \ overlapped, run'[u] # Idle
      PROVE  Alone(run[u])' /\ (run'[u].at # "yield" => Busy' = {u})
  BY <1>1, <1>2, <1>3 DEF SharedInv, Alone, AboveCeiling
<1> QED BY <1>1, <1>3 DEF SharedInv

LEMMA SharedKeeps ==
    ASSUME SharedInv, [BatchNext]_batchVars
    PROVE  SharedInv'
<1>0. /\ BatchInv /\ BatchInv' /\ build \in BatchConfigs
      /\ index \in 0..Steps \cup {None} /\ Steps \in Nat \ {0}
      /\ build.model = "cosmos" /\ dit = "compiled" => uncompiled
  <2>1. BatchInv /\ BatchInv'
    BY BatchKeeps DEF SharedInv
  <2> QED BY <2>1, BuildIs DEF SharedInv, BatchInv
<1>e. ASSUME NEW t \in Threads, NEW place, At(t, place), place \notin {"idle", "yield"}
      PROVE  /\ CallFits(run[t]) /\ run[t].at = place /\ run[t] \in Call
             /\ run[t] # Idle /\ run[t].at # "yield"
             /\ t \notin overlapped => Alone(run[t])
  BY <1>0, <1>e, AtIs DEF CallFits, SharedInv
<1>g. ASSUME NEW t \in Threads, run[t] \in Call, NEW place
      PROVE  LET v == [run[t] EXCEPT !.at = place] IN
             /\ v.at = place /\ v.stray = run[t].stray /\ v.frames = run[t].frames
             /\ v.on = run[t].on /\ v.step = run[t].step
  BY <1>g DEF Call
<1>1. ASSUME NEW t \in Threads, Begin(t) PROVE SharedInv'
  BY <1>0, <1>1, BeginsSharedInv
<1>2. ASSUME NEW t \in Threads, Load(t) PROVE SharedInv'
  <2> DEFINE place == IF dit = "none" THEN "build" ELSE IF build.model = "wan" THEN "pipeline" ELSE "text"
             v == [run[t] EXCEPT !.at = place]
  <2>1. run[t].at = "load" /\ run[t] \in Call /\ run[t] # Idle
        /\ (t \notin overlapped => Alone(run[t]))
    BY <1>2, <1>e DEF Load
  <2>2. run' = [run EXCEPT ![t] = v] /\ UNCHANGED <<build, dit, uncompiled, index, overlapped>>
    BY <1>2 DEF Load, Go
  <2>3. v.at = place /\ v.stray = run[t].stray /\ v.frames = run[t].frames /\ v.on = run[t].on
    BY <1>g, <2>1
  <2>4. place \in {"build", "text"} \/ build.model = "wan"
    OBVIOUS
  <2>5. build.model = "wan" => ~AboveCeiling(v)
    BY DEF AboveCeiling
  <2> HIDE DEF v
  <2>6. /\ v.at \in {"build", "text", "pipeline"}
        /\ t \notin overlapped =>
              /\ ~v.stray
              /\ AboveCeiling(v) => v.on # "compiled" /\ v.at \in {"build", "text"}
    BY <2>1, <2>3, <2>4, <2>5 DEF Alone, AboveCeiling
  <2> QED BY <1>0, <2>1, <2>2, <2>6, MovesSharedInv
<1>3. ASSUME NEW t \in Threads, BuildCosmos(t) PROVE SharedInv'
  <2> DEFINE v == [run[t] EXCEPT !.at = "text"]
  <2>1. run[t].at = "build" /\ run[t] \in Call /\ run[t] # Idle
        /\ (t \notin overlapped => Alone(run[t]))
    BY <1>3, <1>e DEF BuildCosmos
  <2>2. /\ run' = [run EXCEPT ![t] = v] /\ UNCHANGED <<build, index, overlapped>>
        /\ dit' = Compiled /\ uncompiled' = build.compile
    BY <1>3 DEF BuildCosmos, Go
  <2>3. v.at = "text" /\ v.stray = run[t].stray /\ v.frames = run[t].frames /\ v.on = run[t].on
    BY <1>g, <2>1
  <2> HIDE DEF v
  <2>4. /\ t \notin overlapped => ~v.stray /\ (AboveCeiling(v) => v.on # "compiled")
        /\ dit' = "compiled" => uncompiled'
    BY <2>1, <2>2, <2>3 DEF Alone, AboveCeiling, Compiled
  <2> QED BY <1>0, <2>1, <2>2, <2>3, <2>4, MovesSharedInv
<1>4. ASSUME NEW t \in Threads, BuildWan(t) PROVE SharedInv'
  <2> DEFINE v == [run[t] EXCEPT !.at = "pipeline"]
  <2>1. run[t].at = "build" /\ run[t] \in Call /\ run[t] # Idle
        /\ (t \notin overlapped => Alone(run[t]))
    BY <1>4, <1>e DEF BuildWan
  <2>2. run' = [run EXCEPT ![t] = v] /\ UNCHANGED <<build, uncompiled, index, overlapped>> /\ build.model = "wan"
    BY <1>4 DEF BuildWan, Go
  <2>3. v.at = "pipeline" /\ v.stray = run[t].stray
    BY <1>g, <2>1
  <2> HIDE DEF v
  <2>4. t \notin overlapped => ~v.stray /\ ~AboveCeiling(v)
    BY <2>1, <2>2, <2>3 DEF Alone, AboveCeiling
  <2> QED BY <1>0, <2>1, <2>2, <2>3, <2>4, MovesSharedInv
<1>5. ASSUME NEW t \in Threads, CheckText(t) PROVE SharedInv'
  <2> DEFINE v == [run[t] EXCEPT !.at = "gate"]
  <2>1. run[t].at = "text" /\ run[t] \in Call /\ run[t] # Idle
        /\ (t \notin overlapped => Alone(run[t]))
    BY <1>5, <1>e DEF CheckText
  <2>2. /\ run' = [run EXCEPT ![t] = v] \/ run' = [run EXCEPT ![t] = Idle]
        /\ UNCHANGED <<build, dit, uncompiled, index, overlapped>>
    BY <1>5 DEF CheckText, Go
  <2>3. v.at = "gate" /\ v.stray = run[t].stray /\ v.frames = run[t].frames /\ v.on = run[t].on
    BY <1>g, <2>1
  <2> HIDE DEF v
  <2>4. t \notin overlapped => ~v.stray /\ (AboveCeiling(v) => v.on # "compiled")
    BY <2>1, <2>3 DEF Alone, AboveCeiling
  <2> QED BY <1>0, <2>1, <2>2, <2>3, <2>4, MovesSharedInv
<1>6. ASSUME NEW t \in Threads, Gate(t) PROVE SharedInv'
  <2> DEFINE place == IF build.native THEN "start" ELSE "pipeline"
             v == [run[t] EXCEPT !.at = place]
  <2>1. run[t].at = "gate" /\ run[t] \in Call /\ run[t] # Idle
        /\ (t \notin overlapped => Alone(run[t]))
    BY <1>6, <1>e DEF Gate
  <2>2. /\ run' = [run EXCEPT ![t] = v] /\ UNCHANGED <<build, uncompiled, index, overlapped>>
        /\ dit' = IF uncompiled /\ build.ceiling > 0 /\ run[t].frames > build.ceiling
                  THEN "plain" ELSE dit
    BY <1>6 DEF Gate, Begins, Go
  <2>3. v.at = place /\ v.stray = run[t].stray /\ v.frames = run[t].frames /\ v.on = run[t].on
    BY <1>g, <2>1
  <2> HIDE DEF v
  <2>4. /\ v.at \notin {"forward", "advance"}
        /\ t \notin overlapped =>
              ~v.stray /\ (AboveCeiling(v) => v.on # "compiled" /\ dit' # "compiled")
        /\ build.model = "cosmos" /\ dit' = "compiled" => uncompiled'
    BY <1>0, <2>1, <2>2, <2>3 DEF Alone, AboveCeiling
  <2> QED BY <1>0, <2>1, <2>2, <2>4, MovesSharedInv
<1>7. ASSUME NEW t \in Threads, Start(t) PROVE SharedInv'
  <2> DEFINE v == [run[t] EXCEPT !.at = "forward"]
  <2>1. run[t].at = "start" /\ run[t] \in Call /\ run[t] # Idle
        /\ (t \notin overlapped => Alone(run[t]))
    BY <1>7, <1>e DEF Start
  <2>2. run' = [run EXCEPT ![t] = v] /\ UNCHANGED <<build, dit, uncompiled, overlapped>> /\ index' = None
    BY <1>7 DEF Start, Go
  <2>3. v.at = "forward" /\ v.stray = run[t].stray /\ v.frames = run[t].frames /\ v.on = run[t].on
    BY <1>g, <2>1
  <2> HIDE DEF v
  <2>4. t \notin overlapped => ~v.stray /\ (AboveCeiling(v) => v.on # "compiled" /\ dit # "compiled")
    BY <2>1, <2>3 DEF Alone, AboveCeiling
  <2> QED BY <1>0, <2>1, <2>2, <2>3, <2>4, MovesSharedInv
<1>8. ASSUME NEW t \in Threads, Forward(t) PROVE SharedInv'
  <2>1. run[t].at = "forward" /\ run[t] \in Call /\ run[t] # Idle
        /\ (t \notin overlapped => Alone(run[t])) /\ CallFits(run[t])
    BY <1>8, <1>e DEF Forward
  <2>2. PICK delta \in Deltas : run' = [run EXCEPT ![t] = Decided(run[t], delta)]
    BY <1>8 DEF Forward, Decided
  <2> DEFINE v == Decided(run[t], delta)
  <2>3. UNCHANGED <<build, dit, uncompiled, overlapped>> /\ index' = IndexFor(run[t])
    BY <1>8 DEF Forward
  <2>4. v.at = "advance" /\ v.stray = run[t].stray /\ v.frames = run[t].frames
        /\ v.step = run[t].step /\ v.on \in {run[t].on, dit}
    BY <2>1 DEF Decided, Call
  <2>5. /\ index' \in 0..Steps /\ run[t].step \in 0..Steps
        /\ t \notin overlapped => index' = run[t].step
    BY <1>0, <2>1, <2>3, CallIs DEF Alone, IndexFor
  <2> HIDE DEF v
  <2>6. t \notin overlapped => ~v.stray /\ (AboveCeiling(v) => v.on # "compiled" /\ dit # "compiled")
    BY <2>1, <2>4 DEF Alone, AboveCeiling
  <2>7. run' = [run EXCEPT ![t] = v]
    BY <2>2 DEF v
  <2> QED BY <1>0, <2>1, <2>3, <2>4, <2>5, <2>6, <2>7, MovesSharedInv
<1>9. ASSUME NEW t \in Threads, SchedulerStep(t) PROVE SharedInv'
  <2> DEFINE r == run[t]
             stray == r.stray \/ IndexFor(r) # r.step
             v == [r EXCEPT !.at = IF IsLast(r) THEN "video" ELSE "forward", !.step = @ + 1,
                            !.stray = stray]
  <2>1. r.at = "advance" /\ r \in Call /\ r # Idle /\ CallFits(r)
        /\ (t \notin overlapped => Alone(r))
    BY <1>9, <1>e DEF SchedulerStep
  <2>2. /\ run' = [run EXCEPT ![t] = v] /\ UNCHANGED <<build, dit, uncompiled, overlapped>>
        /\ index' = Advanced(IndexFor(r))
    BY <1>9 DEF SchedulerStep
  <2>3. /\ v.at \in {"video", "forward"} /\ v.stray = stray /\ v.frames = r.frames /\ v.on = r.on
        /\ v.step = r.step + 1
    BY <2>1 DEF Call
  <2>4. /\ r.step \in 0..Steps /\ IndexFor(r) \in 0..Steps /\ IndexFor(r) < Steps
        /\ t \notin overlapped => IndexFor(r) = r.step
    BY <1>0, <1>9, <2>1, CallIs DEF Alone, IndexFor, None, CallFits, SchedulerStep
  <2>5. index' = IndexFor(r) + 1 /\ index' \in 0..Steps /\ (t \notin overlapped => ~stray)
    <3>1. ((IndexFor(r) + 1) - 1) + 1 = IndexFor(r) + 1 /\ IndexFor(r) + 1 \in 0..Steps
      BY <1>0, <2>4
    <3>2. t \notin overlapped => ~r.stray
      BY <2>1 DEF Alone
    <3> QED BY <2>2, <2>4, <3>1, <3>2 DEF Advanced, Stepped
  <2> HIDE DEF v, stray
  <2>6. t \notin overlapped => ~v.stray /\ (AboveCeiling(v) => v.on # "compiled" /\ dit # "compiled")
    BY <2>1, <2>3, <2>5 DEF Alone, AboveCeiling
  <2>7. t \notin overlapped => index' = v.step
    BY <2>3, <2>4, <2>5
  <2> QED BY <1>0, <2>1, <2>2, <2>3, <2>5, <2>6, <2>7, MovesSharedInv
<1>10. ASSUME NEW t \in Threads, Pipeline(t) PROVE SharedInv'
  <2> DEFINE v == [run[t] EXCEPT !.at = "video", !.on = dit]
  <2>1. run[t].at = "pipeline" /\ run[t] \in Call /\ run[t] # Idle
        /\ (t \notin overlapped => Alone(run[t]))
    BY <1>10, <1>e DEF Pipeline
  <2>2. run' = [run EXCEPT ![t] = v] /\ UNCHANGED <<build, dit, uncompiled, index, overlapped>>
    BY <1>10 DEF Pipeline
  <2>3. v.at = "video" /\ v.stray = run[t].stray /\ v.frames = run[t].frames /\ v.on = dit
    BY <2>1 DEF Call
  <2> HIDE DEF v
  <2>4. t \notin overlapped => ~v.stray /\ (AboveCeiling(v) => v.on # "compiled")
    BY <2>1, <2>3 DEF Alone, AboveCeiling
  <2> QED BY <1>0, <2>1, <2>2, <2>3, <2>4, MovesSharedInv
<1>11. ASSUME NEW t \in Threads, CheckVideo(t) PROVE SharedInv'
  <2> DEFINE v == [run[t] EXCEPT !.at = "yield"]
  <2>1. run[t].at = "video" /\ run[t] \in Call /\ run[t] # Idle
        /\ (t \notin overlapped => Alone(run[t]))
    BY <1>11, <1>e DEF CheckVideo
  <2>2. /\ run' = [run EXCEPT ![t] = v] \/ run' = [run EXCEPT ![t] = Idle]
        /\ UNCHANGED <<build, dit, uncompiled, index, overlapped>>
    BY <1>11 DEF CheckVideo, Go
  <2>3. v.at = "yield" /\ v.stray = run[t].stray /\ v.frames = run[t].frames /\ v.on = run[t].on
    BY <1>g, <2>1
  <2> HIDE DEF v
  <2>4. t \notin overlapped => ~v.stray /\ (AboveCeiling(v) => v.on # "compiled")
    BY <2>1, <2>3 DEF Alone, AboveCeiling
  <2> QED BY <1>0, <2>1, <2>2, <2>3, <2>4, MovesSharedInv
<1>12. ASSUME NEW t \in Threads, Yield(t) PROVE SharedInv'
  BY <1>0, <1>12, YieldsSharedInv
<1>13. CASE UNCHANGED batchVars
  <2>1. Busy' = Busy
    BY <1>13 DEF batchVars, Busy
  <2> QED BY <1>0, <1>13, <2>1 DEF batchVars, SharedInv, Alone, AboveCeiling
<1>14. ASSUME NEW t \in Threads, SchedulerRaises(t) PROVE SharedInv'
  <2>1. run[t] # Idle /\ run[t].at # "yield"
    BY <1>14, <1>e DEF SchedulerRaises
  <2>2. run' = [run EXCEPT ![t] = Idle] /\ UNCHANGED <<build, dit, uncompiled, index, overlapped>>
    BY <1>14 DEF SchedulerRaises
  <2> QED BY <1>0, <2>1, <2>2, MovesSharedInv
<1> QED BY <1>1, <1>2, <1>3, <1>4, <1>5, <1>6, <1>7, <1>8, <1>9, <1>10, <1>11, <1>12, <1>13,
           <1>14 DEF BatchNext

(* Every clip is made as the configuration says, with any number of        *)
(* callers that enter the engine when they like: from predictions that are *)
(* fresh enough, and, if no other call was making its clip meanwhile, no   *)
(* clip above the ceiling by a compiled transformer and each step at its   *)
(* own noise level, whatever became of the calls before it                 *)
(* (models/cosmos.py, runtime/denoise.py).                                 *)
THEOREM ClipsAreAsConfigured == BatchSpec => [](BatchTypeOK /\ MadeAsConfigured)
<1>1. BatchInit => SharedInv
  BY SharedStart
<1>2. SharedInv /\ [BatchNext]_batchVars => SharedInv'
  BY SharedKeeps
<1>3. SharedInv => BatchTypeOK
  BY DEF SharedInv, BatchInv, BatchTypeOK, CallFits
<1>4. SharedInv => NeverCompiledAboveCeiling /\ OwnNoiseLevel
  BY DEF SharedInv, Alone, AboveCeiling, NeverCompiledAboveCeiling, OwnNoiseLevel
<1>5. BatchSpec => []PredictionsFresh
  BY PredictionsStayFresh
<1> QED BY <1>1, <1>2, <1>3, <1>4, <1>5, PTL DEF BatchSpec, MadeAsConfigured
================================================================================
