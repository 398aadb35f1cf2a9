---------------------------- MODULE GatewayProofs ----------------------------
(***************************************************************************)
(* Proofs about Gateway: its types, that the quota of a key is overshot by *)
(* at most one call of every connection, and that what the meter read is   *)
(* billed once.  All hold for every set of connections and keys, every     *)
(* quota and cost, and for as many months and calls as one likes.  Then    *)
(* about BestOfN, that its lever compares like with like, for any points   *)
(* of the sweep, any number of repeats and any order of the answers.  And  *)
(* about Tenancy and Usage, that a credential is charged to the customer   *)
(* it was handed to, and that what a customer sees, what a quota is        *)
(* checked against and what is invoiced agree, for every ledger.           *)
(***************************************************************************)
EXTENDS MCGateway, FiniteSetTheorems, SequenceTheorems, WellFoundedInduction, TLAPS

-----------------------------------------------------------------------------
(* Sums.  Total is a fold over a set in the order of CHOOSE: its value is  *)
(* that of a function defined by recursion over the subsets.  A claim of   *)
(* every subset of a finite set is proved at a smallest one that would     *)
(* violate it.                                                             *)

Pick(s) == CHOOSE x \in s : TRUE

(* g adds up f over each subset of T, element by element.                  *)
AddsUp(f, g, T) ==
    g = [s \in SUBSET T |-> IF s = {} THEN 0 ELSE f[Pick(s)] + g[s \ {Pick(s)}]]

LEMMA Smallest ==
    ASSUME NEW S, IsFiniteSet(S), NEW bad \in SUBSET (SUBSET S), bad # {}
    PROVE  \E T \in bad : \A U \in bad : U \subseteq T => U = T
<1>1. IsWellFoundedOn(StrictSubsetOrdering(S), SUBSET S)
  <2>1. IsWellFoundedOn(StrictSubsetOrdering(S), FiniteSubsetsOf(S))
    BY FS_StrictSubsetOrderingWellFounded
  <2>2. FiniteSubsetsOf(S) = SUBSET S
    BY FS_FiniteSubsetsOfFinite
  <2> QED BY <2>1, <2>2
<1>2. PICK T \in bad : \A U \in bad : ~(<<U, T>> \in StrictSubsetOrdering(S))
  BY <1>1, WFMin
<1>3. \A U \in bad : U \subseteq T /\ U # T => <<U, T>> \in StrictSubsetOrdering(S)
  BY DEF StrictSubsetOrdering
<1>4. \A U \in bad : U \subseteq T => U = T
  <2> SUFFICES ASSUME NEW U \in bad, U \subseteq T, U # T PROVE FALSE
    OBVIOUS
  <2>1. <<U, T>> \in StrictSubsetOrdering(S)
    BY <1>3
  <2> QED BY <1>2, <2>1
<1> QED BY <1>2, <1>4

LEMMA AddsUpStep ==
    ASSUME NEW f, NEW T, NEW g, AddsUp(f, g, T), NEW s, s \subseteq T
    PROVE  IF s = {} THEN g[s] = 0
           ELSE /\ Pick(s) \in s
                /\ g[s] = f[Pick(s)] + g[s \ {Pick(s)}]
<1>1. g[s] = IF s = {} THEN 0 ELSE f[Pick(s)] + g[s \ {Pick(s)}]
  BY DEF AddsUp
<1>2. s # {} => Pick(s) \in s
  BY DEF Pick
<1> QED BY <1>1, <1>2

LEMMA AddsUpUnique ==
    ASSUME NEW f, NEW S, IsFiniteSet(S), NEW T \in SUBSET S, NEW U \in SUBSET S,
           NEW g, NEW h, AddsUp(f, g, T), AddsUp(f, h, U)
    PROVE  \A s \in SUBSET (T \cap U) : g[s] = h[s]
<1> DEFINE bad == {s \in SUBSET (T \cap U) : g[s] # h[s]}
<1> SUFFICES ASSUME bad # {} PROVE FALSE
  OBVIOUS
<1>1. PICK s \in bad : \A t \in bad : t \subseteq s => t = s
  <2>1. bad \in SUBSET (SUBSET S)
    OBVIOUS
  <2> HIDE DEF bad
  <2> QED BY <2>1, Smallest
<1>2. s \subseteq T /\ s \subseteq U
  BY <1>1
<1>3. IF s = {} THEN g[s] = 0
      ELSE Pick(s) \in s /\ g[s] = f[Pick(s)] + g[s \ {Pick(s)}]
  BY <1>2, AddsUpStep
<1>3h. IF s = {} THEN h[s] = 0
      ELSE Pick(s) \in s /\ h[s] = f[Pick(s)] + h[s \ {Pick(s)}]
  BY <1>2, AddsUpStep
<1>4. CASE s = {}
  BY <1>1, <1>3, <1>3h, <1>4
<1>5. CASE s # {}
  <2>1. Pick(s) \in s
    BY <1>5 DEF Pick
  <2>2. s \ {Pick(s)} \notin bad
    BY <1>1, <2>1
  <2>3. g[s \ {Pick(s)}] = h[s \ {Pick(s)}]
    BY <1>2, <2>2
  <2> QED BY <1>1, <1>3, <1>3h, <1>5, <2>3
<1> QED BY <1>4, <1>5

LEMMA AddsUpExists ==
    ASSUME NEW f, NEW S, IsFiniteSet(S)
    PROVE  \E g : AddsUp(f, g, S)
<1> DEFINE bad == {T \in SUBSET S : ~\E g : AddsUp(f, g, T)}
           G(T) == CHOOSE g : AddsUp(f, g, T)
<1> SUFFICES ASSUME bad # {} PROVE FALSE
  OBVIOUS
<1>1. PICK T \in bad : \A U \in bad : U \subseteq T => U = T
  <2>1. bad \in SUBSET (SUBSET S)
    OBVIOUS
  <2> HIDE DEF bad
  <2> QED BY <2>1, Smallest
<1> DEFINE k == [s \in SUBSET T |-> IF s = {} THEN 0
                                    ELSE f[Pick(s)] + G(s \ {Pick(s)})[s \ {Pick(s)}]]
<1>2. \A U \in SUBSET T : U # T => AddsUp(f, G(U), U)
  <2> SUFFICES ASSUME NEW U \in SUBSET T, U # T PROVE AddsUp(f, G(U), U)
    OBVIOUS
  <2>1. \E g : AddsUp(f, g, U)
    BY <1>1
  <2> QED BY <2>1
<1> HIDE DEF G
<1>3. \A s \in SUBSET T : s # {} => Pick(s) \in s
  BY DEF Pick
<1>4. \A U \in SUBSET T : U # T => k[U] = G(U)[U]
  <2> SUFFICES ASSUME NEW U \in SUBSET T, U # T PROVE k[U] = G(U)[U]
    OBVIOUS
  <2>1. AddsUp(f, G(U), U)
    BY <1>2
  <2>2. IF U = {} THEN G(U)[U] = 0
         ELSE Pick(U) \in U /\ G(U)[U] = f[Pick(U)] + G(U)[U \ {Pick(U)}]
    BY <2>1, AddsUpStep
  <2>3. CASE U = {}
    BY <2>2, <2>3
  <2>4. CASE U # {}
    <3> DEFINE V == U \ {Pick(U)}
    <3>1. V \in SUBSET U /\ V \in SUBSET T /\ V # T
      BY <1>3, <2>4
    <3>2. AddsUp(f, G(V), V)
      BY <1>2, <3>1
    <3>3. U \in SUBSET S /\ V \in SUBSET S /\ V \in SUBSET (V \cap U)
      BY <1>1, <3>1
    <3> HIDE DEF V
    <3>4. G(V)[V] = G(U)[V]
      BY <2>1, <3>2, <3>3, AddsUpUnique
    <3> QED BY <2>2, <2>4, <3>4 DEF V
  <2> QED BY <2>3, <2>4
<1>5. \A s \in SUBSET T : s # {} => k[s] = f[Pick(s)] + k[s \ {Pick(s)}]
  <2> SUFFICES ASSUME NEW s \in SUBSET T, s # {}
               PROVE  k[s] = f[Pick(s)] + k[s \ {Pick(s)}]
    OBVIOUS
  <2>1. s \ {Pick(s)} \in SUBSET T /\ s \ {Pick(s)} # T
    BY <1>3
  <2>2. k[s] = f[Pick(s)] + G(s \ {Pick(s)})[s \ {Pick(s)}]
    OBVIOUS
  <2> QED BY <1>4, <2>1, <2>2
<1>6. AddsUp(f, k, T)
  <2>1. k = [s \in SUBSET T |-> k[s]] /\ ({} \in SUBSET T => k[{}] = 0)
    OBVIOUS
  <2>2. \A s \in SUBSET T : k[s] = IF s = {} THEN 0 ELSE f[Pick(s)] + k[s \ {Pick(s)}]
    BY <1>5, <2>1
  <2> HIDE DEF k
  <2> QED BY <2>1, <2>2 DEF AddsUp
<1> QED BY <1>1, <1>6

LEMMA TotalIsSum ==
    ASSUME NEW f, IsFiniteSet(DOMAIN f)
    PROVE  \E g : AddsUp(f, g, DOMAIN f) /\ Total(f) = g[DOMAIN f]
<1>1. PICK g : AddsUp(f, g, DOMAIN f)
  BY AddsUpExists
<1>2. \E h : h = [s \in SUBSET DOMAIN f |->
          IF s = {} THEN 0
          ELSE f[CHOOSE x \in s : TRUE] + h[s \ {CHOOSE x \in s : TRUE}]]
  BY <1>1 DEF AddsUp, Pick
<1> QED BY <1>2 DEF Total, FoldFunction, FoldFunctionOnSet, MapThenFoldSet, AddsUp, Pick

(* The order does not matter: any element may be taken out first.          *)
LEMMA AddsUpAnyOrder ==
    ASSUME NEW S, IsFiniteSet(S), NEW f \in [S -> Int], NEW g, AddsUp(f, g, S),
           NEW T \in SUBSET S, NEW c \in T
    PROVE  /\ g[T] \in Int /\ g[T \ {c}] \in Int
           /\ g[T] = f[c] + g[T \ {c}]
<1> DEFINE good(s) == g[s] \in Int /\ \A x \in s : g[s] = f[x] + g[s \ {x}]
           bad == {s \in SUBSET S : ~good(s)}
<1>0. SUFFICES ASSUME bad # {} PROVE FALSE
  <2>1. ASSUME bad = {} PROVE good(T) /\ good(T \ {c})
    BY <2>1
  <2> QED BY <2>1
<1>1. PICK s \in bad : \A t \in bad : t \subseteq s => t = s
  <2>1. bad \in SUBSET (SUBSET S)
    OBVIOUS
  <2> HIDE DEF bad
  <2> QED BY <1>0, <2>1, Smallest
<1>2. s \in SUBSET S /\ ~good(s)
  BY <1>1
<1>3. \A t \in SUBSET s : t # s => good(t)
  BY <1>1, <1>2
<1>4. IF s = {} THEN g[s] = 0
      ELSE Pick(s) \in s /\ g[s] = f[Pick(s)] + g[s \ {Pick(s)}]
  BY <1>2, AddsUpStep
<1>5. s # {}
  BY <1>2, <1>4
<1> DEFINE p == Pick(s)
<1>6. p \in s /\ g[s] = f[p] + g[s \ {p}]
  BY <1>4, <1>5 DEF Pick
<1> HIDE DEF p
<1>7. \A x \in s : good(s \ {x}) /\ f[x] \in Int
  <2> SUFFICES ASSUME NEW x \in s PROVE good(s \ {x}) /\ f[x] \in Int
    OBVIOUS
  <2>1. s \ {x} \in SUBSET s /\ s \ {x} # s
    OBVIOUS
  <2>2. x \in S
    BY <1>2
  <2> HIDE DEF good
  <2> QED BY <1>3, <2>1, <2>2
<1>8. \A x \in s : g[s] = f[x] + g[s \ {x}]
  <2> SUFFICES ASSUME NEW x \in s, x # p PROVE g[s] = f[x] + g[s \ {x}]
    BY <1>6
  <2>1. x \in s \ {p} /\ p \in s \ {x} /\ (s \ {p}) \ {x} = (s \ {x}) \ {p}
    BY <1>6
  <2>2. /\ g[s \ {p}] = f[x] + g[(s \ {p}) \ {x}]
        /\ g[s \ {x}] = f[p] + g[(s \ {x}) \ {p}]
    BY <1>6, <1>7, <2>1
  <2>3. /\ g[s \ {p}] \in Int /\ g[s \ {x}] \in Int /\ f[x] \in Int /\ f[p] \in Int
        /\ g[(s \ {x}) \ {p}] \in Int
    <3>1. (s \ {x}) \ {p} \in SUBSET s /\ (s \ {x}) \ {p} # s
      BY <1>6
    <3> QED BY <1>3, <1>6, <1>7, <3>1
  <2> DEFINE all == g[s]  noP == g[s \ {p}]  noX == g[s \ {x}]
             rest == g[(s \ {x}) \ {p}]  a == f[p]  b == f[x]
  <2>4. /\ all = a + noP /\ noP = b + rest /\ noX = a + rest
        /\ noP \in Int /\ noX \in Int /\ a \in Int /\ b \in Int /\ rest \in Int
    BY <1>6, <2>1, <2>2, <2>3
  <2> HIDE DEF all, noP, noX, rest, a, b
  <2>5. all = b + noX
    BY <2>4
  <2> QED BY <2>5 DEF all, noX, b
<1>9. g[s] \in Int
  <2>1. g[s \ {p}] \in Int /\ f[p] \in Int
    BY <1>6, <1>7
  <2> QED BY <1>6, <2>1
<1> QED BY <1>2, <1>8, <1>9

LEMMA AgreeingSums ==
    ASSUME NEW S, IsFiniteSet(S), NEW f, NEW h, NEW T \in SUBSET S,
           \A x \in T : f[x] = h[x],
           NEW g, NEW k, AddsUp(f, g, S), AddsUp(h, k, S)
    PROVE  g[T] = k[T]
<1> DEFINE bad == {s \in SUBSET T : g[s] # k[s]}
<1> SUFFICES ASSUME bad # {} PROVE FALSE
  OBVIOUS
<1>1. PICK s \in bad : \A t \in bad : t \subseteq s => t = s
  <2>1. bad \in SUBSET (SUBSET S)
    OBVIOUS
  <2> HIDE DEF bad
  <2> QED BY <2>1, Smallest
<1>2. s \in SUBSET S /\ s \in SUBSET T
  BY <1>1
<1>3. IF s = {} THEN g[s] = 0
      ELSE Pick(s) \in s /\ g[s] = f[Pick(s)] + g[s \ {Pick(s)}]
  BY <1>2, AddsUpStep
<1>3k. IF s = {} THEN k[s] = 0
      ELSE Pick(s) \in s /\ k[s] = h[Pick(s)] + k[s \ {Pick(s)}]
  BY <1>2, AddsUpStep
<1>4. CASE s = {}
  BY <1>1, <1>3, <1>3k, <1>4
<1>5. CASE s # {}
  <2>1. Pick(s) \in s
    BY <1>5 DEF Pick
  <2>2. s \ {Pick(s)} \notin bad
    BY <1>1, <2>1
  <2>3. g[s \ {Pick(s)}] = k[s \ {Pick(s)}]
    BY <1>2, <2>2
  <2> QED BY <1>1, <1>2, <1>3, <1>3k, <1>5, <2>1, <2>3
<1> QED BY <1>4, <1>5

(* A sum changes by what one of its terms changes by.                      *)
LEMMA TotalChange ==
    ASSUME NEW S, IsFiniteSet(S), NEW f \in [S -> Int], NEW h \in [S -> Int],
           NEW c \in S, \A x \in S \ {c} : f[x] = h[x]
    PROVE  /\ Total(f) \in Int
           /\ Total(h) = Total(f) - f[c] + h[c]
<1>1. DOMAIN f = S /\ DOMAIN h = S
  OBVIOUS
<1>2. PICK g : AddsUp(f, g, S) /\ Total(f) = g[S]
  BY <1>1, TotalIsSum
<1>3. PICK k : AddsUp(h, k, S) /\ Total(h) = k[S]
  BY <1>1, TotalIsSum
<1>4. g[S \ {c}] = k[S \ {c}]
  <2>1. S \ {c} \in SUBSET S
    OBVIOUS
  <2> QED BY <1>2, <1>3, <2>1, AgreeingSums
<1>5. S \in SUBSET S /\ S \ {c} \in SUBSET S
  OBVIOUS
<1>6. /\ g[S] \in Int /\ g[S] = f[c] + g[S \ {c}]
      /\ g[S \ {c}] \in Int
  <2>1. AddsUp(f, g, S)
    BY <1>2
  <2> QED BY <1>5, <2>1, AddsUpAnyOrder
<1>7. k[S] \in Int /\ k[S] = h[c] + k[S \ {c}]
  <2>1. AddsUp(h, k, S)
    BY <1>3
  <2> QED BY <1>5, <2>1, AddsUpAnyOrder
<1>8. f[c] \in Int /\ h[c] \in Int
  OBVIOUS
<1> QED BY <1>2, <1>3, <1>4, <1>6, <1>7, <1>8

LEMMA TotalOfZeros ==
    ASSUME NEW S, IsFiniteSet(S)
    PROVE  Total([x \in S |-> 0]) = 0
<1> DEFINE f == [x \in S |-> 0]
<1>1. DOMAIN f = S /\ f \in [S -> Int]
  OBVIOUS
<1> HIDE DEF f
<1>2. PICK g : AddsUp(f, g, S) /\ Total(f) = g[S]
  BY <1>1, TotalIsSum
<1> DEFINE bad == {s \in SUBSET S : g[s] # 0}
<1>3. ASSUME bad # {} PROVE FALSE
  <2>1. bad \in SUBSET (SUBSET S)
    OBVIOUS
  <2> HIDE DEF bad
  <2>2. PICK s \in bad : \A t \in bad : t \subseteq s => t = s
    BY <1>3, <2>1, Smallest
  <2> USE DEF bad
  <2>3. s \in SUBSET S /\ g[s] # 0
    BY <2>2
  <2>4. s # {} => s \ {Pick(s)} \notin bad /\ Pick(s) \in s
    BY <2>2 DEF Pick
  <2>5. IF s = {} THEN g[s] = 0
      ELSE Pick(s) \in s /\ g[s] = f[Pick(s)] + g[s \ {Pick(s)}]
    BY <1>2, <2>3, AddsUpStep
  <2>6. \A x \in S : f[x] = 0
    BY DEF f
  <2> QED BY <2>3, <2>4, <2>5, <2>6
<1>4. Total(f) = 0
  BY <1>2, <1>3
<1> QED BY <1>4 DEF f
LEMMA TotalIsNumber ==
    ASSUME NEW S, IsFiniteSet(S), NEW f \in [S -> Int]
    PROVE  Total(f) \in Int
<1>1. PICK g : AddsUp(f, g, S) /\ Total(f) = g[S]
  BY TotalIsSum
<1>2. CASE S = {}
  <2>1. g[S] = 0
    BY <1>1, <1>2, AddsUpStep
  <2> QED BY <1>1, <2>1
<1>3. CASE S # {}
  <2>1. PICK c \in S : TRUE
    BY <1>3
  <2>2. S \in SUBSET S
    OBVIOUS
  <2>3. g[S] \in Int
    BY <1>1, <2>1, <2>2, AddsUpAnyOrder
  <2> QED BY <1>1, <2>3
<1> QED BY <1>2, <1>3


-----------------------------------------------------------------------------
(* Types. *)

Calls == {Idle} \cup [at : Places, key : Keys, deltas : 0..MaxCost, usage : -1..MaxCost]

Types == TypeOK /\ call \in [Callers -> Calls]

LEMMA TypesInit == Init => Types
BY GatewayAssumption
   DEF Init, Types, TypeOK, Calls, Idle, Places, GatewayAssumption

(* A call that is under way has the fields of one.                         *)
LEMMA CallFields ==
    ASSUME Types, NEW c \in Callers, call[c].at # "idle"
    PROVE  /\ call[c] \in [at : Places, key : Keys, deltas : 0..MaxCost, usage : -1..MaxCost]
           /\ call[c].at \in Places /\ call[c].key \in Keys
           /\ call[c].deltas \in 0..MaxCost /\ call[c].usage \in -1..MaxCost
           /\ Usage(c) \in 0..MaxCost
<1>1. call[c] \in Calls /\ call[c] # Idle
  BY DEF Types, Idle
<1>2. call[c] \in [at : Places, key : Keys, deltas : 0..MaxCost, usage : -1..MaxCost]
  BY <1>1 DEF Calls
<1>3. call[c].deltas \in 0..MaxCost /\ call[c].usage \in -1..MaxCost
  BY <1>2
<1>4. Usage(c) \in 0..MaxCost
  BY <1>3, GatewayAssumption DEF Usage, GatewayAssumption
<1> QED BY <1>2, <1>3, <1>4

(* A row is written by a caller for its own key.                           *)
LEMMA RecordTypes ==
    ASSUME Types, NEW k \in Keys, NEW t \in Nat, Record(k, t)
    PROVE  /\ ledger' \in [Keys -> [1..Months -> [calls : Nat, tokens : Nat]]]
           /\ ledger'[k][month].tokens = ledger[k][month].tokens + t
           /\ \A j \in Keys, m \in 1..Months :
                 <<j, m>> # <<k, month>> => ledger'[j][m] = ledger[j][m]
<1> DEFINE Row == [calls : Nat, tokens : Nat]
           Book == [1..Months -> Row]
           row == [calls |-> ledger[k][month].calls + 1,
                   tokens |-> ledger[k][month].tokens + t]
           book == [ledger[k] EXCEPT ![month] = row]
<1>1. /\ ledger \in [Keys -> Book] /\ month \in 1..Months
      /\ ledger' = [ledger EXCEPT ![k] = book]
  BY DEF Types, TypeOK, Record
<1>2. ledger[k] \in Book /\ ledger[k][month] \in Row
  BY <1>1
<1>3. row \in Row /\ row.tokens = ledger[k][month].tokens + t
  BY <1>2
<1> HIDE DEF row, Row
<1>4. book \in Book /\ book[month] = row
  BY <1>1, <1>2, <1>3
<1>5. \A m \in 1..Months : m # month => book[m] = ledger[k][m]
  BY <1>2
<1> HIDE DEF book, Book
<1>6. ledger' \in [Keys -> Book] /\ ledger'[k] = book
  BY <1>1, <1>4
<1>7. \A j \in Keys : j # k => ledger'[j] = ledger[j]
  BY <1>1
<1>8. \A j \in Keys, m \in 1..Months : <<j, m>> # <<k, month>> => ledger'[j][m] = ledger[j][m]
  <2> SUFFICES ASSUME NEW j \in Keys, NEW m \in 1..Months, <<j, m>> # <<k, month>>
               PROVE  ledger'[j][m] = ledger[j][m]
    OBVIOUS
  <2>1. CASE j # k
    BY <1>7, <2>1
  <2>2. CASE j = k /\ m # month
    BY <1>5, <1>6, <2>2
  <2> QED BY <2>1, <2>2
<1> QED BY <1>3, <1>4, <1>6, <1>8 DEF Book, Row

LEMMA CallTypes ==
    ASSUME Types, NEW c \in Callers, NEW v \in Calls, call' = [call EXCEPT ![c] = v]
    PROVE  /\ call' \in [Callers -> Calls]
           /\ call'[c] = v /\ \A d \in Callers : d # c => call'[d] = call[d]
           /\ \A d \in Callers : call'[d] = Idle \/
                call'[d] \in [at : Places, key : Keys, deltas : 0..MaxCost, usage : -1..MaxCost]
<1>1. call \in [Callers -> Calls]
  BY DEF Types
<1>2. /\ call' \in [Callers -> Calls]
      /\ call'[c] = v /\ \A d \in Callers : d # c => call'[d] = call[d]
  BY <1>1
<1>3. \A d \in Callers : call'[d] \in Calls
  BY <1>2
<1> QED BY <1>2, <1>3 DEF Calls

(* What a step of a caller does to its own call.                           *)
LEMMA CallStep ==
    ASSUME Types, NEW c \in Callers, Serve(c)
    PROVE  \E v \in Calls : call' = [call EXCEPT ![c] = v]
<1> USE GatewayAssumption DEF GatewayAssumption
<1>0. Idle \in Calls
  BY DEF Calls
<1>1. CASE \E k \in Keys : Resolve(c, k)
  <2> PICK k \in Keys : Resolve(c, k)
    BY <1>1
  <2>1. [at |-> "quota", key |-> k, deltas |-> 0, usage |-> -1] \in Calls
    BY DEF Calls, Places
  <2> QED BY <2>1 DEF Resolve
<1>2. CASE CheckQuota(c) \/ SendSucceeds(c) \/ StreamEnds(c)
  <2>1. call[c].at # "idle"
    BY <1>2 DEF CheckQuota, SendSucceeds, StreamEnds
  <2>2. \A p \in Places : [call[c] EXCEPT !.at = p] \in Calls
    BY <2>1, CallFields DEF Calls, Places
  <2>3. \/ call' = [call EXCEPT ![c] = Idle]
        \/ \E p \in Places : call' = [call EXCEPT ![c] = [call[c] EXCEPT !.at = p]]
    BY <1>2 DEF CheckQuota, SendSucceeds, StreamEnds, Ends, Places
  <2> QED BY <1>0, <2>2, <2>3
<1>3. CASE Feed(c)
  <2>1. call[c].at # "idle"
    BY <1>3 DEF Feed
  <2>2. \A n \in 0..MaxCost : [call[c] EXCEPT !.usage = n] \in Calls
    BY <2>1, CallFields DEF Calls
  <2>3. call[c].deltas < MaxCost => [call[c] EXCEPT !.deltas = @ + 1] \in Calls
    BY <2>1, CallFields DEF Calls
  <2>4. \/ /\ call[c].deltas < MaxCost
           /\ call' = [call EXCEPT ![c] = [call[c] EXCEPT !.deltas = @ + 1]]
        \/ \E n \in 0..MaxCost : call' = [call EXCEPT ![c] = [call[c] EXCEPT !.usage = n]]
    BY <1>3 DEF Feed
  <2> QED BY <2>2, <2>3, <2>4
<1>4. CASE SendFails(c) \/ Emit(c) \/ EmitCancelled(c) \/ SinkRaises(c)
  BY <1>0, <1>4 DEF SendFails, Emit, EmitCancelled, SinkRaises, Loses, Ends
<1> QED BY <1>1, <1>2, <1>3, <1>4 DEF Serve

(* The types of the tables, of the clock and of the history.               *)
Tables ==
    /\ live \subseteq Keys /\ revoked \subseteq Keys /\ live \cap revoked = {}
    /\ ledger \in [Keys -> [1..Months -> [calls : Nat, tokens : Nat]]]
Clock == month \in 1..Months
Counters ==
    /\ made \in [Callers -> 0..MaxCalls]
    /\ used \in [Keys -> Nat] /\ lost \in [Keys -> Nat]

LEMMA TypesParts ==
    /\ Types <=> Tables /\ Clock /\ Counters /\ call \in [Callers -> Calls]
    /\ Types' <=> Tables' /\ Clock' /\ Counters' /\ call' \in [Callers -> Calls]
<1>1. call \in [Callers -> Calls] =>
        \A c \in Callers : call[c] = Idle \/
          call[c] \in [at : Places, key : Keys, deltas : 0..MaxCost, usage : -1..MaxCost]
  <2>1. \A c \in Callers : call \in [Callers -> Calls] => call[c] \in Calls
    OBVIOUS
  <2> QED BY <2>1 DEF Calls
<1>2. call' \in [Callers -> Calls] =>
        \A c \in Callers : call'[c] = Idle \/
          call'[c] \in [at : Places, key : Keys, deltas : 0..MaxCost, usage : -1..MaxCost]
  <2>1. \A c \in Callers : call' \in [Callers -> Calls] => call'[c] \in Calls
    OBVIOUS
  <2> QED BY <2>1 DEF Calls
<1>3. Calls' = Calls
  BY DEF Calls, Idle, Places
<1>4. Types <=> Tables /\ Clock /\ Counters /\ call \in [Callers -> Calls]
  BY <1>1, Zenon DEF Types, TypeOK, Tables, Clock, Counters
<1>5. Types' <=> Tables' /\ Clock' /\ Counters' /\ call' \in [Callers -> Calls]
  BY <1>2, <1>3, Zenon DEF Types, TypeOK, Tables, Clock, Counters
<1> QED BY <1>4, <1>5

LEMMA TypesStep == Types /\ [Next]_vars => Types'
<1> SUFFICES ASSUME Types, [Next]_vars PROVE Types'
  OBVIOUS
<1>0. Tables /\ Clock /\ Counters /\ call \in [Callers -> Calls]
  BY TypesParts
<1>1. ASSUME NEW k \in Keys, Create(k) \/ Revoke(k) PROVE Types'
  <2>1. Tables'
    BY <1>0, <1>1 DEF Tables, Create, Revoke
  <2>2. Clock' /\ Counters' /\ call' \in [Callers -> Calls]
    BY <1>0, <1>1 DEF Clock, Counters, Create, Revoke
  <2> QED BY <2>1, <2>2, TypesParts
<1>2. CASE MonthTurns
  <2>1. Clock'
    BY <1>0, <1>2, GatewayAssumption DEF Clock, MonthTurns, GatewayAssumption
  <2>2. Tables' /\ Counters' /\ call' \in [Callers -> Calls]
    BY <1>0, <1>2 DEF Tables, Counters, MonthTurns
  <2> QED BY <2>1, <2>2, TypesParts
<1>3. ASSUME NEW c \in Callers, Serve(c) PROVE Types'
  <2>1. PICK v \in Calls : call' = [call EXCEPT ![c] = v]
    BY <1>3, CallStep
  <2>2. call' \in [Callers -> Calls]
    BY <2>1, CallTypes
  <2>3. ASSUME \E k \in Keys : Resolve(c, k) PROVE Tables' /\ Clock' /\ Counters'
    <3>1. Counters'
      BY <1>0, <2>3, GatewayAssumption DEF Counters, Resolve, GatewayAssumption
    <3> QED BY <1>0, <2>3, <3>1 DEF Resolve, Tables, Clock
  <2>4. ASSUME CheckQuota(c) \/ SendSucceeds(c) \/ Feed(c) PROVE Tables' /\ Clock' /\ Counters'
    BY <1>0, <2>4 DEF CheckQuota, SendSucceeds, Feed, Tables, Clock, Counters
  <2>5. ASSUME SendFails(c) \/ Emit(c) PROVE Tables' /\ Clock' /\ Counters'
    <3>1. call[c].key \in Keys /\ Usage(c) \in Nat
      BY <2>5, CallFields DEF SendFails, Emit
    <3>2. ledger' \in [Keys -> [1..Months -> [calls : Nat, tokens : Nat]]]
      BY <2>5, <3>1, RecordTypes DEF SendFails, Emit
    <3> QED BY <1>0, <2>5, <3>2 DEF SendFails, Emit, Tables, Clock, Counters
  <2>6. ASSUME StreamEnds(c) \/ EmitCancelled(c) \/ SinkRaises(c)
        PROVE  Tables' /\ Clock' /\ Counters'
    <3>1. call[c].key \in Keys /\ Usage(c) \in Nat
      BY <2>6, CallFields DEF StreamEnds, EmitCancelled, SinkRaises
    <3>2. Counters'
      BY <1>0, <2>6, <3>1 DEF StreamEnds, EmitCancelled, SinkRaises, Loses, Counters
    <3> QED BY <1>0, <2>6, <3>2 DEF StreamEnds, EmitCancelled, SinkRaises, Loses, Tables, Clock
  <2> QED BY <1>3, <2>2, <2>3, <2>4, <2>5, <2>6, TypesParts DEF Serve
<1>4. CASE UNCHANGED vars
  <2>1. Tables' /\ Clock' /\ Counters' /\ call' \in [Callers -> Calls]
    BY <1>0, <1>4 DEF vars, Tables, Clock, Counters
  <2> QED BY <2>1, TypesParts
<1> QED BY <1>1, <1>2, <1>3, <1>4 DEF Next

(* Every variable keeps its type.                                          *)
THEOREM TypeCorrect == Spec => [](Types /\ TypeOK)
<1>1. Types => TypeOK
  BY DEF Types
<1> QED BY <1>1, TypesInit, TypesStep, PTL DEF Spec

-----------------------------------------------------------------------------
(* The quota.  A call that has passed the check will be billed, in the     *)
(* month of the check or in a later one, at most MaxCost: what is billed   *)
(* to a key in the current month and what its calls past the check may     *)
(* still add stay below the bound from the first billed token on.          *)

PastCheck == {"sending", "streaming", "closing"}

Passed(k) == {c \in Callers : call[c].at \in PastCheck /\ call[c].key = k}

(* What the calls of k that passed the check may add.                      *)
Exposure(k) == MaxCost * Cardinality(Passed(k))

Ceiling == Quota + MaxCost * Cardinality(Callers)

Headroom(k) ==
    /\ Passed(k) # {} => Quota > 0
    /\ TokensSince(k) # 0 => TokensSince(k) + Exposure(k) < Ceiling

(* Months to come have no rows, and months gone by kept the bound.         *)
OtherMonths(k) ==
    /\ \A m \in 1..Months : m > month => ledger[k][m].tokens = 0
    /\ \A m \in 1..Months :
          m < month /\ ledger[k][m].tokens # 0 => ledger[k][m].tokens < Ceiling

QuotaInv == \A k \in Limited : Headroom(k) /\ OtherMonths(k)

LEMMA Products ==
    ASSUME NEW m \in Nat, NEW n \in Nat, NEW N \in Nat, n <= N
    PROVE  /\ m * n \in Nat /\ m * N \in Nat /\ m * n <= m * N
           /\ n > 0 => m * n = m * (n - 1) + m
           /\ n < N => m * n + m <= m * N
<1>1. m * n \in Nat /\ m * N \in Nat
  OBVIOUS
<1>2. PICK d \in Nat : N = n + d
  <2>1. N - n \in Nat /\ N = n + (N - n)
    OBVIOUS
  <2> QED BY <2>1
<1>3. m * N = m * n + m * d /\ m * d \in Nat
  BY <1>2
<1>4. n > 0 => m * n = m * (n - 1) + m
  OBVIOUS
<1>5. n < N => m * n + m <= m * N
  <2> SUFFICES ASSUME n < N PROVE m * n + m <= m * N
    OBVIOUS
  <2>1. PICK e \in Nat : d = e + 1
    <3>1. d - 1 \in Nat /\ d = (d - 1) + 1
      BY <1>2
    <3> QED BY <3>1
  <2>2. m * d = m * e + m /\ m * e \in Nat
    BY <2>1
  <2> QED BY <1>1, <1>3, <2>2
<1> QED BY <1>1, <1>3, <1>4, <1>5

LEMMA ExposureFacts ==
    ASSUME NEW S \in SUBSET Callers
    PROVE  /\ MaxCost * Cardinality(S) \in Nat /\ Ceiling \in Nat
           /\ Quota + MaxCost * Cardinality(S) <= Ceiling
           /\ \A T \in SUBSET S : MaxCost * Cardinality(T) <= MaxCost * Cardinality(S)
           /\ \A c \in S : MaxCost * Cardinality(S \ {c}) + MaxCost = MaxCost * Cardinality(S)
<1> USE GatewayAssumption DEF GatewayAssumption
<1>1. IsFiniteSet(S) /\ Cardinality(S) \in Nat /\ Cardinality(Callers) \in Nat
      /\ Cardinality(S) <= Cardinality(Callers)
  BY FS_Subset, FS_CardinalityType
<1>2. MaxCost * Cardinality(S) \in Nat /\ MaxCost * Cardinality(Callers) \in Nat
      /\ MaxCost * Cardinality(S) <= MaxCost * Cardinality(Callers)
  BY <1>1, Products
<1>3. \A T \in SUBSET S : MaxCost * Cardinality(T) <= MaxCost * Cardinality(S)
  <2> TAKE T \in SUBSET S
  <2>1. Cardinality(T) \in Nat /\ Cardinality(T) <= Cardinality(S)
    BY <1>1, FS_Subset, FS_CardinalityType
  <2> QED BY <1>1, <2>1, Products
<1>4. \A c \in S : MaxCost * Cardinality(S \ {c}) + MaxCost = MaxCost * Cardinality(S)
  <2> TAKE c \in S
  <2>1. Cardinality(S \ {c}) = Cardinality(S) - 1 /\ Cardinality(S) > 0
    <3>1. Cardinality(S \ {c}) = Cardinality(S) - 1 /\ IsFiniteSet(S \ {c})
      BY <1>1, FS_RemoveElement
    <3>2. Cardinality(S \ {c}) \in Nat
      BY <3>1, FS_CardinalityType
    <3> QED BY <1>1, <3>1, <3>2
  <2>2. MaxCost * Cardinality(S) = MaxCost * (Cardinality(S) - 1) + MaxCost
    BY <1>1, <2>1, Products
  <2> QED BY <2>1, <2>2
<1> QED BY <1>2, <1>3, <1>4 DEF Ceiling

LEMMA LimitedRows ==
    ASSUME Types, NEW k \in Limited
    PROVE  /\ k \in Keys /\ month \in 1..Months /\ TokensSince(k) \in Nat
           /\ \A m \in 1..Months : ledger[k][m].tokens \in Nat
<1>1. k \in Keys /\ month \in 1..Months
  BY GatewayAssumption DEF Types, TypeOK
<1>2. \A m \in 1..Months : ledger[k][m].tokens \in Nat
  BY <1>1 DEF Types, TypeOK
<1> QED BY <1>1, <1>2 DEF TokensSince

(* Steps that write no row and let no call past the check.                 *)
LEMMA QuotaQuiet ==
    ASSUME Types, QuotaInv, UNCHANGED <<ledger, month>>,
           \A k \in Limited : Passed(k)' \subseteq Passed(k)
    PROVE  QuotaInv'
<1> SUFFICES ASSUME NEW k \in Limited PROVE Headroom(k)' /\ OtherMonths(k)'
  BY DEF QuotaInv
<1>1. Headroom(k) /\ OtherMonths(k) /\ TokensSince(k) \in Nat
  BY LimitedRows DEF QuotaInv
<1>2. TokensSince(k)' = TokensSince(k) /\ Ceiling' = Ceiling
  BY DEF TokensSince, Ceiling
<1>3. OtherMonths(k)'
  BY <1>1, <1>2 DEF OtherMonths
<1>4. Passed(k) \in SUBSET Callers /\ Passed(k)' \in SUBSET Passed(k)
  BY DEF Passed
<1>5. Exposure(k)' <= Exposure(k) /\ Exposure(k) \in Nat /\ Exposure(k)' \in Nat /\ Ceiling \in Nat
  BY <1>4, ExposureFacts DEF Exposure
<1>6. Headroom(k)'
  BY <1>1, <1>2, <1>4, <1>5 DEF Headroom
<1> QED BY <1>3, <1>6

(* A call is found to be within the quota.                                 *)
LEMMA QuotaCheck ==
    ASSUME Types, QuotaInv, NEW c \in Callers, CheckQuota(c)
    PROVE  QuotaInv'
<1>0. call[c].at = "quota" /\ UNCHANGED <<ledger, month>>
  BY DEF CheckQuota
<1>1. CASE Exhausted(call[c].key)
  <2>1. call' = [call EXCEPT ![c] = Idle] /\ call \in [Callers -> Calls]
    BY <1>1 DEF CheckQuota, Ends, Types
  <2>2. \A k \in Limited : Passed(k)' \subseteq Passed(k)
    BY <2>1 DEF Passed, PastCheck, Idle
  <2> QED BY <1>0, <2>2, QuotaQuiet
<1>2. CASE ~Exhausted(call[c].key)
  <2>1. call' = [call EXCEPT ![c].at = "sending"] /\ call \in [Callers -> Calls]
    BY <1>2 DEF CheckQuota, Types
  <2>2. \A d \in Callers : d # c => call'[d] = call[d]
    BY <2>1
  <2>3. call'[c].key = call[c].key
    BY <1>0, <2>1, CallFields
  <2> SUFFICES ASSUME NEW k \in Limited PROVE Headroom(k)' /\ OtherMonths(k)'
    BY DEF QuotaInv
  <2>4. Headroom(k) /\ OtherMonths(k) /\ TokensSince(k) \in Nat
    BY LimitedRows DEF QuotaInv
  <2>5. TokensSince(k)' = TokensSince(k) /\ Ceiling' = Ceiling
    BY <1>0 DEF TokensSince, Ceiling
  <2>6. OtherMonths(k)'
    BY <1>0, <2>4, <2>5 DEF OtherMonths
  <2>7. CASE call[c].key = k
    <3>1. TokensSince(k) < Quota
      BY <1>2, <2>4, <2>7, GatewayAssumption DEF Exhausted, GatewayAssumption
    <3>2. Passed(k)' \in SUBSET Callers
      BY DEF Passed
    <3>3. Quota + Exposure(k)' <= Ceiling /\ Exposure(k)' \in Nat /\ Ceiling \in Nat
      BY <3>2, ExposureFacts DEF Exposure
    <3>4. Headroom(k)'
      BY <2>4, <2>5, <3>1, <3>3, GatewayAssumption DEF Headroom, GatewayAssumption
    <3> QED BY <2>6, <3>4
  <2>8. CASE call[c].key # k
    <3>1. Passed(k)' = Passed(k)
      BY <2>2, <2>3, <2>8 DEF Passed
    <3>2. Exposure(k)' = Exposure(k)
      BY <3>1 DEF Exposure
    <3> QED BY <2>4, <2>5, <2>6, <3>1, <3>2 DEF Headroom
  <2> QED BY <2>7, <2>8
<1> QED BY <1>1, <1>2

(* A row is written of a call, which is over.                              *)
LEMMA QuotaRow ==
    ASSUME Types, QuotaInv, NEW c \in Callers, call[c].at \in PastCheck,
           NEW t \in 0..MaxCost, Record(call[c].key, t), Ends(c), UNCHANGED month
    PROVE  QuotaInv'
<1>1. call[c].key \in Keys /\ t \in Nat
  BY CallFields, GatewayAssumption DEF PastCheck, GatewayAssumption
<1>2. /\ ledger'[call[c].key][month].tokens = ledger[call[c].key][month].tokens + t
      /\ \A j \in Keys, m \in 1..Months :
            <<j, m>> # <<call[c].key, month>> => ledger'[j][m] = ledger[j][m]
  BY <1>1, RecordTypes
<1>3. call' = [call EXCEPT ![c] = Idle] /\ call \in [Callers -> Calls]
  BY DEF Ends, Types
<1>4. \A k \in Limited : Passed(k)' = Passed(k) \ {c}
  BY <1>3 DEF Passed, PastCheck, Idle
<1> SUFFICES ASSUME NEW k \in Limited PROVE Headroom(k)' /\ OtherMonths(k)'
  BY DEF QuotaInv
<1>5. /\ Headroom(k) /\ OtherMonths(k) /\ TokensSince(k) \in Nat
      /\ k \in Keys /\ month \in 1..Months
  BY LimitedRows DEF QuotaInv
<1>6. OtherMonths(k)'
  <2>1. \A m \in 1..Months : m # month => ledger'[k][m] = ledger[k][m]
    BY <1>2, <1>5
  <2>2. \A m \in 1..Months : m > month \/ m < month => m # month
    BY <1>5
  <2> QED BY <1>5, <2>1, <2>2 DEF OtherMonths, Ceiling
<1>7. CASE call[c].key = k
  <2>1. TokensSince(k)' = TokensSince(k) + t
    BY <1>2, <1>5, <1>7 DEF TokensSince
  <2>2. c \in Passed(k) /\ Passed(k) \in SUBSET Callers
    BY <1>7 DEF Passed
  <2>3. /\ Exposure(k)' + MaxCost = Exposure(k)
        /\ Exposure(k) \in Nat /\ Ceiling \in Nat /\ Quota + Exposure(k) <= Ceiling
    BY <1>4, <2>2, ExposureFacts DEF Exposure
  <2>4. Exposure(k)' \in Nat
    <3>1. Passed(k)' \in SUBSET Callers
      BY DEF Passed
    <3> QED BY <3>1, ExposureFacts DEF Exposure
  <2>5. Quota > 0 /\ t <= MaxCost /\ Ceiling' = Ceiling /\ MaxCost \in Nat /\ Quota \in Nat
    BY <1>5, <2>2, GatewayAssumption DEF Headroom, Ceiling, GatewayAssumption
  <2>6. TokensSince(k)' # 0 => TokensSince(k)' + Exposure(k)' < Ceiling'
    BY <1>1, <1>5, <2>1, <2>3, <2>4, <2>5 DEF Headroom
  <2> QED BY <1>6, <2>5, <2>6 DEF Headroom
<1>8. CASE call[c].key # k
  <2>1. TokensSince(k)' = TokensSince(k)
    BY <1>2, <1>5, <1>8 DEF TokensSince
  <2>2. Passed(k)' = Passed(k)
    BY <1>4, <1>8 DEF Passed
  <2>3. Exposure(k)' = Exposure(k) /\ Ceiling' = Ceiling
    BY <2>2 DEF Exposure, Ceiling
  <2> QED BY <1>5, <1>6, <2>1, <2>2, <2>3 DEF Headroom
<1> QED BY <1>7, <1>8

LEMMA QuotaMonth ==
    ASSUME Types, QuotaInv, MonthTurns
    PROVE  QuotaInv'
<1> SUFFICES ASSUME NEW k \in Limited PROVE Headroom(k)' /\ OtherMonths(k)'
  BY DEF QuotaInv
<1>1. /\ Headroom(k) /\ OtherMonths(k) /\ month \in Int /\ Months \in Int
      /\ 1 <= month /\ month < Months /\ month' = month + 1
      /\ UNCHANGED <<ledger, call>>
  BY LimitedRows, GatewayAssumption DEF QuotaInv, MonthTurns, GatewayAssumption
<1>2. Passed(k)' = Passed(k) /\ Ceiling' = Ceiling
  BY <1>1 DEF Passed, Ceiling
<1>3. month + 1 \in 1..Months /\ TokensSince(k)' = ledger[k][month + 1].tokens
  BY <1>1 DEF TokensSince
<1>4. Headroom(k)'
  BY <1>1, <1>2, <1>3 DEF Headroom, OtherMonths
<1>5. TokensSince(k) # 0 => TokensSince(k) < Ceiling
  <2>1. Passed(k) \in SUBSET Callers
    BY DEF Passed
  <2>2. Exposure(k) \in Nat /\ Ceiling \in Nat /\ TokensSince(k) \in Nat
    BY <2>1, ExposureFacts, LimitedRows DEF Exposure
  <2> QED BY <1>1, <2>2 DEF Headroom
<1>6. \A m \in 1..Months : m < month' /\ ledger'[k][m].tokens # 0 => ledger'[k][m].tokens < Ceiling'
  <2> TAKE m \in 1..Months
  <2>1. CASE m < month
    BY <1>1, <1>2, <2>1 DEF OtherMonths
  <2>2. CASE m = month
    BY <1>1, <1>2, <1>5, <2>2 DEF TokensSince
  <2>3. m < month' => m < month \/ m = month
    BY <1>1
  <2> QED BY <2>1, <2>2, <2>3
<1>7. \A m \in 1..Months : m > month' => ledger'[k][m].tokens = 0
  BY <1>1 DEF OtherMonths
<1> QED BY <1>4, <1>6, <1>7 DEF OtherMonths

LEMMA QuotaInit == Init => QuotaInv
<1> SUFFICES ASSUME Init, NEW k \in Limited PROVE Headroom(k) /\ OtherMonths(k)
  BY DEF QuotaInv
<1>1. k \in Keys /\ 1 \in 1..Months
  BY GatewayAssumption DEF GatewayAssumption
<1>2. Passed(k) = {}
  BY DEF Init, Passed, PastCheck, Idle
<1>3. \A m \in 1..Months : ledger[k][m].tokens = 0
  BY <1>1 DEF Init
<1>4. TokensSince(k) = 0
  BY <1>1, <1>3 DEF Init, TokensSince
<1> QED BY <1>2, <1>3, <1>4 DEF Headroom, OtherMonths

LEMMA QuotaStep == Types /\ QuotaInv /\ [Next]_vars => QuotaInv'
<1> SUFFICES ASSUME Types, QuotaInv, [Next]_vars PROVE QuotaInv'
  OBVIOUS
<1>0. call \in [Callers -> Calls]
  BY DEF Types
<1>1. ASSUME NEW k \in Keys, Create(k) \/ Revoke(k) PROVE QuotaInv'
  <2>1. \A j \in Limited : Passed(j)' \subseteq Passed(j)
    BY <1>1 DEF Create, Revoke, Passed
  <2> QED BY <1>1, <2>1, QuotaQuiet DEF Create, Revoke
<1>2. CASE MonthTurns
  BY <1>2, QuotaMonth
<1>3. ASSUME NEW c \in Callers, Serve(c) PROVE QuotaInv'
  <2>1. ASSUME NEW k \in Keys, Resolve(c, k) PROVE QuotaInv'
    <3>1. \A j \in Limited : Passed(j)' \subseteq Passed(j)
      BY <1>0, <2>1 DEF Resolve, Passed, PastCheck
    <3> QED BY <2>1, <3>1, QuotaQuiet DEF Resolve
  <2>2. CASE SendSucceeds(c) \/ Feed(c) \/ StreamEnds(c)
    <3>1. call[c].at \in PastCheck
      BY <2>2 DEF SendSucceeds, Feed, StreamEnds, PastCheck
    <3>2. call[c] \in [at : Places, key : Keys, deltas : 0..MaxCost, usage : -1..MaxCost]
      BY <3>1, CallFields DEF PastCheck
    <3>3. call'[c].key = call[c].key /\ \A d \in Callers : d # c => call'[d] = call[d]
      BY <1>0, <2>2, <3>2 DEF SendSucceeds, Feed, StreamEnds
    <3>4. \A j \in Limited : Passed(j)' \subseteq Passed(j)
      BY <3>1, <3>3 DEF Passed
    <3> QED BY <2>2, <3>4, QuotaQuiet DEF SendSucceeds, Feed, StreamEnds
  <2>3. CASE SendFails(c)
    BY <2>3, QuotaRow, GatewayAssumption DEF SendFails, PastCheck, GatewayAssumption
  <2>4. CASE Emit(c)
    <3>1. Usage(c) \in 0..MaxCost
      BY <2>4, CallFields DEF Emit
    <3> QED BY <2>4, <3>1, QuotaRow DEF Emit, PastCheck
  <2>5. CASE EmitCancelled(c) \/ SinkRaises(c)
    <3>1. \A j \in Limited : Passed(j)' \subseteq Passed(j)
      BY <1>0, <2>5 DEF EmitCancelled, SinkRaises, Loses, Ends, Passed, PastCheck, Idle
    <3> QED BY <2>5, <3>1, QuotaQuiet DEF EmitCancelled, SinkRaises, Loses
  <2> QED BY <1>3, <2>1, <2>2, <2>3, <2>4, <2>5, QuotaCheck DEF Serve
<1>4. CASE UNCHANGED vars
  <2>1. \A j \in Limited : Passed(j)' \subseteq Passed(j)
    BY <1>4 DEF vars, Passed
  <2> QED BY <1>4, <2>1, QuotaQuiet DEF vars
<1> QED BY <1>1, <1>2, <1>3, <1>4 DEF Next

LEMMA QuotaBound == Types /\ QuotaInv => OvershootBounded
<1> SUFFICES ASSUME Types, QuotaInv, NEW k \in Limited, NEW m \in 1..Months,
                    ledger[k][m].tokens # 0
             PROVE  ledger[k][m].tokens < Quota + Cardinality(Callers) * MaxCost
  BY DEF OvershootBounded
<1>1. Headroom(k) /\ OtherMonths(k) /\ TokensSince(k) \in Nat /\ month \in 1..Months
  BY LimitedRows DEF QuotaInv
<1>2. ledger[k][m].tokens < Ceiling
  <2>1. CASE m = month
    <3>1. Passed(k) \in SUBSET Callers
      BY DEF Passed
    <3>2. Exposure(k) \in Nat /\ Ceiling \in Nat
      BY <3>1, ExposureFacts DEF Exposure
    <3> QED BY <1>1, <2>1, <3>2 DEF Headroom, TokensSince
  <2>2. CASE m # month
    <3>1. m < month \/ m > month
      BY <1>1, <2>2
    <3> QED BY <1>1, <3>1 DEF OtherMonths
  <2> QED BY <2>1, <2>2
<1>3. Ceiling = Quota + Cardinality(Callers) * MaxCost
  BY FS_CardinalityType, GatewayAssumption DEF Ceiling, GatewayAssumption
<1> QED BY <1>2, <1>3

(* A key is billed less in any month than its quota and one call more for  *)
(* every connection, however many connections, months and calls there are. *)
THEOREM QuotaKept == Spec => []OvershootBounded
BY TypesInit, TypesStep, QuotaInit, QuotaStep, QuotaBound, PTL DEF Spec

-----------------------------------------------------------------------------
(* The bills.                                                              *)

(* What call c owes to key k: its row is still to be written.              *)
Owes(k, c) == IF call[c].at = "closing" /\ call[c].key = k THEN Usage(c) ELSE 0

LEMMA RowNumbers ==
    \A book \in [Keys -> [1..Months -> [calls : Nat, tokens : Nat]]] :
        \A k \in Keys, m \in 1..Months : book[k][m].tokens \in Int
<1> DEFINE Row == [calls : Nat, tokens : Nat]
<1> SUFFICES ASSUME NEW book \in [Keys -> [1..Months -> Row]], NEW k \in Keys, NEW m \in 1..Months
             PROVE  book[k][m].tokens \in Int
  OBVIOUS
<1>1. \A row \in Row : row.tokens \in Int
  OBVIOUS
<1> HIDE DEF Row
<1>2. book[k][m] \in Row
  OBVIOUS
<1> QED BY <1>1, <1>2

LEMMA SumsAreNumbers ==
    ASSUME Types, NEW k \in Keys
    PROVE  /\ [m \in 1..Months |-> ledger[k][m].tokens] \in [1..Months -> Int]
           /\ [c \in Callers |-> Owes(k, c)] \in [Callers -> Int]
           /\ IsFiniteSet(1..Months) /\ IsFiniteSet(Callers)
           /\ UnderWay(k) = Total([c \in Callers |-> Owes(k, c)])
<1>1. \A m \in 1..Months : ledger[k][m].tokens \in Int
  <2>1. Tables
    BY TypesParts
  <2> QED BY <2>1, RowNumbers DEF Tables
<1>2. \A c \in Callers : Owes(k, c) \in Int
  <2> TAKE c \in Callers
  <2>1. CASE call[c].at = "closing"
    <3>1. Usage(c) \in 0..MaxCost
      BY <2>1, CallFields
    <3> QED BY <2>1, <3>1, GatewayAssumption DEF Owes, GatewayAssumption
  <2>2. CASE call[c].at # "closing"
    BY <2>2 DEF Owes
  <2> QED BY <2>1, <2>2
<1>3. IsFiniteSet(1..Months) /\ IsFiniteSet(Callers)
  BY FS_Interval, GatewayAssumption DEF GatewayAssumption
<1>4. UnderWay(k) = Total([c \in Callers |-> Owes(k, c)])
  BY DEF UnderWay, Owes
<1> QED BY <1>1, <1>2, <1>3, <1>4

(* A row adds its tokens to the bill of its key, and to no other.          *)
LEMMA BilledRow ==
    ASSUME Types, Types', NEW k \in Keys, NEW j \in Keys, NEW t \in Nat, Record(j, t),
           UNCHANGED month
    PROVE  /\ Billed(k) \in Int
           /\ Billed(k)' = IF k = j THEN Billed(k) + t ELSE Billed(k)
<1> DEFINE f == [m \in 1..Months |-> ledger[k][m].tokens]
           h == [m \in 1..Months |-> ledger'[k][m].tokens]
<1>1. /\ ledger'[j][month].tokens = ledger[j][month].tokens + t
      /\ \A i \in Keys, m \in 1..Months :
            <<i, m>> # <<j, month>> => ledger'[i][m] = ledger[i][m]
  BY RecordTypes
<1>2. /\ month \in 1..Months
      /\ \A m \in 1..Months : ledger[k][m].tokens \in Int /\ ledger'[k][m].tokens \in Int
  <2>1. Tables /\ Tables' /\ Clock
    BY TypesParts
  <2> QED BY <2>1, RowNumbers DEF Tables, Clock
<1>3. f \in [1..Months -> Int] /\ h \in [1..Months -> Int] /\ IsFiniteSet(1..Months)
  BY <1>2, SumsAreNumbers
<1>4. f[month] \in Int /\ h[month] = f[month] + (IF k = j THEN t ELSE 0)
  BY <1>1, <1>2
<1>5. \A m \in (1..Months) \ {month} : f[m] = h[m]
  BY <1>1
<1>6. Billed(k) = Total(f) /\ Billed(k)' = Total(h)
  BY DEF Billed, Total, FoldFunction, FoldFunctionOnSet, MapThenFoldSet
<1> HIDE DEF f, h
<1>7. Total(f) \in Int /\ Total(h) = Total(f) - f[month] + h[month]
  <2>1. PICK S : S = 1..Months
    OBVIOUS
  <2>2. /\ IsFiniteSet(S) /\ month \in S /\ f \in [S -> Int] /\ h \in [S -> Int]
        /\ \A m \in S \ {month} : f[m] = h[m]
    BY <1>2, <1>3, <1>5, <2>1
  <2> QED BY ONLY <2>2, TotalChange
<1>8. CASE k = j
  BY <1>4, <1>6, <1>7, <1>8
<1>9. CASE k # j
  BY <1>4, <1>6, <1>7, <1>9
<1> QED BY <1>8, <1>9, <1>6, <1>7

LEMMA BilledSame ==
    ASSUME UNCHANGED ledger, NEW k \in Keys
    PROVE  Billed(k)' = Billed(k)
<1> DEFINE h == [m \in 1..Months |-> ledger'[k][m].tokens]
<1>1. Billed(k)' = Total(h)
  BY DEF Billed, Total, FoldFunction, FoldFunctionOnSet, MapThenFoldSet
<1>2. h = [m \in 1..Months |-> ledger[k][m].tokens]
  OBVIOUS
<1> QED BY <1>1, <1>2 DEF Billed

LEMMA BilledNumber ==
    ASSUME Types, NEW k \in Keys
    PROVE  Billed(k) \in Int /\ UnderWay(k) \in Int
<1>1. /\ [m \in 1..Months |-> ledger[k][m].tokens] \in [1..Months -> Int]
      /\ [c \in Callers |-> Owes(k, c)] \in [Callers -> Int]
      /\ IsFiniteSet(1..Months) /\ IsFiniteSet(Callers)
      /\ UnderWay(k) = Total([c \in Callers |-> Owes(k, c)])
  BY SumsAreNumbers
<1>2. Total([m \in 1..Months |-> ledger[k][m].tokens]) \in Int
  BY <1>1, TotalIsNumber
<1>3. Total([c \in Callers |-> Owes(k, c)]) \in Int
  BY <1>1, TotalIsNumber
<1> QED BY <1>1, <1>2, <1>3 DEF Billed

(* A call that changes alone changes what is under way by what it owes.    *)
LEMMA UnderWayChange ==
    ASSUME Types, Types', NEW k \in Keys, NEW c \in Callers,
           \A d \in Callers : d # c => call'[d] = call[d]
    PROVE  /\ Owes(k, c) \in Int /\ Owes(k, c)' \in Int
           /\ UnderWay(k)' = UnderWay(k) - Owes(k, c) + Owes(k, c)'
<1> DEFINE f == [d \in Callers |-> Owes(k, d)]
           h == [d \in Callers |-> Owes(k, d)']
<1>1. /\ f \in [Callers -> Int] /\ IsFiniteSet(Callers)
      /\ UnderWay(k) = Total(f)
  BY SumsAreNumbers
<1>2. \A d \in Callers : Owes(k, d)' \in Int
  <2> TAKE d \in Callers
  <2>1. CASE call'[d].at = "closing"
    <3>1. call'[d] \in Calls /\ call'[d] # Idle
      BY <2>1, TypesParts DEF Idle
    <3>2. /\ call'[d].deltas \in 0..MaxCost /\ call'[d].usage \in -1..MaxCost
      BY <3>1 DEF Calls
    <3>3. Usage(d)' \in 0..MaxCost
      BY <3>2, GatewayAssumption DEF Usage, GatewayAssumption
    <3> QED BY <2>1, <3>3, GatewayAssumption DEF Owes, GatewayAssumption
  <2>2. CASE call'[d].at # "closing"
    BY <2>2 DEF Owes
  <2> QED BY <2>1, <2>2
<1>3. h \in [Callers -> Int] /\ UnderWay(k)' = Total(h)
  <2>1. UnderWay(k)' = Total(h)
    BY DEF UnderWay, Owes, Usage, Total, FoldFunction, FoldFunctionOnSet, MapThenFoldSet
  <2> QED BY <1>2, <2>1
<1>4. \A d \in Callers \ {c} : f[d] = h[d]
  BY DEF Owes, Usage
<1>5. f[c] = Owes(k, c) /\ h[c] = Owes(k, c)'
  OBVIOUS
<1>6. f[c] \in Int /\ h[c] \in Int
  BY <1>1, <1>3
<1> HIDE DEF f, h
<1>7. Total(f) \in Int /\ Total(h) = Total(f) - f[c] + h[c]
  BY <1>1, <1>3, <1>4, TotalChange
<1> QED BY <1>1, <1>3, <1>5, <1>6, <1>7

LEMMA BillsInit == Init => BillsBalance
<1> SUFFICES ASSUME Init, NEW k \in Keys PROVE Billed(k) + UnderWay(k) + lost[k] = used[k]
  BY DEF BillsBalance
<1>1. IsFiniteSet(1..Months) /\ IsFiniteSet(Callers)
  BY FS_Interval, GatewayAssumption DEF GatewayAssumption
<1>2. [m \in 1..Months |-> ledger[k][m].tokens] = [m \in 1..Months |-> 0]
  BY DEF Init
<1>3. [c \in Callers |-> Owes(k, c)] = [c \in Callers |-> 0]
  BY DEF Init, Owes, Idle
<1>4. Billed(k) = 0
  BY <1>1, <1>2, TotalOfZeros DEF Billed
<1>5. UnderWay(k) = 0
  <2>1. UnderWay(k) = Total([c \in Callers |-> Owes(k, c)])
    BY DEF UnderWay, Owes
  <2> QED BY <1>1, <1>3, <2>1, TotalOfZeros
<1> QED BY <1>4, <1>5 DEF Init

(* Steps that move no call into or out of the place where it owes a row.   *)
LEMMA BillsQuiet ==
    ASSUME Types, Types', BillsBalance, UNCHANGED <<ledger, month, used, lost>>,
           UNCHANGED call \/
              \E c \in Callers :
                 /\ \A d \in Callers : d # c => call'[d] = call[d]
                 /\ call[c].at # "closing" /\ call'[c].at # "closing"
    PROVE  BillsBalance'
<1> SUFFICES ASSUME NEW k \in Keys PROVE (Billed(k) + UnderWay(k) + lost[k] = used[k])'
  BY DEF BillsBalance
<1>1. Billed(k) + UnderWay(k) + lost[k] = used[k]
  BY DEF BillsBalance
<1>2. Billed(k)' = Billed(k)
  BY BilledSame
<1>3. UnderWay(k)' = UnderWay(k)
  <2>1. CASE UNCHANGED call
    <3> DEFINE h == [c \in Callers |->
                        IF call'[c].at = "closing" /\ call'[c].key = k
                        THEN IF call'[c].usage # -1 THEN call'[c].usage ELSE call'[c].deltas
                        ELSE 0]
    <3>1. UnderWay(k)' = Total(h)
      BY DEF UnderWay, Usage, Total, FoldFunction, FoldFunctionOnSet, MapThenFoldSet
    <3>2. h = [c \in Callers |-> Owes(k, c)]
      BY <2>1 DEF Owes, Usage
    <3> QED BY <3>1, <3>2, SumsAreNumbers
  <2>2. CASE ~(UNCHANGED call)
    <3>1. PICK c \in Callers :
             /\ \A d \in Callers : d # c => call'[d] = call[d]
             /\ call[c].at # "closing" /\ call'[c].at # "closing"
      BY <2>2
    <3>2. UnderWay(k)' = UnderWay(k) - Owes(k, c) + Owes(k, c)'
      BY <3>1, UnderWayChange
    <3>3. Owes(k, c) = 0 /\ Owes(k, c)' = 0
      BY <3>1 DEF Owes
    <3> QED BY <3>2, <3>3, BilledNumber
  <2> QED BY <2>1, <2>2
<1> QED BY <1>1, <1>2, <1>3

(* The stream of a call ends: what the meter read is owed.                 *)
LEMMA BillsOwed ==
    ASSUME Types, Types', BillsBalance, NEW c \in Callers, StreamEnds(c)
    PROVE  BillsBalance'
<1> SUFFICES ASSUME NEW k \in Keys PROVE (Billed(k) + UnderWay(k) + lost[k] = used[k])'
  BY DEF BillsBalance
<1>1. Billed(k) + UnderWay(k) + lost[k] = used[k]
  BY DEF BillsBalance
<1>2. /\ Billed(k)' = Billed(k) /\ Billed(k) \in Int /\ UnderWay(k) \in Int
      /\ lost[k] \in Int /\ used[k] \in Int /\ lost' = lost
  <2>1. Billed(k)' = Billed(k)
    BY BilledSame DEF StreamEnds
  <2>2. lost[k] \in Int /\ used[k] \in Int
    BY TypesParts DEF Counters
  <2> QED BY <2>1, <2>2, BilledNumber DEF StreamEnds
<1>3. /\ call' = [call EXCEPT ![c].at = "closing"] /\ call \in [Callers -> Calls]
      /\ call[c].at = "streaming"
      /\ used' = [used EXCEPT ![call[c].key] = @ + Usage(c)]
  BY TypesParts DEF StreamEnds
<1>4. /\ call[c] \in [at : Places, key : Keys, deltas : 0..MaxCost, usage : -1..MaxCost]
      /\ call[c].key \in Keys /\ Usage(c) \in 0..MaxCost
  BY <1>3, CallFields
<1>5. /\ \A d \in Callers : d # c => call'[d] = call[d]
      /\ call'[c].at = "closing" /\ call'[c].key = call[c].key
      /\ call'[c].usage = call[c].usage /\ call'[c].deltas = call[c].deltas
  BY <1>3, <1>4
<1>6. UnderWay(k)' = UnderWay(k) - Owes(k, c) + Owes(k, c)'
  BY <1>5, UnderWayChange
<1>7. Usage(c)' = Usage(c) /\ Usage(c) \in Int
  BY <1>4, <1>5, GatewayAssumption DEF Usage, GatewayAssumption
<1>8. Owes(k, c) = 0 /\ Owes(k, c)' = IF call[c].key = k THEN Usage(c) ELSE 0
  BY <1>3, <1>5, <1>7 DEF Owes
<1>9. used'[k] = used[k] + IF call[c].key = k THEN Usage(c) ELSE 0
  <2>1. used \in [Keys -> Nat]
    BY TypesParts DEF Counters
  <2> QED BY <1>2, <1>3, <1>4, <2>1
<1>10. CASE call[c].key = k
  BY <1>1, <1>2, <1>6, <1>7, <1>8, <1>9, <1>10
<1>11. CASE call[c].key # k
  BY <1>1, <1>2, <1>6, <1>7, <1>8, <1>9, <1>11
<1> QED BY <1>10, <1>11

(* A call that is closing is over: it owes nothing any more.               *)
LEMMA BillsClosed ==
    ASSUME Types, Types', NEW c \in Callers, call[c].at = "closing", Ends(c), NEW k \in Keys
    PROVE  /\ call[c].key \in Keys /\ Usage(c) \in Nat
           /\ UnderWay(k) \in Int
           /\ UnderWay(k)' = UnderWay(k) - IF call[c].key = k THEN Usage(c) ELSE 0
<1>1. call[c].key \in Keys /\ Usage(c) \in Nat
  BY CallFields, GatewayAssumption DEF GatewayAssumption
<1>2. call' = [call EXCEPT ![c] = Idle] /\ call \in [Callers -> Calls]
  BY TypesParts DEF Ends
<1>3. call'[c].at # "closing" /\ \A d \in Callers : d # c => call'[d] = call[d]
  BY <1>2 DEF Idle
<1>4. UnderWay(k)' = UnderWay(k) - Owes(k, c) + Owes(k, c)'
  BY <1>3, UnderWayChange
<1>5. Owes(k, c)' = 0 /\ Owes(k, c) = IF call[c].key = k THEN Usage(c) ELSE 0
  BY <1>3 DEF Owes
<1>6. UnderWay(k) \in Int
  BY BilledNumber
<1> QED BY <1>1, <1>4, <1>5, <1>6

LEMMA BillsEmit ==
    ASSUME Types, Types', BillsBalance, NEW c \in Callers, Emit(c)
    PROVE  BillsBalance'
<1> SUFFICES ASSUME NEW k \in Keys PROVE (Billed(k) + UnderWay(k) + lost[k] = used[k])'
  BY DEF BillsBalance
<1>1. /\ Billed(k) + UnderWay(k) + lost[k] = used[k]
      /\ lost' = lost /\ used' = used /\ lost[k] \in Int /\ used[k] \in Int
  BY TypesParts DEF BillsBalance, Counters, Emit
<1>2. call[c].at = "closing" /\ Ends(c) /\ Record(call[c].key, Usage(c)) /\ UNCHANGED month
  BY DEF Emit
<1>3. /\ call[c].key \in Keys /\ Usage(c) \in Nat /\ UnderWay(k) \in Int
      /\ UnderWay(k)' = UnderWay(k) - IF call[c].key = k THEN Usage(c) ELSE 0
  BY <1>2, BillsClosed
<1>4. /\ Billed(k) \in Int
      /\ Billed(k)' = IF k = call[c].key THEN Billed(k) + Usage(c) ELSE Billed(k)
  BY <1>2, <1>3, BilledRow
<1>5. CASE call[c].key = k
  BY <1>1, <1>3, <1>4, <1>5
<1>6. CASE call[c].key # k
  BY <1>1, <1>3, <1>4, <1>6
<1> QED BY <1>5, <1>6

LEMMA BillsLost ==
    ASSUME Types, Types', BillsBalance, NEW c \in Callers, call[c].at = "closing", Loses(c)
    PROVE  BillsBalance'
<1> SUFFICES ASSUME NEW k \in Keys PROVE (Billed(k) + UnderWay(k) + lost[k] = used[k])'
  BY DEF BillsBalance
<1>1. /\ Billed(k) + UnderWay(k) + lost[k] = used[k]
      /\ used' = used /\ lost[k] \in Int /\ used[k] \in Int
  BY TypesParts DEF BillsBalance, Counters, Loses
<1>2. /\ call[c].key \in Keys /\ Usage(c) \in Nat /\ UnderWay(k) \in Int
      /\ UnderWay(k)' = UnderWay(k) - IF call[c].key = k THEN Usage(c) ELSE 0
  BY BillsClosed DEF Loses
<1>3. Billed(k)' = Billed(k) /\ Billed(k) \in Int
  BY BilledSame, BilledNumber DEF Loses
<1>4. lost'[k] = lost[k] + IF call[c].key = k THEN Usage(c) ELSE 0
  <2>1. lost \in [Keys -> Nat] /\ lost' = [lost EXCEPT ![call[c].key] = @ + Usage(c)]
    BY TypesParts DEF Counters, Loses
  <2> QED BY <1>1, <1>2, <2>1
<1>5. CASE call[c].key = k
  BY <1>1, <1>2, <1>3, <1>4, <1>5
<1>6. CASE call[c].key # k
  BY <1>1, <1>2, <1>3, <1>4, <1>6
<1> QED BY <1>5, <1>6

(* A row of no tokens.                                                     *)
LEMMA BillsNothing ==
    ASSUME Types, Types', BillsBalance, NEW c \in Callers, SendFails(c)
    PROVE  BillsBalance'
<1> SUFFICES ASSUME NEW k \in Keys PROVE (Billed(k) + UnderWay(k) + lost[k] = used[k])'
  BY DEF BillsBalance
<1>1. /\ Billed(k) + UnderWay(k) + lost[k] = used[k]
      /\ lost' = lost /\ used' = used /\ lost[k] \in Int /\ used[k] \in Int
  BY TypesParts DEF BillsBalance, Counters, SendFails
<1>2. call' = [call EXCEPT ![c] = Idle] /\ call \in [Callers -> Calls] /\ call[c].at = "sending"
  BY TypesParts DEF SendFails, Ends
<1>3. call'[c].at # "closing" /\ \A d \in Callers : d # c => call'[d] = call[d]
  BY <1>2 DEF Idle
<1>4. UnderWay(k)' = UnderWay(k) - Owes(k, c) + Owes(k, c)'
  BY <1>3, UnderWayChange
<1>5. Owes(k, c)' = 0 /\ Owes(k, c) = 0
  BY <1>2, <1>3 DEF Owes
<1>6. call[c].key \in Keys
  BY <1>2, CallFields
<1>7. Billed(k) \in Int /\ Billed(k)' = Billed(k)
  <2>1. Record(call[c].key, 0) /\ 0 \in Nat /\ UNCHANGED month
    BY DEF SendFails
  <2>2. /\ Billed(k) \in Int
        /\ Billed(k)' = IF k = call[c].key THEN Billed(k) + 0 ELSE Billed(k)
    BY <1>6, <2>1, BilledRow
  <2> QED BY <2>2
<1>8. UnderWay(k) \in Int
  BY BilledNumber
<1> QED BY <1>1, <1>4, <1>5, <1>7, <1>8

LEMMA BillsStep == Types /\ BillsBalance /\ [Next]_vars => BillsBalance'
<1> SUFFICES ASSUME Types, BillsBalance, [Next]_vars PROVE BillsBalance'
  OBVIOUS
<1>0. Types' /\ call \in [Callers -> Calls]
  BY TypesStep, TypesParts
<1>1. ASSUME NEW k \in Keys, Create(k) \/ Revoke(k) PROVE BillsBalance'
  BY <1>0, <1>1, BillsQuiet DEF Create, Revoke
<1>2. CASE MonthTurns
  <2> SUFFICES ASSUME NEW k \in Keys PROVE (Billed(k) + UnderWay(k) + lost[k] = used[k])'
    BY DEF BillsBalance
  <2>1. Billed(k)' = Billed(k)
    BY <1>2, BilledSame DEF MonthTurns
  <2>2. UnderWay(k)' = UnderWay(k)
    <3> DEFINE h == [c \in Callers |->
                        IF call'[c].at = "closing" /\ call'[c].key = k
                        THEN IF call'[c].usage # -1 THEN call'[c].usage ELSE call'[c].deltas
                        ELSE 0]
    <3>1. UnderWay(k)' = Total(h)
      BY DEF UnderWay, Usage, Total, FoldFunction, FoldFunctionOnSet, MapThenFoldSet
    <3>2. h = [c \in Callers |-> Owes(k, c)]
      BY <1>2 DEF Owes, Usage, MonthTurns
    <3> QED BY <3>1, <3>2, SumsAreNumbers
  <2> QED BY <1>2, <2>1, <2>2 DEF BillsBalance, MonthTurns
<1>3. ASSUME NEW c \in Callers, Serve(c) PROVE BillsBalance'
  <2>1. CASE (\E k \in Keys : Resolve(c, k)) \/ CheckQuota(c) \/ SendSucceeds(c) \/ Feed(c)
    <3>1. call[c].at # "closing"
      BY <2>1 DEF Resolve, CheckQuota, SendSucceeds, Feed, Idle
    <3>2. PICK v \in Calls : call' = [call EXCEPT ![c] = v]
      BY <1>3, CallStep
    <3>3. \A d \in Callers : d # c => call'[d] = call[d]
      BY <1>0, <3>2
    <3>4. call'[c].at # "closing"
      <4>1. CASE \E k \in Keys : Resolve(c, k)
        BY <1>0, <4>1 DEF Resolve
      <4>2. CASE CheckQuota(c) \/ SendSucceeds(c) \/ Feed(c)
        <5>1. call[c] \in [at : Places, key : Keys, deltas : 0..MaxCost, usage : -1..MaxCost]
          BY <4>2, CallFields DEF CheckQuota, SendSucceeds, Feed
        <5>2. CASE CheckQuota(c)
          BY <1>0, <5>1, <5>2 DEF CheckQuota, Ends, Idle
        <5>3. CASE SendSucceeds(c)
          BY <1>0, <5>1, <5>3 DEF SendSucceeds
        <5>4. CASE Feed(c)
          BY <1>0, <5>1, <5>4 DEF Feed
        <5> QED BY <4>2, <5>2, <5>3, <5>4
      <4> QED BY <2>1, <4>1, <4>2
    <3>5. UNCHANGED <<ledger, month, used, lost>>
      BY <2>1 DEF Resolve, CheckQuota, SendSucceeds, Feed
    <3> QED BY <1>0, <3>1, <3>3, <3>4, <3>5, BillsQuiet
  <2>2. CASE EmitCancelled(c) \/ SinkRaises(c)
    BY <1>0, <2>2, BillsLost DEF EmitCancelled, SinkRaises
  <2> QED BY <1>0, <1>3, <2>1, <2>2, BillsOwed, BillsEmit, BillsNothing DEF Serve
<1>4. CASE UNCHANGED vars
  BY <1>0, <1>4, BillsQuiet DEF vars
<1> QED BY <1>1, <1>2, <1>3, <1>4 DEF Next

(* Rows, calls whose row is yet to be written and rows that are lost add   *)
(* up, for every key, to what the meter read of its calls.                 *)
THEOREM BilledOnce == Spec => []BillsBalance
BY TypesInit, TypesStep, BillsInit, BillsStep, PTL DEF Spec

-----------------------------------------------------------------------------
(* The sweep of BestOfN compares like with like, whatever the server's     *)
(* order and however short its answers, for every number of candidates, of *)
(* decisions and of repeats.  What is in flight is a part of what the      *)
(* round sent, and what the first decision has comes from requests that    *)
(* are no more in flight, a draw from a place of its own.                  *)

Stages == [rung : Rungs \cup {"done"}, round : Nat, issued : BOOLEAN]

SweepTypes ==
    /\ point \in [n : Nat \ {0}, concurrency : Nat \ {0}, fresh : BOOLEAN, gate : BOOLEAN]
    /\ stage \in Stages
    /\ salts \in Nat
    /\ result \in [Rungs -> [tokens : Int, texts : Int, draws : Int, wall : Nat]]

(* The prompt of a decision of the round that is out: its salt was drawn.  *)
Asked(d) == IF point.fresh /\ stage.rung = "R0" THEN salts - point.concurrency + d ELSE Stable

Batch(d) ==
    IF stage.rung = "R2" THEN RunR2(d, Asked(d), point.n) ELSE RunLoop(d, Asked(d), point.n)

InFlight ==
    /\ stage.issued => \A r \in flight : \E d \in 1..point.concurrency : r \in Batch(d)
    /\ ~stage.issued => flight = {}
    /\ stage.rung = "done" => ~stage.issued

(* The draws of a decision: those of its requests, and in each its places. *)
Slots == IF stage.rung = "R2" THEN {0} \X (0..point.n - 1) ELSE (0..point.n - 1) \X {0}

Sought(i) == Request(1, i, Asked(1), IF stage.rung = "R2" THEN point.n ELSE 1, i)

Back == {q \in Slots : Sought(q[1]) \notin flight}

Drawn(q, t) == [of |-> q[1], draw |-> <<Asked(1), q[1], q[2]>>, tokens |-> t[q]]

Answered ==
    stage.rung # "done" /\ stage.issued /\ stage.round > 0 =>
        \E D \in SUBSET Back : \E t \in [D -> Decoded] : answers = {Drawn(q, t) : q \in D}

(* The warm-up of R1 and of R2 has put the shared prefix in the cache.     *)
Warm ==
    /\ misses \subseteq {"R0"}
    /\ stage.rung \in {"R1", "R2"} /\ (stage.round > 0 \/ (stage.issued /\ flight = {})) =>
          Stable \in cache

Reported == \A rung \in Rungs : result[rung].draws = result[rung].texts

SweepInv == SweepTypes /\ InFlight /\ Answered /\ Warm /\ Reported

LEMMA TokensAddUp ==
    ASSUME NEW S, IsFiniteSet(S), \A a \in S : a.tokens \in Int
    PROVE  MapThenSumSet(LAMBDA a : a.tokens, S) \in Int
<1> DEFINE f == [a \in S |-> a.tokens]
           SumOver(h) == h = [s \in SUBSET S |->
               IF s = {} THEN 0
               ELSE (CHOOSE x \in s : TRUE).tokens + h[s \ {CHOOSE x \in s : TRUE}]]
<1>1. \A h : SumOver(h) <=> AddsUp(f, h, S)
  <2> TAKE h
  <2>1. \A s \in SUBSET S : s # {} => f[Pick(s)] = (CHOOSE x \in s : TRUE).tokens
    BY DEF Pick
  <2>2. \A s \in SUBSET S :
            (IF s = {} THEN 0
             ELSE (CHOOSE x \in s : TRUE).tokens + h[s \ {CHOOSE x \in s : TRUE}])
            = IF s = {} THEN 0 ELSE f[Pick(s)] + h[s \ {Pick(s)}]
    BY <2>1 DEF Pick
  <2> HIDE DEF f
  <2> QED BY <2>2 DEF AddsUp
<1>2. \E h : AddsUp(f, h, S)
  <2>1. DOMAIN f = S
    OBVIOUS
  <2> HIDE DEF f
  <2> QED BY <2>1, AddsUpExists
<1>3. \E h : SumOver(h)
  <2>1. PICK h : AddsUp(f, h, S)
    BY <1>2
  <2>2. SumOver(h)
    BY ONLY <1>1, <2>1
  <2> QED BY ONLY <2>2
<1>4. PICK h : SumOver(h) /\ MapThenSumSet(LAMBDA a : a.tokens, S) = h[S]
  BY <1>3 DEF MapThenSumSet, MapThenFoldSet
<1>5. AddsUp(f, h, S)
  BY <1>1, <1>4
<1>6. f \in [S -> Int]
  OBVIOUS
<1>7. h[S] \in Int
  <2> HIDE DEF f
  <2>1. S \in SUBSET S
    OBVIOUS
  <2>2. CASE S = {}
    <3>1. h[S] = 0
      BY <1>5, <2>1, <2>2, AddsUpStep
    <3> QED BY <3>1
  <2>3. CASE S # {}
    <3>1. PICK c \in S : TRUE
      BY <2>3
    <3> QED BY <1>5, <1>6, <2>1, <3>1, AddsUpAnyOrder
  <2> QED BY <2>2, <2>3
<1> QED BY <1>4, <1>7

(* The answers of a decision are as many as their draws.                   *)
LEMMA AllDraws ==
    ASSUME SweepTypes, NEW D \in SUBSET Slots, NEW t, NEW some,
           some = {Drawn(q, t) : q \in D}, \A q \in D : t[q] \in Int
    PROVE  /\ IsFiniteSet(some) /\ Cardinality({a.draw : a \in some}) = Cardinality(some)
           /\ Cardinality(some) \in Nat
           /\ \A a \in some : a.tokens \in Int
<1>0. point.n \in Nat \ {0}
  BY DEF SweepTypes
<1>1. IsFiniteSet(Slots)
  <2>1. 0 \in Int /\ point.n - 1 \in Int
    BY <1>0
  <2>2. IsFiniteSet(0..point.n - 1) /\ IsFiniteSet({0})
    BY <2>1, FS_Interval, FS_Singleton
  <2>3. IsFiniteSet({0} \X (0..point.n - 1)) /\ IsFiniteSet((0..point.n - 1) \X {0})
    BY <2>2, FS_Product
  <2> QED BY <2>3 DEF Slots
<1>2. IsFiniteSet(D)
  BY <1>1, FS_Subset
<1> DEFINE draws == {a.draw : a \in some}
           seen(q) == <<Asked(1), q[1], q[2]>>
<1>3. \A q, p \in D : seen(q) = seen(p) => q = p
  <2> SUFFICES ASSUME NEW q \in D, NEW p \in D, seen(q) = seen(p) PROVE q = p
    OBVIOUS
  <2>1. q[1] = p[1] /\ q[2] = p[2]
    OBVIOUS
  <2>2. q = <<q[1], q[2]>> /\ p = <<p[1], p[2]>>
    BY DEF Slots
  <2> QED BY <2>1, <2>2
<1>4. \A q : Drawn(q, t).draw = seen(q)
  BY DEF Drawn
<1> HIDE DEF seen
<1>5. \A q, p \in D : Drawn(q, t) = Drawn(p, t) => q = p
  BY <1>3, <1>4
<1>6. ExistsBijection(D, some)
  <2> DEFINE b == [q \in D |-> Drawn(q, t)]
  <2>1. b \in [D -> some]
    OBVIOUS
  <2>2. \A q, p \in D : b[q] = b[p] => q = p
    BY <1>5
  <2>3. \A a \in some : \E q \in D : b[q] = a
    OBVIOUS
  <2> HIDE DEF b
  <2>4. b \in Bijection(D, some)
    BY <2>1, <2>2, <2>3 DEF Bijection, Injection, Surjection, IsInjective
  <2> QED BY <2>4 DEF ExistsBijection
<1>7. ExistsBijection(D, draws)
  <2> DEFINE b == [q \in D |-> seen(q)]
  <2>1. b \in [D -> draws]
    BY <1>4
  <2>2. \A q, p \in D : b[q] = b[p] => q = p
    BY <1>3
  <2>3. \A a \in draws : \E q \in D : b[q] = a
    BY <1>4
  <2> HIDE DEF b, draws
  <2>4. b \in Bijection(D, draws)
    BY <2>1, <2>2, <2>3 DEF Bijection, Injection, Surjection, IsInjective
  <2> QED BY <2>4 DEF ExistsBijection
<1>8. /\ IsFiniteSet(some) /\ Cardinality(some) = Cardinality(D)
      /\ Cardinality(draws) = Cardinality(D)
  <2> HIDE DEF draws
  <2> QED BY <1>2, <1>6, <1>7, FS_Bijection
<1>9. \A a \in some : a.tokens \in Int
  BY DEF Drawn
<1>10. Cardinality(some) \in Nat
  BY <1>8, FS_CardinalityType
<1> QED BY <1>8, <1>9, <1>10

LEMMA SweepStart == SweepInit => SweepInv
<1> SUFFICES ASSUME SweepInit PROVE SweepInv
  OBVIOUS
<1>1. point \in [n : Nat \ {0}, concurrency : Nat \ {0}, fresh : BOOLEAN, gate : BOOLEAN]
  BY BestOfNAssumption DEF SweepInit
<1>2. stage = [rung |-> "R0", round |-> 0, issued |-> FALSE]
  BY DEF SweepInit
<1>3. SweepTypes
  BY <1>1, <1>2 DEF SweepInit, SweepTypes, Stages, Rungs, Nothing
<1>4. InFlight /\ Answered /\ Warm /\ Reported
  BY <1>2 DEF SweepInit, InFlight, Answered, Warm, Reported, Nothing
<1> QED BY <1>3, <1>4 DEF SweepInv

LEMMA IssueStep == SweepInv /\ Issue => SweepInv'
<1> SUFFICES ASSUME SweepInv, Issue PROVE SweepInv'
  OBVIOUS
<1>0. /\ SweepTypes /\ InFlight /\ Answered /\ Warm /\ Reported
      /\ point.n \in Nat \ {0} /\ point.concurrency \in Nat \ {0} /\ point.fresh \in BOOLEAN
  BY DEF SweepInv, SweepTypes
<1>1. /\ stage.rung # "done" /\ ~stage.issued
      /\ stage'.rung = stage.rung /\ stage'.round = stage.round /\ stage'.issued = TRUE
      /\ stage' \in Stages
      /\ point' = point /\ cache' = cache /\ result' = result /\ misses' = misses
      /\ answers' = {}
      /\ salts' = salts + Salted(stage.rung)
  BY <1>0 DEF Issue, SweepTypes, Stages
<1>2. SweepTypes'
  <2>1. salts' \in Nat
    BY <1>0, <1>1 DEF Salted, SweepTypes
  <2> QED BY <1>0, <1>1, <2>1 DEF SweepTypes
<1>3. ASSUME NEW d \in 1..point.concurrency PROVE Asked(d)' = Prompt(stage.rung, d)
  BY <1>0, <1>1 DEF Asked, Prompt, Salted, SweepTypes
<1>4. \A d \in 1..point.concurrency :
          Batch(d)' = IF stage.rung = "R2" THEN RunR2(d, Prompt(stage.rung, d), point.n)
                      ELSE RunLoop(d, Prompt(stage.rung, d), point.n)
  BY <1>1, <1>3 DEF Batch, RunR2, RunLoop
<1>5. flight' = UNION {Batch(d)' : d \in 1..point.concurrency}
  <2>1. flight' = Gather(stage.rung)
    BY DEF Issue
  <2> QED BY <1>4, <2>1 DEF Gather
<1>6. InFlight'
  BY <1>1, <1>5 DEF InFlight
<1>7. \A q \in Slots' : Sought(q[1])' \in Batch(1)'
  BY <1>1 DEF Slots, Sought, Batch, RunR2, RunLoop, Seed
<1>8. 1 \in 1..point.concurrency
  BY <1>0
<1>10. Answered'
  <2>1. {} \in SUBSET Back' /\ [q \in {} |-> 0] \in [{} -> Decoded]
    OBVIOUS
  <2>2. answers' = {Drawn(q, [p \in {} |-> 0])' : q \in {}}
    BY <1>1
  <2> QED BY <2>1, <2>2 DEF Answered
<1>11. flight' # {}
  <2>1. <<0, 0>> \in Slots'
    BY <1>0, <1>1 DEF Slots
  <2> QED BY <1>5, <1>7, <1>8, <2>1
<1>12. Warm' /\ Reported'
  BY <1>0, <1>1, <1>11 DEF Warm, Reported
<1> QED BY <1>2, <1>6, <1>10, <1>12 DEF SweepInv

LEMMA CompleteStep ==
    ASSUME SweepInv, NEW r \in flight, Complete(r)
    PROVE  SweepInv'
<1>0. /\ SweepTypes /\ InFlight /\ Answered /\ Warm /\ Reported
      /\ point.n \in Nat \ {0} /\ point.concurrency \in Nat \ {0} /\ point.fresh \in BOOLEAN
      /\ stage.rung \in Rungs \cup {"done"} /\ stage.round \in Nat
  BY DEF SweepInv, SweepTypes, Stages
<1>1. /\ point' = point /\ stage' = stage /\ salts' = salts /\ result' = result
      /\ flight' = flight \ {r} /\ cache' = cache \cup {r.prompt}
  BY DEF Complete
<1>2. /\ stage.issued /\ stage.rung # "done" /\ stage.rung \in Rungs
      /\ \E d \in 1..point.concurrency : r \in Batch(d)
  BY <1>0 DEF InFlight
<1>3. /\ Slots' = Slots
      /\ \A d : Asked(d)' = Asked(d) /\ Batch(d)' = Batch(d) /\ Sought(d)' = Sought(d)
      /\ \A q, t : Drawn(q, t)' = Drawn(q, t)
  BY <1>1 DEF Slots, Asked, Batch, Sought, Drawn
<1>4. SweepTypes' /\ Reported' /\ InFlight'
  BY <1>0, <1>1, <1>3 DEF SweepTypes, Reported, InFlight
<1>5. PICK d \in 1..point.concurrency : r \in Batch(d)
  BY <1>2
<1>6. r.decision = d /\ r.prompt = Asked(d)
  BY <1>5 DEF Batch, RunR2, RunLoop, Request
<1>7. Warm'
  <2>1. stage.rung \in {"R1", "R2"} => r.prompt = Stable
    BY <1>6 DEF Asked
  <2>2. misses' \subseteq {"R0"}
    BY <1>0, <1>2, <2>1 DEF Complete, Warm, Rungs
  <2> QED BY <1>0, <1>1, <2>1, <2>2 DEF Warm
<1>8. Answered'
  <2>0. SUFFICES ASSUME stage.round > 0
                 PROVE  \E D \in SUBSET Back' : \E t \in [D -> Decoded] :
                            answers' = {Drawn(q, t) : q \in D}
    BY <1>1, <1>3 DEF Answered
  <2>1. PICK D \in SUBSET Back : \E t \in [D -> Decoded] : answers = {Drawn(q, t) : q \in D}
    BY <1>0, <1>2, <2>0 DEF Answered
  <2>5. PICK t \in [D -> Decoded] : answers = {Drawn(q, t) : q \in D}
    BY <2>1
  <2>2. Back' = {q \in Slots : Sought(q[1]) \notin flight \ {r}}
    BY <1>1, <1>3 DEF Back
  <2>3. CASE r.decision # 1
    <3>1. \A i : Sought(i) # r
      BY <2>3 DEF Sought, Request
    <3>2. Back' = Back
      BY <2>2, <3>1 DEF Back
    <3>3. answers' = answers
      BY <2>3 DEF Complete
    <3> QED BY <2>5, <3>2, <3>3
  <2>4. CASE r.decision = 1
    <3>1. d = 1
      BY <1>6, <2>4
    <3>2. /\ r = Sought(r.i) /\ r.seed = r.i /\ r.n \in Nat
          /\ \A k \in 0..r.n - 1 : <<r.i, k>> \in Slots
          /\ \A q \in Slots : q[1] = r.i => \E k \in 0..r.n - 1 : q = <<r.i, k>>
      <4>1. CASE stage.rung = "R2"
        <5>1. r = [decision |-> 1, i |-> 0, prompt |-> Asked(1), n |-> point.n, seed |-> 0]
          BY <1>5, <3>1, <4>1 DEF Batch, RunR2, Request
        <5> QED BY <1>0, <4>1, <5>1 DEF Sought, Request, Slots
      <4>2. CASE stage.rung # "R2"
        <5>1. PICK i \in 0..point.n - 1 :
                  r = [decision |-> 1, i |-> i, prompt |-> Asked(1), n |-> 1, seed |-> i]
          BY <1>5, <3>1, <4>2 DEF Batch, RunLoop, Request, Seed
        <5> QED BY <1>0, <4>2, <5>1 DEF Sought, Request, Slots
      <4> QED BY <4>1, <4>2
    <3>3. PICK m \in 0..r.n : \E tokens \in [0..m - 1 -> Decoded] :
              answers' = answers \cup
                  {[of |-> r.i, draw |-> <<r.prompt, r.seed, k>>, tokens |-> tokens[k]] :
                      k \in 0..m - 1}
      BY <2>0, <2>4 DEF Complete
    <3>12. PICK tokens \in [0..m - 1 -> Decoded] :
              answers' = answers \cup
                  {[of |-> r.i, draw |-> <<r.prompt, r.seed, k>>, tokens |-> tokens[k]] :
                      k \in 0..m - 1}
      BY <3>3
    <3>13. 0..m - 1 \subseteq 0..r.n - 1
      BY <3>2
    <3> DEFINE new == {<<r.i, k>> : k \in 0..m - 1}
               E == D \cup new
               u == [q \in E |-> IF q[1] = r.i THEN tokens[q[2]] ELSE t[q]]
    <3>4. \A q \in Slots : Sought(q[1]) = r <=> q[1] = r.i
      BY <3>2 DEF Sought, Request
    <3>5. E \in SUBSET Back' /\ \A q \in D : q[1] # r.i
      <4>1. new \subseteq Back'
        BY <2>2, <3>2, <3>4, <3>13
      <4>2. D \subseteq Back' /\ \A q \in D : q[1] # r.i
        BY <2>2, <3>4 DEF Back
      <4> QED BY <4>1, <4>2
    <3>6. u \in [E -> Decoded]
      <4>1. \A q \in new : q[1] = r.i /\ tokens[q[2]] \in Decoded
        BY <3>12
      <4> QED BY <2>5, <3>5, <4>1
    <3>7. \A q \in D : u[q] = t[q]
      BY <3>5
    <3>8. \A k \in 0..m - 1 : u[<<r.i, k>>] = tokens[k]
      OBVIOUS
    <3> HIDE DEF u
    <3>9. {Drawn(q, u) : q \in D} = answers
      BY <2>5, <3>7 DEF Drawn
    <3>10. {Drawn(q, u) : q \in new} =
              {[of |-> r.i, draw |-> <<r.prompt, r.seed, k>>, tokens |-> tokens[k]] :
                  k \in 0..m - 1}
      <4>1. \A k \in 0..m - 1 :
                Drawn(<<r.i, k>>, u) =
                    [of |-> r.i, draw |-> <<r.prompt, r.seed, k>>, tokens |-> tokens[k]]
        BY <1>6, <3>1, <3>2, <3>8 DEF Drawn
      <4> QED BY <4>1
    <3>11. answers' = {Drawn(q, u) : q \in E}
      BY <3>12, <3>9, <3>10
    <3> HIDE DEF E
    <3> QED BY <3>5, <3>6, <3>11
  <2> QED BY <2>3, <2>4
<1> QED BY <1>4, <1>7, <1>8 DEF SweepInv

(* A timed round that is back: every answer of its first decision is a     *)
(* draw of its own.                                                        *)
LEMMA RoundBack ==
    ASSUME SweepInv, stage.rung # "done", stage.round > 0, stage.issued
    PROVE  /\ IsFiniteSet(answers) /\ Cardinality(answers) \in Nat
           /\ Cardinality(Draws) = Cardinality(answers)
           /\ \A a \in answers : a.tokens \in Int
<1>1. PICK D \in SUBSET Back : \E t \in [D -> Decoded] : answers = {Drawn(q, t) : q \in D}
  BY DEF SweepInv, Answered
<1>2. PICK t \in [D -> Decoded] : answers = {Drawn(q, t) : q \in D}
  BY <1>1
<1>3. D \in SUBSET Slots
  BY DEF Back
<1>4. \A q \in D : t[q] \in Int
  <2>1. \A q \in D : t[q] \in Decoded
    BY <1>2
  <2>2. Decoded \subseteq Nat
    BY BestOfNAssumption
  <2> TAKE q \in D
  <2>3. t[q] \in Nat
    BY <2>1, <2>2
  <2> QED BY <2>3
<1>5. SweepTypes
  BY DEF SweepInv
<1> QED BY <1>2, <1>3, <1>4, <1>5, AllDraws DEF Draws

LEMMA TimeRungStep == SweepInv /\ TimeRung => SweepInv'
<1> SUFFICES ASSUME SweepInv, TimeRung PROVE SweepInv'
  OBVIOUS
<1>0. /\ SweepTypes /\ InFlight /\ Answered /\ Warm /\ Reported
      /\ point.n \in Nat \ {0} /\ stage \in Stages /\ stage.round \in Nat
      /\ result \in [Rungs -> [tokens : Int, texts : Int, draws : Int, wall : Nat]]
  BY DEF SweepInv, SweepTypes, Stages
<1>1. /\ stage.rung \in Rungs /\ stage.rung # "done" /\ stage.issued /\ flight = {}
      /\ point' = point /\ flight' = {} /\ cache' = cache /\ salts' = salts /\ misses' = misses
  BY DEF TimeRung, Rungs
<1>2. CASE stage.round < Repeats
  <2>1. /\ stage'.rung = stage.rung /\ stage'.round = stage.round + 1 /\ stage'.issued = FALSE
        /\ stage' \in Stages /\ result' = result
    <3>1. /\ stage' = [stage EXCEPT !.round = stage.round + 1, !.issued = FALSE]
          /\ result' = result
      BY <1>2 DEF TimeRung
    <3>2. stage = [rung |-> stage.rung, round |-> stage.round, issued |-> TRUE]
      BY <1>0, <1>1 DEF Stages
    <3>3. stage' = [rung |-> stage.rung, round |-> stage.round + 1, issued |-> FALSE]
      BY ONLY <3>1, <3>2
    <3>4. stage.rung \in Rungs \cup {"done"} /\ stage.round + 1 \in Nat
      BY <1>0, <1>1
    <3>5. stage' \in Stages
      BY <3>3, <3>4 DEF Stages
    <3> QED BY <3>1, <3>3, <3>5
  <2>2. SweepTypes'
    BY <1>0, <1>1, <2>1 DEF SweepTypes
  <2>3. InFlight' /\ Answered'
    BY <1>1, <2>1 DEF InFlight, Answered
  <2>4. Warm' /\ Reported'
    BY <1>0, <1>1, <2>1 DEF Warm, Reported
  <2> QED BY <2>2, <2>3, <2>4 DEF SweepInv
<1>3. CASE ~(stage.round < Repeats)
  <2>0. stage.round > 0
    BY <1>0, <1>3, BestOfNAssumption
  <2>1. PICK w \in Walls :
            result' = [result EXCEPT ![stage.rung] =
                [tokens |-> MapThenSumSet(LAMBDA a : a.tokens, answers),
                 texts |-> Cardinality(answers), draws |-> Cardinality(Draws), wall |-> w]]
    BY <1>3 DEF TimeRung
  <2>2. /\ stage' = [rung |-> After[stage.rung], round |-> 0, issued |-> FALSE]
    BY <1>3 DEF TimeRung, FirstRound
  <2>3. stage' \in Stages /\ stage'.rung = After[stage.rung] /\ stage'.round = 0
        /\ stage'.issued = FALSE
    BY <1>1, <2>2 DEF Stages, After, Rungs
  <2>4. IsFiniteSet(answers) /\ Cardinality(answers) \in Nat
        /\ Cardinality(Draws) = Cardinality(answers)
        /\ MapThenSumSet(LAMBDA a : a.tokens, answers) \in Int
    BY <1>1, <2>0, RoundBack, TokensAddUp
  <2> DEFINE sum == MapThenSumSet(LAMBDA a : a.tokens, answers)
  <2>5. /\ result' = [result EXCEPT ![stage.rung] =
                [tokens |-> sum, texts |-> Cardinality(answers),
                 draws |-> Cardinality(answers), wall |-> w]]
        /\ sum \in Int /\ Cardinality(answers) \in Int /\ w \in Nat
    BY <2>1, <2>4, BestOfNAssumption
  <2> HIDE DEF sum
  <2>6. SweepTypes'
    BY <1>0, <1>1, <2>3, <2>5 DEF SweepTypes
  <2>7. InFlight' /\ Answered' /\ Warm'
    BY <1>0, <1>1, <2>3 DEF InFlight, Answered, Warm
  <2>8. /\ result'[stage.rung].texts = result'[stage.rung].draws
        /\ \A r \in Rungs : r # stage.rung => result'[r] = result[r]
    BY <1>0, <1>1, <2>5
  <2>9. Reported'
    BY <1>0, <2>8 DEF Reported
  <2> QED BY <2>6, <2>7, <2>9 DEF SweepInv
<1> QED BY <1>2, <1>3

LEMMA SweepStep == SweepInv /\ [SweepNext]_sweepVars => SweepInv'
<1> SUFFICES ASSUME SweepInv, [SweepNext]_sweepVars PROVE SweepInv'
  OBVIOUS
<1>1. CASE Issue
  BY <1>1, IssueStep
<1>2. CASE TimeRung
  BY <1>2, TimeRungStep
<1>3. ASSUME NEW r \in flight, Complete(r) PROVE SweepInv'
  BY <1>3, CompleteStep
<1>4. CASE UNCHANGED sweepVars
  <2>1. /\ point' = point /\ stage' = stage /\ flight' = flight /\ answers' = answers
        /\ cache' = cache /\ salts' = salts /\ result' = result /\ misses' = misses
    BY <1>4 DEF sweepVars
  <2>2. /\ Slots' = Slots
        /\ \A d : Asked(d)' = Asked(d) /\ Batch(d)' = Batch(d) /\ Sought(d)' = Sought(d)
        /\ \A q, t : Drawn(q, t)' = Drawn(q, t)
    BY <2>1 DEF Slots, Asked, Batch, Sought, Drawn
  <2>3. Back' = Back
    BY <2>1, <2>2 DEF Back
  <2>4. SweepTypes' /\ InFlight' /\ Warm' /\ Reported'
    BY <2>1, <2>2 DEF SweepInv, SweepTypes, InFlight, Warm, Reported
  <2>5. Answered'
    <3>1. SUFFICES ASSUME stage.rung # "done", stage.issued, stage.round > 0
                   PROVE  \E D \in SUBSET Back : \E t \in [D -> Decoded] :
                              answers' = {Drawn(q, t)' : q \in D}
      BY <2>1, <2>3 DEF Answered
    <3>2. PICK D \in SUBSET Back : \E t \in [D -> Decoded] : answers = {Drawn(q, t) : q \in D}
      BY <3>1 DEF SweepInv, Answered
    <3>3. PICK t \in [D -> Decoded] : answers = {Drawn(q, t) : q \in D}
      BY <3>2
    <3>4. answers' = {Drawn(q, t)' : q \in D}
      BY <2>1, <2>2, <3>3
    <3> QED BY <3>4
  <2> QED BY <2>4, <2>5 DEF SweepInv
<1> QED BY <1>1, <1>2, <1>3, <1>4 DEF SweepNext

LEMMA TwoInAHundred ==
    ASSUME NEW x \in Int, NEW y \in Int, 100 * Distance(x, y) <= 2 * Larger(x, y)
    PROVE  50 * Distance(x, y) <= Larger(x, y)
BY DEF Distance, Larger

LEMMA SweepMeans == SweepInv => LikeForLike
<1> SUFFICES ASSUME SweepInv PROVE LikeForLike
  OBVIOUS
<1>1. misses \subseteq {"R0"}
  BY DEF SweepInv, Warm
<1>2. \A rung \in Rungs : result[rung].draws = result[rung].texts
  BY DEF SweepInv, Reported
<1>3. ASSUME stage.rung = "done", Report.exit = 0
      PROVE  /\ \A rung \in {"R1", "R2"} : result[rung].draws = point.n \/ Warn(rung)
             /\ 50 * Distance(result["R1"].tokens, result["R2"].tokens)
                   <= Larger(result["R1"].tokens, result["R2"].tokens)
  <2>1. \A rung \in {"R1", "R2"} : result[rung].draws = point.n \/ Warn(rung)
    BY <1>2 DEF Warn, Rungs
  <2>2. TokensOk
    <3>1. ParityOk
      BY <1>3 DEF Report
    <3> QED BY <3>1 DEF ParityOk
  <2>3. result["R1"].tokens \in Int /\ result["R2"].tokens \in Int
    BY DEF SweepInv, SweepTypes, Rungs
  <2>4. 100 * Distance(result["R1"].tokens, result["R2"].tokens)
            <= 2 * Larger(result["R1"].tokens, result["R2"].tokens)
    BY <2>2 DEF TokensOk
  <2> QED BY <2>1, <2>3, <2>4, TwoInAHundred
<1> QED BY <1>1, <1>2, <1>3 DEF LikeForLike

(* For every number of candidates, of decisions at once and of repeats,    *)
(* whatever the order in which the server answers and however short: no    *)
(* timed request of R1 or R2 has a cold prefix, no draw is counted twice,  *)
(* and an exit of 0 has equal work behind both numbers of the lever, and N *)
(* draws behind each that bears no mark.                                   *)
THEOREM LeverIsLikeForLike == SweepSpec => []LikeForLike
<1>1. SweepInit => SweepInv
  BY SweepStart
<1>2. SweepInv /\ [SweepNext]_sweepVars => SweepInv'
  BY SweepStep
<1>3. SweepInv => LikeForLike
  BY SweepMeans
<1> QED BY <1>1, <1>2, <1>3, PTL DEF SweepSpec

-----------------------------------------------------------------------------
(* Keys.  A key gives back the id it was made of, whatever separators its  *)
(* secret has, so a row is found by the key that was handed out for it.    *)

LEMMA LeastIs ==
    ASSUME NEW I \in SUBSET Nat, NEW k \in I, \A i \in I : k <= i
    PROVE  Min(I) = k
<1>1. \E x \in I : \A y \in I : x =< y
  OBVIOUS
<1>2. Min(I) \in I /\ \A y \in I : Min(I) =< y
  BY <1>1 DEF Min
<1>3. Min(I) \in Nat /\ k \in Nat /\ Min(I) =< k /\ k =< Min(I)
  BY <1>2
<1> QED BY ONLY <1>3

(* The places 2 and 4 are the first two of a set that has both and neither *)
(* 1 nor 3.                                                                *)
LEMMA FirstTwo ==
    ASSUME NEW n \in Nat, NEW I \in SUBSET (1..n), 2 \in I, 4 \in I, 1 \notin I, 3 \notin I
    PROVE  /\ Cardinality(I) \in Nat /\ Cardinality(I) >= 2
           /\ Min(I) = 2 /\ Min(I \ {2}) = 4
<1>1. \A i \in I : i \in Nat /\ i >= 2 /\ (i # 2 => i >= 4)
  <2> SUFFICES ASSUME NEW i \in I PROVE i \in Nat /\ i >= 2 /\ (i # 2 => i >= 4)
    OBVIOUS
  <2>1. i \in 1..n /\ i # 1 /\ i # 3
    OBVIOUS
  <2> QED BY <2>1
<1>2. IsFiniteSet(I)
  <2>1. IsFiniteSet(1..n)
    BY FS_Interval
  <2> QED BY <2>1, FS_Subset
<1>3. Cardinality({2}) = 1 /\ IsFiniteSet({2})
  BY FS_Singleton
<1>4. Cardinality({2} \cup {4}) = 2
  <2>1. 4 \notin {2}
    OBVIOUS
  <2>2. Cardinality({2} \cup {4}) = Cardinality({2}) + 1
    BY <1>3, <2>1, FS_AddElement
  <2> QED BY <1>3, <2>2
<1>5. {2} \cup {4} \subseteq I
  OBVIOUS
<1>6. Cardinality(I) \in Nat /\ Cardinality(I) >= 2
  <2>1. Cardinality({2} \cup {4}) <= Cardinality(I)
    BY <1>2, <1>5, FS_Subset
  <2>2. Cardinality(I) \in Nat
    BY <1>2, FS_CardinalityType
  <2> QED BY <1>4, <2>1, <2>2
<1>7. I \in SUBSET Nat /\ I \ {2} \in SUBSET Nat
  BY <1>1
<1>8. Min(I) = 2
  BY <1>1, <1>7, LeastIs
<1>9. 4 \in I \ {2} /\ \A i \in I \ {2} : 4 <= i
  BY <1>1
<1>10. Min(I \ {2}) = 4
  BY <1>7, <1>9, LeastIs
<1> QED BY <1>6, <1>8, <1>10

MadeOf(key, a, b, c, d, rest) == key = <<a, b, c, d>> \o rest

Begins(key, T, a, b, c, d) ==
    /\ key \in Seq(T) /\ Len(key) \in Nat /\ Len(key) > 4 /\ DOMAIN key = 1..Len(key)
    /\ key[1] = a /\ key[2] = b /\ key[3] = c /\ key[4] = d
    /\ SubSeq(key, 1, 1) = <<a>>

(* A sequence that begins with four tokens.                                *)
LEMMA FourAndMore ==
    ASSUME NEW T, NEW a \in T, NEW b \in T, NEW c \in T, NEW d \in T,
           NEW rest \in Seq(T), rest # <<>>,
           NEW key, MadeOf(key, a, b, c, d, rest)
    PROVE  Begins(key, T, a, b, c, d)
<1> DEFINE head == <<a, b, c, d>>
<1>1. key = head \o rest
  BY DEF MadeOf
<1>2. /\ head \in Seq(T) /\ Len(head) = 4
      /\ head[1] = a /\ head[2] = b /\ head[3] = c /\ head[4] = d
  OBVIOUS
<1> HIDE DEF head
<1>3. Len(rest) \in Nat /\ Len(rest) > 0
  BY EmptySeq, LenProperties
<1>4. /\ key \in Seq(T) /\ Len(key) = Len(head) + Len(rest)
      /\ \A i \in 1..Len(head) + Len(rest) :
            key[i] = IF i <= Len(head) THEN head[i] ELSE rest[i - Len(head)]
  BY <1>2, <1>1, ConcatProperties
<1>5. Len(key) \in Nat /\ Len(key) > 4
  BY ONLY <1>2, <1>3, <1>4
<1>6. DOMAIN key = 1..Len(key)
  BY <1>4, LenProperties
<1>7. key[1] = a /\ key[2] = b /\ key[3] = c /\ key[4] = d
  <2>1. \A i \in 1..4 : i \in 1..Len(head) + Len(rest) /\ i <= Len(head)
    BY ONLY <1>2, <1>3
  <2>2. \A i \in 1..4 : key[i] = head[i]
    BY <1>4, <2>1
  <2> QED BY <1>2, <2>2
<1>8. SubSeq(key, 1, 1) = <<a>>
  <2>1. /\ SubSeq(key, 1, 1) \in Seq(T) /\ Len(SubSeq(key, 1, 1)) = 1
        /\ SubSeq(key, 1, 1)[1] = key[1]
    BY <1>5, <1>7, SubSeqProperties
  <2> DEFINE one == <<a>>
             cut == SubSeq(key, 1, 1)
  <2>2. one \in Seq(T) /\ Len(one) = 1 /\ one[1] = a
    OBVIOUS
  <2> SUFFICES cut = one
    OBVIOUS
  <2>3. cut \in Seq(T) /\ Len(cut) = 1 /\ cut[1] = a
    BY <1>7, <2>1
  <2> HIDE DEF one, cut
  <2>4. \A i \in 1..Len(cut) : cut[i] = one[i]
    BY <2>2, <2>3
  <2> QED BY <2>2, <2>3, <2>4, SeqEqual
<1> QED BY <1>4, <1>5, <1>6, <1>7, <1>8 DEF Begins

(* A key gives back the id that it was minted with, whatever its secret    *)
(* looks like.                                                             *)
LEMMA KeyGivesId ==
    ASSUME NEW id \in Ids, NEW secret \in Secrets
    PROVE  /\ Keyring!ParseKeyId(Keyring!MintKey(id, secret)) = id
           /\ Keyring!MintKey(id, secret) # Keyring!NoToken
<1> DEFINE D == {secret[i] : i \in DOMAIN secret}
           T == {"rpc", "_", id} \cup D
           key == Keyring!MintKey(id, secret)
           bars == Keyring!Bars(key)
<1>1. id # "_" /\ secret \in Seq(D) /\ secret # <<>>
  BY PartsAssumption DEF Keyring!TenancyAssumption
<1>2. {"rpc", "_", id} \subseteq T /\ D \subseteq T
  OBVIOUS
<1> HIDE DEF D, T, key
<1>3. secret \in Seq(T)
  BY <1>1, <1>2, SeqMonotonic
<1>4. key = Keyring!MintKey(id, secret)
  BY DEF key
<1>5. /\ Len(key) \in Nat /\ Len(key) > 4 /\ DOMAIN key = 1..Len(key)
      /\ key[1] = "rpc" /\ key[2] = "_" /\ key[3] = id /\ key[4] = "_"
      /\ SubSeq(key, 1, 1) = <<"rpc">> /\ key \in Seq(T)
  <2>1. key = <<"rpc", "_", id, "_">> \o secret
    BY <1>4 DEF Keyring!MintKey
  <2>2. "rpc" \in T /\ "_" \in T /\ id \in T
    BY <1>2
  <2> DEFINE rpc == "rpc"
             bar == "_"
  <2>3. MadeOf(key, rpc, bar, id, bar, secret) /\ rpc \in T /\ bar \in T
    BY <2>1, <2>2 DEF MadeOf
  <2> SUFFICES /\ Len(key) \in Nat /\ Len(key) > 4 /\ DOMAIN key = 1..Len(key)
               /\ key[1] = rpc /\ key[2] = bar /\ key[3] = id /\ key[4] = bar
               /\ SubSeq(key, 1, 1) = <<rpc>> /\ key \in Seq(T)
    OBVIOUS
  <2> HIDE DEF rpc, bar
  <2>4. Begins(key, T, rpc, bar, id, bar)
    BY <1>1, <1>3, <2>2, <2>3, FourAndMore
  <2> QED BY <2>4 DEF Begins
<1> DEFINE len == Len(key)
<1>6. len \in Nat /\ len > 4
  BY <1>5
<1> HIDE DEF len
<1>7. bars \in SUBSET (1..Len(key)) /\ 2 \in bars /\ 4 \in bars /\ 1 \notin bars /\ 3 \notin bars
  <2>1. \A i : i \in bars <=> i \in 1..Len(key) /\ key[i] = "_"
    BY <1>5 DEF Keyring!Bars
  <2> HIDE DEF bars
  <2>2. 2 \in 1..Len(key) /\ 4 \in 1..Len(key)
    BY ONLY <1>6 DEF len
  <2>3. bars \in SUBSET (1..Len(key))
    BY <2>1
  <2>4. 2 \in bars /\ 4 \in bars
    BY <1>5, <2>1, <2>2
  <2>5. 1 \notin bars /\ 3 \notin bars
    BY <1>1, <1>5, <2>1
  <2> QED BY <2>3, <2>4, <2>5
<1> HIDE DEF bars
<1>8. /\ Cardinality(bars) \in Nat /\ Cardinality(bars) >= 2
      /\ Min(bars) = 2 /\ Min(bars \ {2}) = 4
  BY <1>5, <1>7, FirstTwo
<1>9. Keyring!Cardinality(bars) >= 2 /\ Keyring!Cardinality(bars) \in Nat
  BY <1>8 DEF Cardinality, Keyring!Cardinality
<1>10. Keyring!Min(bars) = 2 /\ Keyring!Min(bars \ {2}) = 4
  BY <1>8 DEF Min, Keyring!Min
<1>11. Keyring!ParseKeyId(key) = id
  <2>1. Keyring!ParseKeyId(key) =
          IF Keyring!Cardinality(bars) < 2 THEN Keyring!None
          ELSE IF SubSeq(key, 1, Keyring!Min(bars) - 1) = <<"rpc">>
                  /\ Keyring!Min(bars \ {Keyring!Min(bars)}) = Keyring!Min(bars) + 2
                  /\ Keyring!Min(bars \ {Keyring!Min(bars)}) < Len(key)
               THEN key[Keyring!Min(bars) + 1] ELSE Keyring!None
    BY DEF Keyring!ParseKeyId, bars
  <2>2. /\ ~(Keyring!Cardinality(bars) < 2) /\ 2 - 1 = 1 /\ 2 + 2 = 4 /\ 2 + 1 = 3 /\ 4 < Len(key)
    BY ONLY <1>6, <1>9 DEF len
  <2>3. Keyring!ParseKeyId(key) =
          IF SubSeq(key, 1, 2 - 1) = <<"rpc">> /\ 4 = 2 + 2 /\ 4 < Len(key)
          THEN key[2 + 1] ELSE Keyring!None
    BY <1>10, <2>1, <2>2, Zenon
  <2>4. SubSeq(key, 1, 2 - 1) = <<"rpc">> /\ key[2 + 1] = id
    BY <1>5, <2>2, Zenon
  <2> QED BY <2>2, <2>3, <2>4, Zenon
<1>12. key # Keyring!NoToken
  <2>1. Len(Keyring!NoToken) = 0
    BY DEF Keyring!NoToken
  <2>2. Len(key) # 0
    BY ONLY <1>6 DEF len
  <2> QED BY <2>1, <2>2, Zenon
<1> QED BY <1>11, <1>12 DEF key

(* What the rows of the table and what was handed out say of each other.   *)
RowFits(id, row, h) ==
    /\ row = [key |-> row.key, customer |-> row.customer, revoked |-> row.revoked]
    /\ \E secret \in Secrets : row.key = Keyring!MintKey(id, secret)
    /\ [key |-> row.key, customer |-> row.customer] \in h

RowsFit(t, h) ==
    /\ DOMAIN t \subseteq Ids
    /\ \A id \in DOMAIN t : RowFits(id, t[id], h)
    /\ \A given \in h : \E id \in DOMAIN t : t[id].key = given.key

Filed == RowsFit(table, handed)

LEMMA RowIsAdded ==
    ASSUME NEW t, NEW h, RowsFit(t, h), NEW id \in Ids, NEW secret \in Secrets, NEW c,
           NEW key, key = Keyring!MintKey(id, secret), id \notin DOMAIN t,
           NEW row, row = [key |-> key, customer |-> c, revoked |-> FALSE],
           NEW t2, t2 = [i \in DOMAIN t \cup {id} |-> IF i = id THEN row ELSE t[i]],
           NEW h2, h2 = h \cup {[key |-> key, customer |-> c]}
    PROVE  RowsFit(t2, h2)
<1>1. /\ DOMAIN t2 = DOMAIN t \cup {id} /\ t2[id] = row
      /\ \A i \in DOMAIN t : t2[i] = t[i]
  OBVIOUS
<1>2. row.key = key /\ row.customer = c
  OBVIOUS
<1>3. RowFits(id, row, h2)
  BY <1>2 DEF RowFits
<1>4. ASSUME NEW i \in DOMAIN t
      PROVE  RowFits(i, t2[i], h2)
  BY <1>1, <1>4 DEF RowsFit, RowFits
<1>5. ASSUME NEW given \in h2
      PROVE  \E i \in DOMAIN t2 : t2[i].key = given.key
  <2>1. CASE given \in h
    BY <1>1, <2>1 DEF RowsFit
  <2>2. CASE given = [key |-> key, customer |-> c]
    <3>1. id \in DOMAIN t2 /\ t2[id].key = given.key
      BY <1>1, <1>2, <2>2
    <3> QED BY <3>1
  <2> QED BY <2>1, <2>2
<1>6. \A i \in DOMAIN t2 : RowFits(i, t2[i], h2)
  BY <1>1, <1>3, <1>4
<1>7. DOMAIN t2 \subseteq Ids
  BY <1>1 DEF RowsFit
<1> QED BY <1>5, <1>6, <1>7 DEF RowsFit

LEMMA RowIsRevoked ==
    ASSUME NEW t, NEW h, RowsFit(t, h), NEW id \in DOMAIN t,
           NEW t2, t2 = [t EXCEPT ![id] = [t[id] EXCEPT !.revoked = TRUE]]
    PROVE  RowsFit(t2, h)
<1>1. /\ DOMAIN t2 = DOMAIN t /\ \A i \in DOMAIN t : i # id => t2[i] = t[i]
      /\ t2[id] = [t[id] EXCEPT !.revoked = TRUE]
  OBVIOUS
<1>2. RowFits(id, t[id], h)
  BY DEF RowsFit
<1>3. t2[id] = [key |-> t[id].key, customer |-> t[id].customer, revoked |-> TRUE]
  <2>1. t[id] = [key |-> t[id].key, customer |-> t[id].customer, revoked |-> t[id].revoked]
    BY <1>2 DEF RowFits
  <2> QED BY <1>1, <2>1
<1>4. t2[id].key = t[id].key /\ t2[id].customer = t[id].customer /\ t2[id].revoked = TRUE
  BY <1>3
<1>5. RowFits(id, t2[id], h)
  BY <1>2, <1>3, <1>4 DEF RowFits
<1>6. \A i \in DOMAIN t2 : RowFits(i, t2[i], h)
  BY <1>1, <1>5 DEF RowsFit
<1>7. ASSUME NEW given \in h
      PROVE  \E i \in DOMAIN t2 : t2[i].key = given.key
  <2>1. PICK i \in DOMAIN t : t[i].key = given.key
    BY DEF RowsFit
  <2>2. i \in DOMAIN t2 /\ t2[i].key = given.key
    BY <1>1, <1>4, <2>1
  <2> QED BY <2>2
<1> QED BY <1>1, <1>6, <1>7 DEF RowsFit

LEMMA FiledStep == Filed /\ Keyring!Next => Filed'
<1> SUFFICES ASSUME RowsFit(table, handed), Keyring!Next
             PROVE  RowsFit(table', handed')
  BY DEF Filed
<1>1. ASSUME NEW c \in Customers, Keyring!Create(c)
      PROVE  RowsFit(table', handed')
  <2>1. PICK id \in Ids, secret \in Secrets :
            /\ Keyring!Insert(id, [key |-> Keyring!MintKey(id, secret), customer |-> c, revoked |-> FALSE])
            /\ handed' = handed \cup {[key |-> Keyring!MintKey(id, secret), customer |-> c]}
    BY <1>1 DEF Keyring!Create
  <2> QED BY <2>1, RowIsAdded DEF Keyring!Insert
<1>2. ASSUME NEW id \in Ids, Keyring!Revoke(id)
      PROVE  RowsFit(table', handed')
  BY <1>2, RowIsRevoked DEF Keyring!Revoke
<1> QED BY <1>1, <1>2 DEF Keyring!Next

LEMMA FiledMeans == Filed => Keyring!AttributedToOwner
<1> SUFFICES ASSUME Filed, deployed.store, NEW key \in Keyring!Presented
             PROVE  LET who  == Keyring!RequireApiToken("bearer", key)
                        mine == {h \in handed : h.key = key}
                    IN  /\ who = Keyring!WorldSessionAuth(key, "none", Keyring!NoToken)
                        /\ who.kind = "key" =>
                              \E h \in mine :
                                 /\ h.customer = who.customer
                                 /\ Keyring!ParseKeyId(key) \in Keyring!ListKeys(h.customer, FALSE)
                        /\ mine # {} /\ who.kind # "key" =>
                              \E id \in DOMAIN table : table[id].key = key /\ table[id].revoked
  BY DEF Keyring!AttributedToOwner
<1> DEFINE who == Keyring!Resolve(key)
           id  == Keyring!ParseKeyId(key)
           mine == {h \in handed : h.key = key}
<1>1. /\ Keyring!RequireApiToken("bearer", key) = who
      /\ Keyring!WorldSessionAuth(key, "none", Keyring!NoToken) = who
  BY DEF Keyring!RequireApiToken, Keyring!WorldSessionAuth
<1>2. Keyring!Authenticate(key)
        = IF id \in DOMAIN table /\ ~table[id].revoked /\ table[id].key = key THEN id ELSE Keyring!None
  BY DEF Keyring!Authenticate
<1>3. Keyring!None \notin DOMAIN table
  BY PartsAssumption DEF Filed, RowsFit, Keyring!TenancyAssumption
<1>4. who = IF key # Keyring!NoToken /\ Keyring!Authenticate(key) # Keyring!None
            THEN [kind |-> "key", customer |-> table[Keyring!Authenticate(key)].customer]
            ELSE IF deployed.token # Keyring!NoToken /\ key = deployed.token
            THEN [kind |-> "legacy", customer |-> "legacy"]
            ELSE Keyring!Unauthenticated
  BY DEF Keyring!Resolve
<1>5. ASSUME who.kind = "key"
      PROVE  \E h \in mine : /\ h.customer = who.customer
                             /\ id \in Keyring!ListKeys(h.customer, FALSE)
  <2>0. /\ [kind |-> "legacy", customer |-> "legacy"].kind # "key"
        /\ Keyring!Unauthenticated.kind # "key"
    BY DEF Keyring!Unauthenticated
  <2>1. key # Keyring!NoToken /\ Keyring!Authenticate(key) # Keyring!None
    <3> HIDE DEF who
    <3> QED BY <1>4, <1>5, <2>0, Zenon
  <2>2. /\ id \in DOMAIN table /\ ~table[id].revoked /\ table[id].key = key
        /\ Keyring!Authenticate(key) = id
    BY <1>2, <2>1
  <2>3. who.customer = table[id].customer
    <3>1. who = [kind |-> "key", customer |-> table[id].customer]
      <4> HIDE DEF who, id
      <4> QED BY <1>4, <2>1, <2>2, Zenon
    <3> HIDE DEF who
    <3> QED BY <3>1
  <2> DEFINE h == [key |-> table[id].key, customer |-> table[id].customer]
  <2>4. h \in mine
    BY <2>2 DEF Filed, RowsFit, RowFits
  <2>5. id \in Keyring!ListKeys(h.customer, FALSE)
    BY <2>2 DEF Keyring!ListKeys
  <2> QED BY <2>3, <2>4, <2>5
<1>6. ASSUME mine # {}, who.kind # "key"
      PROVE  \E i \in DOMAIN table : table[i].key = key /\ table[i].revoked
  <2>1. PICK i \in DOMAIN table : table[i].key = key
    BY <1>6 DEF Filed, RowsFit
  <2>2. PICK secret \in Secrets : key = Keyring!MintKey(i, secret)
    BY <2>1 DEF Filed, RowsFit, RowFits
  <2>3. id = i /\ key # Keyring!NoToken
    BY <2>2, KeyGivesId DEF Filed, RowsFit
  <2>4. Keyring!Authenticate(key) = Keyring!None
    BY <1>4, <1>6, <2>3
  <2> HIDE DEF id
  <2> QED BY <1>2, <1>3, <2>1, <2>3, <2>4
<1> HIDE DEF who
<1> QED BY <1>1, <1>5, <1>6

LEMMA FiledHolds == Keyring!Spec => []Filed
<1>1. Keyring!Init => Filed
  BY DEF Keyring!Init, Filed, RowsFit
<1>2. Filed /\ [Keyring!Next]_(Keyring!vars) => Filed'
  <2>1. Filed /\ UNCHANGED Keyring!vars => Filed'
    BY DEF Filed, Keyring!vars
  <2> QED BY <2>1, FiledStep
<1> QED BY <1>1, <1>2, PTL DEF Keyring!Spec

(* Whatever ids and secrets are drawn, however often keys are minted and   *)
(* revoked, a credential is charged to the customer it was handed to, over *)
(* HTTP and over the WebSocket alike, and to nobody once it is revoked.    *)
THEOREM KeysAreAttributed == Keyring!Spec => []Keyring!AttributedToOwner
BY FiledHolds, FiledMeans, PTL

-----------------------------------------------------------------------------
(* Sums over parts.  A report adds up the cells of the ledger, a row and a *)
(* column each, group by group and line by line; the sum does not depend   *)
(* on how they are parted.                                                 *)

(* The sum of f over a part S of its domain.                               *)
SumAt(f, S) == (CHOOSE g : AddsUp(f, g, S))[S]

LEMMA SumAtIs ==
    ASSUME NEW U, IsFiniteSet(U), NEW f, NEW g, AddsUp(f, g, U), NEW S \in SUBSET U
    PROVE  SumAt(f, S) = g[S]
<1> DEFINE h == CHOOSE k : AddsUp(f, k, S)
<1>1. IsFiniteSet(S)
  BY FS_Subset
<1>2. AddsUp(f, h, S)
  BY <1>1, AddsUpExists
<1> HIDE DEF h
<1>3. U \in SUBSET U /\ S \in SUBSET (U \cap S)
  OBVIOUS
<1>4. h[S] = g[S]
  BY <1>2, <1>3, AddsUpUnique
<1> QED BY <1>4 DEF SumAt, h

TakenOut(f, g, T, c) == g[T] \in Int /\ g[T] = f[c] + g[T \ {c}]

LEMMA TakesOut ==
    ASSUME NEW S, IsFiniteSet(S), NEW f \in [S -> Int], NEW g, AddsUp(f, g, S),
           NEW T \in SUBSET S, NEW c \in T
    PROVE  TakenOut(f, g, T, c)
<1>0. AddsUp(f, g, S) /\ T \in SUBSET S /\ T \ {c} \in SUBSET S
  OBVIOUS
<1>1. g[T] \in Int /\ g[T \ {c}] \in Int /\ g[T] = f[c] + g[T \ {c}]
  BY <1>0, AddsUpAnyOrder
<1> QED BY <1>1 DEF TakenOut

(* How a sum is taken: in any order.                                       *)
LEMMA SumRules ==
    ASSUME NEW U, IsFiniteSet(U), NEW f \in [U -> Int], NEW S \in SUBSET U
    PROVE  /\ SumAt(f, {}) = 0 /\ SumAt(f, S) \in Int
           /\ \A c \in S : SumAt(f, S) = f[c] + SumAt(f, S \ {c})
<1>1. PICK g : AddsUp(f, g, U)
  BY AddsUpExists
<1>2. \A R \in SUBSET U : SumAt(f, R) = g[R]
  BY <1>1, SumAtIs
<1>3. SumAt(f, {}) = 0
  <2>1. {} \in SUBSET U
    OBVIOUS
  <2>2. g[{}] = 0
    BY <1>1, <2>1, AddsUpStep
  <2> QED BY <1>2, <2>1, <2>2
<1>4. ASSUME NEW c \in S
      PROVE  SumAt(f, S) \in Int /\ SumAt(f, S) = f[c] + SumAt(f, S \ {c})
  <2>1. S \ {c} \in SUBSET U
    OBVIOUS
  <2>2. g[S] \in Int /\ g[S] = f[c] + g[S \ {c}]
    <3>1. TakenOut(f, g, S, c)
      BY <1>1, TakesOut
    <3> QED BY <3>1 DEF TakenOut
  <2> QED BY <1>2, <2>1, <2>2
<1>5. SumAt(f, S) \in Int
  <2>1. CASE S = {}
    BY <1>3, <2>1
  <2>2. CASE S # {}
    <3>1. PICK c \in S : TRUE
      BY <2>2
    <3> QED BY <1>4, <3>1
  <2> QED BY <2>1, <2>2
<1> QED BY <1>3, <1>4, <1>5

SumWithout(f, S, c) == SumAt(f, S) = f[c] + SumAt(f, S \ {c})

LEMMA SumStep ==
    ASSUME NEW U, IsFiniteSet(U), NEW f \in [U -> Int], NEW S \in SUBSET U, NEW c \in S
    PROVE  SumWithout(f, S, c)
<1>1. \A x \in S : SumAt(f, S) = f[x] + SumAt(f, S \ {x})
  BY SumRules
<1> QED BY <1>1 DEF SumWithout

(* A claim of every part of a finite set, shown by taking an element out   *)
(* of it: what must hold of a set of the parts of S.                       *)
LEMMA PartByPart ==
    ASSUME NEW S, IsFiniteSet(S), NEW good, {} \in good,
           \A R \in SUBSET S : R # {} => \E c \in R : R \ {c} \in good => R \in good
    PROVE  S \in good
<1> DEFINE bad == {R \in SUBSET S : R \notin good}
<1> SUFFICES ASSUME bad # {} PROVE FALSE
  <2>1. S \in SUBSET S
    OBVIOUS
  <2> QED BY <2>1
<1>1. PICK R \in bad : \A t \in bad : t \subseteq R => t = R
  <2>1. bad \in SUBSET (SUBSET S)
    OBVIOUS
  <2> HIDE DEF bad
  <2> QED BY <2>1, Smallest
<1>2. R \in SUBSET S /\ R \notin good /\ R # {}
  <2>1. R \in SUBSET S /\ R \notin good
    BY <1>1
  <2>2. R # {}
    BY <2>1, Zenon
  <2> QED BY <2>1, <2>2
<1>3. PICK c \in R : R \ {c} \in good => R \in good
  BY <1>2
<1>4. R \ {c} \notin bad
  BY <1>1, <1>3
<1> QED BY <1>2, <1>3, <1>4

(* Two functions that are alike over S.                                    *)
LEMMA SumSame ==
    ASSUME NEW U, IsFiniteSet(U), NEW f, NEW V, IsFiniteSet(V), NEW h,
           NEW S \in SUBSET U, S \in SUBSET V, \A x \in S : f[x] = h[x]
    PROVE  SumAt(f, S) = SumAt(h, S)
<1>1. IsFiniteSet(S) /\ S \in SUBSET S
  BY FS_Subset
<1>2. PICK g : AddsUp(f, g, S)
  BY <1>1, AddsUpExists
<1>3. PICK k : AddsUp(h, k, S)
  BY <1>1, AddsUpExists
<1>4. g[S] = k[S]
  BY <1>1, <1>2, <1>3, AgreeingSums
<1> QED BY <1>1, <1>2, <1>3, <1>4, SumAtIs

\* The two parts are summed apart.
Apart(f, A, B) == SumAt(f, A \cup B) = SumAt(f, A) + SumAt(f, B)

LEMMA SumOfParts ==
    ASSUME NEW U, IsFiniteSet(U), NEW f \in [U -> Int],
           NEW A \in SUBSET U, NEW B \in SUBSET U, A \cap B = {}
    PROVE  Apart(f, A, B)
<1> DEFINE good == {R \in SUBSET B : SumAt(f, A \cup R) = SumAt(f, A) + SumAt(f, R)}
<1>1. \A R \in SUBSET B : SumAt(f, R) \in Int /\ SumAt(f, A \cup R) \in Int /\ SumAt(f, A) \in Int
  <2> SUFFICES ASSUME NEW R \in SUBSET B
               PROVE  SumAt(f, R) \in Int /\ SumAt(f, A \cup R) \in Int /\ SumAt(f, A) \in Int
    OBVIOUS
  <2>1. R \in SUBSET U /\ A \cup R \in SUBSET U
    OBVIOUS
  <2> QED BY <2>1, SumRules
<1>2. {} \in good
  <2>1. A \cup {} = A /\ SumAt(f, {}) = 0 /\ SumAt(f, A) \in Int
    BY SumRules
  <2> QED BY <2>1
<1>3. ASSUME NEW R \in SUBSET B, NEW c \in R, R \ {c} \in good
      PROVE  R \in good
  <2>1. /\ R \in SUBSET U /\ A \cup R \in SUBSET U /\ c \in A \cup R
        /\ (A \cup R) \ {c} = A \cup (R \ {c}) /\ R \ {c} \in SUBSET B
    OBVIOUS
  <2>2. SumAt(f, R) = f[c] + SumAt(f, R \ {c})
    BY <2>1, SumRules
  <2>3. SumAt(f, A \cup R) = f[c] + SumAt(f, A \cup (R \ {c}))
    BY <2>1, SumRules
  <2>4. SumAt(f, A \cup (R \ {c})) = SumAt(f, A) + SumAt(f, R \ {c})
    BY <1>3
  <2>5. f[c] \in Int
    BY <2>1
  <2>6. SumAt(f, R \ {c}) \in Int /\ SumAt(f, A) \in Int
    BY <1>1, <2>1
  <2>7. SumAt(f, A \cup R) = SumAt(f, A) + SumAt(f, R)
    BY ONLY <2>2, <2>3, <2>4, <2>5, <2>6
  <2> QED BY <2>7
<1>4. IsFiniteSet(B)
  BY FS_Subset
<1> HIDE DEF good
<1>5. \A R \in SUBSET B : R # {} => \E c \in R : R \ {c} \in good => R \in good
  BY <1>3
<1>6. B \in good
  BY <1>2, <1>4, <1>5, PartByPart
<1> QED BY <1>6 DEF good, Apart

(* What is never negative adds up to more over more.                       *)
LEMMA SumOfMore ==
    ASSUME NEW U, IsFiniteSet(U), NEW f \in [U -> Nat], NEW B \in SUBSET U, NEW A \in SUBSET B
    PROVE  SumAt(f, A) \in Nat /\ SumAt(f, B) \in Nat /\ SumAt(f, A) <= SumAt(f, B)
<1>0. f \in [U -> Int]
  OBVIOUS
<1>1. ASSUME NEW S \in SUBSET U
      PROVE  SumAt(f, S) \in Nat
  <2> DEFINE good == {R \in SUBSET S : SumAt(f, R) \in Nat}
  <2>1. {} \in good
    BY <1>0, SumRules
  <2>2. ASSUME NEW R \in SUBSET S, NEW c \in R, R \ {c} \in good
        PROVE  R \in good
    <3>1. R \in SUBSET U /\ c \in U
      OBVIOUS
    <3>2. SumAt(f, R) = f[c] + SumAt(f, R \ {c})
      BY <1>0, <3>1, SumRules
    <3>3. f[c] \in Nat /\ SumAt(f, R \ {c}) \in Nat
      BY <2>2, <3>1
    <3> QED BY <3>2, <3>3
  <2>3. IsFiniteSet(S)
    BY FS_Subset
  <2> HIDE DEF good
  <2>4. \A R \in SUBSET S : R # {} => \E c \in R : R \ {c} \in good => R \in good
    BY <2>2
  <2>5. S \in good
    BY <2>1, <2>3, <2>4, PartByPart
  <2> QED BY <2>5 DEF good
<1>2. A \in SUBSET U /\ B \ A \in SUBSET U /\ A \cap (B \ A) = {} /\ A \cup (B \ A) = B
  OBVIOUS
<1>3. SumAt(f, B) = SumAt(f, A) + SumAt(f, B \ A)
  BY <1>0, <1>2, SumOfParts DEF Apart
<1>4. SumAt(f, A) \in Nat /\ SumAt(f, B) \in Nat /\ SumAt(f, B \ A) \in Nat
  BY <1>1, <1>2
<1> QED BY ONLY <1>3, <1>4

\* h has, for each t of T, the sum of f over the part of U that p maps to t.
GroupSums(h, f, U, p, T) ==
    /\ \A x \in U : p[x] \in T
    /\ \A t \in T : h[t] = SumAt(f, {x \in U : p[x] = t})

(* A sum over the groups of a partition.                                   *)
LEMMA SumOfGroups ==
    ASSUME NEW X, IsFiniteSet(X), NEW f \in [X -> Int], NEW U \in SUBSET X, NEW p,
           NEW T, IsFiniteSet(T), NEW h, GroupSums(h, f, U, p, T)
    PROVE  SumAt(h, T) = SumAt(f, U)
<1>0. /\ \A x \in U : p[x] \in T
      /\ \A t \in T : h[t] = SumAt(f, {x \in U : p[x] = t})
  BY DEF GroupSums
<1> DEFINE In(R) == {x \in U : p[x] \in R}
           good == {R \in SUBSET T : SumAt(h, R) = SumAt(f, In(R))}
<1>1. \A t \in T : h[t] \in Int
  <2> SUFFICES ASSUME NEW t \in T PROVE h[t] \in Int
    OBVIOUS
  <2> DEFINE G == {x \in U : p[x] = t}
  <2>1. G \in SUBSET X /\ h[t] = SumAt(f, G)
    BY <1>0
  <2> HIDE DEF G
  <2> QED BY <2>1, SumRules
<1> DEFINE k == [t \in T |-> h[t]]
<1>2. k \in [T -> Int] /\ \A t \in T : k[t] = h[t]
  BY <1>1
<1>3. \A R \in SUBSET T : SumAt(h, R) = SumAt(k, R)
  <2> HIDE DEF k
  <2> QED BY <1>2, SumSame
<1> HIDE DEF k
<1>4. {} \in good
  <2>1. SumAt(k, {}) = 0 /\ SumAt(f, {}) = 0 /\ In({}) = {}
    BY <1>2, SumRules
  <2> QED BY <1>3, <2>1
<1>5. ASSUME NEW R \in SUBSET T, NEW c \in R, R \ {c} \in good
      PROVE  R \in good
  <2>1. /\ In(R \ {c}) \in SUBSET X /\ In({c}) \in SUBSET X
        /\ In(R) = In(R \ {c}) \cup In({c}) /\ In(R \ {c}) \cap In({c}) = {}
        /\ In({c}) = {x \in U : p[x] = c} /\ R \ {c} \in SUBSET T /\ c \in T
    BY <1>0
  <2>2. SumAt(h, R \ {c}) = SumAt(f, In(R \ {c}))
    BY <1>5
  <2> HIDE DEF In
  <2>3. SumAt(f, In(R)) = SumAt(f, In(R \ {c})) + SumAt(f, In({c}))
    <3>1. Apart(f, In(R \ {c}), In({c}))
      BY <2>1, SumOfParts
    <3> QED BY <2>1, <3>1 DEF Apart
  <2>4. h[c] = SumAt(f, In({c}))
    BY <1>0, <2>1
  <2>5. SumAt(k, R) = k[c] + SumAt(k, R \ {c})
    BY <1>2, SumRules
  <2>6. SumAt(h, R) = h[c] + SumAt(h, R \ {c})
    BY <1>2, <1>3, <2>1, <2>5
  <2>7. SumAt(f, In({c})) \in Int /\ SumAt(f, In(R \ {c})) \in Int
    BY <2>1, SumRules
  <2>8. SumAt(h, R) = SumAt(f, In(R))
    BY ONLY <2>2, <2>3, <2>4, <2>6, <2>7
  <2> QED BY <2>8
<1> HIDE DEF good
<1>6. \A R \in SUBSET T : R # {} => \E c \in R : R \ {c} \in good => R \in good
  BY <1>5
<1>7. T \in good
  BY <1>4, <1>6, PartByPart
<1>8. In(T) = U
  BY <1>0
<1> QED BY <1>7, <1>8 DEF good

-----------------------------------------------------------------------------
(* The lines of a report.  ORDER BY puts them in an order that is total,   *)
(* as no two have a key, so every line is listed, once.                    *)

Lines(L) ==
    /\ IsFiniteSet(L)
    /\ \A a \in L : Reports!Total(a) \in Int /\ a.key \in Int
    /\ \A a, b \in L : a.key = b.key => a = b

InOrder(s) == \A i, j \in DOMAIN s : i < j => Reports!Heavier(s[i], s[j])

(* Lines come in one order: the heavier first, then the key.               *)
LEMMA LinesOrdered ==
    ASSUME NEW L, Lines(L), NEW a \in L, NEW b \in L, NEW c \in L
    PROVE  /\ a # b => Reports!Heavier(a, b) \/ Reports!Heavier(b, a)
           /\ Reports!Heavier(a, b) /\ Reports!Heavier(b, c) => Reports!Heavier(a, c)
<1> DEFINE wa == Reports!Total(a)  wb == Reports!Total(b)  wc == Reports!Total(c)
           ka == a.key  kb == b.key  kc == c.key
<1>1. wa \in Int /\ wb \in Int /\ wc \in Int /\ ka \in Int /\ kb \in Int /\ kc \in Int
  BY DEF Lines
<1>2. a # b => ka # kb
  BY DEF Lines
<1>3. /\ Reports!Heavier(a, b) <=> (wa > wb \/ (wa = wb /\ ka < kb))
      /\ Reports!Heavier(b, a) <=> (wb > wa \/ (wb = wa /\ kb < ka))
      /\ Reports!Heavier(b, c) <=> (wb > wc \/ (wb = wc /\ kb < kc))
      /\ Reports!Heavier(a, c) <=> (wa > wc \/ (wa = wc /\ ka < kc))
  BY DEF Reports!Heavier
<1> HIDE DEF wa, wb, wc, ka, kb, kc
<1> QED BY ONLY <1>1, <1>2, <1>3

(* So one of them is the last.                                             *)
LEMMA LastLine ==
    ASSUME NEW L, Lines(L), NEW R \in SUBSET L, R # {}
    PROVE  \E c \in R : \A a \in R \ {c} : Reports!Heavier(a, c)
<1> DEFINE IsLast(S, c) == \A a \in S \ {c} : Reports!Heavier(a, c)
           good == {S \in SUBSET R : S # {} => \E c \in S : IsLast(S, c)}
<1>1. IsFiniteSet(R)
  BY FS_Subset DEF Lines
<1>2. {} \in good
  OBVIOUS
<1>3. ASSUME NEW S \in SUBSET R, NEW c \in S, S \ {c} \in good
      PROVE  S \in good
  <2>1. CASE S \ {c} = {}
    <3>1. IsLast(S, c)
      BY <2>1
    <3> QED BY <3>1
  <2>2. CASE S \ {c} # {}
    <3>1. PICK d \in S \ {c} : IsLast(S \ {c}, d)
      BY <1>3, <2>2
    <3>2. c \in L /\ d \in L /\ c # d
      OBVIOUS
    <3>3. CASE Reports!Heavier(c, d)
      <4>1. IsLast(S, d)
        BY <3>1, <3>3
      <4> QED BY <4>1
    <3>4. CASE Reports!Heavier(d, c)
      <4>1. ASSUME NEW a \in S \ {c} PROVE Reports!Heavier(a, c)
        <5>1. a \in L
          OBVIOUS
        <5>2. a = d \/ Reports!Heavier(a, d)
          BY <3>1
        <5> QED BY <3>2, <3>4, <5>1, <5>2, LinesOrdered
      <4>2. IsLast(S, c)
        BY <4>1
      <4> QED BY <4>2
    <3> QED BY <3>2, <3>3, <3>4, LinesOrdered
  <2> QED BY <2>1, <2>2
<1> HIDE DEF good
<1>4. \A S \in SUBSET R : S # {} => \E c \in S : S \ {c} \in good => S \in good
  BY <1>3
<1>5. R \in good
  BY <1>1, <1>2, <1>4, PartByPart
<1> QED BY <1>5 DEF good

Listed(s, L) ==
    /\ s \in [1..Cardinality(L) -> L]
    /\ \A i, j \in 1..Cardinality(L) : i # j => s[i] # s[j]

(* A line that is behind all of them is put at the end.                    *)
LEMMA ListedAll ==
    ASSUME NEW L, Lines(L), NEW R \in SUBSET L, NEW c \in R,
           \A a \in R \ {c} : Reports!Heavier(a, c),
           NEW s, Listed(s, R \ {c}), InOrder(s)
    PROVE  \E t : Listed(t, R) /\ InOrder(t)
<1> DEFINE n == Cardinality(R \ {c})
           m == Cardinality(R)
           t == [i \in 1..m |-> IF i = m THEN c ELSE s[i]]
<1>1. n \in Nat /\ m \in Nat /\ m = n + 1
  <2>1. IsFiniteSet(R)
    BY FS_Subset DEF Lines
  <2>2. IsFiniteSet(R \ {c}) /\ n = m - 1
    BY <2>1, FS_RemoveElement
  <2>3. n \in Nat /\ m \in Nat
    BY <2>1, <2>2, FS_CardinalityType
  <2> QED BY ONLY <2>2, <2>3
<1>2. s \in [1..n -> R \ {c}] /\ \A i, j \in 1..n : i # j => s[i] # s[j]
  BY DEF Listed
<1> HIDE DEF n, m
<1>3. \A i \in 1..m : i # m => i \in 1..n
  BY ONLY <1>1
<1>4. \A i \in 1..m : i # m => s[i] \in R \ {c}
  BY <1>2, <1>3
<1>5. t \in [1..m -> R]
  BY <1>4
<1>6. \A i, j \in 1..m : i # j => t[i] # t[j]
  BY <1>2, <1>3, <1>4
<1>7. ASSUME NEW i \in 1..m, NEW j \in 1..m, i < j PROVE Reports!Heavier(t[i], t[j])
  <2>1. i # m /\ i \in 1..n
    BY <1>1, <1>7
  <2>2. CASE j = m
    BY <1>4, <2>1, <2>2
  <2>3. CASE j # m
    BY <1>2, <1>3, <1>7, <2>1, <2>3 DEF InOrder
  <2> QED BY <2>2, <2>3
<1> QED BY <1>5, <1>6, <1>7 DEF Listed, InOrder, m

LEMMA OrderExists ==
    ASSUME NEW L, Lines(L)
    PROVE  \E s : Listed(s, L) /\ InOrder(s)
<1> DEFINE good == {R \in SUBSET L : \E s : Listed(s, R) /\ InOrder(s)}
<1>1. IsFiniteSet(L)
  BY DEF Lines
<1>2. {} \in good
  <2>1. Cardinality({}) = 0 /\ 1..0 = {}
    BY FS_EmptySet
  <2>2. Listed(<< >>, {}) /\ InOrder(<< >>)
    BY <2>1 DEF Listed, InOrder
  <2> QED BY <2>2
<1>3. ASSUME NEW R \in SUBSET L, R # {} PROVE \E c \in R : R \ {c} \in good => R \in good
  <2>1. PICK c \in R : \A a \in R \ {c} : Reports!Heavier(a, c)
    BY <1>3, LastLine
  <2>2. ASSUME R \ {c} \in good PROVE R \in good
    <3>1. PICK s : Listed(s, R \ {c}) /\ InOrder(s)
      BY <2>2
    <3>2. \E t : Listed(t, R) /\ InOrder(t)
      BY <2>1, <3>1, ListedAll
    <3> QED BY <3>2
  <2> QED BY <2>2
<1> HIDE DEF good
<1>4. L \in good
  BY <1>1, <1>2, <1>3, PartByPart
<1> QED BY <1>4 DEF good

(* What ORDER BY gives: every line, once.                                  *)
LEMMA OrderedIs ==
    ASSUME NEW L, Lines(L), NEW s, s = Reports!Ordered(L)
    PROVE  /\ \E n \in Nat : DOMAIN s = 1..n /\ n = Len(s)
           /\ \A i \in DOMAIN s : s[i] \in L
           /\ \A i, j \in DOMAIN s : s[i] = s[j] => i = j
           /\ \A a \in L : \E i \in DOMAIN s : s[i] = a
<1>1. \A t : t \in Reports!SetToSeqs(L) <=> Listed(t, L)
  BY DEF Reports!SetToSeqs, Listed, Cardinality, Reports!Cardinality
<1>2. \E t \in Reports!SetToSeqs(L) : \A i, j \in DOMAIN t : i < j => Reports!Heavier(t[i], t[j])
  BY <1>1, OrderExists DEF InOrder
<1>3. s \in Reports!SetToSeqs(L)
  BY <1>2 DEF Reports!Ordered
<1>4. Listed(s, L)
  BY <1>1, <1>3
<1> DEFINE n == Cardinality(L)
<1>5. n \in Nat
  BY FS_CardinalityType DEF Lines
<1>6. s \in [1..n -> L] /\ DOMAIN s = 1..n /\ \A i, j \in 1..n : i # j => s[i] # s[j]
  BY <1>4 DEF Listed
<1>7. IsFiniteSet(1..n) /\ Cardinality(1..n) = Cardinality(L)
  <2>1. IsFiniteSet(1..n) /\ Cardinality(1..n) = IF 1 > n THEN 0 ELSE n - 1 + 1
    BY <1>5, FS_Interval
  <2> QED BY <1>5, <2>1
<1> HIDE DEF n
<1>8. s \in Injection(1..n, L)
  BY <1>6 DEF Injection, IsInjective
<1>9. s \in Surjection(1..n, L)
  BY <1>7, <1>8, FS_Injection DEF Lines
<1>10. \A a \in L : \E i \in 1..n : s[i] = a
  BY <1>9 DEF Surjection
<1>11. n = Len(s)
  <2>1. s \in Seq(L)
    BY <1>5, <1>6
  <2> QED BY <1>5, <1>6, <2>1
<1>12. /\ \A i \in DOMAIN s : s[i] \in L
       /\ \A i, j \in DOMAIN s : s[i] = s[j] => i = j
  BY <1>6
<1>13. \A a \in L : \E i \in DOMAIN s : s[i] = a
  BY <1>6, <1>10
<1>14. \E m \in Nat : DOMAIN s = 1..m /\ m = Len(s)
  BY <1>5, <1>6, <1>11
<1> QED BY <1>12, <1>13, <1>14

-----------------------------------------------------------------------------
(* The ledger *)

Ledger == rows \in Reports!Ledgers

Cells == (DOMAIN rows) \X Reports!Cost

\* What a row says of prompt and of completion tokens.
Amount == [cell \in Cells |-> rows[cell[1]][cell[2]]]

LEMMA RowsAre ==
    ASSUME Ledger
    PROVE  /\ IsFiniteSet(DOMAIN rows)
           /\ \A i \in DOMAIN rows :
                 /\ rows[i].key \in DOMAIN Owner /\ rows[i].customer = Owner[rows[i].key]
                 /\ rows[i].prompt \in Nat /\ rows[i].completion \in Nat
<1>1. PICK n \in 0..MaxRows : rows \in [1..n -> Reports!Events]
  BY DEF Ledger, Reports!Ledgers
<1>2. IsFiniteSet(DOMAIN rows)
  <2>1. n \in Nat
    <3>1. MaxRows \in Nat
      BY PartsAssumption DEF Reports!UsageAssumption
    <3> QED BY <3>1
  <2>2. IsFiniteSet(1..n)
    BY <2>1, FS_Interval
  <2> QED BY <1>1, <2>2
<1>3. ASSUME NEW i \in DOMAIN rows
      PROVE  /\ rows[i].key \in DOMAIN Owner /\ rows[i].customer = Owner[rows[i].key]
             /\ rows[i].prompt \in Nat /\ rows[i].completion \in Nat
  <2>1. PICK t \in 0..Moments, k \in DOMAIN Owner, c \in Costs, e \in BOOLEAN :
            rows[i] = Reports!Event(t, k, c, e)
    BY <1>1 DEF Reports!Events
  <2>2. c.prompt \in Nat /\ c.completion \in Nat
    BY PartsAssumption DEF Reports!UsageAssumption
  <2> QED BY <2>1, <2>2 DEF Reports!Event
<1> QED BY <1>2, <1>3

LEMMA AmountIs ==
    ASSUME Ledger
    PROVE  IsFiniteSet(Cells) /\ Amount \in [Cells -> Nat] /\ Amount \in [Cells -> Int]
<1>1. IsFiniteSet(Reports!Cost)
  <2>1. IsFiniteSet({"prompt"}) /\ IsFiniteSet({"prompt"} \cup {"completion"})
    BY FS_Singleton, FS_AddElement
  <2>2. Reports!Cost = {"prompt"} \cup {"completion"}
    BY DEF Reports!Cost
  <2> QED BY <2>1, <2>2
<1>2. IsFiniteSet(Cells)
  BY <1>1, RowsAre, FS_Product DEF Cells
<1>3. \A cell \in Cells : rows[cell[1]][cell[2]] \in Nat
  <2> SUFFICES ASSUME NEW i \in DOMAIN rows, NEW col \in Reports!Cost
               PROVE  rows[i][col] \in Nat
    BY DEF Cells
  <2>1. col = "prompt" \/ col = "completion"
    BY DEF Reports!Cost
  <2>2. rows[i].prompt \in Nat /\ rows[i].completion \in Nat
    BY RowsAre
  <2> QED BY <2>1, <2>2
<1> QED BY <1>2, <1>3 DEF Amount

(* SUM of columns over rows is the sum of cells.                           *)
LEMMA SumOfIs ==
    ASSUME Ledger, NEW W \in SUBSET DOMAIN rows, NEW C \in SUBSET Reports!Cost
    PROVE  /\ Reports!SumOf(C, W) = SumAt(Amount, W \X C)
           /\ W \X C \in SUBSET Cells
<1> DEFINE S == W \X C
           SumOver(h) == h = [s \in SUBSET S |->
               IF s = {} THEN 0
               ELSE rows[(CHOOSE x \in s : TRUE)[1]][(CHOOSE x \in s : TRUE)[2]]
                    + h[s \ {CHOOSE x \in s : TRUE}]]
<1>0. S \in SUBSET Cells /\ IsFiniteSet(S)
  <2>1. S \in SUBSET Cells
    BY DEF Cells
  <2> QED BY <2>1, AmountIs, FS_Subset
<1>1. \A h : SumOver(h) <=> AddsUp(Amount, h, S)
  <2> TAKE h
  <2>1. \A s \in SUBSET S : s # {} =>
            Amount[Pick(s)] = rows[(CHOOSE x \in s : TRUE)[1]][(CHOOSE x \in s : TRUE)[2]]
    <3> SUFFICES ASSUME NEW s \in SUBSET S, s # {}
                 PROVE  Amount[Pick(s)] = rows[Pick(s)[1]][Pick(s)[2]]
      BY DEF Pick
    <3>1. Pick(s) \in Cells
      BY <1>0 DEF Pick
    <3> QED BY <3>1 DEF Amount
  <2> HIDE DEF S
  <2>2. \A s \in SUBSET S :
            (IF s = {} THEN 0
             ELSE rows[(CHOOSE x \in s : TRUE)[1]][(CHOOSE x \in s : TRUE)[2]]
                  + h[s \ {CHOOSE x \in s : TRUE}])
            = IF s = {} THEN 0 ELSE Amount[Pick(s)] + h[s \ {Pick(s)}]
    BY <2>1 DEF Pick
  <2> QED BY <2>2 DEF AddsUp
<1> HIDE DEF S
<1>2. \E h : SumOver(h)
  <2>1. PICK h : AddsUp(Amount, h, S)
    BY <1>0, AddsUpExists
  <2>2. SumOver(h)
    BY ONLY <1>1, <2>1
  <2> QED BY ONLY <2>2
<1>3. PICK h : SumOver(h) /\ Reports!SumOf(C, W) = h[S]
  BY <1>2 DEF Reports!SumOf, Reports!MapThenSumSet, Reports!MapThenFoldSet, S
<1>4. AddsUp(Amount, h, S)
  BY <1>1, <1>3
<1>5. S \in SUBSET S
  OBVIOUS
<1>6. SumAt(Amount, S) = h[S]
  BY <1>0, <1>4, <1>5, SumAtIs
<1> QED BY <1>0, <1>3, <1>6 DEF S

-----------------------------------------------------------------------------
(* Summaries *)

Where(since, customer) ==
    {i \in Reports!Since(since) : customer = "" \/ rows[i].customer = customer}
OfKey(W, k) == {i \in W : rows[i].key = k}
KeysOf(W)   == {rows[i].key : i \in W}
LineOf(W, k) == Reports!Rollup(OfKey(W, k))
Group(W, j)  == {i \in W : rows[i].key = rows[j].key /\ rows[i].customer = rows[j].customer}
Guessed(W)  == {i \in W : ~rows[i].exact}

LEMMA KeysAre ==
    ASSUME Ledger, NEW W \in SUBSET DOMAIN rows
    PROVE  /\ KeysOf(W) \subseteq DOMAIN Owner /\ IsFiniteSet(DOMAIN Owner)
           /\ IsFiniteSet(KeysOf(W)) /\ DOMAIN Owner \subseteq Nat
<1>1. KeysOf(W) \subseteq DOMAIN Owner
  BY RowsAre DEF KeysOf
<1>2. IsFiniteSet(DOMAIN Owner) /\ DOMAIN Owner \subseteq Nat
  BY PartsAssumption DEF Reports!UsageAssumption, IsFiniteSet, Reports!IsFiniteSet
<1> QED BY <1>1, <1>2, FS_Subset

\* The columns of a line.
LineSums(line, G) ==
    /\ line.prompt = SumAt(Amount, G \X {"prompt"})
    /\ line.completion = SumAt(Amount, G \X {"completion"})
    /\ line.estimated = SumAt(Amount, Guessed(G) \X Reports!Cost)

LEMMA BothColumns ==
    ASSUME Ledger, NEW G \in SUBSET DOMAIN rows
    PROVE  /\ SumAt(Amount, G \X Reports!Cost)
                 = SumAt(Amount, G \X {"prompt"}) + SumAt(Amount, G \X {"completion"})
           /\ SumAt(Amount, G \X Reports!Cost) \in Nat
           /\ SumAt(Amount, Guessed(G) \X Reports!Cost) \in Nat
           /\ SumAt(Amount, Guessed(G) \X Reports!Cost) <= SumAt(Amount, G \X Reports!Cost)
<1> DEFINE A == G \X {"prompt"}
           B == G \X {"completion"}
           all == G \X Reports!Cost
           some == Guessed(G) \X Reports!Cost
<1>1. A \in SUBSET Cells /\ B \in SUBSET Cells /\ A \cap B = {} /\ all = A \cup B
  BY DEF Cells, Reports!Cost
<1>2. all \in SUBSET Cells /\ some \in SUBSET all
  BY DEF Cells, Guessed
<1> HIDE DEF A, B, all, some
<1>3. Apart(Amount, A, B)
  BY <1>1, AmountIs, SumOfParts
<1>4. SumAt(Amount, all) = SumAt(Amount, A) + SumAt(Amount, B)
  BY <1>1, <1>3 DEF Apart
<1>5. /\ SumAt(Amount, some) \in Nat /\ SumAt(Amount, all) \in Nat
      /\ SumAt(Amount, some) <= SumAt(Amount, all)
  BY <1>2, AmountIs, SumOfMore
<1> QED BY <1>4, <1>5 DEF A, B, all, some

LEMMA RollupIs ==
    ASSUME Ledger, NEW W \in SUBSET DOMAIN rows, NEW k \in KeysOf(W)
    PROVE  /\ LineOf(W, k).key = k /\ LineOf(W, k).calls \in Int
           /\ LineSums(LineOf(W, k), OfKey(W, k))
           /\ Reports!Total(LineOf(W, k)) = SumAt(Amount, OfKey(W, k) \X Reports!Cost)
<1> DEFINE G == OfKey(W, k)
           one == rows[CHOOSE i \in G : TRUE]
<1>1. one.key = k
  <2>1. \E i \in G : TRUE
    BY DEF OfKey, KeysOf
  <2>2. (CHOOSE i \in G : TRUE) \in G
    BY <2>1
  <2> QED BY <2>2 DEF OfKey
<1>2. G \in SUBSET DOMAIN rows /\ Guessed(G) \in SUBSET DOMAIN rows
  BY DEF OfKey, Guessed
<1>3. /\ LineOf(W, k).key = one.key
      /\ LineOf(W, k).prompt = Reports!SumOf({"prompt"}, G)
      /\ LineOf(W, k).completion = Reports!SumOf({"completion"}, G)
      /\ LineOf(W, k).estimated = Reports!SumOf(Reports!Cost, Guessed(G))
  BY DEF LineOf, Reports!Rollup, Guessed
<1>7. LineOf(W, k).calls \in Int
  <2>1. IsFiniteSet(G)
    BY <1>2, RowsAre, FS_Subset
  <2>2. LineOf(W, k).calls = Cardinality(G)
    BY DEF LineOf, Reports!Rollup, Cardinality, Reports!Cardinality
  <2> HIDE DEF G
  <2> QED BY <2>1, <2>2, FS_CardinalityType
<1> HIDE DEF G, one
<1>4. /\ {"prompt"} \in SUBSET Reports!Cost /\ {"completion"} \in SUBSET Reports!Cost
      /\ Reports!Cost \in SUBSET Reports!Cost
  BY DEF Reports!Cost
<1>5. LineSums(LineOf(W, k), G)
  BY <1>2, <1>3, <1>4, SumOfIs DEF LineSums
<1>6. Reports!Total(LineOf(W, k)) = SumAt(Amount, G \X Reports!Cost)
  BY <1>2, <1>5, BothColumns DEF LineSums, Reports!Total
<1> QED BY <1>1, <1>3, <1>5, <1>6, <1>7 DEF G

(* The lines that are summed up of some rows: one for each of their keys.  *)
LEMMA LinesAre ==
    ASSUME Ledger, NEW W \in SUBSET DOMAIN rows
    PROVE  Lines({LineOf(W, k) : k \in KeysOf(W)})
<1> DEFINE K == KeysOf(W)
           L == {LineOf(W, k) : k \in K}
           f == [k \in K |-> LineOf(W, k)]
<1>1. IsFiniteSet(K) /\ K \subseteq Nat
  BY KeysAre
<1>2. f \in Surjection(K, L)
  BY DEF Surjection
<1>3. IsFiniteSet(L)
  <2> HIDE DEF f, L, K
  <2> QED BY <1>1, <1>2, FS_Surjection
<1>4. ASSUME NEW k \in K
      PROVE  Reports!Total(LineOf(W, k)) \in Int /\ LineOf(W, k).key = k /\ k \in Int
  <2>1. OfKey(W, k) \in SUBSET DOMAIN rows
    BY DEF OfKey
  <2>2. Reports!Total(LineOf(W, k)) = SumAt(Amount, OfKey(W, k) \X Reports!Cost) /\ LineOf(W, k).key = k
    BY RollupIs
  <2>3. SumAt(Amount, OfKey(W, k) \X Reports!Cost) \in Nat
    BY <2>1, BothColumns
  <2> QED BY <1>1, <2>2, <2>3
<1> HIDE DEF K
<1>5. \A a \in L : Reports!Total(a) \in Int /\ a.key \in Int
  BY <1>4
<1>6. \A a, b \in L : a.key = b.key => a = b
  BY <1>4
<1> QED BY <1>3, <1>5, <1>6 DEF Lines, K

(* A summary has a line for every key, once, which adds up its rows.       *)
SummaryOf(s, W) ==
    /\ \E n \in Nat : DOMAIN s = 1..n /\ n = Len(s)
    /\ \A i \in DOMAIN s : s[i].key \in KeysOf(W) /\ s[i] = LineOf(W, s[i].key)
    /\ \A i, j \in DOMAIN s : s[i].key = s[j].key => i = j
    /\ \A k \in KeysOf(W) : \E i \in DOMAIN s : s[i].key = k

LEMMA SummaryIs ==
    ASSUME Ledger, NEW since, NEW customer
    PROVE  /\ Where(since, customer) \in SUBSET DOMAIN rows
           /\ SummaryOf(Reports!Summary(since, customer), Where(since, customer))
<1> DEFINE W == Where(since, customer)
           s == Reports!Summary(since, customer)
           L == {LineOf(W, k) : k \in KeysOf(W)}
<1>1. W \in SUBSET DOMAIN rows
  BY DEF Where, Reports!Since
<1>2. \A i, j \in W : (rows[i].key = rows[j].key /\ rows[i].customer = rows[j].customer)
                         <=> rows[i].key = rows[j].key
  BY <1>1, RowsAre
<1>3. \A j \in W : Group(W, j) = OfKey(W, rows[j].key)
  BY <1>2 DEF OfKey, Group
<1> DEFINE groups == {Group(W, j) : j \in W}
<1>4. groups = {OfKey(W, k) : k \in KeysOf(W)}
  <2> HIDE DEF W
  <2> QED BY <1>3 DEF KeysOf
<1>5. {Reports!Rollup(g) : g \in groups} = L
  <2> HIDE DEF groups
  <2> QED BY <1>4 DEF LineOf
<1>6. s = Reports!Ordered(L)
  BY <1>5 DEF Reports!Summary, Where, Group
<1>7. Lines(L)
  BY <1>1, LinesAre
<1>8. \A k \in KeysOf(W) : LineOf(W, k).key = k
  BY <1>1, RollupIs
<1> DEFINE All(t) == /\ \E n \in Nat : DOMAIN t = 1..n /\ n = Len(t)
                     /\ \A i \in DOMAIN t : t[i] \in L
                     /\ \A i, j \in DOMAIN t : t[i] = t[j] => i = j
                     /\ \A a \in L : \E i \in DOMAIN t : t[i] = a
<1>9. All(s)
  <2> HIDE DEF L, s
  <2> QED BY <1>6, <1>7, OrderedIs
<1> HIDE DEF s, W
<1>10. \A i \in DOMAIN s : s[i].key \in KeysOf(W) /\ s[i] = LineOf(W, s[i].key)
  BY <1>8, <1>9
<1>11. \A i, j \in DOMAIN s : s[i].key = s[j].key => i = j
  BY <1>9, <1>10
<1>12. \A k \in KeysOf(W) : \E i \in DOMAIN s : s[i].key = k
  BY <1>8, <1>9
<1>13. SummaryOf(s, W)
  BY <1>9, <1>10, <1>11, <1>12 DEF SummaryOf
<1> QED BY <1>1, <1>13 DEF s, W

-----------------------------------------------------------------------------
(* Invoices *)

(* A set of numbers up to n has a greatest.                                *)
LEMMA GreatestIs ==
    ASSUME NEW n \in Nat, NEW S \in SUBSET (1..n), S # {}
    PROVE  Reports!Max(S) \in S
<1> DEFINE good == {R \in SUBSET S : R # {} => \E m \in R : \A x \in R : m >= x}
<1>1. IsFiniteSet(S)
  <2>1. IsFiniteSet(1..n)
    BY FS_Interval
  <2> QED BY <2>1, FS_Subset
<1>2. {} \in good
  OBVIOUS
<1>3. ASSUME NEW R \in SUBSET S, NEW c \in R, R \ {c} \in good
      PROVE  R \in good
  <2>1. CASE R \ {c} = {}
    <3>1. \A x \in R : x = c
      BY <2>1
    <3>2. c \in Int
      OBVIOUS
    <3> QED BY <3>1, <3>2
  <2>2. CASE R \ {c} # {}
    <3>1. PICK m \in R \ {c} : \A x \in R \ {c} : m >= x
      BY <1>3, <2>2
    <3>2. m \in Int /\ c \in Int /\ \A x \in R : x \in Int
      OBVIOUS
    <3>3. CASE m >= c
      BY <3>1, <3>3
    <3>4. CASE c > m
      <4>1. \A x \in R : c >= x
        BY <3>1, <3>2, <3>4
      <4> QED BY <4>1
    <3> QED BY <3>2, <3>3, <3>4
  <2> QED BY <2>1, <2>2
<1> HIDE DEF good
<1>4. \A R \in SUBSET S : R # {} => \E c \in R : R \ {c} \in good => R \in good
  BY <1>3
<1>5. S \in good
  BY <1>1, <1>2, <1>4, PartByPart
<1>6. \E m \in S : \A x \in S : m >= x
  BY <1>5 DEF good
<1> QED BY <1>6 DEF Reports!Max

Column(s, c) == [i \in DOMAIN s |-> s[i][c]]

Added(sum, line) ==
    [calls |-> sum.calls + line.calls, prompt |-> sum.prompt + line.prompt,
     completion |-> sum.completion + line.completion,
     estimated |-> sum.estimated + line.estimated]

\* The columns of s, added up over S.
Sums(s, S) ==
    [calls |-> SumAt(Column(s, "calls"), S), prompt |-> SumAt(Column(s, "prompt"), S),
     completion |-> SumAt(Column(s, "completion"), S),
     estimated |-> SumAt(Column(s, "estimated"), S)]

Zeros == [calls |-> 0, prompt |-> 0, completion |-> 0, estimated |-> 0]

\* r folds s from the left, line by line.
IsFold(r, s) ==
    r = [S \in SUBSET DOMAIN s |->
            IF S = {} THEN Zeros
            ELSE Added(r[S \ {Reports!Max(S)}], s[Reports!Max(S)])]

NumberLines(s, n) ==
    /\ n \in Nat /\ DOMAIN s = 1..n
    /\ \A i \in 1..n : /\ s[i].calls \in Int /\ s[i].prompt \in Int
                        /\ s[i].completion \in Int /\ s[i].estimated \in Int

LEMMA ColumnIs ==
    ASSUME NEW s, NEW n, NumberLines(s, n), NEW c \in {"calls", "prompt", "completion", "estimated"}
    PROVE  Column(s, c) \in [1..n -> Int] /\ \A i \in 1..n : Column(s, c)[i] = s[i][c]
<1>1. \A i \in 1..n : s[i][c] \in Int
  BY DEF NumberLines
<1> QED BY <1>1 DEF Column, NumberLines

LEMMA SumsAre ==
    ASSUME NEW s, NEW n, NumberLines(s, n)
    PROVE  /\ Sums(s, {}) = Zeros
           /\ \A S \in SUBSET (1..n) : \A i \in S : Sums(s, S) = Added(Sums(s, S \ {i}), s[i])
<1>0. IsFiniteSet(1..n)
  BY FS_Interval DEF NumberLines
<1>1. ASSUME NEW c \in {"calls", "prompt", "completion", "estimated"}
      PROVE  /\ SumAt(Column(s, c), {}) = 0
             /\ \A S \in SUBSET (1..n) : \A i \in S :
                   SumAt(Column(s, c), S) = SumAt(Column(s, c), S \ {i}) + s[i][c]
  <2> DEFINE f == Column(s, c)
  <2>1. f \in [1..n -> Int] /\ \A i \in 1..n : f[i] = s[i][c]
    BY ColumnIs
  <2> SUFFICES /\ SumAt(f, {}) = 0
               /\ \A S \in SUBSET (1..n) : \A i \in S : SumAt(f, S) = SumAt(f, S \ {i}) + s[i][c]
    OBVIOUS
  <2> HIDE DEF f
  <2>2. SumAt(f, {}) = 0
    BY <1>0, <2>1, SumRules
  <2>3. ASSUME NEW S \in SUBSET (1..n), NEW i \in S
        PROVE  SumAt(f, S) = SumAt(f, S \ {i}) + s[i][c]
    <3>0. SumWithout(f, S, i)
      <4>1. f \in [1..n -> Int] /\ i \in S /\ S \in SUBSET (1..n)
        BY <2>1
      <4> QED BY <1>0, <4>1, SumStep
    <3>1. SumAt(f, S) = f[i] + SumAt(f, S \ {i}) /\ f[i] \in Int /\ f[i] = s[i][c]
      BY <2>1, <3>0 DEF SumWithout
    <3>2. SumAt(f, S \ {i}) \in Int
      <4>1. S \ {i} \in SUBSET (1..n)
        OBVIOUS
      <4> QED BY <1>0, <2>1, <4>1, SumRules
    <3> QED BY <3>1, <3>2
  <2> QED BY <2>2, <2>3
<1>2. Sums(s, {}) = Zeros
  BY <1>1 DEF Sums, Zeros
<1>3. ASSUME NEW S \in SUBSET (1..n), NEW i \in S
      PROVE  Sums(s, S) = Added(Sums(s, S \ {i}), s[i])
  <2>1. /\ SumAt(Column(s, "calls"), S) = SumAt(Column(s, "calls"), S \ {i}) + s[i].calls
        /\ SumAt(Column(s, "prompt"), S) = SumAt(Column(s, "prompt"), S \ {i}) + s[i].prompt
        /\ SumAt(Column(s, "completion"), S) = SumAt(Column(s, "completion"), S \ {i}) + s[i].completion
        /\ SumAt(Column(s, "estimated"), S) = SumAt(Column(s, "estimated"), S \ {i}) + s[i].estimated
    BY <1>1
  <2> QED BY <2>1 DEF Sums, Added
<1> QED BY <1>2, <1>3

LEMMA FoldIs ==
    ASSUME NEW s, NEW n, NumberLines(s, n)
    PROVE  /\ \E r : IsFold(r, s)
           /\ \A r : IsFold(r, s) => r[1..n] = Sums(s, 1..n)
<1>0. n \in Nat /\ DOMAIN s = 1..n /\ IsFiniteSet(1..n)
  BY FS_Interval DEF NumberLines
<1>1. \A S \in SUBSET (1..n) : S # {} => Reports!Max(S) \in S
  BY <1>0, GreatestIs
<1> DEFINE w == [S \in SUBSET (1..n) |-> Sums(s, S)]
<1>2. IsFold(w, s)
  <2>1. \A S \in SUBSET (1..n) :
           w[S] = IF S = {} THEN Zeros
                  ELSE Added(w[S \ {Reports!Max(S)}], s[Reports!Max(S)])
    <3> SUFFICES ASSUME NEW S \in SUBSET (1..n)
                 PROVE  w[S] = IF S = {} THEN Zeros
                               ELSE Added(w[S \ {Reports!Max(S)}], s[Reports!Max(S)])
      OBVIOUS
    <3>1. CASE S = {}
      BY <3>1, SumsAre
    <3>2. CASE S # {}
      <4> DEFINE m == Reports!Max(S)
      <4>1. m \in S /\ S \ {m} \in SUBSET (1..n)
        BY <1>1, <3>2
      <4> HIDE DEF m
      <4>2. w[S] = Sums(s, S) /\ w[S \ {m}] = Sums(s, S \ {m})
        BY <4>1
      <4>3. w[S] = Added(w[S \ {m}], s[m])
        BY <4>1, <4>2, SumsAre
      <4> QED BY <3>2, <4>3 DEF m
    <3> QED BY <3>1, <3>2
  <2>2. w = [S \in SUBSET DOMAIN s |-> w[S]]
    BY <1>0
  <2> HIDE DEF w
  <2> QED BY <1>0, <2>1, <2>2 DEF IsFold
<1>3. ASSUME NEW r, IsFold(r, s)
      PROVE  r[1..n] = Sums(s, 1..n)
  <2> DEFINE good == {S \in SUBSET (1..n) : r[S] = Sums(s, S)}
  <2>1. \A S \in SUBSET (1..n) :
           r[S] = IF S = {} THEN Zeros ELSE Added(r[S \ {Reports!Max(S)}], s[Reports!Max(S)])
    BY <1>0, <1>3 DEF IsFold
  <2>2. {} \in good
    BY <2>1, SumsAre
  <2>3. ASSUME NEW S \in SUBSET (1..n), S # {}
        PROVE  \E c \in S : S \ {c} \in good => S \in good
    <3> DEFINE m == Reports!Max(S)
    <3>1. m \in S
      BY <1>1, <2>3
    <3>2. r[S] = Added(r[S \ {m}], s[m])
      BY <2>1, <2>3
    <3> HIDE DEF m
    <3>3. Sums(s, S) = Added(Sums(s, S \ {m}), s[m])
      BY <3>1, SumsAre
    <3>4. S \ {m} \in good => S \in good
      BY <3>2, <3>3
    <3> QED BY <3>1, <3>4
  <2> HIDE DEF good
  <2>4. 1..n \in good
    BY <1>0, <2>2, <2>3, PartByPart
  <2> QED BY <2>4 DEF good
<1> QED BY <1>2, <1>3

LEMMA InvoiceIs ==
    ASSUME NEW since, NEW customer, NEW s, s = Reports!Summary(since, customer),
           NEW n, NumberLines(s, n)
    PROVE  Reports!Invoice(since, customer) = Sums(s, 1..n)
<1> DEFINE lines == Reports!Summary(since, customer)
           FoldOf(r) == r = [S \in SUBSET DOMAIN lines |->
               IF S = {} THEN [calls |-> 0, prompt |-> 0, completion |-> 0, estimated |-> 0]
               ELSE [calls |-> r[S \ {Reports!Max(S)}].calls + lines[Reports!Max(S)].calls,
                     prompt |-> r[S \ {Reports!Max(S)}].prompt + lines[Reports!Max(S)].prompt,
                     completion |-> r[S \ {Reports!Max(S)}].completion + lines[Reports!Max(S)].completion,
                     estimated |-> r[S \ {Reports!Max(S)}].estimated + lines[Reports!Max(S)].estimated]]
<1>0. lines = s
  OBVIOUS
<1>1. \A r : FoldOf(r) <=> IsFold(r, s)
  BY <1>0 DEF IsFold, Added, Zeros
<1> HIDE DEF FoldOf
<1>2. \E r : FoldOf(r)
  BY <1>1, FoldIs
<1>3. PICK r : FoldOf(r) /\ Reports!Invoice(since, customer) = r[DOMAIN lines]
  BY ONLY <1>2 DEF Reports!Invoice, Reports!FoldLeft, Reports!MapThenFoldSet, FoldOf
<1>4. r[1..n] = Sums(s, 1..n)
  BY <1>1, <1>3, FoldIs
<1> QED BY <1>0, <1>3, <1>4 DEF NumberLines

\* w has, for each line of s, the sum over the rows of V of its key.
KeySums(w, s, V, C) ==
    \A i \in DOMAIN s : w[i] = SumAt(Amount, OfKey(V, s[i].key) \X C)

(* What the lines of a summary add up to is what the rows do.              *)
LEMMA LinesAddUp ==
    ASSUME Ledger, NEW W \in SUBSET DOMAIN rows, NEW s, SummaryOf(s, W),
           NEW V \in SUBSET W, NEW C \in SUBSET Reports!Cost,
           NEW w, KeySums(w, s, V, C)
    PROVE  SumAt(w, DOMAIN s) = SumAt(Amount, V \X C)
<1> DEFINE U == V \X C
           p == [cell \in U |-> CHOOSE i \in DOMAIN s : s[i].key = rows[cell[1]].key]
<1>1. \A x \in U : x[1] \in V /\ x[2] \in C /\ x = <<x[1], x[2]>>
  OBVIOUS
<1>2. \A x \in U : p[x] \in DOMAIN s /\ s[p[x]].key = rows[x[1]].key
  <2> SUFFICES ASSUME NEW x \in U
               PROVE  p[x] \in DOMAIN s /\ s[p[x]].key = rows[x[1]].key
    OBVIOUS
  <2>1. rows[x[1]].key \in KeysOf(W)
    BY <1>1 DEF KeysOf
  <2>2. \E i \in DOMAIN s : s[i].key = rows[x[1]].key
    BY <2>1 DEF SummaryOf
  <2>3. p[x] = CHOOSE i \in DOMAIN s : s[i].key = rows[x[1]].key
    OBVIOUS
  <2> HIDE DEF p
  <2> QED BY <2>2, <2>3
<1> HIDE DEF p
<1>3. ASSUME NEW t \in DOMAIN s
      PROVE  {x \in U : p[x] = t} = OfKey(V, s[t].key) \X C
  <2>1. \A x \in U : p[x] = t <=> rows[x[1]].key = s[t].key
    BY <1>2 DEF SummaryOf
  <2>2. {x \in U : p[x] = t} = {x \in U : rows[x[1]].key = s[t].key}
    BY <2>1
  <2>3. {x \in U : rows[x[1]].key = s[t].key} = OfKey(V, s[t].key) \X C
    BY DEF OfKey
  <2> QED BY <2>2, <2>3
<1>4. \A t \in DOMAIN s : w[t] = SumAt(Amount, {x \in U : p[x] = t})
  BY <1>3 DEF KeySums
<1>5. U \in SUBSET Cells
  BY DEF Cells
<1>6. IsFiniteSet(DOMAIN s)
  BY FS_Interval DEF SummaryOf
<1> HIDE DEF U
<1>7. \A x \in U : p[x] \in DOMAIN s
  BY <1>2
<1>8. IsFiniteSet(Cells) /\ Amount \in [Cells -> Int]
  BY AmountIs
<1>9. GroupSums(w, Amount, U, p, DOMAIN s)
  BY <1>4, <1>7 DEF GroupSums
<1>10. SumAt(w, DOMAIN s) = SumAt(Amount, U)
  BY <1>5, <1>6, <1>8, <1>9, SumOfGroups
<1> QED BY <1>10 DEF U

LEMMA InvoiceAddsUp ==
    ASSUME Ledger, NEW since, NEW customer
    PROVE  LineSums(Reports!Invoice(since, customer), Where(since, customer))
<1> DEFINE W == Where(since, customer)
           s == Reports!Summary(since, customer)
<1>1. W \in SUBSET DOMAIN rows /\ SummaryOf(s, W) /\ Guessed(W) \in SUBSET W
  BY SummaryIs DEF Guessed
<1> HIDE DEF W
<1>2. PICK n \in Nat : DOMAIN s = 1..n
  BY <1>1 DEF SummaryOf
<1>3. \A i \in DOMAIN s : /\ s[i].calls \in Int /\ LineSums(s[i], OfKey(W, s[i].key))
                        /\ OfKey(W, s[i].key) \in SUBSET DOMAIN rows
  <2> HIDE DEF s
  <2>1. \A i \in DOMAIN s : s[i].key \in KeysOf(W) /\ s[i] = LineOf(W, s[i].key)
    BY <1>1 DEF SummaryOf
  <2>2. \A k \in KeysOf(W) : LineOf(W, k).calls \in Int /\ LineSums(LineOf(W, k), OfKey(W, k))
    BY <1>1, RollupIs
  <2>3. \A k : OfKey(W, k) \in SUBSET DOMAIN rows
    BY <1>1 DEF OfKey
  <2> QED BY <2>1, <2>2, <2>3
<1>4. /\ {"prompt"} \in SUBSET Reports!Cost /\ {"completion"} \in SUBSET Reports!Cost
      /\ Reports!Cost \in SUBSET Reports!Cost
  BY DEF Reports!Cost
<1>5. \A G \in SUBSET DOMAIN rows :
          /\ SumAt(Amount, G \X {"prompt"}) \in Int
          /\ SumAt(Amount, G \X {"completion"}) \in Int
          /\ SumAt(Amount, Guessed(G) \X Reports!Cost) \in Int
  <2> TAKE G \in SUBSET DOMAIN rows
  <2>1. /\ G \X {"prompt"} \in SUBSET Cells /\ G \X {"completion"} \in SUBSET Cells
        /\ Guessed(G) \X Reports!Cost \in SUBSET Cells
    BY DEF Cells, Guessed, Reports!Cost
  <2> QED BY <2>1, AmountIs, SumRules
<1> HIDE DEF s
<1>6. NumberLines(s, n)
  <2>1. \A i \in 1..n : s[i].prompt \in Int /\ s[i].completion \in Int /\ s[i].estimated \in Int
    <3> SUFFICES ASSUME NEW i \in DOMAIN s, NEW G \in SUBSET DOMAIN rows, LineSums(s[i], G)
                 PROVE  s[i].prompt \in Int /\ s[i].completion \in Int /\ s[i].estimated \in Int
      BY <1>2, <1>3
    <3> QED BY <1>5 DEF LineSums
  <2>2. \A i \in 1..n : s[i].calls \in Int
    BY <1>2, <1>3
  <2> QED BY <1>2, <2>1, <2>2 DEF NumberLines
<1>7. Reports!Invoice(since, customer) = Sums(s, DOMAIN s)
  BY <1>2, <1>6, InvoiceIs DEF s
<1>8. SumAt(Column(s, "prompt"), DOMAIN s) = SumAt(Amount, W \X {"prompt"})
  <2>1. KeySums(Column(s, "prompt"), s, W, {"prompt"})
    BY <1>3 DEF KeySums, Column, LineSums
  <2>2. W \in SUBSET W
    OBVIOUS
  <2> QED BY <1>1, <1>4, <2>1, <2>2, LinesAddUp
<1>9. SumAt(Column(s, "completion"), DOMAIN s) = SumAt(Amount, W \X {"completion"})
  <2>1. KeySums(Column(s, "completion"), s, W, {"completion"})
    BY <1>3 DEF KeySums, Column, LineSums
  <2>2. W \in SUBSET W
    OBVIOUS
  <2> QED BY <1>1, <1>4, <2>1, <2>2, LinesAddUp
<1>10. SumAt(Column(s, "estimated"), DOMAIN s) = SumAt(Amount, Guessed(W) \X Reports!Cost)
  <2>1. \A k : Guessed(OfKey(W, k)) = OfKey(Guessed(W), k)
    BY DEF Guessed, OfKey
  <2>2. KeySums(Column(s, "estimated"), s, Guessed(W), Reports!Cost)
    BY <1>3, <2>1 DEF KeySums, Column, LineSums
  <2> QED BY <1>1, <1>4, <2>2, LinesAddUp
<1> QED BY <1>7, <1>8, <1>9, <1>10 DEF LineSums, Sums, W

-----------------------------------------------------------------------------
(* Quotas *)

KeysOwned(customer) == {k \in DOMAIN Owner : Owner[k] = customer}
OwnedRows(since, customer) == {i \in Reports!Since(since) : rows[i].customer = customer}
Counted(since, customer) ==
    Reports!MapThenSumSet(LAMBDA k : Reports!TokensSinceKey(k, since), KeysOwned(customer))

LEMMA TokensAre ==
    ASSUME Ledger, NEW since, NEW k
    PROVE  /\ OfKey(Reports!Since(since), k) \in SUBSET DOMAIN rows
           /\ Reports!TokensSinceKey(k, since)
                 = SumAt(Amount, OfKey(Reports!Since(since), k) \X Reports!Cost)
<1> DEFINE W == OfKey(Reports!Since(since), k)
<1>1. W \in SUBSET DOMAIN rows
  BY DEF OfKey, Reports!Since
<1>2. Reports!TokensSinceKey(k, since) = Reports!SumOf(Reports!Cost, W)
  BY DEF Reports!TokensSinceKey, OfKey
<1> HIDE DEF W
<1>3. Reports!Cost \in SUBSET Reports!Cost
  OBVIOUS
<1>4. Reports!SumOf(Reports!Cost, W) = SumAt(Amount, W \X Reports!Cost)
  BY <1>1, <1>3, SumOfIs
<1> QED BY <1>1, <1>2, <1>4 DEF W

(* What the keys of a customer have been counted for.                      *)
LEMMA KeysAddUp ==
    ASSUME Ledger, NEW since, NEW customer
    PROVE  Counted(since, customer) = SumAt(Amount, OwnedRows(since, customer) \X Reports!Cost)
<1> DEFINE keys == KeysOwned(customer)
           W == OwnedRows(since, customer)
           w == [k \in keys |-> Reports!TokensSinceKey(k, since)]
           U == W \X Reports!Cost
           p == [cell \in U |-> rows[cell[1]].key]
<1>1. IsFiniteSet(keys)
  <2>1. keys \in SUBSET (DOMAIN Owner) /\ IsFiniteSet(DOMAIN Owner)
    BY KeysAre DEF KeysOwned
  <2> QED BY <2>1, FS_Subset
<1>2. W \in SUBSET DOMAIN rows /\ U \in SUBSET Cells
  BY DEF Cells, OwnedRows, Reports!Since
<1>3. \A x \in U : x[1] \in W /\ x[2] \in Reports!Cost /\ x = <<x[1], x[2]>>
  OBVIOUS
<1>4. \A x \in U : p[x] \in keys
  BY <1>2, <1>3, RowsAre DEF KeysOwned, OwnedRows
<1>5. ASSUME NEW k \in keys
      PROVE  w[k] = SumAt(Amount, {x \in U : p[x] = k})
  <2>1. {x \in U : p[x] = k} = {x \in U : rows[x[1]].key = k}
    OBVIOUS
  <2>2. OfKey(Reports!Since(since), k) = OfKey(W, k)
    BY RowsAre DEF OfKey, KeysOwned, OwnedRows, Reports!Since
  <2>3. {x \in U : rows[x[1]].key = k} = OfKey(W, k) \X Reports!Cost
    BY DEF OfKey
  <2>4. Reports!TokensSinceKey(k, since)
            = SumAt(Amount, OfKey(Reports!Since(since), k) \X Reports!Cost)
    BY TokensAre
  <2>5. w[k] = Reports!TokensSinceKey(k, since)
    OBVIOUS
  <2> HIDE DEF W, U, p, w, keys
  <2> QED BY <2>1, <2>2, <2>3, <2>4, <2>5
<1> DEFINE SumOver(h) == h = [s \in SUBSET keys |->
               IF s = {} THEN 0
               ELSE Reports!TokensSinceKey(CHOOSE x \in s : TRUE, since)
                    + h[s \ {CHOOSE x \in s : TRUE}]]
<1>6. GroupSums(w, Amount, U, p, keys)
  BY <1>4, <1>5 DEF GroupSums
<1>7. \A h : SumOver(h) <=> AddsUp(w, h, keys)
  <2> TAKE h
  <2>1. \A s \in SUBSET keys : s # {} =>
            w[Pick(s)] = Reports!TokensSinceKey(CHOOSE x \in s : TRUE, since)
    BY DEF Pick
  <2> HIDE DEF w, keys
  <2>2. \A s \in SUBSET keys :
            (IF s = {} THEN 0
             ELSE Reports!TokensSinceKey(CHOOSE x \in s : TRUE, since)
                  + h[s \ {CHOOSE x \in s : TRUE}])
            = IF s = {} THEN 0 ELSE w[Pick(s)] + h[s \ {Pick(s)}]
    BY <2>1 DEF Pick
  <2> QED BY <2>2 DEF AddsUp
<1> HIDE DEF w, U, p
<1>8. \E h : SumOver(h)
  <2>1. PICK h : AddsUp(w, h, keys)
    BY <1>1, AddsUpExists
  <2>2. SumOver(h)
    BY ONLY <1>7, <2>1
  <2> QED BY ONLY <2>2
<1>9. PICK h : SumOver(h)
          /\ Counted(since, customer) = h[keys]
  BY ONLY <1>8 DEF Counted, Reports!MapThenSumSet, Reports!MapThenFoldSet
<1>10. AddsUp(w, h, keys)
  BY <1>7, <1>9
<1> HIDE DEF keys, SumOver
<1>11. keys \in SUBSET keys
  OBVIOUS
<1>12. SumAt(w, keys) = h[keys]
  BY <1>1, <1>10, <1>11, SumAtIs
<1>13. SumAt(w, keys) = SumAt(Amount, U)
  BY <1>1, <1>2, <1>6, AmountIs, SumOfGroups
<1> QED BY <1>9, <1>12, <1>13 DEF keys, U

(* What a key is shown is what its quota is checked against.               *)
LEMMA RouteAgrees ==
    ASSUME Ledger, NEW now, NEW k
    PROVE  /\ Reports!UsageRoute(k, now).total
                 = Reports!TokensSinceKey(k, Reports!MonthStart(now))
           /\ Reports!UsageRoute(k, now).estimated <= Reports!UsageRoute(k, now).total
<1> DEFINE since == Reports!MonthStart(now)
           W == Where(since, "")
           s == Reports!Summary(since, "")
           I == {i \in 1..Len(s) : s[i].key = k}
           first == Reports!SelectInSeq(s, LAMBDA line : line.key = k)
           G == OfKey(W, k)
           route == Reports!UsageRoute(k, now)
<1>1. W \in SUBSET DOMAIN rows /\ SummaryOf(s, W)
  BY SummaryIs
<1>2. Reports!TokensSinceKey(k, since) = SumAt(Amount, G \X Reports!Cost)
  <2>1. W = Reports!Since(since)
    BY DEF Where
  <2> HIDE DEF W
  <2> QED BY <2>1, TokensAre
<1>3. first = IF I # {} THEN Reports!Min(I) ELSE 0
  BY DEF Reports!SelectInSeq
<1>4. /\ first = 0 => route = [calls |-> 0, total |-> 0, estimated |-> 0]
      /\ first # 0 => route = [calls |-> s[first].calls, total |-> Reports!Total(s[first]),
                              estimated |-> s[first].estimated]
  BY DEF Reports!UsageRoute
<1> HIDE DEF since, W, s, first, G, route
<1>5. DOMAIN s = 1..Len(s) /\ Len(s) \in Nat
  BY <1>1 DEF SummaryOf
<1>6. CASE I = {}
  <2>1. \A i \in DOMAIN s : s[i].key # k
    BY <1>5, <1>6
  <2>2. k \notin KeysOf(W)
    BY <1>1, <2>1 DEF SummaryOf
  <2>3. G = {}
    BY <2>2 DEF G, OfKey, KeysOf
  <2>4. G \X Reports!Cost = {}
    BY <2>3
  <2>5. SumAt(Amount, {}) = 0
    <3>1. {} \in SUBSET Cells
      OBVIOUS
    <3> QED BY <3>1, AmountIs, SumRules
  <2>6. route = [calls |-> 0, total |-> 0, estimated |-> 0]
    BY <1>3, <1>4, <1>6
  <2>7. route.total = 0 /\ route.estimated = 0
    BY <2>6
  <2> QED BY <1>2, <2>4, <2>5, <2>7 DEF route, since
<1>7. CASE I # {}
  <2>1. PICK i \in DOMAIN s : s[i].key = k /\ I = {i} /\ i \in 1..Len(s)
    BY <1>1, <1>5, <1>7 DEF SummaryOf
  <2>2. first = i /\ i # 0
    <3>1. Reports!Min({i}) = i
      BY <1>5, <2>1 DEF Reports!Min
    <3>2. i # 0
      BY <1>5, <2>1
    <3> HIDE DEF I
    <3>3. first = i
      BY <1>3, <1>7, <2>1, <3>1
    <3> QED BY <3>2, <3>3
  <2>3. k \in KeysOf(W) /\ s[i] = LineOf(W, k)
    BY <1>1, <2>1 DEF SummaryOf
  <2>4. LineSums(s[i], G) /\ Reports!Total(s[i]) = SumAt(Amount, G \X Reports!Cost)
    BY <1>1, <2>3, RollupIs DEF G
  <2>5. G \in SUBSET DOMAIN rows
    BY <1>1 DEF G, OfKey
  <2>6. SumAt(Amount, Guessed(G) \X Reports!Cost) <= SumAt(Amount, G \X Reports!Cost)
    BY <2>5, BothColumns
  <2>7. route.total = Reports!Total(s[i]) /\ route.estimated = s[i].estimated
    BY <1>4, <2>2
  <2>8. s[i].estimated = SumAt(Amount, Guessed(G) \X Reports!Cost)
    BY <2>4 DEF LineSums
  <2>9. route.total = Reports!TokensSinceKey(k, since) /\ route.estimated <= route.total
    BY <1>2, <2>4, <2>6, <2>7, <2>8
  <2> QED BY <2>9 DEF route, since
<1> QED BY <1>6, <1>7

(* The three readings of a ledger agree.                                   *)
LEMMA LedgerAgrees ==
    ASSUME Ledger
    PROVE  Reports!InvoiceAgrees
<1> SUFFICES ASSUME NEW now,
                    NEW since, since = Reports!MonthStart(now)
             PROVE  /\ \A k \in DOMAIN Owner :
                          /\ Reports!UsageRoute(k, now).total = Reports!TokensSinceKey(k, since)
                          /\ Reports!UsageRoute(k, now).estimated <= Reports!UsageRoute(k, now).total
                    /\ \A customer \in Reports!Range(Owner) :
                          LET invoice == Reports!Invoice(since, customer)
                              keys    == {k \in DOMAIN Owner : Owner[k] = customer}
                          IN  /\ Reports!Total(invoice) = Reports!TokensSinceCustomer(customer, since)
                              /\ Reports!Total(invoice) =
                                    Reports!MapThenSumSet(LAMBDA k : Reports!TokensSinceKey(k, since), keys)
                              /\ invoice.estimated = Reports!SumOf(Reports!Cost,
                                    {i \in Reports!Since(since) :
                                        rows[i].customer = customer /\ ~rows[i].exact})
  BY DEF Reports!InvoiceAgrees
<1>1. ASSUME NEW k \in DOMAIN Owner
      PROVE  /\ Reports!UsageRoute(k, now).total = Reports!TokensSinceKey(k, since)
             /\ Reports!UsageRoute(k, now).estimated <= Reports!UsageRoute(k, now).total
  BY RouteAgrees
<1>2. ASSUME NEW customer \in Reports!Range(Owner)
      PROVE  /\ Reports!Total(Reports!Invoice(since, customer))
                    = Reports!TokensSinceCustomer(customer, since)
             /\ Reports!Total(Reports!Invoice(since, customer))
                    = Reports!MapThenSumSet(LAMBDA k : Reports!TokensSinceKey(k, since),
                          {k \in DOMAIN Owner : Owner[k] = customer})
             /\ Reports!Invoice(since, customer).estimated = Reports!SumOf(Reports!Cost,
                    {i \in Reports!Since(since) :
                        rows[i].customer = customer /\ ~rows[i].exact})
  <2> DEFINE W == {i \in Reports!Since(since) : rows[i].customer = customer}
             invoice == Reports!Invoice(since, customer)
  <2>1. customer # ""
    BY PartsAssumption DEF Reports!UsageAssumption
  <2>2. Where(since, customer) = W /\ W \in SUBSET DOMAIN rows
        /\ Guessed(W) \in SUBSET DOMAIN rows
    BY <2>1 DEF Where, Reports!Since, Guessed
  <2>3. Guessed(W) = {i \in Reports!Since(since) : rows[i].customer = customer /\ ~rows[i].exact}
    BY DEF Guessed
  <2>4. Reports!TokensSinceCustomer(customer, since) = Reports!SumOf(Reports!Cost, W)
    BY DEF Reports!TokensSinceCustomer
  <2>5. Counted(since, customer) = SumAt(Amount, W \X Reports!Cost)
    BY KeysAddUp DEF OwnedRows
  <2> HIDE DEF W
  <2>6. LineSums(invoice, W)
    BY <2>2, InvoiceAddsUp
  <2> HIDE DEF invoice
  <2>7. Reports!Total(invoice) = SumAt(Amount, W \X Reports!Cost)
    BY <2>2, <2>6, BothColumns DEF LineSums, Reports!Total
  <2>8. Reports!Cost \in SUBSET Reports!Cost
    OBVIOUS
  <2>9. /\ Reports!SumOf(Reports!Cost, W) = SumAt(Amount, W \X Reports!Cost)
        /\ Reports!SumOf(Reports!Cost, Guessed(W)) = SumAt(Amount, Guessed(W) \X Reports!Cost)
    BY <2>2, <2>8, SumOfIs
  <2>10. /\ Reports!Total(invoice) = Reports!TokensSinceCustomer(customer, since)
         /\ invoice.estimated = Reports!SumOf(Reports!Cost, Guessed(W))
    BY <2>4, <2>6, <2>7, <2>9 DEF LineSums
  <2>11. Reports!Total(invoice)
            = Reports!MapThenSumSet(LAMBDA k : Reports!TokensSinceKey(k, since),
                  {k \in DOMAIN Owner : Owner[k] = customer})
    BY <2>5, <2>7 DEF Counted, KeysOwned
  <2> QED BY <2>3, <2>10, <2>11 DEF invoice
<1> QED BY <1>1, <1>2

-----------------------------------------------------------------------------
(* The parts together *)

LEMMA AttributedHolds == MCSpec => []Keyring!AttributedToOwner
<1>1. MCInit => Filed
  BY DEF MCInit, Keyring!Init, Filed, RowsFit
<1>2. Filed /\ [MCNext]_<<part, vars, input, rows, tenancyVars, sweepVars>> => Filed'
  <2>1. Filed /\ UNCHANGED tenancyVars => Filed'
    BY DEF Filed, tenancyVars
  <2>2. Filed /\ Keyring!Next => Filed'
    BY FiledStep
  <2>3. MCNext => UNCHANGED tenancyVars \/ Keyring!Next
    BY DEF MCNext
  <2>4. UNCHANGED <<part, vars, input, rows, tenancyVars, sweepVars>> => UNCHANGED tenancyVars
    OBVIOUS
  <2> QED BY <2>1, <2>2, <2>3, <2>4
<1> QED BY <1>1, <1>2, FiledMeans, PTL DEF MCSpec

LEMMA ReportsHold == MCSpec => []Reports!InvoiceAgrees
<1> DEFINE Kept == rows = Reports!NoRows \/ Ledger
<1>1. MCInit => Kept
  BY DEF MCInit, Ledger
<1>2. Kept /\ [MCNext]_<<part, vars, input, rows, tenancyVars, sweepVars>> => Kept'
  <2>1. [MCNext]_<<part, vars, input, rows, tenancyVars, sweepVars>> => rows' = rows
    BY DEF MCNext
  <2> QED BY <2>1 DEF Ledger, Reports!Ledgers
<1>3. Kept => Reports!InvoiceAgrees
  <2>1. rows = Reports!NoRows => Reports!InvoiceAgrees
    BY DEF Reports!InvoiceAgrees
  <2> QED BY <2>1, LedgerAgrees
<1> QED BY <1>1, <1>2, <1>3, PTL DEF MCSpec

(* Of the key store: every credential is charged to the customer it was    *)
(* handed to.  Of every ledger, at any moment: a key is shown the tokens   *)
(* its quota is checked against, and no more of them estimated; an invoice *)
(* has the customer's tokens, which are those its keys were counted for,   *)
(* and discloses as estimated what no engine reported.                     *)
THEOREM InvoicesAreRight == MCSpec => []InvoicedToOwner
BY AttributedHolds, ReportsHold, PTL DEF InvoicedToOwner

=============================================================================
