-------------------------------- MODULE Usage --------------------------------
(***************************************************************************)
(* What is read of the usage ledger (serving/usage.py): the quota check    *)
(* and the /v1/usage route of serving/app.py, and the invoice that         *)
(* `repercep usage` prints.  All of them add up the same rows, each in a   *)
(* way of its own.                                                         *)
(*                                                                         *)
(* A timestamp is a number of seconds; ISO strings of one zone and one     *)
(* precision compare as the moments do.  A key is a number, as the order   *)
(* of a report asks for one.                                               *)
(***************************************************************************)
EXTENDS Integers, Sequences, SequencesExt, FiniteSets, FiniteSetsExt

CONSTANTS
    Owner,    \* [keys -> customer], as the key store has it
    Month,    \* seconds of a month
    Moments,  \* bound: the moments of the clock, 0..Moments
    Costs,    \* [prompt, completion] of a call
    MaxRows   \* bound: rows of a ledger

\* An operator gives every customer a name.
UsageAssumption ==
    /\ Month \in Nat \ {0} /\ Moments \in Nat /\ MaxRows \in Nat
    /\ DOMAIN Owner \subseteq Nat /\ IsFiniteSet(DOMAIN Owner) /\ "" \notin Range(Owner)
    /\ Costs \subseteq [prompt : Nat, completion : Nat]

VARIABLE rows  \* usage_events, in the order they were written, or NoRows

NoRows == <<[ts |-> -1]>>
None   == -1

Event(now, key, cost, exact) ==
    [ts |-> now, key |-> key, customer |-> Owner[key],
     prompt |-> cost.prompt, completion |-> cost.completion, exact |-> exact]

Events == {Event(t, k, c, e) : t \in 0..Moments, k \in DOMAIN Owner, c \in Costs, e \in BOOLEAN}

\* Rows are only ever appended, and the clock of the host does not go back.
Ledgers ==
    {r \in UNION {[1..n -> Events] : n \in 0..MaxRows} :
        \A i, j \in DOMAIN r : i <= j => r[i].ts <= r[j].ts}

MonthStart(now) == Month * (now \div Month)

Cost == {"prompt", "completion"}

(* SUM of columns over the rows that a WHERE clause selects.               *)
SumOf(columns, where) ==
    MapThenSumSet(LAMBDA cell : rows[cell[1]][cell[2]], where \X columns)

Since(since) == {i \in DOMAIN rows : rows[i].ts >= since}

TokensSinceKey(key, since) == SumOf(Cost, {i \in Since(since) : rows[i].key = key})

TokensSinceCustomer(customer, since) ==
    SumOf(Cost, {i \in Since(since) : rows[i].customer = customer})

(* One line of a summary: the rows of a key.                               *)
Rollup(group) ==
    LET one == rows[CHOOSE i \in group : TRUE]
    IN  [key |-> one.key, customer |-> one.customer, calls |-> Cardinality(group),
         prompt |-> SumOf({"prompt"}, group), completion |-> SumOf({"completion"}, group),
         estimated |-> SumOf(Cost, {i \in group : ~rows[i].exact})]

Total(line) == line.prompt + line.completion

Heavier(a, b) == Total(a) > Total(b) \/ (Total(a) = Total(b) /\ a.key < b.key)

Ordered(lines) ==
    CHOOSE s \in SetToSeqs(lines) : \A i, j \in DOMAIN s : i < j => Heavier(s[i], s[j])

(* GROUP BY key_id, customer ORDER BY the tokens; customer "" is no filter.*)
Summary(since, customer) ==
    LET where  == {i \in Since(since) : customer = "" \/ rows[i].customer = customer}
        groups == {{i \in where : rows[i].key = rows[j].key /\ rows[i].customer = rows[j].customer} :
                      j \in where}
    IN  Ordered({Rollup(g) : g \in groups})

(* The TOTAL line of `repercep usage`, and the note under it.              *)
Invoice(since, customer) ==
    LET lines == Summary(since, customer)
        add(sum, line) ==
            [calls |-> sum.calls + line.calls, prompt |-> sum.prompt + line.prompt,
             completion |-> sum.completion + line.completion,
             estimated |-> sum.estimated + line.estimated]
    IN  FoldLeft(add, [calls |-> 0, prompt |-> 0, completion |-> 0, estimated |-> 0], lines)

(* /v1/usage: the first line of the caller's key.                          *)
UsageRoute(key, now) ==
    LET lines == Summary(MonthStart(now), "")
        first == SelectInSeq(lines, LAMBDA line : line.key = key)
    IN  IF first = 0 THEN [calls |-> 0, total |-> 0, estimated |-> 0]
        ELSE [calls |-> lines[first].calls, total |-> Total(lines[first]),
              estimated |-> lines[first].estimated]

-----------------------------------------------------------------------------
(* Properties *)

(* The three readings of the ledger agree at any moment and for any mix of *)
(* keys, months and estimates: what a customer sees of a key is what its   *)
(* quota is checked against; what a customer is invoiced for is what its   *)
(* keys, revoked ones included, have been counted for; and the part of an  *)
(* invoice that is disclosed as estimated is the part that no engine       *)
(* reported.                                                               *)
InvoiceAgrees ==
    rows # NoRows =>
        \A now \in (IF rows = << >> THEN 0 ELSE Last(rows).ts)..Moments :
            LET since == MonthStart(now)
            IN  /\ \A k \in DOMAIN Owner :
                      /\ UsageRoute(k, now).total = TokensSinceKey(k, since)
                      /\ UsageRoute(k, now).estimated <= UsageRoute(k, now).total
                /\ \A customer \in Range(Owner) :
                      LET invoice == Invoice(since, customer)
                          keys    == {k \in DOMAIN Owner : Owner[k] = customer}
                      IN  /\ Total(invoice) = TokensSinceCustomer(customer, since)
                          /\ Total(invoice) =
                                MapThenSumSet(LAMBDA k : TokensSinceKey(k, since), keys)
                          /\ invoice.estimated = SumOf(Cost, {i \in Since(since) :
                                rows[i].customer = customer /\ ~rows[i].exact})

=============================================================================
