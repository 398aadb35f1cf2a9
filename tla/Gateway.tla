------------------------------- MODULE Gateway -------------------------------
(***************************************************************************)
(* The metered LLM gateway: the bearer check and the quota of              *)
(* serving/app.py, the key store of tenancy.py, the ledger of usage.py and *)
(* the reverse proxy of llm_proxy.py.  The check runs on a thread of the   *)
(* pool, the proxy on the event loop, the operator's command line in       *)
(* another process; the database takes one statement at a time.            *)
(*                                                                         *)
(* Rows are kept as what is read of them: calls and tokens by key and      *)
(* month.  How the tokens of a response are counted is in Metering.        *)
(***************************************************************************)
EXTENDS Integers, FiniteSets, Functions

CONSTANTS
    Callers,   \* connections that are open at once; each makes calls in turn
    Keys,      \* API keys that may be minted; "legacy" is the shared token
    Limited,   \* the keys that have a monthly_token_quota
    Quota,     \* that quota
    MaxCost,   \* bound: tokens of one call
    MaxCalls,  \* bound: calls of one caller
    Months     \* bound: months the gateway runs for

ASSUME GatewayAssumption ==
    /\ IsFiniteSet(Callers)
    /\ "legacy" \in Keys \ Limited
    /\ Limited \subseteq Keys
    /\ Quota \in Nat /\ MaxCost \in Nat \ {0} /\ MaxCalls \in Nat /\ Months \in Nat \ {0}

VARIABLES
    live,     \* keys in the table without revoked_at
    revoked,  \* keys with revoked_at
    month,    \* the month of the clock
    ledger,   \* [Keys -> [1..Months -> [calls, tokens]]]
    call,     \* [Callers -> the call under way]
    made,     \* history: [Callers -> calls made]
    used,     \* history: [Keys -> tokens the meter had read when calls ended]
    lost      \* history: [Keys -> those of them that no row tells of]

vars == <<live, revoked, month, ledger, call, made, used, lost>>

Idle == [at |-> "idle"]

Places == {"quota", "sending", "streaming", "closing"}

(* Every variable keeps its type; a key is not both live and revoked.      *)
TypeOK ==
    /\ live \subseteq Keys /\ revoked \subseteq Keys /\ live \cap revoked = {}
    /\ month \in 1..Months
    /\ ledger \in [Keys -> [1..Months -> [calls : Nat, tokens : Nat]]]
    /\ \A c \in Callers : call[c] = Idle \/
          call[c] \in [at : Places, key : Keys, deltas : 0..MaxCost, usage : -1..MaxCost]
    /\ made \in [Callers -> 0..MaxCalls]
    /\ used \in [Keys -> Nat] /\ lost \in [Keys -> Nat]

Ends(c) == call' = [call EXCEPT ![c] = Idle]

-----------------------------------------------------------------------------
(* KeyStore, from the command line *)

Create(k) ==
    /\ k \notin live \cup revoked
    /\ live' = live \cup {k}
    /\ UNCHANGED <<revoked, month, ledger, call, made, used, lost>>

(* A tombstone: the rows of the key stay.                                  *)
Revoke(k) ==
    /\ k \in live \ {"legacy"}
    /\ live' = live \ {k} /\ revoked' = revoked \cup {k}
    /\ UNCHANGED <<month, ledger, call, made, used, lost>>

(* A month begins, for month_start and for the rows written from now on.   *)
MonthTurns ==
    /\ month < Months
    /\ month' = month + 1
    /\ UNCHANGED <<live, revoked, ledger, call, made, used, lost>>

-----------------------------------------------------------------------------
(* _require_api_token, on a thread of the pool *)

(* A key that is malformed, unknown, revoked or wrong is a 401.            *)
Authenticate(k) == k \in live

(* The credential is a key of the store, or the shared token.              *)
Resolve(c, k) ==
    /\ call[c] = Idle /\ made[c] < MaxCalls
    /\ Authenticate(k)
    /\ made' = [made EXCEPT ![c] = @ + 1]
    /\ call' = [call EXCEPT ![c] = [at |-> "quota", key |-> k, deltas |-> 0, usage |-> -1]]
    /\ UNCHANGED <<live, revoked, month, ledger, used, lost>>

TokensSince(k) == ledger[k][month].tokens

(* Mutant: a quota that is exactly spent lets another call through.        *)
ExhaustedLate(k) == k \in Limited /\ TokensSince(k) > Quota

Exhausted(k) == k \in Limited /\ TokensSince(k) >= Quota

CheckQuota(c) ==
    /\ call[c].at = "quota"
    /\ IF Exhausted(call[c].key) THEN Ends(c)
       ELSE call' = [call EXCEPT ![c].at = "sending"]
    /\ UNCHANGED <<live, revoked, month, ledger, made, used, lost>>

-----------------------------------------------------------------------------
(* _proxy_post_stream, on the event loop *)

(* _record_call through UsageLedger.record: one more row.                  *)
Record(k, tokens) ==
    ledger' = [ledger EXCEPT ![k][month] =
                  [calls |-> @.calls + 1, tokens |-> @.tokens + tokens]]

(* The upstream cannot be reached, or answers with an error: a row of no   *)
(* tokens.                                                                 *)
SendFails(c) ==
    /\ call[c].at = "sending"
    /\ Record(call[c].key, 0)
    /\ Ends(c)
    /\ UNCHANGED <<live, revoked, month, made, used, lost>>

SendSucceeds(c) ==
    /\ call[c].at = "sending"
    /\ call' = [call EXCEPT ![c].at = "streaming"]
    /\ UNCHANGED <<live, revoked, month, ledger, made, used, lost>>

(* The meter reads a delta, or the engine's own count.                     *)
Feed(c) ==
    /\ call[c].at = "streaming"
    /\ \/ /\ call[c].deltas < MaxCost
          /\ call' = [call EXCEPT ![c].deltas = @ + 1]
       \/ \E n \in 0..MaxCost : call' = [call EXCEPT ![c].usage = n]
    /\ UNCHANGED <<live, revoked, month, ledger, made, used, lost>>

(* ResponseMeter.usage *)
Usage(c) == IF call[c].usage # -1 THEN call[c].usage ELSE call[c].deltas

(* The response is over, the upstream breaks off, or the client hangs up.  *)
StreamEnds(c) ==
    /\ call[c].at = "streaming"
    /\ call' = [call EXCEPT ![c].at = "closing"]
    /\ used' = [used EXCEPT ![call[c].key] = @ + Usage(c)]
    /\ UNCHANGED <<live, revoked, month, ledger, made, lost>>

(* Mutant: a call is reported where its stream ends, and again in finally. *)
EmitTwice(c) ==
    /\ call[c].at = "closing"
    /\ ledger' = [ledger EXCEPT ![call[c].key][month] =
                     [calls |-> @.calls + 2, tokens |-> @.tokens + 2 * Usage(c)]]
    /\ Ends(c)
    /\ UNCHANGED <<live, revoked, month, made, used, lost>>

(* finally: the upstream has been closed; finish() changes nothing that    *)
(* was read; the row is written.                                           *)
Emit(c) ==
    /\ call[c].at = "closing"
    /\ Record(call[c].key, Usage(c))
    /\ Ends(c)
    /\ UNCHANGED <<live, revoked, month, made, used, lost>>

(* Nothing is written of the call.                                         *)
Loses(c) ==
    /\ lost' = [lost EXCEPT ![call[c].key] = @ + Usage(c)]
    /\ Ends(c)
    /\ UNCHANGED <<live, revoked, month, ledger, made, used>>

(* The await in front of the row is cancelled with the handler.            *)
EmitCancelled(c) == call[c].at = "closing" /\ Loses(c)

(* A sink raises, which _emit only logs: that of the ledger, or one that   *)
(* was there before attach_call_sink chained it.                           *)
SinkRaises(c) == call[c].at = "closing" /\ Loses(c)

-----------------------------------------------------------------------------

Init ==
    /\ live = {"legacy"} /\ revoked = {}
    /\ month = 1
    /\ ledger = [k \in Keys |-> [m \in 1..Months |-> [calls |-> 0, tokens |-> 0]]]
    /\ call = [c \in Callers |-> Idle]
    /\ made = [c \in Callers |-> 0]
    /\ used = [k \in Keys |-> 0] /\ lost = [k \in Keys |-> 0]

Serve(c) ==
    \/ \E k \in Keys : Resolve(c, k)
    \/ CheckQuota(c) \/ SendFails(c) \/ SendSucceeds(c) \/ Feed(c)
    \/ StreamEnds(c) \/ Emit(c) \/ EmitCancelled(c) \/ SinkRaises(c)

Next ==
    \/ \E k \in Keys : Create(k) \/ Revoke(k)
    \/ MonthTurns
    \/ \E c \in Callers : Serve(c)

Spec == Init /\ [][Next]_vars

-----------------------------------------------------------------------------
(* Properties *)

(* However the calls of its connections overlap, and whenever the month    *)
(* turns, a key is billed less in a month than its quota and one call more *)
(* for every connection: the check reads what is billed, and calls under   *)
(* way are not.                                                            *)
OvershootBounded ==
    \A k \in Limited, m \in 1..Months :
        ledger[k][m].tokens # 0 =>
            ledger[k][m].tokens < Quota + Cardinality(Callers) * MaxCost

Total(f) == FoldFunction(+, 0, f)

Billed(k) == Total([m \in 1..Months |-> ledger[k][m].tokens])

UnderWay(k) ==
    Total([c \in Callers |->
        IF call[c].at = "closing" /\ call[c].key = k THEN Usage(c) ELSE 0])

(* What the meter read is billed, to the key that made the call, and once: *)
(* rows, calls whose row is yet to be written and lost rows add up to it.  *)
BillsBalance ==
    \A k \in Keys : Billed(k) + UnderWay(k) + lost[k] = used[k]

=============================================================================
