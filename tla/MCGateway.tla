------------------------------ MODULE MCGateway ------------------------------
(***************************************************************************)
(* Instances of Gateway for TLC, and of its parts: the key store that      *)
(* Tenancy has in detail, and the computations of Metering and of Usage,   *)
(* every input of whose bounds is an initial state without a successor.    *)
(* BestOfN is a client of such a gateway, or of the server behind it.  The *)
(* parts share nothing: a behaviour is one of a part, the others at rest.  *)
(***************************************************************************)
EXTENDS Gateway, Metering, BestOfN, TLC

CONSTANTS Ids, Secrets, Customers, Guesses, MaxKeys, Owner, Month, Moments, Costs, MaxRows

VARIABLES
    part,                     \* what the behaviour is of
    deployed, table, handed,  \* Tenancy
    rows                      \* Usage

tenancyVars == <<deployed, table, handed>>

Keyring == INSTANCE Tenancy
Reports == INSTANCE Usage

ASSUME PartsAssumption == Keyring!TenancyAssumption /\ Reports!UsageAssumption

Symmetry == Permutations(Callers)

MCSecrets == {<<"a">>, <<"_", "a">>, <<"a", "_">>}

\* The shared token may look like a key, and a key may be cut short.
MCGuesses ==
    {<<"t">>, <<"rpc", "_", "i3", "_", "a">>, <<"rpc", "_", "i1", "_">>, <<"rpc", "_", "_", "a">>}

\* Two keys of one customer, and the shared token.
MCOwner == [k \in 0..2 |-> IF k = 0 THEN "legacy" ELSE "acme"]

\* One decision that needs three candidates, two at once that need two.
MCPoints ==
    {[n |-> 3, concurrency |-> 1, fresh |-> f, gate |-> TRUE] : f \in BOOLEAN}
    \cup {[n |-> 2, concurrency |-> 2, fresh |-> TRUE, gate |-> g] : g \in BOOLEAN}

MCCosts == {[prompt |-> 2, completion |-> 1], [prompt |-> 0, completion |-> 3]}

MCInit ==
    /\ part \in {"gateway", "tenancy", "bench", "input"}
    /\ Init
    /\ IF part = "bench" THEN SweepInit ELSE point = (CHOOSE p \in Points : TRUE) /\ SweepInit
    /\ IF part = "tenancy" THEN Keyring!Init ELSE deployed = (CHOOSE d \in Keyring!Deployments : TRUE) /\ Keyring!Init
    /\ \/ part # "input" /\ input = NoInput /\ rows = Reports!NoRows
       \/ part = "input" /\ input \in Inputs /\ rows = Reports!NoRows
       \/ part = "input" /\ input = NoInput /\ rows \in Reports!Ledgers

MCNext ==
    \/ part = "gateway" /\ Next /\ UNCHANGED <<part, input, rows, tenancyVars, sweepVars>>
    \/ part = "tenancy" /\ Keyring!Next /\ UNCHANGED <<part, input, rows, vars, sweepVars>>
    \/ part = "bench" /\ SweepNext /\ UNCHANGED <<part, input, rows, vars, tenancyVars>>

MCSpec == MCInit /\ [][MCNext]_<<part, vars, input, rows, tenancyVars, sweepVars>>

(* Every credential is charged to the customer it was handed to, and what  *)
(* a customer sees, what a quota is checked against and what is invoiced   *)
(* agree.                                                                  *)
InvoicedToOwner == Keyring!AttributedToOwner /\ Reports!InvoiceAgrees

=============================================================================
