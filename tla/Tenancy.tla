------------------------------- MODULE Tenancy -------------------------------
(***************************************************************************)
(* Who a request belongs to: the key store of serving/tenancy.py, the      *)
(* `repercep keys` command that mints and revokes, and how serving/app.py  *)
(* turns a credential into a principal, for HTTP and for the WebSocket.    *)
(*                                                                         *)
(* A credential is a sequence of tokens, "_" among them: a key is "rpc",   *)
(* "_", its id, "_" and a secret, and a secret may have "_" in it.  The    *)
(* hash is one to one: what is stored is the key.                          *)
(***************************************************************************)
EXTENDS Integers, Sequences, FiniteSets, FiniteSetsExt

CONSTANTS
    Ids,        \* what token_hex may draw
    Secrets,    \* what token_urlsafe may draw, as sequences of tokens
    Customers,  \* names an operator gives; "" is refused
    Guesses,    \* other credentials that are presented
    MaxKeys     \* bound: keys minted

NoToken == <<>>
None    == "none"

\* An id has no separator in it and is not Python's None; a secret is not empty.
TenancyAssumption ==
    /\ MaxKeys \in Nat
    /\ "_" \notin Ids /\ None \notin Ids
    /\ \A s \in Secrets : s \in Seq({s[i] : i \in DOMAIN s}) \ {<<>>}

VARIABLES
    deployed,  \* whether there is a key_store, and the api_token
    table,     \* api_keys: [id -> row], the ids of the rows its domain
    handed     \* history: what create returned, with the customer it was for

vars == <<deployed, table, handed>>

-----------------------------------------------------------------------------
(* Keys *)

MintKey(id, secret) == <<"rpc", "_", id, "_">> \o secret

Bars(key) == {i \in DOMAIN key : key[i] = "_"}

(* Mutant: split("_"), which must yield three parts.                       *)
ParseShredded(key) ==
    IF Cardinality(Bars(key)) # 2 THEN None
    ELSE LET a == Min(Bars(key))  b == Max(Bars(key))
         IN  IF SubSeq(key, 1, a - 1) = <<"rpc">> /\ b = a + 2 /\ b < Len(key)
             THEN key[a + 1] ELSE None

(* split("_", 2): the prefix, the id, and the rest, no part empty.         *)
ParseKeyId(key) ==
    IF Cardinality(Bars(key)) < 2 THEN None
    ELSE LET a == Min(Bars(key))  b == Min(Bars(key) \ {a})
         IN  IF SubSeq(key, 1, a - 1) = <<"rpc">> /\ b = a + 2 /\ b < Len(key)
             THEN key[a + 1] ELSE None

(* A key that is malformed, unknown, revoked or has another secret is the  *)
(* same to the caller.                                                     *)
Authenticate(key) ==
    LET id == ParseKeyId(key)
    IN  IF id \in DOMAIN table /\ ~table[id].revoked /\ table[id].key = key
        THEN id ELSE None

-----------------------------------------------------------------------------
(* `repercep keys` *)

(* key_id is the primary key: an id that was drawn before raises, and the  *)
(* command fails.                                                          *)
Insert(id, row) ==
    /\ id \notin DOMAIN table
    /\ table' = [i \in DOMAIN table \cup {id} |-> IF i = id THEN row ELSE table[i]]

Create(customer) ==
    /\ deployed.store /\ Cardinality(handed) < MaxKeys
    /\ customer # ""
    /\ \E id \in Ids, secret \in Secrets :
          /\ Insert(id, [key |-> MintKey(id, secret), customer |-> customer, revoked |-> FALSE])
          /\ handed' = handed \cup {[key |-> MintKey(id, secret), customer |-> customer]}
    /\ UNCHANGED deployed

(* A tombstone; a second revocation, or one of an unknown key, says so.    *)
Revoke(id) ==
    /\ id \in DOMAIN table /\ ~table[id].revoked
    /\ table' = [table EXCEPT ![id].revoked = TRUE]
    /\ UNCHANGED <<deployed, handed>>

\* customer "" is no filter.
ListKeys(customer, includeRevoked) ==
    {id \in DOMAIN table :
        /\ customer = "" \/ table[id].customer = customer
        /\ includeRevoked \/ ~table[id].revoked}

-----------------------------------------------------------------------------
(* The gateway *)

Unauthenticated == [kind |-> "rejected", customer |-> ""]

(* What a bearer credential stands for: a key of the store before the      *)
(* shared token, so that traffic is attributed where it can be.            *)
Resolve(bearer) ==
    IF ~deployed.store /\ deployed.token = NoToken
    THEN [kind |-> "anonymous", customer |-> "anonymous"]
    ELSE IF deployed.store /\ bearer # NoToken /\ Authenticate(bearer) # None
    THEN [kind |-> "key", customer |-> table[Authenticate(bearer)].customer]
    ELSE IF deployed.token # NoToken /\ bearer = deployed.token
    THEN [kind |-> "legacy", customer |-> "legacy"]
    ELSE Unauthenticated

(* Authorization must begin with "Bearer ".                                *)
RequireApiToken(scheme, credential) ==
    Resolve(IF scheme = "bearer" THEN credential ELSE NoToken)

(* The WebSocket: ?token= hides the header, and an open deployment does    *)
(* not look at all.                                                        *)
WorldSessionAuth(param, scheme, credential) ==
    IF deployed.store \/ deployed.token # NoToken
    THEN IF param # NoToken THEN Resolve(param) ELSE RequireApiToken(scheme, credential)
    ELSE [kind |-> "anonymous", customer |-> "anonymous"]

(* create_app_from_config: the database file, the shared token.            *)
Deployments ==
    [store : BOOLEAN, token : {NoToken} \cup Guesses]

Init ==
    /\ deployed \in Deployments
    /\ table = << >>
    /\ handed = {}

Next == (\E c \in Customers : Create(c)) \/ (\E id \in Ids : Revoke(id))

Spec == Init /\ [][Next]_vars

-----------------------------------------------------------------------------
(* Properties *)

Presented ==
    {MintKey(id, s) : id \in Ids, s \in Secrets} \cup Guesses

(* Every credential, however it is presented, is charged to the customer   *)
(* it was handed to, and to nobody once it is revoked, whatever ids the    *)
(* generator draws again and whatever the secret looks like; the keys that *)
(* are accepted are those `keys list --active` shows.                      *)
AttributedToOwner ==
    deployed.store =>
        \A key \in Presented :
            LET who  == RequireApiToken("bearer", key)
                mine == {h \in handed : h.key = key}
            IN  /\ who = WorldSessionAuth(key, "none", NoToken)
                /\ who.kind = "key" =>
                      \E h \in mine : /\ h.customer = who.customer
                                      /\ ParseKeyId(key) \in ListKeys(h.customer, FALSE)
                /\ mine # {} /\ who.kind # "key" =>
                      \E id \in DOMAIN table : table[id].key = key /\ table[id].revoked

=============================================================================
