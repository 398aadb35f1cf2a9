---------------------------- MODULE WorldSessions ----------------------------
(***************************************************************************)
(* Interactive sessions: the WebSocket handler of serving/app.py, which    *)
(* runs on the event loop, and the engines behind it, whose calls run on   *)
(* threads of a pool, any number at once.  LingBot-VA, DreamZero and the   *)
(* VLA engine (models/lingbot_va*.py, dreamzero*.py, vla.py) keep state    *)
(* for every session in the same way; their pipelines differ: LingBot-VA   *)
(* names a cache for every session, DreamZero swaps the state of a session *)
(* in and out of the one model.  Cosmos 3 (cosmos3.py) keeps none.         *)
(* V-JEPA 2-AC is in LatentPlanner.                                        *)
(*                                                                         *)
(* A session id is written as the client that opened it.                   *)
(***************************************************************************)
EXTENDS Integers, Sequences, FiniteSets

CONSTANTS
    Clients,   \* each opens one connection
    Setups,    \* the deployments: which engine, and max_sessions
    Chunk,     \* frame_chunk_size, in latent frames
    MaxSteps   \* bound: actions that a client sends

Engines == {"lingbot", "dreamzero", "vla", "cosmos3"}

ASSUME SessionsAssumption ==
    /\ Setups \subseteq [engine : Engines \cup {"none"}, limit : Nat]
    /\ Chunk \in Nat \ {0} /\ MaxSteps \in Nat

VARIABLES
    setup,     \* the deployment
    conn,      \* [Clients -> where the handler of the connection is]
    active,    \* active_sessions
    opened,    \* clients whose handler has an opened_state
    left,      \* clients that have gone silent for good
    steps,     \* history: [Clients -> actions sent]
    call,      \* [Clients -> where a thread of the pool is in the engine]
    current,   \* _pipeline, as an index of pipes, or 0
    pipes,     \* the _sessions of every pipeline that was ever built
    sessions,  \* the engine's _sessions
    clock,     \* [Clients -> frame_st_id or None]; kept after release (history)
    proposed,  \* sessions with pending_actions
    kv,        \* [Clients -> the key-value cache of the session]
    head,      \* DreamZero: the cache in the attributes of the model
    crossed    \* history: sessions that were swapped in while another one was

handlerVars == <<setup, conn, active, opened, left, steps>>
engineVars  == <<current, pipes, sessions, clock, proposed>>
cacheVars   == <<kv, head, crossed>>
vars        == <<handlerVars, call, engineVars, cacheVars>>

None  == -1
Entry == [of : Clients, frame : Nat, real : BOOLEAN]
Idle  == [op |-> "none", at |-> "none"]

Held == {"waiting", "resetting", "opened", "ready", "calling", "reply"}

(* Every variable keeps its type, the counter is within its limit, and a   *)
(* thread of the pool is busy for a connection exactly when its handler    *)
(* waits for it.                                                           *)
TypeOK ==
    /\ setup \in Setups
    /\ conn \in [Clients -> Held \cup {"new", "releasing", "closed"}]
    /\ active \in 0..setup.limit
    /\ opened \subseteq Clients /\ left \subseteq Clients
    /\ \A c \in Clients : steps[c] \in 0..MaxSteps
    /\ \A c \in Clients :
          (call[c] = Idle) <=> conn[c] \notin {"resetting", "calling", "releasing"}
    /\ current \in 0..Len(pipes)
    /\ \A i \in DOMAIN pipes : pipes[i] \subseteq Clients
    /\ sessions \subseteq Clients
    /\ clock \in [Clients -> Nat \cup {None}]
    /\ kv \in [Clients -> Seq(Entry)]
    /\ head \in Seq(Entry)
    /\ crossed \subseteq Clients

-----------------------------------------------------------------------------
(* The handler, on the event loop *)

(* A bad token, no engine, or no capacity.                                 *)
TurnAway(c) ==
    /\ conn[c] = "new"
    /\ conn' = [conn EXCEPT ![c] = "closed"]
    /\ UNCHANGED <<setup, active, opened, left, steps, call, engineVars, cacheVars>>

Admit(c) ==
    /\ conn[c] = "new"
    /\ setup.engine # "none" /\ active < setup.limit
    /\ conn' = [conn EXCEPT ![c] = "waiting"]
    /\ active' = active + 1
    /\ UNCHANGED <<setup, opened, left, steps, call, engineVars, cacheVars>>

(* The client sends no more, whether or not the server is told.            *)
GoSilent(c) ==
    /\ conn[c] \in Held
    /\ left' = left \cup {c}
    /\ UNCHANGED <<setup, conn, active, opened, steps, call, engineVars, cacheVars>>

Starts(c, op, at) == call' = [call EXCEPT ![c] = [op |-> op, at |-> at]]

(* Mutant: the state is released only once the client has seen an answer.  *)
FinallyIfAnswered(c) ==
    /\ active' = active - 1
    /\ IF c \in opened /\ conn[c] # "opened"
       THEN /\ conn' = [conn EXCEPT ![c] = "releasing"]
            /\ Starts(c, "release", "forget")
       ELSE /\ conn' = [conn EXCEPT ![c] = "closed"]
            /\ call' = [call EXCEPT ![c] = Idle]

(* The finally block: the counter goes down, and then, shielded from the   *)
(* cancellation of the handler, the last state reached is released, by an  *)
(* engine that has anything to release.                                    *)
Finally(c) ==
    /\ active' = active - 1
    /\ IF c \in opened /\ setup.engine # "cosmos3"
       THEN /\ conn' = [conn EXCEPT ![c] = "releasing"]
            /\ Starts(c, "release", "forget")
       ELSE /\ conn' = [conn EXCEPT ![c] = "closed"]
            /\ call' = [call EXCEPT ![c] = Idle]

(* Mutant: only an open session has an idle timeout.                       *)
LeaveOnceReset(c) ==
    /\ conn[c] \in {"opened", "ready", "reply"}
    /\ Finally(c)
    /\ UNCHANGED <<setup, opened, left, steps, engineVars, cacheVars>>

(* The idle timeout, a disconnect, a cancellation, an invalid first        *)
(* message, or an answer that cannot be sent.  A handler whose call is on  *)
(* the pool leaves when the call is back.                                  *)
Leave(c) ==
    /\ conn[c] \in {"waiting", "opened", "ready", "reply"}
    /\ Finally(c)
    /\ UNCHANGED <<setup, opened, left, steps, engineVars, cacheVars>>

Reset(c) ==
    /\ conn[c] = "waiting" /\ c \notin left
    /\ conn' = [conn EXCEPT ![c] = "resetting"]
    /\ Starts(c, "reset", "require")
    /\ UNCHANGED <<setup, active, opened, left, steps, engineVars, cacheVars>>

(* LatentStep(step_index=0), or the answer to an action, goes out.         *)
Replies(c) ==
    /\ conn[c] \in {"opened", "reply"}
    /\ conn' = [conn EXCEPT ![c] = "ready"]
    /\ UNCHANGED <<setup, active, opened, left, steps, call, engineVars, cacheVars>>

(* An action; one that does not parse is answered and changes nothing.     *)
(* A program that drives the engine itself may ask it for a plan as well.  *)
Asks(c) ==
    /\ conn[c] = "ready" /\ c \notin left /\ steps[c] < MaxSteps
    /\ steps' = [steps EXCEPT ![c] = @ + 1]
    /\ conn' = [conn EXCEPT ![c] = "calling"]
    /\ \E op \in {"step", "plan"} : Starts(c, op, "session")
    /\ UNCHANGED <<setup, active, opened, left, engineVars, cacheVars>>

-----------------------------------------------------------------------------
(* An engine call on a thread of the pool *)

In(c, at) == call[c].at = at
Goes(c, at) == call' = [call EXCEPT ![c].at = at]

(* The call is back: what the handler was waiting for.                     *)
Returns(c, place) ==
    /\ call' = [call EXCEPT ![c] = Idle]
    /\ conn' = [conn EXCEPT ![c] = place]

(* It raises, through the handler, which has no clause for it.             *)
Raises(c) ==
    /\ Finally(c)
    /\ UNCHANGED <<setup, opened, left, steps>>

(* _require_pipeline and load look at _pipeline, and nothing locks it.     *)
Require(c) ==
    /\ In(c, "require")
    /\ Goes(c, IF current = 0 THEN "load" ELSE "open")
    /\ UNCHANGED <<handlerVars, engineVars, cacheVars>>

(* A new pipeline, which knows no session; Cosmos 3 and the VLA engine     *)
(* cannot load weights: their pipeline is injected, or load fails.         *)
Build(c) ==
    /\ pipes' = Append(pipes, {})
    /\ current' = Len(pipes')
    /\ Goes(c, "open")
    /\ UNCHANGED <<handlerVars, sessions, clock, proposed, cacheVars>>

LoadLingBot(c)   == In(c, "load") /\ setup.engine = "lingbot" /\ Build(c)
LoadDreamZero(c) == In(c, "load") /\ setup.engine = "dreamzero" /\ Build(c)

(* The engine is deployed with its pipeline, or loads it on first use.     *)
Known(c) == c \in pipes[current]

(* pipeline.reset: the named cache, the prompt, the entry of the session.  *)
OpenLingBot(c) ==
    /\ setup.engine = "lingbot"
    /\ pipes' = [pipes EXCEPT ![current] = @ \cup {c}]
    /\ kv' = [kv EXCEPT ![c] = <<>>]

OpenDreamZero(c) ==
    /\ setup.engine = "dreamzero"
    /\ pipes' = [pipes EXCEPT ![current] = @ \cup {c}]
    /\ kv' = [kv EXCEPT ![c] = <<>>]

(* The VLA pipeline is injected (external: the tests and scripts bring one). *)
OpenVLA(c) ==
    /\ setup.engine = "vla"
    /\ pipes' = [pipes EXCEPT ![current] = @ \cup {c}]
    /\ kv' = [kv EXCEPT ![c] = <<>>]

Open(c) ==
    /\ In(c, "open")
    /\ OpenLingBot(c) \/ OpenDreamZero(c) \/ OpenVLA(c)
    /\ Goes(c, "encode")
    /\ UNCHANGED <<handlerVars, current, sessions, clock, proposed, head, crossed>>

(* encode_observation, when the session is known and the images are there. *)
EncodeLingBot(c) == setup.engine = "lingbot" /\ Goes(c, "register")

(* DreamZero encodes by running a whole block.                             *)
EncodeDreamZero(c) == setup.engine = "dreamzero" /\ Goes(c, "swapIn")

Encode(c) ==
    /\ In(c, "encode")
    /\ Known(c)
    /\ \/ EncodeLingBot(c) \/ EncodeDreamZero(c)
       \/ setup.engine = "vla" /\ Goes(c, "register")
    /\ UNCHANGED <<handlerVars, engineVars, cacheVars>>

(* Whatever the pipeline may raise: an image is missing, the chunk has the *)
(* wrong length, the session is that of another pipeline, memory is out.   *)
Fails(c) ==
    /\ call[c].at \in {"load", "open", "encode", "session", "recondition", "infer", "model"}
    /\ Raises(c)
    /\ UNCHANGED <<engineVars, cacheVars>>

Register(c) ==
    /\ In(c, "register")
    /\ sessions' = sessions \cup {c}
    /\ clock' = [clock EXCEPT ![c] = 0]
    /\ Returns(c, "opened")
    /\ opened' = opened \cup {c}
    /\ UNCHANGED <<setup, active, left, steps, current, pipes, proposed, cacheVars>>

(* _session_for and _parse_action_chunk.  A plan that step has parked is   *)
(* returned as it is; a VLA always decodes its candidates.                 *)
FindSession(c) ==
    /\ In(c, "session") /\ setup.engine # "cosmos3"
    /\ c \in sessions
    /\ CASE call[c].op = "step" -> Goes(c, "recondition") /\ UNCHANGED conn
         [] call[c].op = "plan" /\ c \in proposed /\ setup.engine # "vla" -> Returns(c, "reply")
         [] OTHER -> Goes(c, "infer") /\ UNCHANGED conn
    /\ UNCHANGED <<setup, active, opened, left, steps, engineVars, cacheVars>>

Real(c, frame)      == [of |-> c, frame |-> frame, real |-> TRUE]
Predicted(c, frame) == [of |-> c, frame |-> frame, real |-> FALSE]

IsReal(entry) == entry.real

(* Mutant: clear_pred_cache is not called.                                 *)
AllKept(c) == kv[c]

Nth(S, i) == CHOOSE j \in S : Cardinality({k \in S : k <= j}) = i

(* What clear_pred_cache leaves, in its order (external: wan_va).          *)
Grounded(c) ==
    LET real == {i \in DOMAIN kv[c] : IsReal(kv[c][i])}
    IN  [n \in 1..Cardinality(real) |-> kv[c][Nth(real, n)]]

(* At frame 0 the seed observation goes in for real, one frame, and what a *)
(* plan predicted before goes out.  Later the prediction stands in for     *)
(* what was executed, since the engine passes no observation.              *)
ReconditionLingBot(c) ==
    /\ setup.engine = "lingbot"
    /\ IF clock[c] = 0
       THEN /\ kv' = [kv EXCEPT ![c] = Append(Grounded(c), Real(c, 0))]
            /\ clock' = [clock EXCEPT ![c] = 1]
       ELSE /\ UNCHANGED kv
            /\ clock' = [clock EXCEPT ![c] = @ + Chunk]

(* No observation either: the next block goes on from its own prediction.  *)
ReconditionDreamZero(c) ==
    /\ setup.engine = "dreamzero"
    /\ clock' = [clock EXCEPT ![c] = @ + Chunk]
    /\ UNCHANGED kv

(* append_executed: what was executed goes into the context.               *)
AppendVLA(c) ==
    /\ setup.engine = "vla"
    /\ kv' = [kv EXCEPT ![c] = Append(@, Real(c, clock[c]))]
    /\ clock' = [clock EXCEPT ![c] = @ + 1]

Recondition(c) ==
    /\ In(c, "recondition")
    /\ Known(c)
    /\ ReconditionLingBot(c) \/ ReconditionDreamZero(c) \/ AppendVLA(c)
    /\ Goes(c, "infer")
    /\ UNCHANGED <<handlerVars, current, pipes, sessions, proposed, head, crossed>>

(* The two denoising loops; the last pass of each writes the chunk into    *)
(* the cache that bears the name of the session.                           *)
InferLingBot(c) ==
    /\ In(c, "infer") /\ setup.engine = "lingbot"
    /\ Known(c)
    /\ kv' = [kv EXCEPT ![c] = @ \o [i \in 1..Chunk |-> Predicted(c, clock[c] + i - 1)]]
    /\ proposed' = proposed \cup {c}
    /\ Returns(c, "reply")
    /\ UNCHANGED <<setup, active, opened, left, steps, current, pipes, sessions, clock, head, crossed>>

(* step decodes one chunk, plan several, of which it keeps the cheapest.   *)
(* Decoding reads the context and leaves it alone (external: the pipeline).*)
DecodeVLA(c) ==
    /\ In(c, "infer") /\ setup.engine = "vla"
    /\ Known(c)
    /\ proposed' = proposed \cup {c}
    /\ Returns(c, "reply")
    /\ UNCHANGED <<setup, active, opened, left, steps, current, pipes, sessions, clock,
                   cacheVars>>

InferDreamZero(c) ==
    /\ In(c, "infer") /\ setup.engine = "dreamzero"
    /\ Known(c)
    /\ Goes(c, "swapIn")
    /\ UNCHANGED <<handlerVars, engineVars, cacheVars>>

(* The model is in use from a swap in to the swap out, with no lock.       *)
InModel(c) == call[c].at \in {"model", "swapOut"}
Others(c)  == {d \in Clients \ {c} : InModel(d)}

SwapIn(c) ==
    /\ In(c, "swapIn")
    /\ head' = kv[c]
    /\ crossed' = IF Others(c) = {} THEN crossed ELSE crossed \cup Others(c) \cup {c}
    /\ Goes(c, "model")
    /\ UNCHANGED <<handlerVars, engineVars, kv>>

(* lazy_joint_video_action goes on from the state in its attributes, and   *)
(* counts its frames itself (external: groot).                             *)
RunModel(c) ==
    /\ In(c, "model")
    /\ head' = Append(head, Predicted(c, Len(head)))
    /\ Goes(c, "swapOut")
    /\ UNCHANGED <<handlerVars, engineVars, kv, crossed>>

SwapOut(c) ==
    /\ In(c, "swapOut")
    /\ kv' = [kv EXCEPT ![c] = head]
    /\ IF call[c].op = "reset" THEN Goes(c, "register") /\ UNCHANGED <<conn, proposed>>
       ELSE Returns(c, "reply") /\ proposed' = proposed \cup {c}
    /\ UNCHANGED <<setup, active, opened, left, steps, current, pipes, sessions, clock, head, crossed>>

(* Cosmos 3: the state on the wire is all the memory there is.             *)
ResetCosmos3(c) ==
    /\ In(c, "open") /\ setup.engine = "cosmos3"
    /\ kv' = [kv EXCEPT ![c] = <<Real(c, 0)>>]
    /\ Returns(c, "opened")
    /\ opened' = opened \cup {c}
    /\ UNCHANGED <<setup, active, left, steps, engineVars, head, crossed>>

(* The last frame of the chunk conditions the next one.                    *)
StepCosmos3(c) ==
    /\ In(c, "session") /\ setup.engine = "cosmos3" /\ call[c].op = "step"
    /\ kv' = [kv EXCEPT ![c] = Append(@, Predicted(c, Len(@)))]
    /\ Returns(c, "reply")
    /\ UNCHANGED <<setup, active, opened, left, steps, engineVars, head, crossed>>

PlanCosmos3(c) ==
    /\ In(c, "session") /\ setup.engine = "cosmos3" /\ call[c].op = "plan"
    /\ Returns(c, "reply")
    /\ UNCHANGED <<setup, active, opened, left, steps, engineVars, cacheVars>>

(* release: the engine's entry, then the pipeline's.                       *)
Forget(c) ==
    /\ In(c, "forget")
    /\ sessions' = sessions \ {c}
    /\ proposed' = proposed \ {c}
    /\ Goes(c, "close")
    /\ UNCHANGED <<handlerVars, current, pipes, clock, cacheVars>>

CloseLingBot(c) ==
    /\ setup.engine = "lingbot"
    /\ pipes' = [pipes EXCEPT ![current] = @ \ {c}]
    /\ kv' = [kv EXCEPT ![c] = <<>>]

CloseDreamZero(c) ==
    /\ setup.engine = "dreamzero"
    /\ pipes' = [pipes EXCEPT ![current] = @ \ {c}]
    /\ kv' = [kv EXCEPT ![c] = <<>>]

Close(c) ==
    /\ In(c, "close")
    /\ \/ CloseLingBot(c) \/ CloseDreamZero(c)
       \/ /\ setup.engine = "vla"
          /\ pipes' = [pipes EXCEPT ![current] = @ \ {c}]
          /\ kv' = [kv EXCEPT ![c] = <<>>]
    /\ Returns(c, "closed")
    /\ UNCHANGED <<setup, active, opened, left, steps, current, sessions, clock, proposed, head, crossed>>

-----------------------------------------------------------------------------

Init ==
    /\ setup \in Setups
    /\ conn = [c \in Clients |-> "new"]
    /\ active = 0
    /\ opened = {} /\ left = {}
    /\ steps = [c \in Clients |-> 0]
    /\ call = [c \in Clients |-> Idle]
    /\ pipes \in {<<>>, <<{}>>} /\ current = Len(pipes)
    /\ sessions = {}
    /\ clock = [c \in Clients |-> None]
    /\ proposed = {}
    /\ kv = [c \in Clients |-> <<>>]
    /\ head = <<>>
    /\ crossed = {}

Handler(c) == Leave(c) \/ Reset(c) \/ Replies(c) \/ Asks(c)

(* The four engines offer the same calls, made of these steps.             *)
Serves(c, engine, op) == setup.engine = engine /\ call[c].op = op
Drops(c) == Forget(c) \/ Close(c)
Swaps(c) == SwapIn(c) \/ RunModel(c) \/ SwapOut(c)

LingBotReset(c) ==
    /\ Serves(c, "lingbot", "reset")
    /\ Require(c) \/ LoadLingBot(c) \/ Open(c) \/ Encode(c) \/ Register(c)

LingBotStep(c) ==
    /\ Serves(c, "lingbot", "step")
    /\ FindSession(c) \/ Recondition(c) \/ InferLingBot(c)

LingBotPlan(c)    == Serves(c, "lingbot", "plan") /\ (FindSession(c) \/ InferLingBot(c))
LingBotRelease(c) == Serves(c, "lingbot", "release") /\ Drops(c)

DreamZeroReset(c) ==
    /\ Serves(c, "dreamzero", "reset")
    /\ Require(c) \/ LoadDreamZero(c) \/ Open(c) \/ Encode(c) \/ Swaps(c) \/ Register(c)

DreamZeroStep(c) ==
    /\ Serves(c, "dreamzero", "step")
    /\ FindSession(c) \/ Recondition(c) \/ InferDreamZero(c) \/ Swaps(c)

DreamZeroPlan(c) ==
    /\ Serves(c, "dreamzero", "plan")
    /\ FindSession(c) \/ InferDreamZero(c) \/ Swaps(c)

DreamZeroRelease(c) == Serves(c, "dreamzero", "release") /\ Drops(c)

VLAReset(c) ==
    /\ Serves(c, "vla", "reset")
    /\ Require(c) \/ Open(c) \/ Encode(c) \/ Register(c)

VLAStep(c)    == Serves(c, "vla", "step") /\ (FindSession(c) \/ Recondition(c) \/ DecodeVLA(c))
VLAPlan(c)    == Serves(c, "vla", "plan") /\ (FindSession(c) \/ DecodeVLA(c))
VLARelease(c) == Serves(c, "vla", "release") /\ Drops(c)

Cosmos3Calls(c) ==
    /\ setup.engine = "cosmos3"
    /\ Require(c) \/ ResetCosmos3(c) \/ StepCosmos3(c) \/ PlanCosmos3(c)

Worker(c) ==
    \/ LingBotReset(c) \/ LingBotStep(c) \/ LingBotPlan(c) \/ LingBotRelease(c)
    \/ DreamZeroReset(c) \/ DreamZeroStep(c) \/ DreamZeroPlan(c) \/ DreamZeroRelease(c)
    \/ VLAReset(c) \/ VLAStep(c) \/ VLAPlan(c) \/ VLARelease(c)
    \/ Cosmos3Calls(c) \/ Fails(c)

Next == \E c \in Clients : TurnAway(c) \/ Admit(c) \/ GoSilent(c) \/ Handler(c) \/ Worker(c)

Spec == Init /\ [][Next]_vars

(* Calls on the pool come back, answers are sent, and the idle timer of a  *)
(* silent client runs out.  Nobody has to connect or to send anything.     *)
Fairness == \A c \in Clients : WF_vars(Handler(c)) /\ WF_vars(Worker(c))

FairSpec == Spec /\ Fairness

-----------------------------------------------------------------------------
(* Properties *)

(* When a connection is closed, by whatever exit of the handler, neither   *)
(* the engine nor its pipeline keeps anything for a session that reset     *)
(* opened, and the counter has given its place back: it counts just the    *)
(* connections that are held.  (A reset that fails between the pipeline    *)
(* and the engine leaves its session in the pipeline: nobody has its id.   *)
(* A pipeline that another load has replaced is gone with its sessions.)   *)
NothingLeaks ==
    /\ setup.limit > 0 => active = Cardinality({c \in Clients : conn[c] \in Held})
    /\ \A c \in Clients :
          conn[c] = "closed" =>
              /\ c \notin sessions
              /\ current # 0 /\ clock[c] # None => c \notin pipes[current]

(* Sessions whose client has a connection and no call under way.           *)
AtRest == {c \in opened : active > 0 /\ conn[c] \in {"opened", "ready", "reply"}}

OwnFrames(c) == \A i \in DOMAIN kv[c] : kv[c][i].of = c /\ kv[c][i].frame = i - 1

(* Between the calls of a session its cache holds exactly the history of   *)
(* that session: its own entries, one for every frame up to the last one   *)
(* predicted, none twice and none left out, in whatever order steps and    *)
(* plans came, and whatever other sessions did on other threads.  The one  *)
(* exception are DreamZero's sessions that were in its model together: see *)
(* NoCrossTalk.  (Said of sessions with a connection: a script has none.)  *)
OwnHistory ==
    \A c \in AtRest \ crossed :
        /\ OwnFrames(c)
        /\ setup.engine = "lingbot" /\ c \in proposed => Len(kv[c]) = clock[c] + Chunk

(* "save/restore these around every model call, so one resident model      *)
(* serves N sessions without cross-talk" (dreamzero_pipeline.py): nothing  *)
(* locks the model between the save and the restore, and calls of several  *)
(* sessions run on threads of a pool.                                      *)
NoCrossTalk == \A c \in AtRest : OwnFrames(c)

(* A client that goes silent does not hold its session, or its place among *)
(* the max_sessions, for ever.                                             *)
SilentIsReleased ==
    \A c \in Clients :
        (c \in left /\ conn[c] # "closed") ~> (conn[c] = "closed" /\ c \notin sessions)

=============================================================================
