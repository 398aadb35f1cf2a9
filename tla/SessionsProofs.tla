---------------------------- MODULE SessionsProofs ----------------------------
(***************************************************************************)
(* Proofs about WorldSessions: that a closed connection leaves nothing     *)
(* behind, and that the cache of a session holds that session's history.   *)
(* They hold for any number of clients and any deployment.  DreamZero      *)
(* keeps the state of a session in the one model while it runs, without a  *)
(* lock: what is proved of it is that only sessions that were in the model *)
(* together can have lost their history.                                   *)
(***************************************************************************)
EXTENDS BenchLoop, FiniteSetTheorems, SequenceTheorems, TLAPS

ResetPlaces ==
    {"require", "load", "open", "encode", "swapIn", "model", "swapOut", "register"}
StepPlaces == {"session", "recondition", "infer", "swapIn", "model", "swapOut"}
ReleasePlaces == {"forget", "close"}

EngineCalls == [op : {"none", "reset", "step", "plan", "release"},
          at : {"none"} \cup ResetPlaces \cup StepPlaces \cup ReleasePlaces]

Types ==
    /\ setup \in Setups /\ setup \in [engine : Engines \cup {"none"}, limit : Nat]
    /\ conn \in [Clients -> Held \cup {"new", "releasing", "closed"}]
    /\ call \in [Clients -> EngineCalls]
    /\ opened \subseteq Clients /\ left \subseteq Clients
    /\ sessions \subseteq Clients /\ proposed \subseteq Clients
    /\ steps \in [Clients -> 0..MaxSteps]
    /\ pipes \in Seq(SUBSET Clients) /\ current \in 0..Len(pipes)
    /\ clock \in [Clients -> Nat \cup {None}]

(* A thread of the pool does what the handler of its connection waits for. *)
CallOf(c) ==
    /\ conn[c] = "resetting" => call[c].op = "reset" /\ call[c].at \in ResetPlaces
    /\ conn[c] = "calling" => call[c].op \in {"step", "plan"} /\ call[c].at \in StepPlaces
    /\ conn[c] = "releasing" => call[c].op = "release" /\ call[c].at \in ReleasePlaces
    /\ conn[c] \notin {"resetting", "calling", "releasing"} => call[c] = Idle

CallsFit == \A c \in Clients : CallOf(c)

(* The steps of a call, whichever engine makes them.                       *)
Works(c) ==
    \/ Require(c) \/ LoadLingBot(c) \/ LoadDreamZero(c)
    \/ Open(c) \/ Encode(c) \/ (setup.engine # "cosmos3" /\ Register(c))
    \/ FindSession(c) \/ Recondition(c)
    \/ InferLingBot(c) \/ InferDreamZero(c) \/ DecodeVLA(c)
    \/ (setup.engine = "dreamzero" /\ Swaps(c))
    \/ ResetCosmos3(c) \/ StepCosmos3(c) \/ PlanCosmos3(c)
    \/ (setup.engine # "cosmos3" /\ Drops(c))
    \/ Fails(c)

LEMMA WorkerWorks == ASSUME NEW c \in Clients, Worker(c) PROVE Works(c)
<1>1. CASE LingBotReset(c) \/ LingBotStep(c) \/ LingBotPlan(c) \/ LingBotRelease(c)
  BY <1>1, Zenon DEF Works, Serves, LingBotReset, LingBotStep, LingBotPlan, LingBotRelease
<1>2. CASE DreamZeroReset(c) \/ DreamZeroStep(c) \/ DreamZeroPlan(c) \/ DreamZeroRelease(c)
  BY <1>2, Zenon DEF Works, Serves, DreamZeroReset, DreamZeroStep, DreamZeroPlan, DreamZeroRelease
<1>3. CASE VLAReset(c) \/ VLAStep(c) \/ VLAPlan(c) \/ VLARelease(c)
  BY <1>3, Zenon DEF Works, Serves, VLAReset, VLAStep, VLAPlan, VLARelease
<1>4. CASE Cosmos3Calls(c)
  BY <1>4, Zenon DEF Works, Cosmos3Calls
<1> QED BY <1>1, <1>2, <1>3, <1>4, Zenon DEF Worker, Works

(* Where the handler and the call of a client go in a step.                *)
Moves(c) == TurnAway(c) \/ Admit(c) \/ GoSilent(c) \/ Handler(c) \/ Works(c)

LEMMA NextMoves == Next => \E c \in Clients : Moves(c)
BY WorkerWorks DEF Next, Moves

(* A call goes on at another place.                                        *)
LEMMA GoesOn ==
    ASSUME Types, NEW c \in Clients, NEW at, Goes(c, at),
           at \in {"none"} \cup ResetPlaces \cup StepPlaces \cup ReleasePlaces
    PROVE  /\ call' \in [Clients -> EngineCalls]
           /\ call'[c].at = at /\ call'[c].op = call[c].op
           /\ \A d \in Clients : d # c => call'[d] = call[d]
<1>1. call \in [Clients -> EngineCalls] /\ call' = [call EXCEPT ![c] = [call[c] EXCEPT !.at = at]]
  BY DEF Types, Goes
<1>2. call[c] \in EngineCalls
  BY <1>1
<1>3. /\ [call[c] EXCEPT !.at = at] \in EngineCalls
      /\ [call[c] EXCEPT !.at = at].at = at /\ [call[c] EXCEPT !.at = at].op = call[c].op
  BY <1>2 DEF EngineCalls
<1> QED BY <1>1, <1>3

(* The finally block of the handler.                                       *)
LEMMA FinallyMoves ==
    ASSUME Types, NEW c \in Clients, Finally(c)
    PROVE  /\ conn' \in [Clients -> Held \cup {"new", "releasing", "closed"}]
           /\ call' \in [Clients -> EngineCalls]
           /\ \A d \in Clients : d # c => conn'[d] = conn[d] /\ call'[d] = call[d]
           /\ \/ /\ c \in opened /\ setup.engine # "cosmos3"
                 /\ conn'[c] = "releasing"
                 /\ call'[c].op = "release" /\ call'[c].at = "forget"
              \/ /\ ~(c \in opened /\ setup.engine # "cosmos3")
                 /\ conn'[c] = "closed" /\ call'[c] = Idle
<1>1. conn \in [Clients -> Held \cup {"new", "releasing", "closed"}] /\ call \in [Clients -> EngineCalls]
  BY DEF Types
<1>2. Idle \in EngineCalls /\ [op |-> "release", at |-> "forget"] \in EngineCalls
  BY DEF Idle, EngineCalls, ReleasePlaces
<1>3. CASE c \in opened /\ setup.engine # "cosmos3"
  <2>1. /\ conn' = [conn EXCEPT ![c] = "releasing"]
        /\ call' = [call EXCEPT ![c] = [op |-> "release", at |-> "forget"]]
    BY <1>3 DEF Finally, Starts
  <2> QED BY <1>1, <1>2, <1>3, <2>1
<1>4. CASE ~(c \in opened /\ setup.engine # "cosmos3")
  <2>1. conn' = [conn EXCEPT ![c] = "closed"] /\ call' = [call EXCEPT ![c] = Idle]
    BY <1>4 DEF Finally
  <2> QED BY <1>1, <1>2, <1>4, <2>1
<1> QED BY <1>3, <1>4

LEMMA ReturnsMoves ==
    ASSUME Types, NEW c \in Clients, NEW place \in {"opened", "reply", "closed"},
           Returns(c, place)
    PROVE  /\ conn' \in [Clients -> Held \cup {"new", "releasing", "closed"}]
           /\ call' \in [Clients -> EngineCalls]
           /\ \A d \in Clients : d # c => conn'[d] = conn[d] /\ call'[d] = call[d]
           /\ conn'[c] = place /\ call'[c] = Idle
<1>1. Idle \in EngineCalls
  BY DEF Idle, EngineCalls
<1>2. conn \in [Clients -> Held \cup {"new", "releasing", "closed"}] /\ call \in [Clients -> EngineCalls]
  BY DEF Types
<1>3. place \in Held \cup {"new", "releasing", "closed"}
  BY DEF Held
<1> QED BY <1>1, <1>2, <1>3 DEF Returns

(* What a move does to the places of the handlers and of the calls.        *)
Walks(c) ==
    /\ conn' \in [Clients -> Held \cup {"new", "releasing", "closed"}]
    /\ call' \in [Clients -> EngineCalls]
    /\ \A d \in Clients : d # c => conn'[d] = conn[d] /\ call'[d] = call[d]
    /\ CallOf(c)'

LEMMA HandlerWalks ==
    ASSUME Types, CallsFit, NEW c \in Clients,
           TurnAway(c) \/ Admit(c) \/ GoSilent(c) \/ Handler(c)
    PROVE  Walks(c)
<1>1. /\ conn \in [Clients -> Held \cup {"new", "releasing", "closed"}]
      /\ call \in [Clients -> EngineCalls] /\ CallOf(c)
  BY DEF Types, CallsFit
<1>2. CASE TurnAway(c)
  BY <1>1, <1>2 DEF TurnAway, Walks, CallOf, Held
<1>3. CASE Admit(c)
  BY <1>1, <1>3 DEF Admit, Walks, CallOf, Held
<1>4. CASE GoSilent(c)
  BY <1>1, <1>4 DEF GoSilent, Walks, CallOf
<1>5. CASE Leave(c)
  <2>1. Finally(c)
    BY <1>5 DEF Leave
  <2> QED BY <1>1, <2>1, FinallyMoves DEF Walks, CallOf, ReleasePlaces
<1>6. CASE Reset(c)
  <2>1. [op |-> "reset", at |-> "require"] \in EngineCalls
    BY DEF EngineCalls, ResetPlaces
  <2>2. /\ conn' = [conn EXCEPT ![c] = "resetting"]
        /\ call' = [call EXCEPT ![c] = [op |-> "reset", at |-> "require"]]
    BY <1>6 DEF Reset, Starts
  <2> QED BY <1>1, <2>1, <2>2 DEF Walks, CallOf, Held, ResetPlaces
<1>7. CASE Replies(c)
  BY <1>1, <1>7 DEF Replies, Walks, CallOf, Held
<1>8. CASE Asks(c)
  <2>1. PICK op \in {"step", "plan"} : call' = [call EXCEPT ![c] = [op |-> op, at |-> "session"]]
    BY <1>8 DEF Asks, Starts
  <2>2. [op |-> op, at |-> "session"] \in EngineCalls /\ conn' = [conn EXCEPT ![c] = "calling"]
    BY <1>8 DEF EngineCalls, StepPlaces, Asks
  <2> QED BY <1>1, <2>1, <2>2 DEF Walks, CallOf, Held, StepPlaces
<1> QED BY <1>2, <1>3, <1>4, <1>5, <1>6, <1>7, <1>8 DEF Handler

(* Steps inside a call.                                                    *)
LEMMA InsideWalks ==
    ASSUME Types, CallsFit, NEW c \in Clients, UNCHANGED conn, NEW at, Goes(c, at),
           \/ call[c].at \in {"require", "load", "open", "encode"} /\ at \in ResetPlaces
           \/ call[c].at \in {"session", "recondition", "infer"} /\ at \in StepPlaces
           \/ call[c].at \in {"swapIn", "model"} /\ at \in {"model", "swapOut"}
           \/ call[c].at = "swapOut" /\ call[c].op = "reset" /\ at = "register"
           \/ call[c].at = "forget" /\ at = "close"
    PROVE  Walks(c)
<1>1. /\ conn \in [Clients -> Held \cup {"new", "releasing", "closed"}]
      /\ call \in [Clients -> EngineCalls] /\ CallOf(c)
  BY DEF Types, CallsFit
<1>2. at \in {"none"} \cup ResetPlaces \cup StepPlaces \cup ReleasePlaces
  BY DEF ResetPlaces, StepPlaces, ReleasePlaces
<1>3. /\ call' \in [Clients -> EngineCalls]
      /\ call'[c].at = at /\ call'[c].op = call[c].op
      /\ \A d \in Clients : d # c => call'[d] = call[d]
  BY <1>2, GoesOn
<1>4. call[c].at # "none"
  OBVIOUS
<1>5. CallOf(c)'
  BY <1>1, <1>3, <1>4 DEF CallOf, Idle, ResetPlaces, StepPlaces, ReleasePlaces
<1> QED BY <1>1, <1>3, <1>5 DEF Walks

LEMMA BackWalks ==
    ASSUME Types, NEW c \in Clients, NEW place \in {"opened", "reply", "closed"},
           Returns(c, place)
    PROVE  Walks(c)
BY ReturnsMoves DEF Walks, CallOf

LEMMA WorksWalks ==
    ASSUME Types, CallsFit, NEW c \in Clients, Works(c)
    PROVE  Walks(c)
<1>1. CASE Require(c)
  <2>1. call[c].at = "require" /\ UNCHANGED conn
        /\ (Goes(c, "load") \/ Goes(c, "open"))
    BY <1>1 DEF Require, In, handlerVars
  <2> QED BY <2>1, InsideWalks DEF ResetPlaces
<1>2. CASE LoadLingBot(c) \/ LoadDreamZero(c)
  <2>1. call[c].at = "load" /\ UNCHANGED conn /\ Goes(c, "open")
    BY <1>2 DEF LoadLingBot, LoadDreamZero, Build, In, handlerVars
  <2> QED BY <2>1, InsideWalks DEF ResetPlaces
<1>3. CASE Open(c)
  <2>1. call[c].at = "open" /\ UNCHANGED conn /\ Goes(c, "encode")
    BY <1>3 DEF Open, In, handlerVars
  <2> QED BY <2>1, InsideWalks DEF ResetPlaces
<1>4. CASE Encode(c)
  <2>1. call[c].at = "encode" /\ UNCHANGED conn /\ (Goes(c, "register") \/ Goes(c, "swapIn"))
    BY <1>4 DEF Encode, EncodeLingBot, EncodeDreamZero, In, handlerVars
  <2> QED BY <2>1, InsideWalks DEF ResetPlaces
<1>5. CASE Register(c) \/ ResetCosmos3(c)
  <2>1. Returns(c, "opened")
    BY <1>5 DEF Register, ResetCosmos3
  <2> QED BY <2>1, BackWalks
<1>6. CASE FindSession(c)
  <2>1. /\ call[c].at = "session"
        /\ \/ (Goes(c, "recondition") \/ Goes(c, "infer")) /\ UNCHANGED conn
           \/ Returns(c, "reply")
    BY <1>6 DEF FindSession, In
  <2> QED BY <2>1, InsideWalks, BackWalks DEF StepPlaces
<1>7. CASE Recondition(c)
  <2>1. call[c].at = "recondition" /\ UNCHANGED conn /\ Goes(c, "infer")
    BY <1>7 DEF Recondition, In, handlerVars
  <2> QED BY <2>1, InsideWalks DEF StepPlaces
<1>8. CASE InferLingBot(c) \/ DecodeVLA(c) \/ StepCosmos3(c) \/ PlanCosmos3(c)
  <2>1. Returns(c, "reply")
    BY <1>8 DEF InferLingBot, DecodeVLA, StepCosmos3, PlanCosmos3
  <2> QED BY <2>1, BackWalks
<1>9. CASE InferDreamZero(c)
  <2>1. call[c].at = "infer" /\ UNCHANGED conn /\ Goes(c, "swapIn")
    BY <1>9 DEF InferDreamZero, In, handlerVars
  <2> QED BY <2>1, InsideWalks DEF StepPlaces
<1>10. CASE Swaps(c)
  <2>1. CASE SwapIn(c)
    <3>1. call[c].at = "swapIn" /\ UNCHANGED conn /\ Goes(c, "model")
      BY <2>1 DEF SwapIn, In, handlerVars
    <3> QED BY <3>1, InsideWalks
  <2>2. CASE RunModel(c)
    <3>1. call[c].at = "model" /\ UNCHANGED conn /\ Goes(c, "swapOut")
      BY <2>2 DEF RunModel, In, handlerVars
    <3> QED BY <3>1, InsideWalks
  <2>3. CASE SwapOut(c)
    <3>1. \/ /\ call[c].at = "swapOut" /\ call[c].op = "reset"
             /\ UNCHANGED conn /\ Goes(c, "register")
          \/ Returns(c, "reply")
      BY <2>3 DEF SwapOut, In
    <3> QED BY <3>1, InsideWalks, BackWalks
  <2> QED BY <1>10, <2>1, <2>2, <2>3 DEF Swaps
<1>11. CASE Drops(c)
  <2>1. \/ call[c].at = "forget" /\ UNCHANGED conn /\ Goes(c, "close")
        \/ Returns(c, "closed")
    BY <1>11 DEF Drops, Forget, Close, In, handlerVars
  <2> QED BY <2>1, InsideWalks, BackWalks
<1>12. CASE Fails(c)
  <2>1. Finally(c)
    BY <1>12 DEF Fails, Raises
  <2> QED BY <2>1, FinallyMoves DEF Walks, CallOf, ReleasePlaces
<1> QED
  BY <1>1, <1>2, <1>3, <1>4, <1>5, <1>6, <1>7, <1>8, <1>9, <1>10, <1>11, <1>12, Zenon DEF Works

-----------------------------------------------------------------------------
(* Types. *)

(* Steps that leave the tables of the engine and of the handler alone.     *)
TablesKept == UNCHANGED <<opened, current, pipes, sessions, clock, proposed>>

LEMMA QuietMoves ==
    ASSUME NEW c \in Clients,
           \/ TurnAway(c) \/ Admit(c) \/ GoSilent(c) \/ Handler(c)
           \/ Require(c) \/ Encode(c) \/ FindSession(c) \/ InferDreamZero(c)
           \/ SwapIn(c) \/ RunModel(c) \/ StepCosmos3(c) \/ PlanCosmos3(c) \/ Fails(c)
    PROVE  TablesKept
<1>1. CASE TurnAway(c) \/ Admit(c) \/ GoSilent(c) \/ Handler(c)
  BY <1>1 DEF TurnAway, Admit, GoSilent, Handler, Leave, Reset, Replies, Asks, TablesKept,
              engineVars
<1>2. CASE Require(c) \/ Encode(c) \/ FindSession(c) \/ InferDreamZero(c)
  BY <1>2 DEF Require, Encode, FindSession, InferDreamZero, TablesKept, engineVars, handlerVars
<1>3. CASE SwapIn(c) \/ RunModel(c) \/ StepCosmos3(c) \/ PlanCosmos3(c) \/ Fails(c)
  BY <1>3 DEF SwapIn, RunModel, StepCosmos3, PlanCosmos3, Fails, Raises, TablesKept,
              engineVars, handlerVars
<1> QED BY <1>1, <1>2, <1>3

(* What a move does to the tables: one of these.                           *)
TablesStep(c) ==
    \/ TablesKept
    \/ /\ LoadLingBot(c) \/ LoadDreamZero(c)
       /\ pipes' = Append(pipes, {}) /\ current' = Len(pipes')
       /\ UNCHANGED <<opened, sessions, clock, proposed>>
    \/ /\ Open(c)
       /\ pipes' = [pipes EXCEPT ![current] = @ \cup {c}]
       /\ UNCHANGED <<opened, current, sessions, clock, proposed>>
    \/ /\ setup.engine # "cosmos3" /\ Register(c)
       /\ sessions' = sessions \cup {c} /\ clock' = [clock EXCEPT ![c] = 0]
       /\ opened' = opened \cup {c}
       /\ UNCHANGED <<current, pipes, proposed>>
    \/ /\ ResetCosmos3(c)
       /\ opened' = opened \cup {c}
       /\ UNCHANGED <<current, pipes, sessions, clock, proposed>>
    \/ /\ Recondition(c)
       /\ \E n \in Nat : clock' = [clock EXCEPT ![c] = n]
       /\ UNCHANGED <<opened, current, pipes, sessions, proposed>>
    \/ /\ InferLingBot(c) \/ DecodeVLA(c) \/ (setup.engine = "dreamzero" /\ SwapOut(c))
       /\ proposed' \in {proposed, proposed \cup {c}}
       /\ UNCHANGED <<opened, current, pipes, sessions, clock>>
    \/ /\ setup.engine # "cosmos3" /\ Forget(c)
       /\ sessions' = sessions \ {c} /\ proposed' = proposed \ {c}
       /\ UNCHANGED <<opened, current, pipes, clock>>
    \/ /\ setup.engine # "cosmos3" /\ Close(c)
       /\ pipes' = [pipes EXCEPT ![current] = @ \ {c}]
       /\ UNCHANGED <<opened, current, sessions, clock, proposed>>

LEMMA ClockTicks ==
    ASSUME Types, NEW c \in Clients, Recondition(c)
    PROVE  \E n \in Nat : clock' = [clock EXCEPT ![c] = n]
<1>1. clock[c] \in Nat \cup {-1} /\ Chunk \in Nat \ {0}
  BY SessionsAssumption DEF Types, None, SessionsAssumption
<1>2. 1 \in Nat /\ clock[c] + Chunk \in Nat /\ clock[c] + 1 \in Nat
  BY <1>1
<1>3. CASE ReconditionLingBot(c) \/ ReconditionDreamZero(c)
  <2>1. \/ clock' = [clock EXCEPT ![c] = 1]
        \/ clock' = [clock EXCEPT ![c] = clock[c] + Chunk]
    BY <1>3 DEF ReconditionLingBot, ReconditionDreamZero
  <2> QED BY <1>2, <2>1
<1>4. CASE AppendVLA(c)
  <2>1. clock' = [clock EXCEPT ![c] = clock[c] + 1]
    BY <1>4 DEF AppendVLA
  <2> QED BY <1>2, <2>1
<1> QED BY <1>3, <1>4 DEF Recondition

LEMMA MovesTables ==
    ASSUME Types, NEW c \in Clients, Moves(c)
    PROVE  TablesStep(c)
<1>1. CASE \/ TurnAway(c) \/ Admit(c) \/ GoSilent(c) \/ Handler(c)
           \/ Require(c) \/ Encode(c) \/ FindSession(c) \/ InferDreamZero(c)
           \/ SwapIn(c) \/ RunModel(c) \/ StepCosmos3(c) \/ PlanCosmos3(c) \/ Fails(c)
  <2>1. TablesKept
    BY <1>1, QuietMoves
  <2> QED BY <2>1 DEF TablesStep
<1>2. CASE LoadLingBot(c) \/ LoadDreamZero(c)
  <2>1. Build(c)
    BY <1>2 DEF LoadLingBot, LoadDreamZero
  <2>2. /\ pipes' = Append(pipes, {}) /\ current' = Len(pipes')
        /\ UNCHANGED <<opened, sessions, clock, proposed>>
    BY <2>1 DEF Build, handlerVars
  <2> QED BY <1>2, <2>2 DEF TablesStep
<1>3. CASE Open(c)
  <2>1. /\ pipes' = [pipes EXCEPT ![current] = @ \cup {c}]
        /\ UNCHANGED <<opened, current, sessions, clock, proposed>>
    BY <1>3 DEF Open, OpenLingBot, OpenDreamZero, OpenVLA, handlerVars
  <2> QED BY <1>3, <2>1 DEF TablesStep
<1>4. CASE setup.engine # "cosmos3" /\ Register(c)
  <2>1. /\ sessions' = sessions \cup {c} /\ clock' = [clock EXCEPT ![c] = 0]
        /\ opened' = opened \cup {c}
        /\ UNCHANGED <<current, pipes, proposed>>
    BY <1>4 DEF Register
  <2> QED BY <1>4, <2>1 DEF TablesStep
<1>5. CASE ResetCosmos3(c)
  <2>1. opened' = opened \cup {c} /\ UNCHANGED <<current, pipes, sessions, clock, proposed>>
    BY <1>5 DEF ResetCosmos3, engineVars
  <2> QED BY <1>5, <2>1 DEF TablesStep
<1>6. CASE Recondition(c)
  <2>3. \E n \in Nat : clock' = [clock EXCEPT ![c] = n]
    BY <1>6, ClockTicks
  <2>4. UNCHANGED <<opened, current, pipes, sessions, proposed>>
    BY <1>6 DEF Recondition, handlerVars
  <2> QED BY <1>6, <2>3, <2>4 DEF TablesStep
<1>7. CASE InferLingBot(c) \/ DecodeVLA(c) \/ (setup.engine = "dreamzero" /\ SwapOut(c))
  <2>1. /\ proposed' \in {proposed, proposed \cup {c}}
        /\ UNCHANGED <<opened, current, pipes, sessions, clock>>
    BY <1>7 DEF InferLingBot, DecodeVLA, SwapOut
  <2> QED BY <1>7, <2>1 DEF TablesStep
<1>8. CASE setup.engine # "cosmos3" /\ Forget(c)
  <2>1. /\ sessions' = sessions \ {c} /\ proposed' = proposed \ {c}
        /\ UNCHANGED <<opened, current, pipes, clock>>
    BY <1>8 DEF Forget, handlerVars
  <2> QED BY <1>8, <2>1 DEF TablesStep
<1>9. CASE setup.engine # "cosmos3" /\ Close(c)
  <2>1. /\ pipes' = [pipes EXCEPT ![current] = @ \ {c}]
        /\ UNCHANGED <<opened, current, sessions, clock, proposed>>
    BY <1>9 DEF Close, CloseLingBot, CloseDreamZero
  <2> QED BY <1>9, <2>1 DEF TablesStep
<1> QED
  BY <1>1, <1>2, <1>3, <1>4, <1>5, <1>6, <1>7, <1>8, <1>9, Zenon
  DEF Moves, Works, Swaps, Drops

(* The pipelines stay a sequence of sets of sessions.                      *)
LEMMA PipesTyped ==
    ASSUME Types, NEW c \in Clients, TablesStep(c)
    PROVE  /\ pipes' \in Seq(SUBSET Clients) /\ current' \in 0..Len(pipes')
           /\ current # 0 => current' # 0
           /\ current' # 0 => current' \in 1..Len(pipes')
<1>0. pipes \in Seq(SUBSET Clients) /\ current \in 0..Len(pipes) /\ Len(pipes) \in Nat
      /\ DOMAIN pipes = 1..Len(pipes)
  <2>1. pipes \in Seq(SUBSET Clients) /\ current \in 0..Len(pipes)
    BY DEF Types
  <2> QED BY <2>1, LenProperties
<1>1. CASE UNCHANGED <<pipes, current>>
  BY <1>0, <1>1
<1>2. CASE pipes' = Append(pipes, {}) /\ current' = Len(pipes')
  <2>1. {} \in SUBSET Clients
    OBVIOUS
  <2>2. pipes' \in Seq(SUBSET Clients) /\ Len(pipes') = Len(pipes) + 1
    BY <1>0, <1>2, <2>1, AppendProperties
  <2> QED BY <1>0, <1>2, <2>2
<1>3. ASSUME current' = current,
             \/ pipes' = [pipes EXCEPT ![current] = @ \cup {c}]
             \/ pipes' = [pipes EXCEPT ![current] = @ \ {c}]
      PROVE  pipes' \in Seq(SUBSET Clients) /\ Len(pipes') = Len(pipes)
  <2>1. PICK S : pipes' = [pipes EXCEPT ![current] = S] /\ (S = pipes[current] \cup {c} \/ S = pipes[current] \ {c})
    BY <1>3
  <2>2. CASE current = 0
    <3>1. current \notin DOMAIN pipes
      BY <1>0, <2>2
    <3>2. pipes' = pipes
      BY <1>0, <2>1, <3>1
    <3> QED BY <1>0, <3>2
  <2>3. CASE current # 0
    <3>1. current \in 1..Len(pipes)
      BY <1>0, <2>3
    <3>2. pipes[current] \in SUBSET Clients
      BY <1>0, <3>1, ElementOfSeq
    <3>3. S \in SUBSET Clients
      BY <2>1, <3>2
    <3> QED BY <1>0, <2>1, <3>1, <3>3, ExceptSeq
  <2> QED BY <2>2, <2>3
<1>4. \/ UNCHANGED <<pipes, current>>
      \/ pipes' = Append(pipes, {}) /\ current' = Len(pipes')
      \/ /\ current' = current
         /\ \/ pipes' = [pipes EXCEPT ![current] = @ \cup {c}]
            \/ pipes' = [pipes EXCEPT ![current] = @ \ {c}]
  BY DEF TablesStep, TablesKept
<1>5. CASE /\ current' = current
           /\ \/ pipes' = [pipes EXCEPT ![current] = @ \cup {c}]
              \/ pipes' = [pipes EXCEPT ![current] = @ \ {c}]
  <2>1. pipes' \in Seq(SUBSET Clients) /\ Len(pipes') = Len(pipes)
    BY <1>3, <1>5
  <2> QED BY <1>0, <1>5, <2>1
<1> QED BY <1>1, <1>2, <1>4, <1>5

LEMMA TypesInit == Init => Types /\ CallsFit
<1> SUFFICES ASSUME Init PROVE Types /\ CallsFit
  OBVIOUS
<1>1. pipes \in Seq(SUBSET Clients) /\ current \in 0..Len(pipes)
  <2>1. <<>> \in Seq(SUBSET Clients) /\ Len(<<>>) = 0
    BY EmptySeq
  <2>2. <<{}>> \in Seq(SUBSET Clients) /\ Len(<<{}>>) = 1
    OBVIOUS
  <2>3. (pipes = <<>> \/ pipes = <<{}>>) /\ current = Len(pipes)
    BY DEF Init
  <2>4. CASE pipes = <<>>
    BY <2>1, <2>3, <2>4
  <2>5. CASE pipes = <<{}>>
    BY <2>2, <2>3, <2>5
  <2> QED BY <2>3, <2>4, <2>5
<1>2. Idle \in EngineCalls
  BY DEF Idle, EngineCalls
<1>3. setup \in Setups /\ setup \in [engine : Engines \cup {"none"}, limit : Nat]
  BY SessionsAssumption DEF Init, SessionsAssumption
<1>4. 0 \in 0..MaxSteps
  BY SessionsAssumption DEF SessionsAssumption
<1>5. Types
  BY <1>1, <1>2, <1>3, <1>4 DEF Init, Types
<1>6. CallsFit
  BY DEF Init, CallsFit, CallOf
<1> QED BY <1>5, <1>6

LEMMA StepsTyped ==
    ASSUME Types, NEW c \in Clients, Moves(c)
    PROVE  /\ setup' = setup
           /\ steps' \in [Clients -> 0..MaxSteps]
           /\ left' \subseteq Clients
<1> USE SessionsAssumption DEF SessionsAssumption
<1>0. steps \in [Clients -> 0..MaxSteps] /\ left \subseteq Clients
  BY DEF Types
<1>1. CASE Asks(c)
  BY <1>0, <1>1 DEF Asks
<1>2. CASE GoSilent(c)
  BY <1>0, <1>2 DEF GoSilent
<1>3. UNCHANGED setup /\ (UNCHANGED <<steps, left>> \/ Asks(c) \/ GoSilent(c))
  <2>1. CASE TurnAway(c) \/ Admit(c) \/ GoSilent(c) \/ Handler(c)
    BY <2>1 DEF TurnAway, Admit, GoSilent, Handler, Leave, Reset, Replies, Asks
  <2>2. CASE Require(c) \/ LoadLingBot(c) \/ LoadDreamZero(c) \/ Open(c) \/ Encode(c) \/ Register(c)
    BY <2>2 DEF Require, LoadLingBot, LoadDreamZero, Build, Open, Encode, Register, handlerVars
  <2>3. CASE FindSession(c) \/ Recondition(c) \/ InferLingBot(c) \/ InferDreamZero(c) \/ DecodeVLA(c)
    BY <2>3 DEF FindSession, Recondition, InferLingBot, InferDreamZero, DecodeVLA, handlerVars
  <2>4. CASE Swaps(c) \/ Drops(c) \/ Fails(c)
    BY <2>4 DEF Swaps, SwapIn, RunModel, SwapOut, Drops, Forget, Close, Fails, Raises, handlerVars
  <2>5. CASE ResetCosmos3(c) \/ StepCosmos3(c) \/ PlanCosmos3(c)
    BY <2>5 DEF ResetCosmos3, StepCosmos3, PlanCosmos3
  <2> QED BY <2>1, <2>2, <2>3, <2>4, <2>5, Zenon DEF Moves, Works
<1> QED BY <1>0, <1>1, <1>2, <1>3

(* The engine's tables keep their types, whoever calls.                    *)
LEMMA CallsTyped ==
    ASSUME Types, CallsFit, NEW c \in Clients, Moves(c)
    PROVE  Types' /\ CallsFit' /\ \A d \in Clients : d # c => conn'[d] = conn[d]
<1>1. Walks(c)
  BY HandlerWalks, WorksWalks DEF Moves
<1>2. TablesStep(c)
  BY MovesTables
<1>3. pipes' \in Seq(SUBSET Clients) /\ current' \in 0..Len(pipes')
  BY <1>2, PipesTyped
<1>4. setup' = setup /\ steps' \in [Clients -> 0..MaxSteps] /\ left' \subseteq Clients
  BY StepsTyped
<1>5. clock' \in [Clients -> Nat \cup {None}]
  <2>1. clock' = clock \/ \E n \in Nat \cup {None} : clock' = [clock EXCEPT ![c] = n]
    BY <1>2 DEF TablesStep, TablesKept
  <2> QED BY <2>1 DEF Types
<1>6. opened' \subseteq Clients /\ sessions' \subseteq Clients /\ proposed' \subseteq Clients
  BY <1>2 DEF TablesStep, TablesKept, Types
<1>7. Types'
  BY <1>1, <1>3, <1>4, <1>5, <1>6
  DEF Types, Walks, Held, EngineCalls, Engines, ResetPlaces, StepPlaces, ReleasePlaces, None
<1>8. CallsFit'
  BY <1>1 DEF Walks, CallsFit, CallOf
<1> QED BY <1>1, <1>7, <1>8 DEF Walks

LEMMA TypesStep == Types /\ CallsFit /\ [Next]_vars => Types' /\ CallsFit'
<1> SUFFICES ASSUME Types, CallsFit, [Next]_vars PROVE Types' /\ CallsFit'
  OBVIOUS
<1>1. CASE UNCHANGED vars
  <2>1. Types'
    BY <1>1 DEF vars, handlerVars, engineVars, Types, Held, EngineCalls, Engines, ResetPlaces, StepPlaces, ReleasePlaces, None
  <2>2. CallsFit'
    BY <1>1 DEF vars, handlerVars, CallsFit, CallOf
  <2> QED BY <2>1, <2>2
<1> QED BY <1>1, NextMoves, CallsTyped

-----------------------------------------------------------------------------
(* The counter of the handler. *)

HeldSet == {c \in Clients : conn[c] \in Held}

CounterInv ==
    /\ IsFiniteSet(HeldSet) /\ active = Cardinality(HeldSet)
    /\ active <= setup.limit

(* A call is under way for a connection that is held, or is being released. *)
LEMMA CallHeld ==
    ASSUME Types, CallsFit, NEW c \in Clients, call[c].at # "none"
    PROVE  /\ call[c].at \in ReleasePlaces <=> conn[c] = "releasing"
           /\ call[c].at \notin ReleasePlaces => conn[c] \in Held
<1>1. CallOf(c) /\ call[c] # Idle
  BY DEF CallsFit, Idle
<1>2. conn[c] \in {"resetting", "calling", "releasing"}
  BY <1>1 DEF CallOf
<1>3. CASE conn[c] = "resetting"
  BY <1>1, <1>3 DEF CallOf, Held, ResetPlaces, ReleasePlaces
<1>4. CASE conn[c] = "calling"
  BY <1>1, <1>4 DEF CallOf, Held, StepPlaces, ReleasePlaces
<1>5. CASE conn[c] = "releasing"
  BY <1>1, <1>5 DEF CallOf
<1> QED BY <1>2, <1>3, <1>4, <1>5

LEMMA CounterMoves ==
    ASSUME Types, CallsFit, NEW c \in Clients, Moves(c)
    PROVE  \/ active' = active /\ (conn'[c] \in Held <=> conn[c] \in Held)
           \/ /\ active < setup.limit /\ active' = active + 1
              /\ conn[c] \notin Held /\ conn'[c] \in Held
           \/ active' = active - 1 /\ conn[c] \in Held /\ conn'[c] \notin Held
<1>0. conn \in [Clients -> Held \cup {"new", "releasing", "closed"}]
  BY DEF Types
<1>1. CASE TurnAway(c)
  BY <1>0, <1>1 DEF TurnAway, Held
<1>2. CASE Admit(c)
  BY <1>0, <1>2 DEF Admit, Held
<1>3. CASE GoSilent(c)
  BY <1>3 DEF GoSilent
<1>4. CASE Reset(c) \/ Replies(c) \/ Asks(c)
  BY <1>0, <1>4 DEF Reset, Replies, Asks, Held
<1>5. CASE Leave(c) \/ Fails(c)
  <2>1. conn[c] \in Held /\ Finally(c)
    <3>1. CASE Leave(c)
      BY <3>1 DEF Leave, Held
    <3>2. CASE Fails(c)
      BY <3>2, CallHeld DEF Fails, Raises, ReleasePlaces
    <3> QED BY <1>5, <3>1, <3>2
  <2>2. conn'[c] \in {"releasing", "closed"} /\ active' = active - 1
    BY <2>1, FinallyMoves DEF Finally
  <2> QED BY <2>1, <2>2 DEF Held
<1>6. CASE Require(c) \/ LoadLingBot(c) \/ LoadDreamZero(c) \/ Open(c) \/ Encode(c)
  BY <1>6 DEF Require, LoadLingBot, LoadDreamZero, Build, Open, Encode, handlerVars
<1>7. CASE Recondition(c) \/ InferDreamZero(c) \/ SwapIn(c) \/ RunModel(c) \/ Forget(c)
  BY <1>7 DEF Recondition, InferDreamZero, SwapIn, RunModel, Forget, handlerVars
<1>8. CASE Register(c) \/ ResetCosmos3(c) \/ InferLingBot(c) \/ DecodeVLA(c)
           \/ StepCosmos3(c) \/ PlanCosmos3(c)
  <2>1. /\ call[c].at \notin ReleasePlaces /\ call[c].at # "none"
        /\ (Returns(c, "opened") \/ Returns(c, "reply"))
        /\ active' = active
    BY <1>8 DEF Register, ResetCosmos3, InferLingBot, DecodeVLA, StepCosmos3, PlanCosmos3,
                In, ReleasePlaces
  <2>2. conn'[c] \in {"opened", "reply"} /\ conn[c] \in Held
    BY <2>1, ReturnsMoves, CallHeld
  <2> QED BY <2>1, <2>2 DEF Held
<1>9. CASE FindSession(c) \/ SwapOut(c)
  <2>1. /\ call[c].at \notin ReleasePlaces /\ call[c].at # "none"
        /\ Returns(c, "reply") \/ UNCHANGED conn
        /\ active' = active
    BY <1>9 DEF FindSession, SwapOut, In, ReleasePlaces
  <2>2. (conn'[c] = "reply" \/ UNCHANGED conn) /\ conn[c] \in Held
    BY <2>1, ReturnsMoves, CallHeld
  <2> QED BY <2>1, <2>2 DEF Held
<1>10. CASE Close(c)
  <2>1. call[c].at \in ReleasePlaces /\ call[c].at # "none" /\ Returns(c, "closed") /\ active' = active
    BY <1>10 DEF Close, In, ReleasePlaces
  <2>2. conn[c] = "releasing" /\ conn'[c] = "closed"
    BY <2>1, CallHeld, ReturnsMoves
  <2> QED BY <2>1, <2>2 DEF Held
<1> QED
  BY <1>1, <1>2, <1>3, <1>4, <1>5, <1>6, <1>7, <1>8, <1>9, <1>10, Zenon
  DEF Moves, Handler, Works, Swaps, Drops

LEMMA CounterStep == Types /\ CallsFit /\ CounterInv /\ [Next]_vars => CounterInv'
<1> SUFFICES ASSUME Types, CallsFit, CounterInv, [Next]_vars PROVE CounterInv'
  OBVIOUS
<1>1. ASSUME NEW c \in Clients, Moves(c) PROVE CounterInv'
  <2>0. Walks(c) /\ setup' = setup
    BY <1>1, HandlerWalks, WorksWalks, StepsTyped DEF Moves
  <2>1. /\ IsFiniteSet(HeldSet) /\ active = Cardinality(HeldSet) /\ active <= setup.limit
        /\ setup.limit \in Nat /\ Cardinality(HeldSet) \in Nat
    BY FS_CardinalityType DEF CounterInv, Types
  <2>2. CASE active' = active /\ (conn'[c] \in Held <=> conn[c] \in Held)
    <3>1. HeldSet' = HeldSet
      BY <2>0, <2>2 DEF HeldSet, Walks
    <3> QED BY <2>0, <2>1, <2>2, <3>1 DEF CounterInv
  <2>3. CASE /\ active < setup.limit /\ active' = active + 1
             /\ conn[c] \notin Held /\ conn'[c] \in Held
    <3>1. HeldSet' = HeldSet \cup {c} /\ c \notin HeldSet
      BY <2>0, <2>3 DEF HeldSet, Walks
    <3>2. /\ IsFiniteSet(HeldSet \cup {c})
          /\ Cardinality(HeldSet \cup {c}) = Cardinality(HeldSet) + 1
      BY <2>1, <3>1, FS_AddElement
    <3> QED BY <2>0, <2>1, <2>3, <3>1, <3>2 DEF CounterInv
  <2>4. CASE active' = active - 1 /\ conn[c] \in Held /\ conn'[c] \notin Held
    <3>1. HeldSet' = HeldSet \ {c} /\ c \in HeldSet
      BY <2>0, <2>4 DEF HeldSet, Walks
    <3>2. /\ IsFiniteSet(HeldSet \ {c})
          /\ Cardinality(HeldSet \ {c}) = Cardinality(HeldSet) - 1
      BY <2>1, <3>1, FS_RemoveElement
    <3> QED BY <2>0, <2>1, <2>4, <3>1, <3>2 DEF CounterInv
  <2> QED BY <1>1, <2>2, <2>3, <2>4, CounterMoves
<1>2. CASE UNCHANGED vars
  <2>1. HeldSet' = HeldSet /\ active' = active /\ setup' = setup
    BY <1>2 DEF vars, handlerVars, HeldSet
  <2> QED BY <2>1 DEF CounterInv
<1> QED BY <1>1, <1>2, NextMoves

LEMMA CounterInit == Init => CounterInv
<1> SUFFICES ASSUME Init PROVE CounterInv
  OBVIOUS
<1>1. HeldSet = {} /\ active = 0
  BY DEF Init, HeldSet, Held
<1>2. setup.limit \in Nat
  BY SessionsAssumption DEF Init, SessionsAssumption
<1> QED BY <1>1, <1>2, FS_EmptySet DEF CounterInv

-----------------------------------------------------------------------------
(* What a session leaves behind. *)

(* The pipeline that calls are made on knows the session.                  *)
Lives(c) == current # 0 /\ c \in pipes[current]

LeakOf(c) ==
    /\ conn[c] \in {"new", "waiting", "resetting"} => c \notin opened
    /\ conn[c] \in {"opened", "ready", "calling", "reply", "releasing"} => c \in opened
    /\ clock[c] # None => c \in opened
    /\ c \in opened /\ setup.engine # "cosmos3" => clock[c] # None
    /\ setup.engine = "cosmos3" => clock[c] = None /\ c \notin sessions
    /\ c \in sessions => \/ conn[c] \in {"opened", "ready", "calling", "reply"}
                         \/ conn[c] = "releasing" /\ call[c].at = "forget"
    /\ c \in proposed => c \in opened
    /\ conn[c] = "closed" /\ clock[c] # None => ~Lives(c)

LeakInv == \A c \in Clients : LeakOf(c)

LEMMA LeakInit == Init => LeakInv
BY DEF Init, LeakInv, LeakOf, None

(* A move of one client leaves the session of every other as it was, but   *)
(* for a pipeline that was loaded twice: the new one knows no session.     *)
LEMMA Alone ==
    ASSUME Types, CallsFit, NEW c \in Clients, Moves(c), NEW d \in Clients, d # c
    PROVE  /\ conn'[d] = conn[d] /\ call'[d] = call[d] /\ clock'[d] = clock[d]
           /\ d \in opened' <=> d \in opened
           /\ d \in sessions' <=> d \in sessions
           /\ d \in proposed' <=> d \in proposed
           /\ Lives(d)' => Lives(d)
<1>1. conn'[d] = conn[d] /\ call'[d] = call[d]
  BY HandlerWalks, WorksWalks DEF Moves, Walks
<1>2. TablesStep(c)
  BY MovesTables
<1>3. /\ clock'[d] = clock[d]
      /\ d \in opened' <=> d \in opened
      /\ d \in sessions' <=> d \in sessions
      /\ d \in proposed' <=> d \in proposed
  BY <1>2 DEF TablesStep, TablesKept, Types
<1>4. Lives(d)' => Lives(d)
  <2>0. pipes \in Seq(SUBSET Clients) /\ current \in 0..Len(pipes) /\ Len(pipes) \in Nat
        /\ DOMAIN pipes = 1..Len(pipes)
    <3>1. pipes \in Seq(SUBSET Clients) /\ current \in 0..Len(pipes)
      BY DEF Types
    <3> QED BY <3>1, LenProperties
  <2>1. CASE UNCHANGED <<pipes, current>>
    BY <2>1 DEF Lives
  <2>2. CASE pipes' = Append(pipes, {}) /\ current' = Len(pipes')
    <3>1. {} \in SUBSET Clients
      OBVIOUS
    <3>2. Len(pipes') = Len(pipes) + 1 /\ pipes'[Len(pipes) + 1] = {}
      BY <2>0, <2>2, <3>1, AppendProperties
    <3>3. pipes'[current'] = {}
      BY <2>2, <3>2
    <3> QED BY <3>3 DEF Lives
  <2>3. CASE /\ current' = current
             /\ \/ pipes' = [pipes EXCEPT ![current] = @ \cup {c}]
                \/ pipes' = [pipes EXCEPT ![current] = @ \ {c}]
    <3>1. CASE current = 0
      BY <2>3, <3>1 DEF Lives
    <3>2. CASE current # 0
      <4>1. current \in DOMAIN pipes
        BY <2>0, <3>2
      <4>2. pipes'[current] = pipes[current] \cup {c} \/ pipes'[current] = pipes[current] \ {c}
        BY <2>0, <2>3, <4>1
      <4> QED BY <2>3, <4>2 DEF Lives
    <3> QED BY <3>1, <3>2
  <2>4. \/ UNCHANGED <<pipes, current>>
        \/ pipes' = Append(pipes, {}) /\ current' = Len(pipes')
        \/ /\ current' = current
           /\ \/ pipes' = [pipes EXCEPT ![current] = @ \cup {c}]
              \/ pipes' = [pipes EXCEPT ![current] = @ \ {c}]
    BY <1>2 DEF TablesStep, TablesKept
  <2> QED BY <2>1, <2>2, <2>3, <2>4
<1> QED BY <1>1, <1>3, <1>4

(* Moves that leave the tables alone: where the connection goes matters.   *)
LEMMA LeakQuiet ==
    ASSUME Types, LeakInv, NEW c \in Clients, TablesKept, setup' = setup,
           \/ conn'[c] = conn[c] /\ (call[c].at = "forget" => call'[c].at = "forget")
           \/ /\ conn[c] \in {"new", "waiting"}
              /\ conn'[c] \in {"waiting", "resetting"}
           \/ conn[c] \in {"new", "waiting", "resetting"} /\ conn'[c] = "closed"
           \/ /\ conn[c] \in {"opened", "ready", "calling", "reply"}
              /\ \/ conn'[c] \in {"opened", "ready", "calling", "reply"}
                 \/ conn'[c] = "releasing" /\ call'[c].at = "forget"
                 \/ conn'[c] = "closed" /\ setup.engine = "cosmos3"
    PROVE  LeakOf(c)'
<1>1. LeakOf(c) /\ UNCHANGED <<opened, sessions, proposed, clock>> /\ (Lives(c)' <=> Lives(c))
  BY DEF LeakInv, TablesKept, Lives
<1> QED BY <1>1 DEF LeakOf

LEMMA LeakHandler ==
    ASSUME Types, CallsFit, LeakInv, NEW c \in Clients,
           TurnAway(c) \/ Admit(c) \/ GoSilent(c) \/ Handler(c)
    PROVE  LeakOf(c)'
<1>0. /\ conn \in [Clients -> Held \cup {"new", "releasing", "closed"}]
      /\ call \in [Clients -> EngineCalls] /\ CallOf(c) /\ LeakOf(c)
      /\ TablesKept /\ setup' = setup
  BY QuietMoves, StepsTyped DEF Types, CallsFit, LeakInv, Moves
<1>1. CASE TurnAway(c) \/ Admit(c) \/ GoSilent(c)
  <2>1. call'[c] = call[c]
    BY <1>1 DEF TurnAway, Admit, GoSilent
  <2> QED BY <1>0, <1>1, <2>1, LeakQuiet DEF TurnAway, Admit, GoSilent
<1>2. CASE Reset(c) \/ Replies(c) \/ Asks(c)
  BY <1>0, <1>2, LeakQuiet DEF Reset, Replies, Asks
<1>3. CASE Leave(c)
  <2>1. Finally(c) /\ conn[c] \in {"waiting", "opened", "ready", "reply"}
    BY <1>3 DEF Leave
  <2>2. c \in opened <=> conn[c] # "waiting"
    BY <1>0, <2>1 DEF LeakOf
  <2>3. \/ /\ c \in opened /\ setup.engine # "cosmos3"
           /\ conn'[c] = "releasing" /\ call'[c].at = "forget"
        \/ ~(c \in opened /\ setup.engine # "cosmos3") /\ conn'[c] = "closed"
    BY <2>1, FinallyMoves
  <2> QED BY <1>0, <2>1, <2>2, <2>3, LeakQuiet
<1> QED BY <1>1, <1>2, <1>3 DEF Handler

LEMMA LeakQuietWork ==
    ASSUME Types, CallsFit, LeakInv, NEW c \in Clients,
           \/ Require(c) \/ Encode(c) \/ FindSession(c) \/ InferDreamZero(c)
           \/ SwapIn(c) \/ RunModel(c) \/ StepCosmos3(c) \/ PlanCosmos3(c) \/ Fails(c)
    PROVE  LeakOf(c)'
<1>0. TablesKept /\ setup' = setup /\ LeakOf(c) /\ CallOf(c)
      /\ conn \in [Clients -> Held \cup {"new", "releasing", "closed"}]
  <2>1. TablesKept
    BY QuietMoves
  <2>2. setup' = setup
    BY DEF Require, Encode, FindSession, InferDreamZero, SwapIn, RunModel, StepCosmos3,
           PlanCosmos3, Fails, Raises, handlerVars
  <2> QED BY <2>1, <2>2 DEF Types, CallsFit, LeakInv
<1>1. CASE Fails(c)
  <2>1. Finally(c) /\ call[c].at \notin ReleasePlaces /\ call[c].at # "none"
    BY <1>1 DEF Fails, Raises, ReleasePlaces
  <2>2. conn[c] \in Held
    BY <2>1, CallHeld
  <2>3. \/ /\ c \in opened /\ setup.engine # "cosmos3"
           /\ conn'[c] = "releasing" /\ call'[c].at = "forget"
        \/ ~(c \in opened /\ setup.engine # "cosmos3") /\ conn'[c] = "closed"
    BY <2>1, FinallyMoves
  <2>4. c \in opened <=> conn[c] \notin {"waiting", "resetting"}
    BY <1>0, <2>2 DEF LeakOf, Held
  <2> QED BY <1>0, <2>2, <2>3, <2>4, LeakQuiet DEF Held
<1>2. CASE StepCosmos3(c) \/ PlanCosmos3(c) \/ FindSession(c)
  <2>1. call[c].at = "session" /\ (Returns(c, "reply") \/ UNCHANGED conn)
    BY <1>2 DEF StepCosmos3, PlanCosmos3, FindSession, In
  <2>2. conn[c] = "calling"
    BY <1>0, <2>1 DEF CallOf, Held, Idle, ResetPlaces, StepPlaces, ReleasePlaces
  <2>3. conn'[c] \in {"calling", "reply"}
    BY <2>1, <2>2, ReturnsMoves
  <2> QED BY <1>0, <2>2, <2>3, LeakQuiet
<1>3. CASE \/ Require(c) \/ Encode(c) \/ InferDreamZero(c) \/ SwapIn(c) \/ RunModel(c)
  <2>1. UNCHANGED conn /\ call[c].at # "forget"
    BY <1>3 DEF Require, Encode, InferDreamZero, SwapIn, RunModel, In, handlerVars
  <2> QED BY <1>0, <2>1, LeakQuiet
<1> QED BY <1>1, <1>2, <1>3

LEMMA LeakWork ==
    ASSUME Types, CallsFit, LeakInv, NEW c \in Clients, Works(c)
    PROVE  LeakOf(c)'
<1>0. /\ conn \in [Clients -> Held \cup {"new", "releasing", "closed"}]
      /\ clock \in [Clients -> Nat \cup {None}]
      /\ CallOf(c) /\ LeakOf(c) /\ Walks(c) /\ setup' = setup
  BY WorksWalks, StepsTyped DEF Types, CallsFit, LeakInv, Moves
<1>1. CASE LoadLingBot(c) \/ LoadDreamZero(c)
  <2>1. /\ call[c].at = "load" /\ UNCHANGED <<conn, opened, sessions, clock, proposed>>
    BY <1>1 DEF LoadLingBot, LoadDreamZero, Build, In, handlerVars
  <2>2. conn[c] = "resetting"
    BY <1>0, <2>1 DEF CallOf, Idle, StepPlaces, ReleasePlaces
  <2> QED BY <1>0, <2>1, <2>2 DEF LeakOf
<1>2. CASE Open(c)
  <2>1. call[c].at = "open" /\ UNCHANGED <<conn, opened, sessions, clock, proposed>>
    BY <1>2 DEF Open, OpenLingBot, OpenDreamZero, OpenVLA, In, handlerVars
  <2>2. conn[c] = "resetting"
    BY <1>0, <2>1 DEF CallOf, Idle, StepPlaces, ReleasePlaces
  <2> QED BY <1>0, <2>1, <2>2 DEF LeakOf
<1>3. CASE setup.engine # "cosmos3" /\ Register(c)
  <2>1. /\ Returns(c, "opened") /\ opened' = opened \cup {c}
        /\ clock' = [clock EXCEPT ![c] = 0]
        /\ UNCHANGED proposed
    BY <1>3 DEF Register
  <2>2. conn'[c] = "opened" /\ clock'[c] = 0 /\ c \in opened'
    BY <1>0, <2>1, ReturnsMoves DEF Types
  <2> QED BY <1>0, <1>3, <2>1, <2>2 DEF LeakOf, None
<1>4. CASE ResetCosmos3(c)
  <2>1. /\ Returns(c, "opened") /\ opened' = opened \cup {c} /\ setup.engine = "cosmos3"
        /\ UNCHANGED <<clock, sessions, proposed>>
    BY <1>4 DEF ResetCosmos3, engineVars
  <2>2. conn'[c] = "opened" /\ c \in opened'
    BY <1>0, <2>1, ReturnsMoves DEF Types
  <2> QED BY <1>0, <1>4, <2>1, <2>2 DEF LeakOf, None
<1>5. CASE Recondition(c)
  <2>1. /\ call[c].at = "recondition" /\ UNCHANGED <<conn, opened, sessions, proposed>>
        /\ setup.engine # "cosmos3"
    BY <1>5 DEF Recondition, ReconditionLingBot, ReconditionDreamZero, AppendVLA, In, handlerVars
  <2>2. conn[c] = "calling"
    BY <1>0, <2>1 DEF CallOf, Idle, ResetPlaces, StepPlaces, ReleasePlaces
  <2>3. clock'[c] \in Nat
    <3>2. \E n \in Nat : clock' = [clock EXCEPT ![c] = n]
      BY <1>5, ClockTicks
    <3> QED BY <1>0, <3>2
  <2> QED BY <1>0, <2>1, <2>2, <2>3 DEF LeakOf, None
<1>6. CASE InferLingBot(c) \/ DecodeVLA(c) \/ SwapOut(c)
  <2>1. /\ UNCHANGED <<opened, sessions, clock>>
        /\ \/ proposed' = proposed /\ UNCHANGED conn
           \/ proposed' = proposed \cup {c} /\ Returns(c, "reply")
        /\ call[c].at \in {"infer", "swapOut"}
        /\ proposed' # proposed => call[c].op # "reset" \/ call[c].at = "infer"
    BY <1>6 DEF InferLingBot, DecodeVLA, SwapOut, In
  <2>2. conn[c] \in {"resetting", "calling"} /\ (call[c].op # "reset" \/ call[c].at = "infer" => conn[c] = "calling")
    BY <1>0, <2>1 DEF CallOf, Idle, ResetPlaces, StepPlaces, ReleasePlaces
  <2>3. CASE proposed' = proposed /\ UNCHANGED conn
    BY <1>0, <2>1, <2>2, <2>3 DEF LeakOf
  <2>4. CASE proposed' = proposed \cup {c} /\ Returns(c, "reply")
    <3>1. conn'[c] = "reply"
      BY <2>4, ReturnsMoves
    <3>2. conn[c] = "calling"
      <4>1. call[c].at = "infer" \/ call[c].op # "reset"
        BY <1>6, <2>4, <3>1, <2>2 DEF InferLingBot, DecodeVLA, SwapOut, In
      <4> QED BY <2>2, <4>1
    <3> QED BY <1>0, <2>1, <2>4, <3>1, <3>2 DEF LeakOf
  <2> QED BY <2>1, <2>3, <2>4
<1>7. CASE setup.engine # "cosmos3" /\ Forget(c)
  <2>1. /\ call[c].at = "forget" /\ UNCHANGED <<conn, opened, clock>>
        /\ sessions' = sessions \ {c} /\ proposed' = proposed \ {c}
    BY <1>7 DEF Forget, In, handlerVars
  <2>2. conn[c] = "releasing"
    BY <1>0, <2>1 DEF CallOf, Idle, ResetPlaces, StepPlaces, ReleasePlaces
  <2> QED BY <1>0, <1>7, <2>1, <2>2 DEF LeakOf
<1>8. CASE setup.engine # "cosmos3" /\ Close(c)
  <2>1. /\ call[c].at = "close" /\ Returns(c, "closed")
        /\ UNCHANGED <<opened, sessions, clock, proposed, current>>
        /\ pipes' = [pipes EXCEPT ![current] = @ \ {c}]
    BY <1>8 DEF Close, CloseLingBot, CloseDreamZero, In
  <2>2. conn[c] = "releasing"
    BY <1>0, <2>1 DEF CallOf, Idle, ResetPlaces, StepPlaces, ReleasePlaces
  <2>3. conn'[c] = "closed" /\ c \notin sessions
    BY <1>0, <2>1, <2>2, ReturnsMoves DEF LeakOf
  <2>4. ~Lives(c)'
    <3>0. pipes \in Seq(SUBSET Clients) /\ current \in 0..Len(pipes)
          /\ Len(pipes) \in Nat /\ DOMAIN pipes = 1..Len(pipes)
      <4>1. pipes \in Seq(SUBSET Clients) /\ current \in 0..Len(pipes)
        BY DEF Types
      <4> QED BY <4>1, LenProperties
    <3>1. CASE current = 0
      BY <2>1, <3>1 DEF Lives
    <3>2. CASE current # 0
      <4>1. current \in DOMAIN pipes
        BY <3>0, <3>2
      <4>2. pipes'[current] = pipes[current] \ {c}
        BY <2>1, <3>0, <4>1
      <4> QED BY <2>1, <4>2 DEF Lives
    <3> QED BY <3>1, <3>2
  <2> QED BY <1>0, <1>8, <2>1, <2>2, <2>3, <2>4 DEF LeakOf
<1>9. CASE \/ Require(c) \/ Encode(c) \/ FindSession(c) \/ InferDreamZero(c)
           \/ SwapIn(c) \/ RunModel(c) \/ StepCosmos3(c) \/ PlanCosmos3(c) \/ Fails(c)
  BY <1>9, LeakQuietWork
<1> QED
  BY <1>1, <1>2, <1>3, <1>4, <1>5, <1>6, <1>7, <1>8, <1>9, Zenon DEF Works, Swaps, Drops

LEMMA LeakStep == Types /\ CallsFit /\ LeakInv /\ [Next]_vars => LeakInv'
<1> SUFFICES ASSUME Types, CallsFit, LeakInv, [Next]_vars PROVE LeakInv'
  OBVIOUS
<1>1. ASSUME NEW c \in Clients, Moves(c), NEW d \in Clients PROVE LeakOf(d)'
  <2>1. CASE d = c
    BY <1>1, <2>1, LeakHandler, LeakWork DEF Moves
  <2>2. CASE d # c
    <3>1. /\ conn'[d] = conn[d] /\ call'[d] = call[d] /\ clock'[d] = clock[d]
          /\ d \in opened' <=> d \in opened
          /\ d \in sessions' <=> d \in sessions
          /\ d \in proposed' <=> d \in proposed
          /\ Lives(d)' => Lives(d)
      BY <1>1, <2>2, Alone
    <3>2. setup' = setup
      BY <1>1, StepsTyped
    <3>3. LeakOf(d)
      BY DEF LeakInv
    <3> QED BY <3>1, <3>2, <3>3 DEF LeakOf
  <2> QED BY <2>1, <2>2
<1>2. CASE UNCHANGED vars
  BY <1>2 DEF vars, handlerVars, engineVars, LeakInv, LeakOf, Lives
<1> QED BY <1>1, <1>2, NextMoves DEF LeakInv

(* Whatever exit the handler of a connection takes, and whatever other     *)
(* sessions do on other threads, once it is closed neither the engine nor  *)
(* its pipeline keeps anything of a session that reset opened, and the     *)
(* counter is the number of connections that are held.                     *)
THEOREM NothingLeaked == Spec => []NothingLeaks
<1>1. LeakInv /\ CounterInv => NothingLeaks
  BY DEF LeakInv, LeakOf, CounterInv, HeldSet, NothingLeaks, Lives
<1> QED BY <1>1, TypesInit, TypesStep, CounterInit, CounterStep, LeakInit, LeakStep, PTL DEF Spec

-----------------------------------------------------------------------------
(* The history of a session. *)

(* s holds entries of c alone, one for every frame in order.               *)
Own(c, s) == s \in Seq(Entry) /\ \A i \in 1..Len(s) : s[i].of = c /\ s[i].frame = i - 1

Settled(c) ==
    conn[c] \in {"opened", "ready", "reply"} \/ call[c].at \in {"session", "recondition"}

(* A chunk has been written ahead of the clock once a plan or a step has   *)
(* run; until the first step grounds it nothing of it is real.             *)
LingBotOf(c) ==
    /\ call[c].at \in {"encode", "register"} => kv[c] = <<>>
    /\ Settled(c) =>
          /\ c \in proposed => Len(kv[c]) = clock[c] + Chunk
          /\ c \notin proposed => kv[c] = <<>> /\ clock[c] = 0
          /\ clock[c] = 0 => \A i \in 1..Len(kv[c]) : ~kv[c][i].real
    /\ call[c].at = "infer" => Len(kv[c]) = clock[c]

VLAOf(c) ==
    /\ call[c].at \in {"encode", "register"} => kv[c] = <<>>
    /\ Settled(c) \/ call[c].at = "infer" => Len(kv[c]) = clock[c]

HistoryOf(c) ==
    /\ c \notin crossed => Own(c, kv[c])
    /\ c \notin crossed /\ setup.engine = "dreamzero" /\ InModel(c) => Own(c, head)
    /\ setup.engine = "lingbot" => LingBotOf(c)
    /\ setup.engine = "vla" => VLAOf(c)

CacheTypes == kv \in [Clients -> Seq(Entry)] /\ head \in Seq(Entry) /\ crossed \subseteq Clients

(* Two that are in the model together have crossed.                        *)
Apart ==
    \A c \in Clients, d \in Clients : c # d /\ InModel(c) /\ InModel(d) => c \in crossed

HistoryInv == CacheTypes /\ Apart /\ \A c \in Clients : HistoryOf(c)

LEMMA OwnEmpty == ASSUME NEW c \in Clients PROVE Own(c, <<>>) /\ <<>> \in Seq(Entry) /\ Len(<<>>) = 0
<1>1. <<>> \in Seq(Entry) /\ Len(<<>>) = 0
  BY EmptySeq
<1> QED BY <1>1 DEF Own

LEMMA OwnAppend ==
    ASSUME NEW c \in Clients, NEW s \in Seq(Entry), NEW n \in Nat,
           NEW e \in Entry, e.of = c, e.frame = n
    PROVE  /\ Append(s, e) \in Seq(Entry) /\ Len(Append(s, e)) = Len(s) + 1
           /\ Append(s, e)[Len(s) + 1] = e
           /\ \A i \in 1..Len(s) : Append(s, e)[i] = s[i]
           /\ Own(c, s) /\ n = Len(s) => Own(c, Append(s, e))
<1>1. e \in Entry /\ e.of = c /\ e.frame = n
  OBVIOUS
<1>2. Len(s) \in Nat
  BY LenProperties
<1> DEFINE t == Append(s, e)
<1>3. /\ t \in Seq(Entry) /\ Len(t) = Len(s) + 1
      /\ \A i \in 1..Len(s) : t[i] = s[i]
      /\ t[Len(s) + 1] = e
  BY <1>1, AppendProperties
<1> HIDE DEF t
<1>4. ASSUME Own(c, s), n = Len(s) PROVE Own(c, t)
  <2>1. ASSUME NEW i \in 1..Len(t) PROVE t[i].of = c /\ t[i].frame = i - 1
    <3>1. CASE i \in 1..Len(s)
      BY <1>3, <1>4, <3>1 DEF Own
    <3>2. CASE i = Len(s) + 1
      <4>1. t[i] = e /\ i - 1 = n
        BY <1>2, <1>3, <1>4, <3>2
      <4> QED BY <1>1, <4>1
    <3>3. i \in 1..Len(s) \/ i = Len(s) + 1
      BY <1>2, <1>3
    <3> QED BY <3>1, <3>2, <3>3
  <2> QED BY <1>3, <2>1 DEF Own
<1> QED BY <1>3, <1>4 DEF t

(* A function on 1..n is a sequence of length n.                           *)
LEMMA FunIsSeq ==
    ASSUME NEW n \in Nat, NEW S, NEW f \in [1..n -> S]
    PROVE  f \in Seq(S) /\ Len(f) = n
<1>1. f \in Seq(S)
  OBVIOUS
<1>2. Len(f) \in Nat /\ DOMAIN f = 1..Len(f) /\ DOMAIN f = 1..n
  BY <1>1, LenProperties
<1> QED BY <1>1, <1>2

(* What a pass over a chunk predicts.                                      *)
ChunkOf(c, n) == [i \in 1..Chunk |-> Predicted(c, n + i - 1)]

LEMMA OwnChunk ==
    ASSUME NEW c \in Clients, NEW s \in Seq(Entry), NEW n \in Nat, NEW t,
           t = s \o ChunkOf(c, n)
    PROVE  /\ t \in Seq(Entry) /\ Len(t) = Len(s) + Chunk
           /\ Own(c, s) /\ n = Len(s) => Own(c, t)
           /\ Len(s) = 0 => \A i \in 1..Len(t) : ~t[i].real
<1> DEFINE chunk == ChunkOf(c, n)
<1>0. Chunk \in Nat /\ Len(s) \in Nat
  BY SessionsAssumption, LenProperties DEF SessionsAssumption
<1>1. \A i \in 1..Chunk : /\ Predicted(c, n + i - 1) \in Entry
                          /\ Predicted(c, n + i - 1).of = c
                          /\ Predicted(c, n + i - 1).frame = n + i - 1
                          /\ ~Predicted(c, n + i - 1).real
  <2> TAKE i \in 1..Chunk
  <2>1. n + i - 1 \in Nat
    BY <1>0
  <2> QED BY <2>1 DEF Predicted, Entry
<1>2. chunk \in Seq(Entry) /\ Len(chunk) = Chunk
  <2>1. chunk \in [1..Chunk -> Entry]
    BY <1>1 DEF ChunkOf
  <2> HIDE DEF chunk
  <2> QED BY <1>0, <2>1, FunIsSeq
<1>3. \A i \in 1..Chunk : chunk[i] = Predicted(c, n + i - 1)
  BY DEF ChunkOf
<1> HIDE DEF chunk
<1>4. /\ t \in Seq(Entry) /\ Len(t) = Len(s) + Chunk
      /\ \A i \in 1..(Len(s) + Chunk) :
            t[i] = IF i <= Len(s) THEN s[i] ELSE chunk[i - Len(s)]
  <2>1. t = s \o chunk
    BY DEF chunk
  <2>2. s \in Seq(Entry)
    OBVIOUS
  <2>3. /\ s \o chunk \in Seq(Entry) /\ Len(s \o chunk) = Len(s) + Len(chunk)
        /\ \A i \in 1..(Len(s) + Len(chunk)) :
              (s \o chunk)[i] = IF i <= Len(s) THEN s[i] ELSE chunk[i - Len(s)]
    BY <1>2, <2>2, ConcatProperties
  <2> QED BY <1>2, <2>1, <2>3
<1>5. ASSUME NEW i \in 1..Len(t), i > Len(s)
      PROVE  t[i].of = c /\ t[i].frame = n + (i - Len(s)) - 1 /\ ~t[i].real
  <2>1. i - Len(s) \in 1..Chunk /\ i \in 1..(Len(s) + Chunk) /\ ~(i <= Len(s))
    BY <1>0, <1>4, <1>5
  <2>2. t[i] = Predicted(c, n + (i - Len(s)) - 1)
    BY <1>3, <1>4, <2>1
  <2> QED BY <1>1, <2>1, <2>2
<1>6. ASSUME Own(c, s), n = Len(s) PROVE Own(c, t)
  <2>1. ASSUME NEW i \in 1..Len(t) PROVE t[i].of = c /\ t[i].frame = i - 1
    <3>1. CASE i <= Len(s)
      <4>1. t[i] = s[i] /\ i \in 1..Len(s)
        BY <1>0, <1>4, <3>1
      <4> QED BY <1>6, <4>1 DEF Own
    <3>2. CASE i > Len(s)
      <4>1. n + (i - Len(s)) - 1 = i - 1
        BY <1>0, <1>4, <1>6
      <4> QED BY <1>5, <3>2, <4>1
    <3>3. i <= Len(s) \/ i > Len(s)
      BY <1>0, <1>4
    <3> QED BY <3>1, <3>2, <3>3
  <2> QED BY <1>4, <2>1 DEF Own
<1>7. Len(s) = 0 => \A i \in 1..Len(t) : ~t[i].real
  <2> SUFFICES ASSUME Len(s) = 0, NEW i \in 1..Len(t) PROVE ~t[i].real
    OBVIOUS
  <2>1. i > Len(s)
    BY <1>4
  <2> QED BY <1>5, <2>1
<1> QED BY <1>4, <1>6, <1>7

(* t goes on from s by k entries, and is c's own if s is.                  *)
Grows(c, s, t, k) ==
    t \in Seq(Entry) /\ Len(t) = Len(s) + k /\ (Own(c, s) => Own(c, t))

LEMMA OwnReal ==
    ASSUME NEW c \in Clients, NEW s \in Seq(Entry)
    PROVE  /\ Grows(c, s, Append(s, Real(c, Len(s))), 1)
           /\ Grows(c, s, Append(s, Predicted(c, Len(s))), 1)
<1>1. Len(s) \in Nat
  BY LenProperties
<1>2. ASSUME NEW e \in {Real(c, Len(s)), Predicted(c, Len(s))}
      PROVE  Grows(c, s, Append(s, e), 1)
  <2>1. e \in Entry /\ e.of = c /\ e.frame = Len(s)
    <3>1. CASE e = Real(c, Len(s))
      BY <1>1, <3>1 DEF Real, Entry
    <3>2. CASE e = Predicted(c, Len(s))
      BY <1>1, <3>2 DEF Predicted, Entry
    <3> QED BY <3>1, <3>2
  <2>2. PICK n : n = Len(s)
    OBVIOUS
  <2>3. n \in Nat /\ e.frame = n
    BY <1>1, <2>1, <2>2
  <2>4. e \in Entry /\ e.of = c /\ e.frame = n
    BY <2>1, <2>3
  <2>5. /\ Append(s, e) \in Seq(Entry) /\ Len(Append(s, e)) = Len(s) + 1
        /\ Own(c, s) /\ n = Len(s) => Own(c, Append(s, e))
    BY ONLY <2>3, <2>4, OwnAppend
  <2> QED BY <2>2, <2>5 DEF Grows
<1> QED BY <1>2

LEMMA OwnPass ==
    ASSUME NEW c \in Clients, NEW s \in Seq(Entry)
    PROVE  /\ Grows(c, s, s \o ChunkOf(c, Len(s)), Chunk)
           /\ Len(s) = 0 =>
                 \A i \in 1..Len(s \o ChunkOf(c, Len(s))) :
                     ~(s \o ChunkOf(c, Len(s)))[i].real
<1>1. Len(s) \in Nat
  BY LenProperties
<1>2. PICK n : n = Len(s)
  OBVIOUS
<1>3. PICK t : t = s \o ChunkOf(c, n)
  OBVIOUS
<1>4. n \in Nat
  BY <1>1, <1>2
<1>5. /\ t \in Seq(Entry) /\ Len(t) = Len(s) + Chunk
      /\ Own(c, s) /\ n = Len(s) => Own(c, t)
      /\ Len(s) = 0 => \A i \in 1..Len(t) : ~t[i].real
  BY <1>3, <1>4, OwnChunk
<1> QED BY <1>2, <1>3, <1>5 DEF Grows

(* Nothing real: nothing is left.                                          *)
LEMMA GroundedEmpty ==
    ASSUME NEW c \in Clients, kv[c] \in Seq(Entry), \A i \in 1..Len(kv[c]) : ~kv[c][i].real
    PROVE  Grounded(c) = <<>>
<1>1. {i \in DOMAIN kv[c] : IsReal(kv[c][i])} = {}
  <2>1. DOMAIN kv[c] = 1..Len(kv[c])
    BY LenProperties
  <2> QED BY <2>1 DEF IsReal
<1> DEFINE real == {i \in DOMAIN kv[c] : IsReal(kv[c][i])}
           f == [n \in 1..Cardinality(real) |-> kv[c][Nth(real, n)]]
<1>2. Grounded(c) = f
  BY DEF Grounded
<1>3. Cardinality(real) = 0
  BY <1>1, FS_EmptySet
<1>4. DOMAIN f = {}
  <2>1. DOMAIN f = 1..Cardinality(real)
    OBVIOUS
  <2>2. 1..0 = {}
    OBVIOUS
  <2> HIDE DEF f, real
  <2> QED BY <1>3, <2>1, <2>2
<1>5. f = [n \in DOMAIN f |-> f[n]]
  OBVIOUS
<1> HIDE DEF f
<1>6. f = <<>>
  BY <1>4, <1>5
<1> QED BY <1>2, <1>6

-----------------------------------------------------------------------------
(* A move and the caches. *)

(* A move of c writes the cache of c or none; the attributes of the model  *)
(* are written on the way in and by the model itself; and a way in notes   *)
(* who is in the model already.                                            *)
CachesStep(c) ==
    /\ \/ kv' = kv
       \/ \E s : kv' = [kv EXCEPT ![c] = s]
    /\ \/ head' = head
       \/ call[c].at = "swapIn" /\ Others(c) \subseteq crossed'
       \/ call[c].at = "model"
    /\ crossed \subseteq crossed' /\ crossed' \subseteq crossed \cup Clients

LEMMA MovesCaches == ASSUME NEW c \in Clients, Moves(c) PROVE CachesStep(c)
<1>1. CASE TurnAway(c) \/ Admit(c) \/ GoSilent(c) \/ Handler(c)
  BY <1>1 DEF TurnAway, Admit, GoSilent, Handler, Leave, Reset, Replies, Asks, cacheVars,
              CachesStep
<1>2. CASE Require(c) \/ LoadLingBot(c) \/ LoadDreamZero(c) \/ Encode(c) \/ Register(c)
  BY <1>2 DEF Require, LoadLingBot, LoadDreamZero, Build, Encode, Register, cacheVars, CachesStep
<1>3. CASE Open(c)
  BY <1>3 DEF Open, OpenLingBot, OpenDreamZero, OpenVLA, CachesStep
<1>4. CASE FindSession(c) \/ InferDreamZero(c) \/ DecodeVLA(c) \/ PlanCosmos3(c) \/ Fails(c)
  BY <1>4 DEF FindSession, InferDreamZero, DecodeVLA, PlanCosmos3, Fails, cacheVars, CachesStep
<1>5. CASE Recondition(c)
  BY <1>5 DEF Recondition, ReconditionLingBot, ReconditionDreamZero, AppendVLA, CachesStep
<1>6. CASE InferLingBot(c) \/ ResetCosmos3(c) \/ StepCosmos3(c)
  BY <1>6 DEF InferLingBot, ResetCosmos3, StepCosmos3, CachesStep
<1>7. CASE setup.engine = "dreamzero" /\ Swaps(c)
  BY <1>7 DEF Swaps, SwapIn, RunModel, SwapOut, In, Others, CachesStep
<1>8. CASE Drops(c)
  BY <1>8 DEF Drops, Forget, Close, CloseLingBot, CloseDreamZero, cacheVars, CachesStep
<1> QED
  BY <1>1, <1>2, <1>3, <1>4, <1>5, <1>6, <1>7, <1>8, Zenon DEF Moves, Works

LEMMA GoesAt ==
    ASSUME Types, NEW c \in Clients, NEW at, Goes(c, at)
    PROVE  call'[c].at = at
<1>1. call[c] \in EngineCalls /\ call \in [Clients -> EngineCalls]
  BY DEF Types
<1> QED BY <1>1 DEF Goes, EngineCalls

(* Only the swap brings a client into the model, and it finds the others.  *)
ComesIn(c) ==
    InModel(c)' => InModel(c) \/ (Others(c) # {} => Others(c) \cup {c} \subseteq crossed')

LEMMA MovesComeIn ==
    ASSUME Types, CallsFit, NEW c \in Clients, Moves(c) PROVE ComesIn(c)
<1>0. call \in [Clients -> EngineCalls] /\ CallOf(c)
  BY DEF Types, CallsFit
<1>1. CASE TurnAway(c) \/ Admit(c) \/ GoSilent(c) \/ Replies(c)
  BY <1>1 DEF TurnAway, Admit, GoSilent, Replies, ComesIn, InModel
<1>2. CASE Leave(c) \/ Fails(c)
  <2>1. Finally(c)
    BY <1>2 DEF Leave, Fails, Raises
  <2>2. call'[c].at \in {"forget", "none"}
    BY <2>1, FinallyMoves DEF Idle
  <2> QED BY <2>2 DEF ComesIn, InModel
<1>3. CASE Reset(c) \/ Asks(c)
  <2>1. \E op \in {"reset", "step", "plan"}, at \in {"require", "session"} : Starts(c, op, at)
    BY <1>3 DEF Reset, Asks
  <2>2. call'[c].at \in {"require", "session"}
    BY <1>0, <2>1 DEF Starts
  <2> QED BY <2>2 DEF ComesIn, InModel
<1>4. CASE \/ Require(c) \/ LoadLingBot(c) \/ LoadDreamZero(c) \/ Open(c) \/ Encode(c)
           \/ Recondition(c) \/ InferDreamZero(c) \/ Forget(c)
  <2>1. \E at \in {"load", "open", "encode", "register", "swapIn", "infer", "close"} :
            Goes(c, at)
    BY <1>4 DEF Require, LoadLingBot, LoadDreamZero, Build, Open, Encode, EncodeLingBot,
                EncodeDreamZero, Recondition, InferDreamZero, Forget
  <2>2. PICK at \in {"load", "open", "encode", "register", "swapIn", "infer", "close"} :
            Goes(c, at)
    BY <2>1
  <2>3. call'[c].at = at
    BY <2>2, GoesAt
  <2> QED BY <2>3 DEF ComesIn, InModel
<1>5. CASE \/ Register(c) \/ InferLingBot(c) \/ DecodeVLA(c) \/ ResetCosmos3(c)
           \/ StepCosmos3(c) \/ PlanCosmos3(c) \/ Close(c)
  <2>1. \E place \in {"opened", "reply", "closed"} : Returns(c, place)
    BY <1>5 DEF Register, InferLingBot, DecodeVLA, ResetCosmos3, StepCosmos3, PlanCosmos3, Close
  <2>2. call'[c].at = "none"
    BY <1>0, <2>1 DEF Returns, Idle
  <2> QED BY <2>2 DEF ComesIn, InModel
<1>6. CASE FindSession(c)
  <2>1. \/ \E place \in {"opened", "reply", "closed"} : Returns(c, place)
        \/ Goes(c, "recondition") \/ Goes(c, "infer")
    BY <1>6 DEF FindSession
  <2>2. call'[c].at \in {"none", "recondition", "infer"}
    BY <1>0, <2>1, GoesAt DEF Returns, Idle
  <2> QED BY <2>2 DEF ComesIn, InModel
<1>7. CASE Swaps(c)
  <2>1. CASE SwapIn(c)
    BY <2>1 DEF SwapIn, ComesIn
  <2>2. CASE RunModel(c) \/ SwapOut(c)
    BY <2>2 DEF RunModel, SwapOut, In, InModel, ComesIn
  <2> QED BY <1>7, <2>1, <2>2 DEF Swaps
<1> QED
  BY <1>1, <1>2, <1>3, <1>4, <1>5, <1>6, <1>7, Zenon DEF Moves, Works, Handler, Drops

LEMMA ApartStep ==
    ASSUME Types, CallsFit, Apart, NEW c \in Clients, Moves(c)
    PROVE  Apart'
<1>1. \A d \in Clients : d # c => call'[d] = call[d]
  BY Alone
<1>2. crossed \subseteq crossed'
  BY MovesCaches DEF CachesStep
<1>3. ComesIn(c)
  BY MovesComeIn
<1>4. ASSUME NEW d \in Clients, d # c, InModel(c)', InModel(d)'
      PROVE  c \in crossed' /\ d \in crossed'
  <2>1. InModel(d)
    BY <1>1, <1>4 DEF InModel
  <2>2. CASE InModel(c)
    <3>1. c \in crossed /\ d \in crossed
      BY <1>4, <2>1, <2>2 DEF Apart
    <3> QED BY <1>2, <3>1
  <2>3. CASE Others(c) # {} => Others(c) \cup {c} \subseteq crossed'
    <3>1. d \in Others(c)
      BY <1>4, <2>1 DEF Others
    <3> QED BY <2>3, <3>1
  <2> QED BY <1>3, <1>4, <2>2, <2>3 DEF ComesIn
<1>5. ASSUME NEW d \in Clients, NEW e \in Clients, d # e, d # c, e # c,
             InModel(d)', InModel(e)'
      PROVE  d \in crossed'
  <2>1. InModel(d) /\ InModel(e)
    BY <1>1, <1>5 DEF InModel
  <2>2. d \in crossed
    BY <1>5, <2>1 DEF Apart
  <2> QED BY <1>2, <2>2
<1>6. SUFFICES ASSUME NEW d \in Clients, NEW e \in Clients, d # e, InModel(d)', InModel(e)'
               PROVE  d \in crossed'
  BY DEF Apart
<1> QED BY <1>4, <1>5, <1>6

(* The moves of others do not touch the history of a session.              *)
LEMMA HistoryAlone ==
    ASSUME Types, CallsFit, Apart, HistoryInv,
           NEW c \in Clients, Moves(c), NEW d \in Clients, d # c
    PROVE  HistoryOf(d)'
<1>1. /\ conn'[d] = conn[d] /\ call'[d] = call[d] /\ clock'[d] = clock[d]
      /\ (d \in proposed' <=> d \in proposed)
  BY Alone
<1>2. setup' = setup
  BY StepsTyped
<1>3. CachesStep(c)
  BY MovesCaches
<1>4. kv'[d] = kv[d]
  BY <1>3 DEF CachesStep, HistoryInv, CacheTypes
<1>5. HistoryOf(d)
  BY DEF HistoryInv
<1>6. d \notin crossed' /\ InModel(d) => head' = head
  <2> SUFFICES ASSUME d \notin crossed', InModel(d), head' # head PROVE FALSE
    OBVIOUS
  <2>1. CASE call[c].at = "swapIn" /\ Others(c) \subseteq crossed'
    BY <2>1 DEF Others
  <2>2. CASE call[c].at = "model"
    <3>1. InModel(c)
      BY <2>2 DEF InModel
    <3>2. d \in crossed
      BY <3>1 DEF Apart
    <3> QED BY <1>3, <3>2 DEF CachesStep
  <2> QED BY <1>3, <2>1, <2>2 DEF CachesStep
<1>7. (d \notin crossed' => d \notin crossed) /\ (InModel(d)' <=> InModel(d))
  BY <1>1, <1>3 DEF CachesStep, InModel
<1>8. Settled(d)' <=> Settled(d)
  BY <1>1 DEF Settled
<1>9. LingBotOf(d) => LingBotOf(d)'
  BY <1>1, <1>4, <1>8 DEF LingBotOf
<1>10. VLAOf(d) => VLAOf(d)'
  BY <1>1, <1>4, <1>8 DEF VLAOf
<1>11. Own(d, kv[d])' <=> Own(d, kv[d])
  BY <1>4 DEF Own, Entry
<1>12. head' = head => (Own(d, head)' <=> Own(d, head))
  BY DEF Own, Entry
<1> QED BY <1>1, <1>2, <1>5, <1>6, <1>7, <1>9, <1>10, <1>11, <1>12 DEF HistoryOf

(* The client's own moves that write no cache and no clock.                *)
LEMMA HistoryKept ==
    ASSUME NEW c \in Clients, CacheTypes, HistoryOf(c),
           UNCHANGED <<setup, kv, head, clock, crossed>>,
           c \in proposed' <=> c \in proposed,
           Settled(c)' => Settled(c),
           call'[c].at \in {"encode", "register"} => call[c].at \in {"encode", "register"},
           call'[c].at = "infer" =>
              /\ setup.engine = "lingbot" => Len(kv[c]) = clock[c]
              /\ setup.engine = "vla" => Len(kv[c]) = clock[c],
           call'[c].at \in {"model", "swapOut"} => call[c].at \in {"model", "swapOut"}
    PROVE  CacheTypes' /\ HistoryOf(c)'
<1>1. CacheTypes'
  BY DEF CacheTypes, Entry
<1>2. Own(c, kv[c])' <=> Own(c, kv[c])
  BY DEF Own, Entry
<1>3. Own(c, head)' <=> Own(c, head)
  BY DEF Own, Entry
<1>4. (c \in crossed' <=> c \in crossed) /\ (InModel(c)' => InModel(c))
  BY DEF InModel
<1>5. setup.engine = "lingbot" => LingBotOf(c)'
  BY DEF HistoryOf, LingBotOf
<1>6. setup.engine = "vla" => VLAOf(c)'
  BY DEF HistoryOf, VLAOf
<1> QED BY <1>1, <1>2, <1>3, <1>4, <1>5, <1>6 DEF HistoryOf

LEMMA HistoryHandler ==
    ASSUME Types, CallsFit, HistoryInv, NEW c \in Clients,
           TurnAway(c) \/ Admit(c) \/ GoSilent(c) \/ Handler(c)
    PROVE  CacheTypes' /\ HistoryOf(c)'
<1>0. /\ conn \in [Clients -> Held \cup {"new", "releasing", "closed"}]
      /\ call \in [Clients -> EngineCalls] /\ CallOf(c) /\ CacheTypes /\ HistoryOf(c)
  BY DEF Types, CallsFit, HistoryInv
<1>1. UNCHANGED <<setup, kv, head, clock, crossed>> /\ (c \in proposed' <=> c \in proposed)
  BY DEF TurnAway, Admit, GoSilent, Handler, Leave, Reset, Replies, Asks, cacheVars, engineVars
<1>2. CASE TurnAway(c) \/ Admit(c) \/ GoSilent(c) \/ Replies(c)
  <2>1. call' = call /\ (Settled(c)' => Settled(c))
    BY <1>0, <1>2 DEF TurnAway, Admit, GoSilent, Replies, Settled
  <2>2. call[c].at # "infer" \/ conn'[c] = conn[c]
    BY <1>0, <1>2 DEF TurnAway, Admit, GoSilent, Replies, CallOf, Idle
  <2>3. call'[c].at = "infer" =>
              /\ setup.engine = "lingbot" => Len(kv[c]) = clock[c]
              /\ setup.engine = "vla" => Len(kv[c]) = clock[c]
    BY <1>0, <2>1 DEF HistoryOf, LingBotOf, VLAOf
  <2> QED BY <1>0, <1>1, <2>1, <2>3, HistoryKept
<1>3. CASE Leave(c)
  <2>1. Finally(c)
    BY <1>3 DEF Leave
  <2>2. call'[c].at \in {"forget", "none"} /\ conn'[c] \in {"releasing", "closed"}
    BY <2>1, FinallyMoves DEF Idle
  <2> QED BY <1>0, <1>1, <2>2, HistoryKept DEF Settled
<1>4. CASE Reset(c)
  <2>1. call'[c].at = "require" /\ conn'[c] = "resetting"
    BY <1>0, <1>4 DEF Reset, Starts
  <2> QED BY <1>0, <1>1, <2>1, HistoryKept DEF Settled
<1>5. CASE Asks(c)
  <2>1. call'[c].at = "session" /\ conn[c] = "ready"
    BY <1>0, <1>5 DEF Asks, Starts
  <2> QED BY <1>0, <1>1, <2>1, HistoryKept DEF Settled
<1> QED BY <1>2, <1>3, <1>4, <1>5 DEF Handler

(* The steps of a call that write no cache.                                *)
LEMMA HistoryQuiet ==
    ASSUME Types, CallsFit, HistoryInv, NEW c \in Clients,
           \/ Require(c) \/ LoadLingBot(c) \/ LoadDreamZero(c) \/ Encode(c)
           \/ FindSession(c) \/ InferDreamZero(c) \/ PlanCosmos3(c) \/ Fails(c)
           \/ Forget(c)
    PROVE  CacheTypes' /\ HistoryOf(c)'
<1>0. /\ conn \in [Clients -> Held \cup {"new", "releasing", "closed"}]
      /\ call \in [Clients -> EngineCalls] /\ CallOf(c) /\ CacheTypes /\ HistoryOf(c)
  BY DEF Types, CallsFit, HistoryInv
<1>1. UNCHANGED <<setup, kv, head, clock, crossed>>
  BY DEF Require, LoadLingBot, LoadDreamZero, Build, Encode, FindSession, InferDreamZero,
         PlanCosmos3, Fails, Raises, Forget, cacheVars, engineVars, handlerVars
<1>2. CASE Require(c) \/ LoadLingBot(c) \/ LoadDreamZero(c)
  <2>0. Goes(c, "load") \/ Goes(c, "open")
    BY <1>2 DEF Require, LoadLingBot, LoadDreamZero, Build
  <2>1. /\ call'[c].at \in {"load", "open"} /\ UNCHANGED <<conn, proposed>>
        /\ call[c].at \in {"require", "load"}
    BY <1>2, <2>0, GoesAt DEF Require, LoadLingBot, LoadDreamZero, Build, In, handlerVars,
                              engineVars
  <2>2. conn[c] = "resetting"
    BY <1>0, <2>1 DEF CallOf, Idle, StepPlaces, ReleasePlaces
  <2> QED BY <1>0, <1>1, <2>1, <2>2, HistoryKept DEF Settled
<1>3. CASE Encode(c)
  <2>0. Goes(c, "register") \/ Goes(c, "swapIn")
    BY <1>3 DEF Encode, EncodeLingBot, EncodeDreamZero
  <2>1. call'[c].at \in {"register", "swapIn"} /\ UNCHANGED <<conn, proposed>>
        /\ call[c].at = "encode"
    BY <1>3, <2>0, GoesAt DEF Encode, In, handlerVars, engineVars
  <2> QED BY <1>0, <1>1, <2>1, HistoryKept DEF Settled
<1>4. CASE FindSession(c)
  <2>1. call[c].at = "session" /\ UNCHANGED proposed
    BY <1>4 DEF FindSession, In, engineVars
  <2>2. Settled(c) /\ conn[c] = "calling"
    BY <1>0, <2>1 DEF Settled, CallOf, Idle, ResetPlaces, ReleasePlaces
  <2>3. CASE call[c].op = "step"
    <3>1. Goes(c, "recondition")
      BY <1>4, <2>3 DEF FindSession
    <3>2. call'[c].at = "recondition" /\ UNCHANGED conn
      BY <1>4, <2>3, <3>1, GoesAt DEF FindSession
    <3> QED BY <1>0, <1>1, <2>1, <2>2, <3>2, HistoryKept
  <2>4. CASE call[c].op # "step"
    <3>1. call[c].op = "plan"
      BY <1>0, <2>2, <2>4 DEF CallOf
    <3>2. CASE c \in proposed /\ setup.engine # "vla"
      <4>1. Returns(c, "reply")
        BY <1>4, <3>1, <3>2 DEF FindSession
      <4>2. call'[c].at = "none"
        BY <4>1, ReturnsMoves DEF Idle
      <4> QED BY <1>0, <1>1, <2>1, <2>2, <4>2, HistoryKept
    <3>3. CASE ~(c \in proposed /\ setup.engine # "vla")
      <4>0. Goes(c, "infer")
        BY <1>4, <3>1, <3>3 DEF FindSession
      <4>1. call'[c].at = "infer"
        BY <4>0, GoesAt
      <4>2. setup.engine = "vla" => Len(kv[c]) = clock[c]
        BY <1>0, <2>2 DEF HistoryOf, VLAOf
      <4>3. setup.engine = "lingbot" => Len(kv[c]) = clock[c]
        <5>1. setup.engine = "lingbot" => kv[c] = <<>> /\ clock[c] = 0
          BY <1>0, <2>2, <3>3 DEF HistoryOf, LingBotOf
        <5> QED BY <5>1, OwnEmpty
      <4> QED BY <1>0, <1>1, <2>1, <2>2, <4>1, <4>2, <4>3, HistoryKept
    <3> QED BY <3>2, <3>3
  <2> QED BY <2>3, <2>4
<1>5. CASE InferDreamZero(c)
  <2>0. Goes(c, "swapIn")
    BY <1>5 DEF InferDreamZero
  <2>1. /\ call'[c].at = "swapIn" /\ call[c].at = "infer" /\ UNCHANGED <<conn, proposed>>
    BY <1>5, <2>0, GoesAt DEF InferDreamZero, In, handlerVars, engineVars
  <2>2. conn[c] = "calling"
    BY <1>0, <2>1 DEF CallOf, Idle, ResetPlaces, ReleasePlaces
  <2> QED BY <1>0, <1>1, <2>1, <2>2, HistoryKept DEF Settled
<1>6. CASE PlanCosmos3(c)
  <2>1. call[c].at = "session" /\ Returns(c, "reply") /\ UNCHANGED proposed
    BY <1>6 DEF PlanCosmos3, In, engineVars
  <2>2. call'[c].at = "none" /\ Settled(c)
    BY <2>1, ReturnsMoves DEF Idle, Settled
  <2> QED BY <1>0, <1>1, <2>1, <2>2, HistoryKept
<1>7. CASE Fails(c)
  <2>1. Finally(c) /\ UNCHANGED proposed
    BY <1>7 DEF Fails, Raises, engineVars
  <2>2. call'[c].at \in {"forget", "none"} /\ conn'[c] \in {"releasing", "closed"}
    BY <2>1, FinallyMoves DEF Idle
  <2> QED BY <1>0, <1>1, <2>1, <2>2, HistoryKept DEF Settled
<1>8. CASE Forget(c)
  <2>0. Goes(c, "close")
    BY <1>8 DEF Forget
  <2>1. call'[c].at = "close" /\ call[c].at = "forget" /\ UNCHANGED conn
    BY <1>8, <2>0, GoesAt DEF Forget, In, handlerVars
  <2>2. conn[c] = "releasing"
    BY <1>0, <2>1 DEF CallOf, Idle, ResetPlaces, StepPlaces
  <2>3. CacheTypes'
    BY <1>0, <1>1 DEF CacheTypes, Entry
  <2>4. ~Settled(c)'
    BY <2>1, <2>2 DEF Settled
  <2>5. (Own(c, kv[c])' <=> Own(c, kv[c])) /\ crossed' = crossed
    BY <1>1 DEF Own, Entry
  <2> QED BY <1>0, <1>1, <2>1, <2>3, <2>4, <2>5 DEF HistoryOf, LingBotOf, VLAOf, InModel
<1> QED BY <1>2, <1>3, <1>4, <1>5, <1>6, <1>7, <1>8

LEMMA Written ==
    ASSUME NEW c \in Clients, CacheTypes, NEW s \in Seq(Entry), kv' = [kv EXCEPT ![c] = s]
    PROVE  kv'[c] = s /\ kv' \in [Clients -> Seq(Entry)]
<1> DEFINE Histories == Seq(Entry)
<1>1. kv \in [Clients -> Histories] /\ s \in Histories
  BY DEF CacheTypes
<1> HIDE DEF Histories
<1>2. kv'[c] = s /\ kv' \in [Clients -> Histories]
  BY <1>1
<1> QED BY <1>2 DEF Histories

(* What the invariant says of a client, from what it is about.             *)
LEMMA HistoryNow ==
    ASSUME NEW c \in Clients, UNCHANGED setup,
           kv' \in [Clients -> Seq(Entry)], head' \in Seq(Entry),
           crossed \subseteq crossed', crossed' \subseteq Clients,
           c \notin crossed => Own(c, kv'[c]),
           c \notin crossed /\ setup.engine = "dreamzero"
                          /\ call'[c].at \in {"model", "swapOut"} => Own(c, head'),
           setup.engine = "lingbot" => LingBotOf(c)',
           setup.engine = "vla" => VLAOf(c)'
    PROVE  CacheTypes' /\ HistoryOf(c)'
<1>1. CacheTypes'
  BY DEF CacheTypes, Entry
<1>2. InModel(c)' <=> call'[c].at \in {"model", "swapOut"}
  BY DEF InModel
<1>3. /\ Own(c, kv[c])' <=> Own(c, kv'[c])
      /\ Own(c, head)' <=> Own(c, head')
  BY DEF Own, Entry
<1> QED BY <1>1, <1>2, <1>3 DEF HistoryOf

(* The cache begins empty, and ends so.                                    *)
LEMMA HistoryOpenClose ==
    ASSUME Types, CallsFit, HistoryInv, NEW c \in Clients, Open(c) \/ Close(c)
    PROVE  CacheTypes' /\ HistoryOf(c)'
<1>0. CallOf(c) /\ CacheTypes /\ HistoryOf(c)
  BY DEF CallsFit, HistoryInv
<1>1. kv' = [kv EXCEPT ![c] = <<>>] /\ UNCHANGED <<setup, head, crossed>>
  BY DEF Open, OpenLingBot, OpenDreamZero, OpenVLA, Close, CloseLingBot, CloseDreamZero,
         handlerVars
<1>u. crossed \subseteq crossed' /\ crossed' \subseteq Clients
  BY <1>0, <1>1 DEF CacheTypes
<1>2. <<>> \in Seq(Entry) /\ Own(c, <<>>)
  BY OwnEmpty
<1>3. kv'[c] = <<>> /\ kv' \in [Clients -> Seq(Entry)]
  BY <1>0, <1>1, <1>2, Written
<1>4. call'[c].at \in {"encode", "none"} /\ conn'[c] \in {"resetting", "closed"}
  <2>1. CASE Open(c)
    <3>1. Goes(c, "encode") /\ call[c].at = "open" /\ conn' = conn
      BY <2>1 DEF Open, In, handlerVars
    <3>2. conn[c] = "resetting"
      BY <1>0, <3>1 DEF CallOf, Idle, StepPlaces, ReleasePlaces
    <3> QED BY <3>1, <3>2, GoesAt
  <2>2. CASE Close(c)
    <3>1. Returns(c, "closed")
      BY <2>2 DEF Close
    <3> QED BY <3>1, ReturnsMoves DEF Idle
  <2> QED BY <2>1, <2>2
<1>5. ~Settled(c)'
  BY <1>4 DEF Settled
<1>6. LingBotOf(c)' /\ VLAOf(c)'
  BY <1>3, <1>4, <1>5 DEF LingBotOf, VLAOf
<1>7. head' \in Seq(Entry)
  BY <1>0, <1>1 DEF CacheTypes
<1> QED BY <1>1, <1>u, <1>2, <1>3, <1>4, <1>6, <1>7, HistoryNow

LEMMA HistoryRegister ==
    ASSUME Types, CallsFit, LeakInv, HistoryInv, NEW c \in Clients, Register(c)
    PROVE  CacheTypes' /\ HistoryOf(c)'
<1>0. CallOf(c) /\ LeakOf(c) /\ CacheTypes /\ HistoryOf(c)
  BY DEF CallsFit, HistoryInv, LeakInv
<1>1. /\ UNCHANGED <<setup, kv, head, proposed, crossed>> /\ call[c].at = "register"
      /\ Returns(c, "opened") /\ clock' = [clock EXCEPT ![c] = 0]
  BY DEF Register, In, cacheVars
<1>u. crossed \subseteq crossed' /\ crossed' \subseteq Clients
  BY <1>0, <1>1 DEF CacheTypes
<1>2. /\ call'[c].at = "none" /\ conn'[c] = "opened" /\ clock'[c] = 0
  BY <1>1, ReturnsMoves DEF Types, Idle
<1>3. c \notin proposed
  <2>1. conn[c] = "resetting"
    BY <1>0, <1>1 DEF CallOf, Idle, StepPlaces, ReleasePlaces
  <2> QED BY <1>0, <2>1 DEF LeakOf
<1>4. Len(<<>>) = 0
  BY OwnEmpty
<1>5. setup.engine = "lingbot" => LingBotOf(c)'
  <2> SUFFICES ASSUME setup.engine = "lingbot" PROVE LingBotOf(c)'
    OBVIOUS
  <2>1. kv[c] = <<>>
    BY <1>0, <1>1 DEF HistoryOf, LingBotOf
  <2>2. \A i \in 1..Len(<<>>) : FALSE
    BY <1>4
  <2>3. kv'[c] = <<>> /\ c \notin proposed'
    BY <1>1, <1>3, <2>1
  <2> QED BY <1>2, <2>2, <2>3 DEF LingBotOf
<1>6. setup.engine = "vla" => VLAOf(c)'
  <2> SUFFICES ASSUME setup.engine = "vla" PROVE VLAOf(c)'
    OBVIOUS
  <2>1. kv'[c] = <<>>
    BY <1>0, <1>1 DEF HistoryOf, VLAOf
  <2> QED BY <1>2, <1>4, <2>1 DEF VLAOf
<1>7. kv' \in [Clients -> Seq(Entry)] /\ head' \in Seq(Entry)
  BY <1>0, <1>1 DEF CacheTypes
<1>8. c \notin crossed => Own(c, kv'[c])
  BY <1>0, <1>1 DEF HistoryOf
<1> QED BY <1>1, <1>u, <1>2, <1>5, <1>6, <1>7, <1>8, HistoryNow

(* A session that is being called has a clock.                             *)
LEMMA ClockRuns ==
    ASSUME Types, CallsFit, LeakInv, NEW c \in Clients, setup.engine # "cosmos3",
           call[c].at \in {"recondition", "infer"}
    PROVE  clock[c] \in Nat /\ conn[c] = "calling"
<1>1. CallOf(c) /\ LeakOf(c) /\ clock[c] \in Nat \cup {None}
  BY DEF CallsFit, LeakInv, Types
<1>2. conn[c] = "calling"
  BY <1>1 DEF CallOf, Idle, ResetPlaces, ReleasePlaces
<1> QED BY <1>1, <1>2 DEF LeakOf

LEMMA HistoryRecondition ==
    ASSUME Types, CallsFit, LeakInv, HistoryInv, NEW c \in Clients, Recondition(c)
    PROVE  CacheTypes' /\ HistoryOf(c)'
<1>0. CacheTypes /\ HistoryOf(c) /\ kv[c] \in Seq(Entry)
  BY DEF HistoryInv, CacheTypes
<1>1. /\ UNCHANGED <<setup, head, proposed, conn, crossed>> /\ call[c].at = "recondition"
      /\ Goes(c, "infer") /\ setup.engine # "cosmos3"
  BY DEF Recondition, ReconditionLingBot, ReconditionDreamZero, AppendVLA, In, handlerVars
<1>u. crossed \subseteq crossed' /\ crossed' \subseteq Clients
  BY <1>0, <1>1 DEF CacheTypes
<1>2. /\ call'[c].at = "infer" /\ conn'[c] = "calling" /\ clock[c] \in Nat
  BY <1>1, GoesAt, ClockRuns
<1>3. Settled(c) /\ ~Settled(c)'
  BY <1>1, <1>2 DEF Settled
<1>4. Chunk \in Nat /\ Chunk # 0 /\ clock \in [Clients -> Nat \cup {None}]
  BY SessionsAssumption DEF SessionsAssumption, Types
<1>5. head' \in Seq(Entry)
  BY <1>0, <1>1 DEF CacheTypes
<1>6. CASE ReconditionLingBot(c)
  <2>0. LingBotOf(c) /\ setup.engine = "lingbot"
    BY <1>0, <1>6 DEF HistoryOf, ReconditionLingBot
  <2>1. CASE clock[c] = 0
    <3>1. Grounded(c) = <<>>
      <4>1. \A i \in 1..Len(kv[c]) : ~kv[c][i].real
        BY <1>3, <2>0, <2>1 DEF LingBotOf
      <4> QED BY <1>0, <4>1, GroundedEmpty
    <3>2. <<>> \in Seq(Entry) /\ Len(<<>>) = 0 /\ Own(c, <<>>) /\ TRUE \in BOOLEAN /\ 0 \in Nat
      BY OwnEmpty
    <3>3. PICK s : s = Append(<<>>, Real(c, 0))
      OBVIOUS
    <3>4. s \in Seq(Entry) /\ Len(s) = 1 /\ Own(c, s)
      <4>1. Grows(c, <<>>, Append(<<>>, Real(c, Len(<<>>))), 1)
        BY <3>2, OwnReal
      <4> QED BY <3>2, <3>3, <4>1 DEF Grows
    <3>5. kv' = [kv EXCEPT ![c] = s] /\ clock' = [clock EXCEPT ![c] = 1]
      BY <1>6, <2>1, <3>1, <3>3 DEF ReconditionLingBot
    <3>6. kv'[c] = s /\ kv' \in [Clients -> Seq(Entry)]
      BY <1>0, <3>4, <3>5, Written
    <3>7. clock'[c] = 1
      BY <1>4, <3>5
    <3>8. LingBotOf(c)'
      BY <1>2, <1>3, <3>4, <3>6, <3>7 DEF LingBotOf
    <3> QED BY <1>1, <1>u, <1>2, <1>5, <2>0, <3>4, <3>6, <3>8, HistoryNow
  <2>2. CASE clock[c] # 0
    <3>1. kv' = kv /\ clock' = [clock EXCEPT ![c] = clock[c] + Chunk]
      BY <1>6, <2>2 DEF ReconditionLingBot
    <3>2. Len(kv[c]) = clock[c] + Chunk
      BY <1>3, <2>0, <2>2 DEF LingBotOf
    <3>3. clock'[c] = clock[c] + Chunk
      BY <1>4, <3>1
    <3>4. LingBotOf(c)'
      BY <1>2, <1>3, <3>1, <3>2, <3>3 DEF LingBotOf
    <3>5. c \notin crossed => Own(c, kv'[c])
      BY <1>0, <3>1 DEF HistoryOf
    <3>6. kv' \in [Clients -> Seq(Entry)]
      BY <1>0, <3>1 DEF CacheTypes
    <3> QED BY <1>1, <1>u, <1>2, <1>5, <2>0, <3>4, <3>5, <3>6, HistoryNow
  <2> QED BY <2>1, <2>2
<1>7. CASE ReconditionDreamZero(c)
  <2>1. kv' = kv /\ setup.engine = "dreamzero"
    BY <1>7 DEF ReconditionDreamZero
  <2>2. c \notin crossed => Own(c, kv'[c])
    BY <1>0, <2>1 DEF HistoryOf
  <2>3. kv' \in [Clients -> Seq(Entry)]
    BY <1>0, <2>1 DEF CacheTypes
  <2> QED BY <1>1, <1>u, <1>2, <1>5, <2>1, <2>2, <2>3, HistoryNow
<1>8. CASE AppendVLA(c)
  <2>0. VLAOf(c) /\ setup.engine = "vla"
    BY <1>0, <1>8 DEF HistoryOf, AppendVLA
  <2>1. Len(kv[c]) = clock[c] /\ TRUE \in BOOLEAN
    BY <1>3, <2>0 DEF VLAOf
  <2>2. PICK s : s = Append(kv[c], Real(c, clock[c]))
    OBVIOUS
  <2>3. /\ s \in Seq(Entry) /\ Len(s) = Len(kv[c]) + 1
        /\ Own(c, kv[c]) => Own(c, s)
    <3>1. Grows(c, kv[c], Append(kv[c], Real(c, Len(kv[c]))), 1)
      BY <1>0, OwnReal
    <3> QED BY <2>1, <2>2, <3>1 DEF Grows
  <2>4. kv' = [kv EXCEPT ![c] = s] /\ clock' = [clock EXCEPT ![c] = clock[c] + 1]
    BY <1>8, <2>2 DEF AppendVLA
  <2>5. kv'[c] = s /\ kv' \in [Clients -> Seq(Entry)]
    BY <1>0, <2>3, <2>4, Written
  <2>6. clock'[c] = clock[c] + 1
    BY <1>4, <2>4
  <2>7. VLAOf(c)'
    BY <1>2, <1>3, <2>1, <2>3, <2>5, <2>6 DEF VLAOf
  <2>8. c \notin crossed => Own(c, kv'[c])
    BY <1>0, <2>3, <2>5 DEF HistoryOf
  <2> QED BY <1>1, <1>u, <1>2, <1>5, <2>0, <2>5, <2>7, <2>8, HistoryNow
<1> QED BY <1>6, <1>7, <1>8 DEF Recondition

LEMMA HistoryInfer ==
    ASSUME Types, CallsFit, LeakInv, HistoryInv, NEW c \in Clients,
           InferLingBot(c) \/ DecodeVLA(c)
    PROVE  CacheTypes' /\ HistoryOf(c)'
<1>0. CacheTypes /\ HistoryOf(c) /\ kv[c] \in Seq(Entry)
  BY DEF HistoryInv, CacheTypes
<1>1. /\ UNCHANGED <<setup, head, clock, crossed>> /\ call[c].at = "infer"
      /\ Returns(c, "reply") /\ proposed' = proposed \cup {c}
      /\ setup.engine \in {"lingbot", "vla"}
  BY DEF InferLingBot, DecodeVLA, In, cacheVars
<1>u. crossed \subseteq crossed' /\ crossed' \subseteq Clients
  BY <1>0, <1>1 DEF CacheTypes
<1>2. call'[c].at = "none" /\ conn'[c] = "reply" /\ clock[c] \in Nat
  BY <1>1, ReturnsMoves, ClockRuns DEF Idle
<1>3. Settled(c)' /\ c \in proposed'
  BY <1>1, <1>2 DEF Settled
<1>4. head' \in Seq(Entry)
  BY <1>0, <1>1 DEF CacheTypes
<1>5. CASE InferLingBot(c)
  <2>0. LingBotOf(c) /\ setup.engine = "lingbot"
    BY <1>0, <1>5 DEF HistoryOf, InferLingBot
  <2>1. Len(kv[c]) = clock[c]
    BY <1>1, <2>0 DEF LingBotOf
  <2>2. PICK s : s = kv[c] \o [i \in 1..Chunk |-> Predicted(c, clock[c] + i - 1)]
    OBVIOUS
  <2>3. /\ s \in Seq(Entry) /\ Len(s) = Len(kv[c]) + Chunk
        /\ Own(c, kv[c]) => Own(c, s)
        /\ Len(kv[c]) = 0 => \A i \in 1..Len(s) : ~s[i].real
    <3>1. s = kv[c] \o ChunkOf(c, Len(kv[c]))
      BY <2>1, <2>2 DEF ChunkOf
    <3>2. /\ Grows(c, kv[c], kv[c] \o ChunkOf(c, Len(kv[c])), Chunk)
          /\ Len(kv[c]) = 0 =>
                \A i \in 1..Len(kv[c] \o ChunkOf(c, Len(kv[c]))) :
                    ~(kv[c] \o ChunkOf(c, Len(kv[c])))[i].real
      BY <1>0, OwnPass
    <3> QED BY <3>1, <3>2 DEF Grows
  <2>4. kv' = [kv EXCEPT ![c] = s]
    BY <1>5, <2>2 DEF InferLingBot
  <2>5. kv'[c] = s /\ kv' \in [Clients -> Seq(Entry)]
    BY <1>0, <2>3, <2>4, Written
  <2>6. LingBotOf(c)'
    BY <1>1, <1>2, <1>3, <2>1, <2>3, <2>5 DEF LingBotOf
  <2>7. c \notin crossed => Own(c, kv'[c])
    BY <1>0, <2>3, <2>5 DEF HistoryOf
  <2> QED BY <1>1, <1>u, <1>2, <1>4, <2>0, <2>5, <2>6, <2>7, HistoryNow
<1>6. CASE DecodeVLA(c)
  <2>0. VLAOf(c) /\ setup.engine = "vla" /\ kv' = kv
    BY <1>0, <1>6 DEF HistoryOf, DecodeVLA, cacheVars
  <2>1. VLAOf(c)'
    BY <1>1, <1>2, <2>0 DEF VLAOf
  <2>2. c \notin crossed => Own(c, kv'[c])
    BY <1>0, <2>0 DEF HistoryOf
  <2>3. kv' \in [Clients -> Seq(Entry)]
    BY <1>0, <2>0 DEF CacheTypes
  <2> QED BY <1>1, <1>u, <1>2, <1>4, <2>0, <2>1, <2>2, <2>3, HistoryNow
<1> QED BY <1>5, <1>6

(* DreamZero's pipeline runs the model on the session that is swapped in.  *)
LEMMA HistorySwaps ==
    ASSUME Types, CallsFit, HistoryInv, NEW c \in Clients,
           setup.engine = "dreamzero", Swaps(c)
    PROVE  CacheTypes' /\ HistoryOf(c)'
<1>0. CacheTypes /\ HistoryOf(c) /\ kv[c] \in Seq(Entry) /\ head \in Seq(Entry)
  BY DEF HistoryInv, CacheTypes
<1>1. setup' = setup /\ setup.engine # "lingbot" /\ setup.engine # "vla"
  BY DEF Swaps, SwapIn, RunModel, SwapOut, handlerVars
<1>u. crossed \subseteq crossed' /\ crossed' \subseteq Clients
  BY <1>0 DEF CacheTypes, Swaps, SwapIn, RunModel, SwapOut, Others
<1>2. CASE SwapIn(c)
  <2>1. head' = kv[c] /\ kv' = kv
    BY <1>2 DEF SwapIn
  <2>2. c \notin crossed => Own(c, kv'[c]) /\ Own(c, head')
    BY <1>0, <2>1 DEF HistoryOf
  <2>3. kv' \in [Clients -> Seq(Entry)] /\ head' \in Seq(Entry)
    BY <1>0, <2>1 DEF CacheTypes
  <2> QED BY <1>1, <1>u, <2>2, <2>3, HistoryNow
<1>3. CASE RunModel(c)
  <2>1. head' = Append(head, Predicted(c, Len(head))) /\ kv' = kv /\ call[c].at = "model"
    BY <1>3 DEF RunModel, In
  <2>2. Len(head) \in Nat /\ FALSE \in BOOLEAN
    BY <1>0, LenProperties
  <2>3. head' \in Seq(Entry) /\ (Own(c, head) => Own(c, head'))
    <3>1. Grows(c, head, Append(head, Predicted(c, Len(head))), 1)
      BY <1>0, OwnReal
    <3> QED BY <2>1, <3>1 DEF Grows
  <2>4. c \notin crossed => Own(c, kv'[c]) /\ Own(c, head')
    BY <1>0, <2>1, <2>3 DEF HistoryOf, InModel
  <2>5. kv' \in [Clients -> Seq(Entry)]
    BY <1>0, <2>1 DEF CacheTypes
  <2> QED BY <1>1, <1>u, <2>3, <2>4, <2>5, HistoryNow
<1>4. CASE SwapOut(c)
  <2>1. kv' = [kv EXCEPT ![c] = head] /\ head' = head /\ call[c].at = "swapOut"
    BY <1>4 DEF SwapOut, In
  <2>2. kv'[c] = head /\ kv' \in [Clients -> Seq(Entry)]
    BY <1>0, <2>1, Written
  <2>3. c \notin crossed => Own(c, kv'[c]) /\ Own(c, head')
    BY <1>0, <2>1, <2>2 DEF HistoryOf, InModel
  <2>4. head' \in Seq(Entry)
    BY <1>0, <2>1
  <2> QED BY <1>1, <1>u, <2>2, <2>3, <2>4, HistoryNow
<1> QED BY <1>2, <1>3, <1>4 DEF Swaps

LEMMA HistoryCosmos3 ==
    ASSUME Types, CallsFit, HistoryInv, NEW c \in Clients,
           ResetCosmos3(c) \/ StepCosmos3(c)
    PROVE  CacheTypes' /\ HistoryOf(c)'
<1>0. CacheTypes /\ HistoryOf(c) /\ kv[c] \in Seq(Entry)
  BY DEF HistoryInv, CacheTypes
<1>1. /\ UNCHANGED <<setup, head, crossed>> /\ setup.engine = "cosmos3"
  BY DEF ResetCosmos3, StepCosmos3
<1>u. crossed \subseteq crossed' /\ crossed' \subseteq Clients
  BY <1>0, <1>1 DEF CacheTypes
<1>2. TRUE \in BOOLEAN /\ FALSE \in BOOLEAN /\ 0 \in Nat /\ Len(kv[c]) \in Nat
  BY <1>0, LenProperties
<1>3. \E s \in Seq(Entry) : /\ kv' = [kv EXCEPT ![c] = s]
                            /\ Own(c, kv[c]) => Own(c, s)
  <2>1. CASE ResetCosmos3(c)
    <3>1. PICK s : s = Append(<<>>, Real(c, 0))
      OBVIOUS
    <3>2. <<>> \in Seq(Entry) /\ Len(<<>>) = 0 /\ Own(c, <<>>)
      BY OwnEmpty
    <3>3. s \in Seq(Entry) /\ Own(c, s)
      <4>1. Grows(c, <<>>, Append(<<>>, Real(c, Len(<<>>))), 1)
        BY <3>2, OwnReal
      <4> QED BY <3>1, <3>2, <4>1 DEF Grows
    <3>4. s = <<Real(c, 0)>>
      BY <3>1
    <3> QED BY <2>1, <3>3, <3>4 DEF ResetCosmos3
  <2>2. CASE StepCosmos3(c)
    <3>1. PICK s : s = Append(kv[c], Predicted(c, Len(kv[c])))
      OBVIOUS
    <3>2. s \in Seq(Entry) /\ (Own(c, kv[c]) => Own(c, s))
      <4>1. Grows(c, kv[c], Append(kv[c], Predicted(c, Len(kv[c]))), 1)
        BY <1>0, OwnReal
      <4> QED BY <3>1, <4>1 DEF Grows
    <3>3. kv' = [kv EXCEPT ![c] = s]
      BY <2>2, <3>1 DEF StepCosmos3
    <3> QED BY <3>2, <3>3
  <2> QED BY <2>1, <2>2
<1>4. PICK s \in Seq(Entry) : /\ kv' = [kv EXCEPT ![c] = s]
                              /\ Own(c, kv[c]) => Own(c, s)
  BY <1>3
<1>5. kv'[c] = s /\ kv' \in [Clients -> Seq(Entry)]
  BY <1>0, <1>4, Written
<1>6. c \notin crossed => Own(c, kv'[c])
  BY <1>0, <1>4, <1>5 DEF HistoryOf
<1>7. head' \in Seq(Entry)
  BY <1>0, <1>1 DEF CacheTypes
<1> QED BY <1>1, <1>u, <1>5, <1>6, <1>7, HistoryNow

LEMMA HistoryInit == Init => HistoryInv
<1> SUFFICES ASSUME Init PROVE HistoryInv
  OBVIOUS
<1>1. ASSUME NEW c \in Clients PROVE HistoryOf(c)
  <2>1. kv[c] = <<>> /\ call[c] = Idle /\ conn[c] = "new"
    BY DEF Init
  <2>2. Own(c, kv[c])
    BY <2>1, OwnEmpty
  <2> QED BY <2>1, <2>2 DEF HistoryOf, LingBotOf, VLAOf, Settled, InModel, Idle
<1>2. CacheTypes
  <2>1. <<>> \in Seq(Entry)
    BY EmptySeq
  <2> QED BY <2>1 DEF Init, CacheTypes
<1>3. Apart
  BY DEF Init, Apart, InModel, Idle
<1> QED BY <1>1, <1>2, <1>3 DEF HistoryInv

LEMMA HistoryStep ==
    Types /\ CallsFit /\ LeakInv /\ HistoryInv /\ [Next]_vars => HistoryInv'
<1> SUFFICES ASSUME Types, CallsFit, LeakInv, HistoryInv, [Next]_vars
             PROVE  HistoryInv'
  OBVIOUS
<1>1. ASSUME NEW c \in Clients, Moves(c) PROVE HistoryInv'
  <2>1. CacheTypes' /\ HistoryOf(c)'
    <3>1. CASE TurnAway(c) \/ Admit(c) \/ GoSilent(c) \/ Handler(c)
      BY <3>1, HistoryHandler
    <3>2. CASE \/ Require(c) \/ LoadLingBot(c) \/ LoadDreamZero(c) \/ Encode(c)
               \/ FindSession(c) \/ InferDreamZero(c) \/ PlanCosmos3(c) \/ Fails(c)
               \/ Forget(c)
      BY <3>2, HistoryQuiet
    <3>3. CASE Open(c) \/ Close(c)
      BY <3>3, HistoryOpenClose
    <3>4. CASE Register(c)
      BY <3>4, HistoryRegister
    <3>5. CASE Recondition(c)
      BY <3>5, HistoryRecondition
    <3>6. CASE InferLingBot(c) \/ DecodeVLA(c)
      BY <3>6, HistoryInfer
    <3>7. CASE setup.engine = "dreamzero" /\ Swaps(c)
      BY <3>7, HistorySwaps
    <3>8. CASE ResetCosmos3(c) \/ StepCosmos3(c)
      BY <3>8, HistoryCosmos3
    <3> QED
      BY <1>1, <3>1, <3>2, <3>3, <3>4, <3>5, <3>6, <3>7, <3>8, Zenon DEF Moves, Works, Drops
  <2>2. \A d \in Clients : d # c => HistoryOf(d)'
    BY <1>1, HistoryAlone DEF HistoryInv
  <2>3. Apart'
    BY <1>1, ApartStep DEF HistoryInv
  <2> QED BY <2>1, <2>2, <2>3 DEF HistoryInv
<1>2. CASE UNCHANGED vars
  <2>1. \A c \in Clients : HistoryOf(c)'
    <3> TAKE c \in Clients
    <3>1. HistoryOf(c)
      BY DEF HistoryInv
    <3>2. UNCHANGED <<setup, conn, call, kv, head, clock, proposed, crossed>>
      BY <1>2 DEF vars, handlerVars, engineVars, cacheVars
    <3> QED BY <3>1, <3>2 DEF HistoryOf, LingBotOf, VLAOf, Settled, InModel, Own, Entry
  <2>2. CacheTypes'
    BY <1>2 DEF vars, cacheVars, HistoryInv, CacheTypes, Entry
  <2>3. Apart'
    BY <1>2 DEF vars, cacheVars, HistoryInv, Apart, InModel
  <2> QED BY <2>1, <2>2, <2>3 DEF HistoryInv
<1> QED BY <1>1, <1>2, NextMoves

(* Between the calls of a session its cache is that session's own history, *)
(* frame after frame with none twice and none left out, in whatever order  *)
(* its steps and plans come and whatever the other sessions do on other    *)
(* threads, for any number of sessions of any engine.  DreamZero's are     *)
(* excepted from the moment that two of them are in the model at once.     *)
THEOREM OwnHistories == Spec => []OwnHistory
<1>1. Types /\ HistoryInv => OwnHistory
  <2> SUFFICES ASSUME Types, HistoryInv, NEW c \in AtRest, c \notin crossed
               PROVE  /\ OwnFrames(c)
                      /\ setup.engine = "lingbot" /\ c \in proposed =>
                             Len(kv[c]) = clock[c] + Chunk
    BY DEF OwnHistory
  <2>1. c \in Clients /\ Settled(c)
    BY DEF Types, AtRest, Settled
  <2>2. HistoryOf(c) /\ kv[c] \in Seq(Entry)
    BY <2>1 DEF HistoryInv, CacheTypes
  <2>3. Own(c, kv[c]) /\ DOMAIN kv[c] = 1..Len(kv[c])
    BY <2>1, <2>2, LenProperties DEF HistoryOf
  <2> QED BY <2>1, <2>2, <2>3 DEF HistoryOf, LingBotOf, Own, OwnFrames
<1> QED BY <1>1, TypesInit, TypesStep, LeakInit, LeakStep, HistoryInit, HistoryStep, PTL DEF Spec

(* Every variable keeps its type, the handler's counter never passes       *)
(* max_sessions, and a thread of the pool is busy for a connection exactly *)
(* when its handler waits.                                                 *)
THEOREM TypeCorrect == Spec => []TypeOK
<1>1. Types /\ CallsFit /\ CounterInv /\ HistoryInv => TypeOK
  <2> SUFFICES ASSUME Types, CallsFit, CounterInv, HistoryInv PROVE TypeOK
    OBVIOUS
  <2>1. active \in 0..setup.limit
    <3>1. Cardinality(HeldSet) \in Nat
      BY FS_CardinalityType DEF CounterInv
    <3> QED BY <3>1 DEF CounterInv, Types
  <2>2. \A c \in Clients :
          (call[c] = Idle) <=> conn[c] \notin {"resetting", "calling", "releasing"}
    BY DEF CallsFit, CallOf, Idle, ResetPlaces, StepPlaces, ReleasePlaces
  <2>3. \A i \in DOMAIN pipes : pipes[i] \subseteq Clients
    <3>1. pipes \in Seq(SUBSET Clients)
      BY DEF Types
    <3>2. DOMAIN pipes = 1..Len(pipes)
      BY <3>1, LenProperties
    <3> TAKE i \in DOMAIN pipes
    <3> QED BY <3>1, <3>2, ElementOfSeq
  <2>4. \A c \in Clients : steps[c] \in 0..MaxSteps
    BY DEF Types
  <2> QED BY <2>1, <2>2, <2>3, <2>4 DEF Types, TypeOK, HistoryInv, CacheTypes
<1> QED BY <1>1, TypesInit, TypesStep, CounterInit, CounterStep, LeakInit, LeakStep,
           HistoryInit, HistoryStep, PTL DEF Spec

-----------------------------------------------------------------------------
(* The benchmark.  It has one call under way at most, that of the session  *)
(* whose turn it is, and none while it writes into the session table.      *)
Phases == Stepping \cup {"reset", "clear", "plan", "done"}

Scripts == [at : Phases, left : Nat, turn : 1..Len(Order)]

ScriptTypes == script \in Scripts /\ (script.at = "plan" => script.left > 0)

Busy(c) == conn[c] \in {"resetting", "calling", "reply"}

OneCallAtATime ==
    \A c \in Clients : Busy(c) =>
        /\ c = Turn
        /\ script.at = "reset" \/ (script.at \in Stepping \cup {"plan"} /\ script.left > 0)

(* The parked chunk is gone when a timed call starts to look for it.       *)
Unparked ==
    script.at = "plan" /\ (conn[Turn] = "ready" \/ call[Turn].at = "session")
        => Turn \notin proposed

BenchInv == Types /\ CallsFit /\ ScriptTypes /\ OneCallAtATime /\ Unparked

BenchCall(c) ==
    \/ LingBotReset(c) \/ LingBotStep(c) \/ LingBotPlan(c)
    \/ DreamZeroReset(c) \/ DreamZeroStep(c) \/ DreamZeroPlan(c)

LEMMA OrderTyped ==
    /\ Len(Order) \in Nat /\ 1 \in 1..Len(Order)
    /\ \A i \in 1..Len(Order) : Order[i] \in Clients
<1>1. Order \in Seq(Clients) /\ Order # <<>>
  BY BenchAssumption DEF BenchAssumption
<1> QED BY <1>1, LenProperties, EmptySeq, ElementOfSeq

LEMMA TurnTyped == ASSUME ScriptTypes PROVE Turn \in Clients
BY OrderTyped DEF ScriptTypes, Scripts, Turn

(* A step of a call leaves the place where the session is looked up, and   *)
(* the handler where it was or with an answer.                             *)
LEMMA CallsMoveOn ==
    ASSUME Types, CallsFit, NEW c \in Clients, BenchCall(c)
    PROVE  /\ Moves(c) /\ Walks(c) /\ setup' = setup
           /\ conn[c] \in {"resetting", "calling"}
           /\ conn'[c] \in {conn[c], "opened", "reply"}
           /\ call'[c].at # "session"
           /\ call[c].at = "session" /\ c \notin proposed => call'[c].at # "none"
<1>1. Worker(c)
  BY DEF BenchCall, Worker
<1>2. Works(c) /\ Moves(c)
  BY <1>1, WorkerWorks DEF Moves
<1>3. Walks(c) /\ setup' = setup
  BY <1>2, WorksWalks, StepsTyped
<1>4. call[c].op \in {"reset", "step", "plan"}
  BY DEF BenchCall, Serves, LingBotReset, LingBotStep, LingBotPlan,
         DreamZeroReset, DreamZeroStep, DreamZeroPlan
<1>5. conn[c] \in {"resetting", "calling"}
  <2>1. CallOf(c) /\ conn \in [Clients -> Held \cup {"new", "releasing", "closed"}]
    BY DEF CallsFit, Types
  <2> QED BY <1>4, <2>1 DEF CallOf, Idle, Held
<1>6. ASSUME NEW at \in {"load", "open", "encode", "register", "recondition", "infer",
                         "swapIn", "model", "swapOut"},
             Goes(c, at), UNCHANGED conn
      PROVE  conn'[c] = conn[c] /\ call'[c].at \notin {"session", "none"}
  <2>1. at \in {"none"} \cup ResetPlaces \cup StepPlaces \cup ReleasePlaces
    BY DEF ResetPlaces, StepPlaces
  <2> QED BY <1>6, <2>1, GoesOn
<1>7. ASSUME NEW place \in {"opened", "reply"}, Returns(c, place)
      PROVE  conn'[c] = place /\ call'[c].at = "none"
  BY <1>7, ReturnsMoves DEF Idle
<1> DEFINE Done ==
        /\ conn'[c] \in {conn[c], "opened", "reply"} /\ call'[c].at # "session"
        /\ call[c].at = "session" /\ c \notin proposed => call'[c].at # "none"
<1>8. CASE Require(c)
  <2>1. (Goes(c, "load") \/ Goes(c, "open")) /\ UNCHANGED conn
    BY <1>8 DEF Require, handlerVars
  <2>2. Done
    BY <1>6, <2>1
  <2> QED BY <2>2, <1>2, <1>3, <1>5
<1>9. CASE LoadLingBot(c) \/ LoadDreamZero(c)
  <2>1. Goes(c, "open") /\ UNCHANGED conn
    BY <1>9 DEF LoadLingBot, LoadDreamZero, Build, handlerVars
  <2>2. Done
    BY <1>6, <2>1
  <2> QED BY <2>2, <1>2, <1>3, <1>5
<1>10. CASE Open(c)
  <2>1. Goes(c, "encode") /\ UNCHANGED conn
    BY <1>10 DEF Open, handlerVars
  <2>2. Done
    BY <1>6, <2>1
  <2> QED BY <2>2, <1>2, <1>3, <1>5
<1>11. CASE Encode(c)
  <2>1. (Goes(c, "register") \/ Goes(c, "swapIn")) /\ UNCHANGED conn
    BY <1>11 DEF Encode, EncodeLingBot, EncodeDreamZero, handlerVars
  <2>2. Done
    BY <1>6, <2>1
  <2> QED BY <2>2, <1>2, <1>3, <1>5
<1>12. CASE Register(c)
  <2>1. Returns(c, "opened") /\ call[c].at = "register"
    BY <1>12 DEF Register, In
  <2>2. Done
    BY <1>7, <2>1
  <2> QED BY <2>2, <1>2, <1>3, <1>5
<1>13. CASE FindSession(c)
  <2>1. CASE (Goes(c, "recondition") \/ Goes(c, "infer")) /\ UNCHANGED conn
    <3>1. Done
      BY <1>6, <2>1
    <3> QED BY <3>1, <1>2, <1>3, <1>5
  <2>2. CASE c \in proposed /\ Returns(c, "reply")
    <3>1. Done
      BY <1>7, <2>2
    <3> QED BY <3>1, <1>2, <1>3, <1>5
  <2> QED BY <1>13, <2>1, <2>2 DEF FindSession
<1>14. CASE Recondition(c)
  <2>1. Goes(c, "infer") /\ UNCHANGED conn
    BY <1>14 DEF Recondition, handlerVars
  <2>2. Done
    BY <1>6, <2>1
  <2> QED BY <2>2, <1>2, <1>3, <1>5
<1>15. CASE InferLingBot(c)
  <2>1. Returns(c, "reply") /\ call[c].at = "infer"
    BY <1>15 DEF InferLingBot, In
  <2>2. Done
    BY <1>7, <2>1
  <2> QED BY <2>2, <1>2, <1>3, <1>5
<1>16. CASE InferDreamZero(c)
  <2>1. Goes(c, "swapIn") /\ UNCHANGED conn
    BY <1>16 DEF InferDreamZero, handlerVars
  <2>2. Done
    BY <1>6, <2>1
  <2> QED BY <2>2, <1>2, <1>3, <1>5
<1>17. CASE Swaps(c)
  <2>1. \/ (Goes(c, "model") \/ Goes(c, "swapOut") \/ Goes(c, "register")) /\ UNCHANGED conn
        \/ Returns(c, "reply") /\ call[c].at = "swapOut"
    BY <1>17 DEF Swaps, SwapIn, RunModel, SwapOut, In, handlerVars
  <2>2. Done
    BY <1>6, <1>7, <2>1
  <2> QED BY <2>2, <1>2, <1>3, <1>5
<1> QED
  BY <1>8, <1>9, <1>10, <1>11, <1>12, <1>13, <1>14, <1>15, <1>16, <1>17, Zenon
  DEF BenchCall, LingBotReset, LingBotStep, LingBotPlan,
      DreamZeroReset, DreamZeroStep, DreamZeroPlan

LEMMA BenchStarts == BenchInit => BenchInv
<1> SUFFICES ASSUME BenchInit PROVE BenchInv
  OBVIOUS
<1>1. Init /\ script = [at |-> "reset", left |-> 0, turn |-> 1]
  BY DEF BenchInit, Off
<1>2. Types /\ CallsFit
  BY <1>1, TypesInit
<1>3. ScriptTypes
  BY <1>1, OrderTyped DEF ScriptTypes, Scripts, Phases
<1>4. OneCallAtATime
  BY <1>1 DEF OneCallAtATime, Busy, Init
<1> QED BY <1>1, <1>2, <1>3, <1>4 DEF BenchInv, Unparked

(* What the script does beside its calls: it starts one, takes an answer,  *)
(* or goes on.                                                             *)
LEMMA CallStarts ==
    ASSUME Types, CallsFit, NEW c \in Clients, c = Turn,
           NEW op \in {"reset", "step", "plan"}, NEW at, NEW place,
           op = "reset" => place = "resetting" /\ at = "require",
           op # "reset" => place = "calling" /\ at = "session",
           conn' = [conn EXCEPT ![Turn] = place], Calls(op, at)
    PROVE  /\ Types' /\ CallsFit'
           /\ conn'[c] = place /\ call'[c].at = at /\ proposed' = proposed
           /\ \A d \in Clients : d # c => conn'[d] = conn[d]
<1> DEFINE frame == [op |-> op, at |-> at]
<1>2. call' = [call EXCEPT ![c] = frame] /\ conn' = [conn EXCEPT ![c] = place]
  BY DEF Calls, Starts
<1>3. frame \in EngineCalls /\ frame.op = op /\ frame.at = at
  BY DEF EngineCalls, ResetPlaces, StepPlaces
<1>4. place \in Held
  BY DEF Held
<1>5. UNCHANGED <<setup, active, opened, left, steps, engineVars, cacheVars>>
  BY DEF Calls
<1> HIDE DEF frame
<1>6. Types'
  BY <1>2, <1>3, <1>4, <1>5 DEF Types, engineVars
<1>7. /\ call'[c] = frame /\ conn'[c] = place
      /\ \A d \in Clients : d # c => conn'[d] = conn[d] /\ call'[d] = call[d]
  BY <1>2 DEF Types
<1>8. CallOf(c)'
  BY <1>3, <1>7 DEF CallOf, ResetPlaces, StepPlaces
<1>9. CallsFit'
  BY <1>7, <1>8 DEF CallsFit, CallOf
<1> QED BY <1>3, <1>5, <1>6, <1>7, <1>9 DEF engineVars

(* An answer is taken: nobody is busy any more.                            *)
LEMMA AnswerTaken ==
    ASSUME Types, CallsFit, OneCallAtATime, NEW c \in Clients, c = Turn,
           conn[Turn] \in {"opened", "reply"},
           conn' = [conn EXCEPT ![Turn] = "ready"],
           UNCHANGED <<setup, active, opened, left, steps, call, engineVars, cacheVars>>
    PROVE  Types' /\ CallsFit' /\ \A d \in Clients : ~Busy(d)'
<1>2. Types'
  BY DEF Types, engineVars, Held
<1>3. conn'[c] = "ready" /\ \A d \in Clients : d # c => conn'[d] = conn[d]
  BY DEF Types
<1>4. CallsFit'
  BY <1>3 DEF CallsFit, CallOf
<1>5. ASSUME NEW d \in Clients PROVE ~Busy(d)'
  BY <1>3 DEF OneCallAtATime, Busy
<1> QED BY <1>2, <1>4, <1>5

(* The ways in which the script itself moves.                              *)
LEMMA ScriptEnters ==
    ASSUME NEW s \in Scripts, NEW at, NEW n
    PROVE  [s EXCEPT !.at = at, !.left = n] = [at |-> at, left |-> n, turn |-> s.turn]
<1>1. s = [at |-> s.at, left |-> s.left, turn |-> s.turn]
  BY DEF Scripts
<1>2. [s EXCEPT !.at = at] = [at |-> at, left |-> s.left, turn |-> s.turn]
  BY <1>1
<1> DEFINE r == [at |-> at, left |-> s.left, turn |-> s.turn]
<1>3. [r EXCEPT !.left = n] = [at |-> at, left |-> n, turn |-> s.turn]
  OBVIOUS
<1> QED BY <1>2, <1>3

LEMMA ScriptReturns ==
    ASSUME NEW s \in Scripts, NEW n
    PROVE  [s EXCEPT !.left = n, !.turn = 1] = [at |-> s.at, left |-> n, turn |-> 1]
<1>1. s = [at |-> s.at, left |-> s.left, turn |-> s.turn]
  BY DEF Scripts
<1>2. [s EXCEPT !.left = n] = [at |-> s.at, left |-> n, turn |-> s.turn]
  BY <1>1
<1> DEFINE r == [at |-> s.at, left |-> n, turn |-> s.turn]
<1>3. [r EXCEPT !.turn = 1] = [at |-> s.at, left |-> n, turn |-> 1]
  OBVIOUS
<1> QED BY <1>2, <1>3

LEMMA ScriptTurns ==
    ASSUME NEW s \in Scripts
    PROVE  [s EXCEPT !.turn = @ + 1] = [at |-> s.at, left |-> s.left, turn |-> s.turn + 1]
<1>1. s = [at |-> s.at, left |-> s.left, turn |-> s.turn]
  BY DEF Scripts
<1> QED BY <1>1

LEMMA ScriptMoves ==
    ASSUME NEW at \in Phases \ {"plan"}, NEW n \in Nat, NEW t \in 1..Len(Order),
           script' = [at |-> at, left |-> n, turn |-> t]
    PROVE  ScriptTypes' /\ script'.at # "plan"
<1>1. script' \in Scripts /\ script'.at # "plan"
  BY DEF Scripts
<1> QED BY <1>1 DEF ScriptTypes, Scripts

LEMMA BenchGoesOn == ASSUME BenchInv, BenchNext PROVE BenchInv'
<1> DEFINE Entered == ScriptTypes' /\ (\A d \in Clients : ~Busy(d)') /\ script'.at # "plan"
<1>0. /\ Types /\ CallsFit /\ ScriptTypes /\ OneCallAtATime /\ Unparked /\ Turn \in Clients
      /\ Warmup \in Nat /\ Iters \in Nat /\ Plans \in Nat /\ Rounds \in Nat
  BY TurnTyped, BenchAssumption DEF BenchInv, BenchAssumption
<1>1. /\ script \in Scripts /\ script.left \in Nat /\ script.at \in Phases
      /\ script.turn \in 1..Len(Order) /\ Len(Order) \in Nat /\ 1 \in 1..Len(Order)
      /\ Stepping \cup {"reset", "clear", "plan", "done"} = Phases
  BY <1>0, OrderTyped DEF ScriptTypes, Scripts, Phases
<1>2. ASSUME Types', CallsFit', Entered PROVE BenchInv'
  BY <1>2 DEF BenchInv, OneCallAtATime, Unparked
<1>c. PICK c \in Clients : c = Turn
  BY <1>0
<1>3. CASE BenchReset
  <2>1. /\ conn' = [conn EXCEPT ![Turn] = "resetting"] /\ Calls("reset", "require")
        /\ script' = script /\ script.at = "reset"
    BY <1>3 DEF BenchReset
  <2>2. /\ Types' /\ CallsFit' /\ \A d \in Clients : d # c => conn'[d] = conn[d]
    BY <1>0, <1>c, <2>1, CallStarts
  <2>3. Turn' = c /\ ScriptTypes'
    BY <1>0, <1>c, <2>1 DEF Turn, ScriptTypes
  <2>4. OneCallAtATime'
    BY <1>0, <1>c, <2>1, <2>2, <2>3 DEF OneCallAtATime, Busy
  <2> QED BY <2>1, <2>2, <2>3, <2>4 DEF BenchInv, Unparked
<1>4. CASE BenchOpened
  <2>1. /\ conn' = [conn EXCEPT ![Turn] = "ready"] /\ conn[Turn] = "opened"
        /\ UNCHANGED <<setup, active, opened, left, steps, call, engineVars, cacheVars>>
    BY <1>4 DEF BenchOpened
  <2>2. Types' /\ CallsFit' /\ \A d \in Clients : ~Busy(d)'
    BY <1>0, <1>c, <2>1, AnswerTaken
  <2>3. /\ script.at = "reset"
        /\ \/ script' = [script EXCEPT !.at = "warmup", !.left = Warmup]
           \/ script.turn < Len(Order) /\ script' = [script EXCEPT !.turn = @ + 1]
           \/ script' = [at |-> "round", left |-> Rounds, turn |-> 1]
    BY <1>4 DEF BenchOpened, Enters
  <2>4. PICK at \in {"reset", "warmup", "round"}, n \in Nat, t \in 1..Len(Order) :
           script' = [at |-> at, left |-> n, turn |-> t]
    <3>1. CASE script' = [script EXCEPT !.at = "warmup", !.left = Warmup]
      <4>1. script' = [at |-> "warmup", left |-> Warmup, turn |-> script.turn]
        BY <1>1, <3>1, ScriptEnters
      <4> QED BY <1>0, <1>1, <4>1
    <3>2. CASE script.turn < Len(Order) /\ script' = [script EXCEPT !.turn = @ + 1]
      <4>1. script' = [at |-> "reset", left |-> script.left, turn |-> script.turn + 1]
        BY <1>1, <2>3, <3>2, ScriptTurns
      <4>2. script.turn + 1 \in 1..Len(Order)
        BY <1>1, <3>2
      <4> QED BY <1>1, <4>1, <4>2
    <3>3. CASE script' = [at |-> "round", left |-> Rounds, turn |-> 1]
      BY <1>0, <1>1, <3>3
    <3> QED BY <2>3, <3>1, <3>2, <3>3
  <2>5. at \in Phases \ {"plan"}
    BY DEF Phases, Stepping
  <2>6. ScriptTypes' /\ script'.at # "plan"
    BY <2>4, <2>5, ScriptMoves
  <2> QED BY <1>2, <2>2, <2>6
<1>5. CASE BenchStep \/ BenchPlan
  <2>1. PICK op \in {"step", "plan"} :
           /\ conn' = [conn EXCEPT ![Turn] = "calling"] /\ Calls(op, "session")
           /\ script' = script /\ conn[Turn] = "ready"
           /\ script.at \in Stepping \cup {"plan"}
    BY <1>5 DEF BenchStep, BenchPlan
  <2>2. /\ Types' /\ CallsFit' /\ proposed' = proposed
        /\ \A d \in Clients : d # c => conn'[d] = conn[d]
    BY <1>0, <1>c, <2>1, CallStarts
  <2>3. script.left > 0
    BY <1>0, <1>5 DEF BenchStep, BenchPlan, ScriptTypes
  <2>4. Turn' = c /\ ScriptTypes'
    BY <1>0, <1>c, <2>1 DEF Turn, ScriptTypes
  <2>5. OneCallAtATime'
    BY <1>0, <1>c, <2>1, <2>2, <2>3, <2>4 DEF OneCallAtATime, Busy
  <2>6. Unparked'
    BY <1>0, <1>c, <2>1, <2>2, <2>4 DEF Unparked
  <2> QED BY <2>2, <2>4, <2>5, <2>6 DEF BenchInv
<1>6. CASE BenchReply
  <2>1. /\ conn' = [conn EXCEPT ![Turn] = "ready"] /\ conn[Turn] = "reply"
        /\ UNCHANGED <<setup, active, opened, left, steps, call, engineVars, cacheVars>>
    BY <1>6 DEF BenchReply
  <2>2. Types' /\ CallsFit' /\ \A d \in Clients : ~Busy(d)'
    BY <1>0, <1>c, <2>1, AnswerTaken
  <2>3. script.left > 0 /\ script.at \in Stepping \cup {"plan"}
    BY <1>0, <1>6, <2>1 DEF OneCallAtATime, Busy, BenchReply, Stepping
  <2>4. \/ script' = [script EXCEPT !.at = "clear", !.left = script.left - 1]
        \/ /\ script.at # "plan" /\ script.turn < Len(Order)
           /\ script' = [script EXCEPT !.turn = @ + 1]
        \/ script.at # "plan" /\ script' = [script EXCEPT !.left = script.left - 1, !.turn = 1]
    BY <1>6 DEF BenchReply
  <2>5. script.left - 1 \in Nat /\ "clear" \in Phases \ {"plan"}
        /\ (script.at # "plan" => script.at \in Phases \ {"plan"})
    BY <1>1, <2>3
  <2>6. PICK at \in Phases \ {"plan"}, n \in Nat, t \in 1..Len(Order) :
           script' = [at |-> at, left |-> n, turn |-> t]
    <3> DEFINE n == script.left - 1
    <3>1. CASE script' = [script EXCEPT !.at = "clear", !.left = n]
      <4>1. script' = [at |-> "clear", left |-> n, turn |-> script.turn]
        BY <1>1, <3>1, ScriptEnters
      <4> QED BY <1>1, <2>5, <4>1
    <3>2. CASE script.at # "plan" /\ script.turn < Len(Order)
               /\ script' = [script EXCEPT !.turn = @ + 1]
      <4>1. script' = [at |-> script.at, left |-> script.left, turn |-> script.turn + 1]
        BY <1>1, <3>2, ScriptTurns
      <4>2. script.turn + 1 \in 1..Len(Order)
        BY <1>1, <3>2
      <4> QED BY <1>1, <2>5, <3>2, <4>1, <4>2
    <3>3. CASE script.at # "plan" /\ script' = [script EXCEPT !.left = n, !.turn = 1]
      <4>1. script' = [at |-> script.at, left |-> n, turn |-> 1]
        BY <1>1, <3>3, ScriptReturns
      <4> QED BY <1>1, <2>5, <3>3, <4>1
    <3> QED BY <2>4, <3>1, <3>2, <3>3
  <2>7. ScriptTypes' /\ script'.at # "plan"
    BY <2>6, ScriptMoves
  <2> QED BY <1>2, <2>2, <2>7
<1>7. CASE BenchPhase
  <2>1. PICK at \in {"steps", "goal", "clear", "done"}, n \in {Iters, 1, Plans, 0} :
           script' = [script EXCEPT !.at = at, !.left = n]
    BY <1>7 DEF BenchPhase, Enters, Stepping
  <2>2. script.at \in Stepping /\ script.left = 0 /\ UNCHANGED vars
    BY <1>7 DEF BenchPhase
  <2>3. at \in Phases \ {"plan"} /\ n \in Nat
    BY <1>0 DEF Phases, Stepping
  <2>4. ScriptTypes' /\ script'.at # "plan"
    <3>1. script' = [at |-> at, left |-> n, turn |-> script.turn]
      BY <1>1, <2>1, ScriptEnters
    <3> QED BY <1>1, <2>3, <3>1, ScriptMoves
  <2>5. \A d \in Clients : ~Busy(d)'
    BY <1>0, <2>2 DEF OneCallAtATime, Busy, vars, handlerVars, Stepping
  <2>6. Types' /\ CallsFit'
    BY <1>0, <2>2, TypesStep
  <2> QED BY <1>2, <2>4, <2>5, <2>6
<1>8. CASE BenchClear
  <2>1. /\ script.at = "clear" /\ proposed' = proposed \ {c}
        /\ UNCHANGED <<handlerVars, call, current, pipes, sessions, clock, cacheVars>>
    BY <1>8, <1>c DEF BenchClear, Clear
  <2>2. \/ script.left > 0 /\ script' = [script EXCEPT !.at = "plan", !.left = script.left]
        \/ 2 \in 1..Len(Order) /\ script' = [at |-> "reset", left |-> 0, turn |-> 2]
        \/ script' = [script EXCEPT !.at = "done", !.left = 0]
    <3>1. Len(Order) > 1 => 2 \in 1..Len(Order)
      BY <1>1
    <3> QED BY <1>8, <3>1, Zenon DEF BenchClear, Enters
  <2>3. "plan" \in Phases /\ "reset" \in Phases /\ "done" \in Phases
    BY <1>1
  <2>4. script' \in Scripts /\ (script'.at = "plan" => script'.left > 0 /\ script'.turn = script.turn)
    <3>1. \/ script.left > 0 /\ script' = [at |-> "plan", left |-> script.left, turn |-> script.turn]
          \/ 2 \in 1..Len(Order) /\ script' = [at |-> "reset", left |-> 0, turn |-> 2]
          \/ script' = [at |-> "done", left |-> 0, turn |-> script.turn]
      BY <1>1, <2>2, ScriptEnters
    <3> QED BY <1>1, <2>3, <3>1 DEF Scripts
  <2>5. Types' /\ CallsFit'
    BY <1>0, <2>1 DEF Types, CallsFit, CallOf, handlerVars
  <2>6. \A d \in Clients : ~Busy(d)'
    BY <1>0, <2>1 DEF OneCallAtATime, Busy, handlerVars, Stepping
  <2>7. script'.at = "plan" => Turn' = c
    BY <1>c, <2>4 DEF Turn
  <2>8. Unparked'
    BY <2>1, <2>7 DEF Unparked
  <2> QED BY <2>4, <2>5, <2>6, <2>8 DEF BenchInv, OneCallAtATime, ScriptTypes
<1>9. CASE BenchWorks
  <2>1. BenchCall(c) /\ script' = script
    BY <1>9, <1>c DEF BenchWorks, BenchCall
  <2>2. /\ Moves(c) /\ conn[c] \in {"resetting", "calling"}
        /\ conn'[c] \in {conn[c], "opened", "reply"} /\ call'[c].at # "session"
    BY <1>0, <2>1, CallsMoveOn
  <2>3. Types' /\ CallsFit' /\ \A d \in Clients : d # c => conn'[d] = conn[d]
    BY <1>0, <2>2, CallsTyped
  <2>4. ScriptTypes' /\ Turn' = c
    BY <1>0, <1>c, <2>1 DEF ScriptTypes, Turn
  <2>5. OneCallAtATime'
    BY <1>0, <1>c, <2>1, <2>2, <2>3, <2>4 DEF OneCallAtATime, Busy
  <2>6. Unparked'
    BY <2>2, <2>4 DEF Unparked
  <2> QED BY <2>3, <2>4, <2>5, <2>6 DEF BenchInv
<1> QED BY <1>3, <1>4, <1>5, <1>6, <1>7, <1>8, <1>9 DEF BenchNext

LEMMA BenchStands ==
    ASSUME BenchInv, UNCHANGED <<vars, script>>
    PROVE  BenchInv'
<1>1. Types' /\ CallsFit'
  BY TypesStep DEF BenchInv
<1>2. ScriptTypes' /\ OneCallAtATime' /\ Unparked'
  BY DEF BenchInv, ScriptTypes, OneCallAtATime, Busy, Unparked, Turn, vars, handlerVars,
         engineVars
<1> QED BY <1>1, <1>2 DEF BenchInv

(* The benchmark measures what it says: a timed call of plan always denoises *)
(* a chunk and is never handed the one that a step, or an earlier call, has  *)
(* parked (scripts/bench_control_loop.py, the pending_actions it clears), for*)
(* any number of sessions, warm-up steps, timed steps and timed plans.       *)
THEOREM TimedPlansAreReal == BenchSpec => TimedPlanIsReal
<1> DEFINE Timed == script.at = "plan" /\ call[Turn].at = "session" => call'[Turn].at # "none"
<1>1. BenchInv /\ [BenchNext]_<<vars, script>> => BenchInv'
  BY BenchGoesOn, BenchStands
<1>2. BenchInv /\ [BenchNext]_<<vars, script>> => [Timed]_<<vars, script>>
  <2> SUFFICES ASSUME BenchInv, BenchNext, script.at = "plan", call[Turn].at = "session"
               PROVE  call'[Turn].at # "none"
    OBVIOUS
  <2>1. Types /\ CallsFit /\ Unparked /\ Turn \in Clients
    BY TurnTyped DEF BenchInv
  <2>2. CASE BenchWorks
    <3>1. BenchCall(Turn) /\ script' = script /\ Turn \notin proposed
      BY <2>1, <2>2 DEF BenchWorks, BenchCall, Unparked
    <3>2. PICK c \in Clients : c = Turn /\ c = Turn'
      BY <2>1, <3>1 DEF Turn
    <3> QED BY <2>1, <3>1, <3>2, CallsMoveOn
  <2>3. CASE BenchPlan
    <3>1. conn[Turn] = "ready"
      BY <2>3 DEF BenchPlan
    <3>2. call[Turn] = Idle
      BY <2>1, <3>1 DEF CallsFit, CallOf
    <3> QED BY <3>2 DEF Idle
  <2>4. CASE BenchReply
    BY <2>4 DEF BenchReply
  <2> QED BY <2>2, <2>3, <2>4
          DEF BenchNext, BenchReset, BenchOpened, BenchStep, BenchPhase, BenchClear, Clear,
              Stepping
<1> QED BY <1>1, <1>2, BenchStarts, PTL DEF BenchSpec, TimedPlanIsReal
=============================================================================
