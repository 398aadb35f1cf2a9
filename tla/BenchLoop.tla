------------------------------ MODULE BenchLoop ------------------------------
(***************************************************************************)
(* scripts/bench_control_loop.py: the benchmark that drives a policy       *)
(* engine in its own process, on one thread, through reset, step and plan, *)
(* and times them.  It calls the engine of WorldSessions, without the      *)
(* server; between two calls it writes into the engine's session table.    *)
(***************************************************************************)
EXTENDS WorldSessions

CONSTANTS
    Order,   \* the sessions, in the order in which they are opened
    Warmup,  \* --warmup
    Iters,   \* --step-iters
    Plans,   \* --plan-calls
    Rounds   \* passes over all sessions, one of them untimed

ASSUME BenchAssumption ==
    /\ Order \in Seq(Clients) /\ Order # <<>>
    /\ Warmup \in Nat /\ Iters \in Nat /\ Plans \in Nat /\ Rounds \in Nat

VARIABLE script  \* [at, left, turn]: the phase, iterations left in it, whose turn

Off == [at |-> "off", left |-> 0, turn |-> 1]

Turn == Order[script.turn]

Enters(phase, n) == script' = [script EXCEPT !.at = phase, !.left = n]

(* What the script calls waits for no one, and nobody hangs up on it.      *)
Calls(op, at) ==
    /\ Starts(Turn, op, at)
    /\ UNCHANGED <<setup, active, opened, left, steps, engineVars, cacheVars>>

(* reset, of the first session, and of the others when --sessions says so. *)
BenchReset ==
    /\ script.at = "reset" /\ conn[Turn] = "new"
    /\ conn' = [conn EXCEPT ![Turn] = "resetting"]
    /\ Calls("reset", "require")
    /\ UNCHANGED script

(* The first session is measured before the others exist.                  *)
BenchOpened ==
    /\ script.at = "reset" /\ conn[Turn] = "opened"
    /\ conn' = [conn EXCEPT ![Turn] = "ready"]
    /\ IF script.turn = 1 THEN Enters("warmup", Warmup)
       ELSE IF script.turn < Len(Order) THEN script' = [script EXCEPT !.turn = @ + 1]
       ELSE script' = [at |-> "round", left |-> Rounds, turn |-> 1]
    /\ UNCHANGED <<setup, active, opened, left, steps, call, engineVars, cacheVars>>

Stepping == {"warmup", "steps", "goal", "round"}

BenchStep ==
    /\ script.at \in Stepping /\ script.left > 0 /\ conn[Turn] = "ready"
    /\ conn' = [conn EXCEPT ![Turn] = "calling"]
    /\ Calls("step", "session")
    /\ UNCHANGED script

(* A call is back: another iteration, or in turns the next session.        *)
BenchReply ==
    /\ script.at \in Stepping \cup {"plan"} /\ conn[Turn] = "reply"
    /\ conn' = [conn EXCEPT ![Turn] = "ready"]
    /\ script' =
          IF script.at = "plan" THEN [script EXCEPT !.at = "clear", !.left = @ - 1]
          ELSE IF script.at = "round" /\ script.turn < Len(Order)
          THEN [script EXCEPT !.turn = @ + 1]
          ELSE [script EXCEPT !.left = @ - 1, !.turn = 1]
    /\ UNCHANGED <<setup, active, opened, left, steps, call, engineVars, cacheVars>>

(* One more step, whose state is the goal, and the clock starts.           *)
BenchPhase ==
    /\ script.at \in Stepping /\ script.left = 0
    /\ CASE script.at = "warmup" -> Enters("steps", Iters)
         [] script.at = "steps"  -> Enters("goal", 1)
         [] script.at = "goal"   -> Enters("clear", Plans)
         [] script.at = "round"  -> Enters("done", 0)
    /\ UNCHANGED vars

(* Mutant: the parked chunk is dropped before the timed calls only.        *)
ClearOnce ==
    /\ script.at = "clear"
    /\ proposed' = IF script.left = Plans THEN proposed \ {Turn} ELSE proposed

(* pending_actions = None, in front of the timed calls and after each.     *)
Clear ==
    /\ script.at = "clear"
    /\ proposed' = proposed \ {Turn}

BenchClear ==
    /\ Clear
    /\ IF script.left > 0 THEN Enters("plan", script.left)
       ELSE IF Len(Order) > 1 THEN script' = [at |-> "reset", left |-> 0, turn |-> 2]
       ELSE Enters("done", 0)
    /\ UNCHANGED <<handlerVars, call, current, pipes, sessions, clock, cacheVars>>

BenchPlan ==
    /\ script.at = "plan" /\ conn[Turn] = "ready"
    /\ conn' = [conn EXCEPT ![Turn] = "calling"]
    /\ Calls("plan", "session")
    /\ UNCHANGED script

BenchInit ==
    /\ Init
    /\ setup.engine \in {"lingbot", "dreamzero"} /\ setup.limit = 0
    /\ script = [Off EXCEPT !.at = "reset"]

(* An exception ends the script and its process.                           *)
BenchWorks ==
    /\ \/ LingBotReset(Turn) \/ LingBotStep(Turn) \/ LingBotPlan(Turn)
       \/ DreamZeroReset(Turn) \/ DreamZeroStep(Turn) \/ DreamZeroPlan(Turn)
    /\ UNCHANGED script

BenchNext ==
    \/ BenchReset \/ BenchOpened \/ BenchStep \/ BenchReply
    \/ BenchPhase \/ BenchClear \/ BenchPlan \/ BenchWorks

BenchSpec == BenchInit /\ [][BenchNext]_<<vars, script>>

-----------------------------------------------------------------------------
(* Properties *)

(* "each timed call does the real chunk denoise it's measuring": a call of *)
(* plan under the clock never returns what an earlier call has parked.     *)
TimedPlanIsReal ==
    [][script.at = "plan" /\ call[Turn].at = "session" => call'[Turn].at # "none"]_<<vars, script>>

=============================================================================
