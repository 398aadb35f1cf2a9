---------------------------- MODULE BatchEngine ----------------------------
(***************************************************************************)
(* The engines that make a clip from a prompt: Cosmos-Predict1 with its    *)
(* guardrail, its compile gate and the native denoising loop (models/      *)
(* cosmos.py, runtime/denoise.py), and Wan (models/wan.py).  A Thread is a *)
(* caller of generate: the engine driver, or a pool thread of the v1       *)
(* route.  All of them share the pipeline, its transformer and its         *)
(* scheduler, and nothing locks them: their steps interleave.  (A step of  *)
(* the loop calls the scheduler twice; the two calls are one step here,    *)
(* and what becomes of the noise levels of two calls that share a          *)
(* scheduler is left open by the properties.)                              *)
(***************************************************************************)
EXTENDS Integers, Sequences, FiniteSets

CONSTANTS
    Threads,      \* callers of generate
    BatchConfigs, \* engine configurations
    FrameCounts,  \* params.num_frames of the requests
    Steps,        \* num_inference_steps
    Deltas,       \* relative L1 distances, in units of the threshold's
    MaxRequests   \* bound: calls of generate

Config ==
    [model     : {"cosmos", "wan"},
     compile   : BOOLEAN,  \* compile_transformer
     ceiling   : Nat,      \* compile_max_frames
     native    : BOOLEAN,  \* use_native_loop
     mode      : {"none", "fixed", "adaptive"},  \* cache_mode
     skipEvery : Nat, warmup : Nat, threshold : Nat, forceEvery : Nat,
     guardrail : BOOLEAN]

ASSUME BatchAssumption ==
    /\ BatchConfigs \subseteq Config
    /\ FrameCounts \subseteq Nat \ {0} /\ Deltas \subseteq Nat
    /\ Steps \in Nat \ {0} /\ MaxRequests \in Nat

VARIABLES
    build,      \* the configuration of the engine
    dit,        \* the transformer of the pipeline: "none" before load
    uncompiled, \* _uncompiled_transformer is set
    index,      \* _step_index of the scheduler, or None
    run,        \* [Threads -> the call of generate under way]
    calls,      \* how many calls were made
    overlapped  \* history: the callers whose last call had company before its clip was made

batchVars == <<build, dit, uncompiled, index, run, calls, overlapped>>

None == -1
Idle == [at |-> "idle"]

Call ==
    [at : {"load", "build", "text", "gate", "start", "forward", "advance",
           "pipeline", "video", "yield"},
     frames : FrameCounts,
     step   : 0..Steps,          \* step_idx
     cached : (0..Steps) \cup {None},  \* step of cached_noise_pred
     drift  : Nat,               \* accumulated_rel_l1
     since  : 0..Steps,          \* steps_since_full
     on     : {"none", "plain", "compiled"},  \* history: what ran the forwards
     stray  : BOOLEAN]           \* history: a step at another step's noise level

(* Every variable keeps its type; the step counter stays in its range.     *)
BatchTypeOK ==
    /\ build \in BatchConfigs
    /\ dit \in {"none", "plain", "compiled"} /\ uncompiled \in BOOLEAN
    /\ index \in 0..Steps \cup {None}
    /\ \A t \in Threads : run[t] = Idle \/ run[t] \in Call
    /\ calls \in 0..MaxRequests
    /\ overlapped \subseteq Threads

At(t, place) == run[t].at = place
Go(t, place) == run' = [run EXCEPT ![t].at = place]

-----------------------------------------------------------------------------
(* generate, up to the loop *)

(* The calls that have not made their clip yet: what they share, they use. *)
Busy == {t \in Threads : run[t] # Idle /\ run[t].at # "yield"}

Begin(t) ==
    /\ run[t] = Idle /\ calls < MaxRequests
    /\ overlapped' = IF Busy = {} THEN overlapped \ {t} ELSE overlapped \cup Busy \cup {t}
    /\ calls' = calls + 1
    /\ \E n \in FrameCounts :
          run' = [run EXCEPT ![t] =
                    [at |-> "load", frames |-> n, step |-> 0, cached |-> None,
                     drift |-> 0, since |-> 0, on |-> "none",
                     stray |-> FALSE]]
    /\ UNCHANGED <<build, dit, uncompiled, index>>

(* load() returns at once when there is a pipeline; nothing locks it.      *)
Load(t) ==
    /\ At(t, "load")
    /\ Go(t, IF dit = "none" THEN "build"
             ELSE IF build.model = "wan" THEN "pipeline" ELSE "text")
    /\ UNCHANGED <<build, dit, uncompiled, index, calls, overlapped>>

Compiled == IF build.compile THEN "compiled" ELSE "plain"

BuildCosmos(t) ==
    /\ At(t, "build") /\ build.model = "cosmos"
    /\ dit' = Compiled
    /\ uncompiled' = build.compile
    /\ Go(t, "text")
    /\ UNCHANGED <<build, index, calls, overlapped>>

BuildWan(t) ==
    /\ At(t, "build") /\ build.model = "wan"
    /\ dit' = Compiled
    /\ Go(t, "pipeline")
    /\ UNCHANGED <<build, uncompiled, index, calls, overlapped>>

(* check_text_safety: a prompt that is refused ends the call.              *)
CheckText(t) ==
    /\ At(t, "text")
    /\ \/ Go(t, "gate")
       \/ build.guardrail /\ run' = [run EXCEPT ![t] = Idle]
    /\ UNCHANGED <<build, dit, uncompiled, index, calls, overlapped>>

Begins(t) == Go(t, IF build.native THEN "start" ELSE "pipeline")

(* _gate_compile_if_needed swaps the transformer for good.                 *)
Gate(t) ==
    /\ At(t, "gate")
    /\ dit' = IF uncompiled /\ build.ceiling > 0 /\ run[t].frames > build.ceiling
              THEN "plain" ELSE dit
    /\ Begins(t)
    /\ UNCHANGED <<build, uncompiled, index, calls, overlapped>>

-----------------------------------------------------------------------------
(* _denoise_impl *)

Mode == IF build.mode = "none" /\ build.skipEvery >= 2 THEN "fixed" ELSE build.mode

(* set_timesteps *)
Start(t) ==
    /\ At(t, "start")
    /\ index' = None
    /\ Go(t, "forward")
    /\ UNCHANGED <<build, dit, uncompiled, calls, overlapped>>

InWarmup(r) == r.step < build.warmup

IsLast(r) == r.step = Steps - 1

FixedSkips(r) ==
    /\ build.skipEvery >= 2
    /\ r.step >= build.warmup
    /\ r.cached # None
    /\ (r.step - build.warmup) % build.skipEvery # 0

(* Mutant: the floor is never reached.                                     *)
NoFloor(r) == FALSE

(* cache_force_full_every *)
Floor(r) == build.forceEvery > 0 /\ r.since >= build.forceEvery

Measures(r) == Mode = "adaptive" /\ ~InWarmup(r) /\ ~IsLast(r) /\ r.cached # None /\ ~Floor(r)

AdaptiveSkips(r, delta) == Measures(r) /\ r.drift + delta < build.threshold

Skips(r, delta) ==
    \/ Mode = "fixed" /\ FixedSkips(r)
    \/ Mode = "adaptive" /\ AdaptiveSkips(r, delta)

(* The scheduler finds its index when it has none (external: diffusers).   *)
IndexFor(r) == IF index = None THEN r.step ELSE index

(* The decision, and the forward of the transformer if it is not skipped.  *)
Forward(t) ==
    /\ At(t, "forward")
    /\ index' = IndexFor(run[t])
    /\ \E delta \in Deltas :
         LET r == run[t]
             measured == IF Measures(r) THEN delta ELSE 0
         IN  run' = [run EXCEPT ![t] =
               IF Skips(r, delta)
               THEN [r EXCEPT !.at = "advance", !.drift = @ + measured, !.since = @ + 1]
               ELSE [r EXCEPT !.at = "advance", !.cached = r.step, !.on = dit,
                              !.drift = IF Mode = "adaptive" THEN 0 ELSE @,
                              !.since = IF Mode = "adaptive" THEN 0 ELSE @]]
    /\ UNCHANGED <<build, dit, uncompiled, calls, overlapped>>

Stepped(i) == i + 1

(* Two calls of the scheduler, each of which moves its index on; between   *)
(* them it is turned back.                                                 *)
Advanced(i) == Stepped(Stepped(i) - 1)

SchedulerStep(t) ==
    /\ At(t, "advance") /\ IndexFor(run[t]) < Steps
    /\ LET r == run[t] IN
         run' = [run EXCEPT ![t] =
                   [r EXCEPT !.at = IF IsLast(r) THEN "video" ELSE "forward",
                             !.step = @ + 1,
                             !.stray = @ \/ IndexFor(r) # r.step]]
    /\ index' = Advanced(IndexFor(run[t]))
    /\ UNCHANGED <<build, dit, uncompiled, calls, overlapped>>

(* Somebody else's steps have used the noise levels up: the scheduler      *)
(* looks behind the last one (external), and the call ends.                *)
SchedulerRaises(t) ==
    /\ At(t, "advance") /\ IndexFor(run[t]) >= Steps
    /\ run' = [run EXCEPT ![t] = Idle]
    /\ UNCHANGED <<build, dit, uncompiled, index, calls, overlapped>>

-----------------------------------------------------------------------------

(* The diffusers pipeline makes the clip (external).                       *)
Pipeline(t) ==
    /\ At(t, "pipeline")
    /\ run' = [run EXCEPT ![t].at = "video", ![t].on = dit]
    /\ UNCHANGED <<build, dit, uncompiled, index, calls, overlapped>>

(* _apply_video_guardrail: the clip is passed, or the call ends.  Without  *)
(* a guardrail it is passed unseen, as Wan's always are.                   *)
CheckVideo(t) ==
    /\ At(t, "video")
    /\ \/ Go(t, "yield")
       \/ build.guardrail /\ run' = [run EXCEPT ![t] = Idle]
    /\ UNCHANGED <<build, dit, uncompiled, index, calls, overlapped>>

(* The frames of the clip are yielded, all of them or until the caller     *)
(* stops asking.                                                           *)
Yield(t) ==
    /\ At(t, "yield")
    /\ run' = [run EXCEPT ![t] = Idle]
    /\ UNCHANGED <<build, dit, uncompiled, index, calls, overlapped>>

BatchInit ==
    /\ build \in BatchConfigs
    /\ dit = "none" /\ uncompiled = FALSE /\ index = None
    /\ run = [t \in Threads |-> Idle]
    /\ calls = 0
    /\ overlapped = {}

BatchNext == \E t \in Threads :
    \/ Begin(t) \/ Load(t) \/ BuildCosmos(t) \/ BuildWan(t) \/ CheckText(t) \/ Gate(t)
    \/ Start(t) \/ Forward(t) \/ SchedulerStep(t) \/ SchedulerRaises(t)
    \/ Pipeline(t) \/ CheckVideo(t) \/ Yield(t)

BatchSpec == BatchInit /\ [][BatchNext]_batchVars

-----------------------------------------------------------------------------
(* Properties *)

(* A clip above the ceiling is never made by a compiled transformer: not   *)
(* the first one, which comes with the load, and none that follows a       *)
(* smaller one.  Nothing keeps a second caller from loading the pipeline   *)
(* again behind the gate of the first, so this is promised to the calls    *)
(* that had the engine to themselves, whatever others did before and after *)
(* them.                                                                   *)
NeverCompiledAboveCeiling ==
    \A t \in Threads \ overlapped :
        /\ run[t] # Idle /\ build.model = "cosmos" /\ build.ceiling > 0
        /\ run[t].frames > build.ceiling
        => run[t].on # "compiled"

(* A prediction that is reused is not older than the caching mode allows:  *)
(* skipEvery - 1 steps in the fixed cadence, forceEvery in the adaptive    *)
(* one if it has a floor, and the last step of the adaptive one is never   *)
(* skipped.  This is so for every call, whoever else is in the engine.     *)
PredictionsFresh ==
    \A t \in Threads : run[t] # Idle /\ run[t].at = "advance" =>
        LET age == run[t].step - run[t].cached IN
          CASE Mode = "none" -> age = 0
            [] Mode = "fixed" -> age = 0 \/ age < build.skipEvery
            [] Mode = "adaptive" ->
                 /\ build.forceEvery > 0 => age <= build.forceEvery
                 /\ IsLast(run[t]) => age = 0

(* Every step of the loop is taken at its own noise level, although the    *)
(* scheduler is called twice in it and keeps its index from one call, and  *)
(* from one clip, to the next: also behind two calls that moved the index  *)
(* together, but not between those two.                                    *)
OwnNoiseLevel == \A t \in Threads \ overlapped : run[t] # Idle => ~run[t].stray

(* Every clip is made as the configuration says, whatever was made before  *)
(* it: from predictions that are fresh enough, and, if no other call was   *)
(* making its clip at the same time, compiled only below the ceiling and   *)
(* each step at its own noise level.                                       *)
MadeAsConfigured == NeverCompiledAboveCeiling /\ PredictionsFresh /\ OwnNoiseLevel

=============================================================================
