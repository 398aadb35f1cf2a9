------------------------------ MODULE MCRuntime ------------------------------
(***************************************************************************)
(* Instances for TLC of the parts of the runtime: the three that have a    *)
(* Python fallback (scheduler, latent cache and router), the two engines   *)
(* that keep state of their own while they compute (the latent planner and *)
(* the batch engine), and, as initial states without a successor, the      *)
(* inputs of the action spaces and of the quantisation.  They share        *)
(* nothing, so a behaviour is one of any of them, the others at rest.      *)
(*                                                                         *)
(* LatentPlanner: windows that grow into their cap and windows that start  *)
(* there, both eviction policies, with and without batching; sinks as long *)
(* as the window make evict refuse.  BatchEngine: every caching mode, with *)
(* floors and cadences below and above the warmup, and three calls of two  *)
(* threads, so that a call alone may follow two that had company.          *)
(***************************************************************************)
EXTENDS SchedulerFallback, LatentCache, RouterFallback, LatentPlanner, BatchEngine

CONSTANTS Unit, Tasks, Blocks, Bins, Cameras, Graphs, Linears, Filters, Rows

VARIABLES
    part,  \* the one that runs
    sample, job

A == INSTANCE ActionSpace

Q == INSTANCE Quantize

ASSUME RuntimeAssumption == Q!QuantizeAssumption

-----------------------------------------------------------------------------
Cached(p, n, r, k, b) ==
    [cached |-> TRUE, policy |-> p, window |-> n, seed |-> r, sink |-> k,
     batched |-> b, warm |-> TRUE]

MCConfigs ==
    {Cached("reinit", 3, 1, 0, FALSE), Cached("reinit", 2, 0, 0, FALSE),
     Cached("reinit", 3, 1, 0, TRUE), Cached("slide", 2, 1, 0, FALSE),
     Cached("slide", 3, 0, 1, FALSE), Cached("slide", 2, 1, 2, FALSE),
     [cached |-> FALSE, policy |-> "reinit", window |-> 2, seed |-> 0, sink |-> 0,
      batched |-> FALSE, warm |-> FALSE]}

\* A video is sampled; the last two of its frames are the same, as all of an
\* image's are.
MCClips == {<< <<"a">>, <<"b">>, <<"b">> >>}

MCNoises == {<<0, 0>>, <<1, 0>>, <<0>>}

Cosmos(compile, ceiling, native, mode, every, warmup, floor, guardrail) ==
    [model |-> "cosmos", compile |-> compile, ceiling |-> ceiling, native |-> native,
     mode |-> mode, skipEvery |-> every, warmup |-> warmup, threshold |-> 3,
     forceEvery |-> floor, guardrail |-> guardrail]

MCBatchConfigs ==
    {Cosmos(TRUE, 1, TRUE, "none", s, w, 0, FALSE) : s \in {0, 2, 3}, w \in {0, 2}}
    \cup {Cosmos(TRUE, 1, TRUE, "fixed", 2, 0, 0, FALSE)}
    \cup {Cosmos(TRUE, 1, TRUE, "adaptive", 0, w, f, FALSE) : w \in {0, 2}, f \in {0, 1}}
    \cup {Cosmos(k, c, FALSE, "none", 0, 0, 0, TRUE) : k \in BOOLEAN, c \in {0, 1}}
    \cup
    {[model |-> "wan", compile |-> k, ceiling |-> 0, native |-> FALSE, mode |-> "none",
      skipEvery |-> 0, warmup |-> 0, threshold |-> 0, forceEvery |-> 0,
      guardrail |-> FALSE] : k \in BOOLEAN}

\* Channels in and out of order, all of them and a few; a channel that never
\* moves; quantiles that differ from channel to channel.
MCTasks ==
    {[dim |-> 3, used |-> u, perFrame |-> h, frames |-> f, levels |-> n, first |-> b,
      guidance |-> g[1], videoGuidance |-> g[2],
      stats |-> [c \in 0..2 |-> [q01 |-> 5 * c - 3, q99 |-> 5 * c - 3 + 2 * Unit * c]]] :
        u \in {<<0, 1, 2>>, <<2, 0>>, <<1>>}, h \in {1, 2}, f \in {1, 2}, n \in {1, 2},
        b \in BOOLEAN, g \in {<<1, 1>>, <<1, 5>>, <<3, 1>>}}

MCStats(n) == [c \in 1..n |-> [q01 |-> -c, q99 |-> 2 * Unit * (c - 1) - c]]

MCBlocks ==
    {[meta |-> [joint_position |-> MCStats(n), gripper_position |-> <<[q01 |-> 0, q99 |-> 2 * Unit]>>],
      dim |-> d, row |-> r] :
        n \in {1, 2}, d \in {3, 4}, r \in [1..2 -> {-Unit, 0, 3, Unit}]}

MCBins ==
    {[x |-> x, low |-> l, high |-> h, bins |-> b, vocab |-> 40] :
        x \in -7..9, l \in {-4, 0}, h \in {0, 3, 5}, b \in {2, 3, 8}}

MCCameras ==
    {[h |-> h, w |-> w, cameras |-> c] :
        h \in 1..3, w \in 1..2, c \in {<<"high">>, <<"high", "left">>, <<"high", "left", "right">>}}

\* A transformer and a decoder of one or two blocks: blocks of their own, a
\* block that both hold, a linear in two blocks, under two names in one, and in
\* the root.
Named(n, m) == [name |-> n, node |-> m]
MCGraphs ==
    {[n \in 0..3 |-> CASE n = 0 -> root [] n = 1 -> <<Named("blk", 2), Named("fc", 6)>>
                       [] n = 2 -> two [] n = 3 -> three] :
        root \in {<<Named("dit", 1), Named("vae", 3)>>, <<Named("vae", 2), Named("dit", 1)>>,
                  <<Named("dit", 2), Named("vae", 3), Named("dit_out", 5)>>,
                  <<Named("head", 4), Named("dit", 3), Named("vae", 3)>>},
        two \in {<< >>, <<Named("q", 4)>>, <<Named("q", 4), Named("k", 4)>>,
                 <<Named("q", 4), Named("k", 5)>>},
        three \in {<<Named("q", 5)>>, <<Named("q", 4), Named("blk", 2)>>, <<Named("dit_in", 6)>>}}
MCLinears == {4, 5, 6}
MCFilters ==
    [f \in {"dit", "vae", "q", "x"} |->
        CASE f = "dit" -> {"dit", "dit_in", "dit_out"} [] f = "vae" -> {"vae"}
          [] f = "q" -> {"q"} [] f = "x" -> {}]

MCRows == {<<0, 0>>} \cup [1..2 -> {-254, -253, -127, -3, -1, 0, 1, 5, 128, 508}]

-----------------------------------------------------------------------------
MCInit ==
    /\ \/ part \in {"scheduler", "cache", "router", "planner", "batch"}
          /\ sample = A!NoSample /\ job = Q!NoJob
       \/ part = "input" /\ sample \in A!Samples /\ job = Q!NoJob
       \/ part = "input" /\ sample = A!NoSample /\ job \in Q!Jobs
    /\ Init /\ CacheInit /\ RouterInit
    /\ IF part = "planner" THEN PlannerInit
       ELSE config = (CHOOSE c \in Configs : TRUE) /\ PlannerInit
    /\ IF part = "batch" THEN BatchInit
       ELSE build = (CHOOSE c \in BatchConfigs : TRUE) /\ BatchInit

MCNext ==
    /\ \/ part = "scheduler" /\ Next
          /\ UNCHANGED <<cacheVars, routerVars, plannerVars, batchVars>>
       \/ part = "cache" /\ CacheNext
          /\ UNCHANGED <<vars, routerVars, plannerVars, batchVars>>
       \/ part = "router" /\ RouterNext
          /\ UNCHANGED <<vars, cacheVars, plannerVars, batchVars>>
       \/ part = "planner" /\ PlannerNext
          /\ UNCHANGED <<vars, cacheVars, routerVars, batchVars>>
       \/ part = "batch" /\ BatchNext
          /\ UNCHANGED <<vars, cacheVars, routerVars, plannerVars>>
    /\ UNCHANGED <<part, sample, job>>

mcVars == <<part, sample, job, vars, cacheVars, routerVars, plannerVars, batchVars>>

(* The fairness of RouterFallback, for the behaviours that are its own.    *)
MCFairness ==
    /\ WF_mcVars(part = "router" /\ (PushPut \/ Register)
                 /\ UNCHANGED <<part, sample, job, vars, cacheVars, plannerVars, batchVars>>)
    /\ \A id \in StreamIds :
         WF_mcVars(part = "router" /\ Read(id)
                   /\ UNCHANGED <<part, sample, job, vars, cacheVars, plannerVars, batchVars>>)

MCSpec == MCInit /\ [][MCNext]_mcVars /\ MCFairness

(* Observations and actions reach the model, and the robot, as they were   *)
(* meant.                                                                  *)
ArrivesAsMeant == A!ArrivesAsMeant

(* What quantize_module_linears lists is what is replaced; rows come back  *)
(* within half a step.                                                     *)
QuantisedAlike == Q!QuantisedAlike

=============================================================================
