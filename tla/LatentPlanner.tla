---------------------------- MODULE LatentPlanner ----------------------------
(* The V-JEPA 2-AC engine (models/vjepa2_ac.py): latent rollouts of a frozen  *)
(* predictor, with one incremental key/value cache per session, and the       *)
(* planner that rolls candidate action sequences out through the same caches. *)
(*                                                                            *)
(* The predictor is block-causal: what it keeps of a frame depends on the     *)
(* frames before it and on the frame's own action, and nothing else. It is    *)
(* modelled as a free term of those inputs, so two results are equal exactly  *)
(* when they were computed from the same things. A world state carries, as a  *)
(* ghost, the context its session was reset to and the actions taken since.   *)
EXTENDS Naturals, SequencesExt, FiniteSetsExt, Functions

CONSTANTS Sessions,     \* session ids
          Configs,      \* the configurations the engine may be built with
          Clips,        \* what the encoder makes of an observation: frames
          Noises,       \* the draws of the planner: non-empty action sequences
          MaxStates,    \* bound: world states the caller keeps
          MaxSteps      \* bound: actions taken since a reset

\* Actions form a small cycle; 0 is the action that past frames are given.
Actions == {0, 1}
Zero == 0

Policies == {"reinit", "slide"}  \* kv_evict_policy

\* The window holds a frame at least; an observation is not empty, nor is a plan.
ASSUME PlannerAssumption ==
    /\ \A c \in Configs :
          /\ c.window \in Nat \ {0} /\ c.seed \in Nat /\ c.sink \in Nat
          /\ c.policy \in Policies /\ {c.cached, c.batched, c.warm} \subseteq BOOLEAN
    /\ \A clip \in Clips : clip \in Seq(Range(clip)) /\ clip # <<>>
    /\ \A noise \in Noises : noise \in Seq(Actions) /\ noise # <<>>
    /\ MaxStates \in Nat /\ MaxSteps \in Nat

VARIABLES config,       \* the engine's VJepa2ACConfig
          kvCache,      \* _kv_cache: session -> cache and the context it is for
          planMean,     \* _plan_mean: session -> the last plan's mean sequence
          states,       \* the WorldStates handed out and still held
          released      \* sessions that were released

plannerVars == <<config, kvCache, planMean, states, released>>

\* f without x, f with x mapped to v, and the last n elements of a sequence.
Removed(f, x) == Restrict(f, DOMAIN f \ {x})
Stored(f, x, v) == [y \in DOMAIN f \cup {x} |-> IF y = x THEN v ELSE f[y]]
LastOf(n, s) == IF n < Len(s) THEN SubSeq(s, Len(s) - n + 1, Len(s)) ELSE s

-----------------------------------------------------------------------------
(* The predictor and its adapter. *)

\* One block-causal pass over one frame: what it computes is determined by the
\* key/values of the frames before it, the frame itself and its action.  The
\* same term stands for the frame's own key/values and for the prediction.
Pass(kvs, frame, act) == <<kvs, frame, act>>

\* _maybe_norm: predictions and seeds are layer-normed before they are kept.
Normed(block) == <<"normed", block>>

\* A completed frame is kept as it is under the zero action.
Completed(kvs, frame) == Append(kvs, Pass(kvs, frame, Zero))

\* _encode_zero_action_prefix: completed frames, one after another.
ZeroActionPrefix(frames) ==
    LET kvs[n \in 0..Len(frames)] ==
            IF n = 0 THEN <<>> ELSE Completed(kvs[n - 1], frames[n])
    IN  kvs[Len(frames)]

\* _AcPredictorAdapter.__call__: the action drives the last frame only.
Predictor(context, act) == Pass(ZeroActionPrefix(Front(context)), Last(context), act)

\* init_cache: everything but the trailing frame is processed.
InitCache(context) ==
    [kvs |-> ZeroActionPrefix(Front(context)), pending |-> <<Last(context)>>]

\* step_cached: predict under the action, then commit a zero-action pass.
StepCached(cache, act) ==
    <<Pass(cache.kvs, cache.pending[1], act),
      [kvs |-> Completed(cache.kvs, cache.pending[1]), pending |-> <<>>]>>

\* append_frame: the engine's normed block becomes the pending frame.
AppendFrame(cache, block) == [cache EXCEPT !.pending = <<block>>]

\* evict: drop the oldest completed frame after the sinks.
CanEvict(cache, sink) == sink < Len(cache.kvs)
Evict(cache, sink) == [cache EXCEPT !.kvs = RemoveAt(@, sink + 1)]

-----------------------------------------------------------------------------
(* One latent step, as a function of the cache table and the state.          *)

Saturated(context) == Len(context) >= config.window

(* Mutant: a context of the same length is taken for the same context. *)
SameLength(table, sid, context) ==
    sid \in DOMAIN table /\ Len(table[sid].context) = Len(context)

\* The session's cache is the one that produced this very context.
InSync(table, sid, context) ==
    sid \in DOMAIN table /\ table[sid].context = context

CachedPath(table, w) ==
    /\ config.cached
    /\ \/ config.policy = "slide"
       \/ ~Saturated(w.context)
       \/ InSync(table, w.sid, w.context)

\* The window after a prediction: appended, then capped.
Grown(context, block) == LastOf(config.window, Append(context, block))

\* _step_cached: predict through the session's cache, or through a fresh one.
CachedStep(table, w, act) ==
    StepCached(IF InSync(table, w.sid, w.context)
                 THEN table[w.sid].cache ELSE InitCache(w.context), act)

\* _sync_kv_cache: a saturated window gives its cache up ("reinit") or lets
\* its oldest frame go ("slide"); otherwise the cache follows the context.
Synced(table, w, context, cache, block) ==
    LET appended == AppendFrame(cache, block)
        kept == IF Saturated(w.context) THEN Evict(appended, config.sink) ELSE appended
    IN  IF Saturated(w.context) /\ config.policy = "reinit"
          THEN Removed(table, w.sid)
          ELSE Stored(table, w.sid, [cache |-> kept, context |-> context])

\* evict refuses when the sinks take the whole window: step raises.
StepRaises(table, w, act) ==
    /\ CachedPath(table, w)
    /\ Saturated(w.context) /\ config.policy = "slide"
    /\ ~CanEvict(CachedStep(table, w, act)[2], config.sink)

\* step: the table and the state it leaves; after an exception, both as before
\* (the path that raises has dropped no entry).
Advance(table, w, act) ==
    LET viaCache == CachedPath(table, w)
        made == CachedStep(table, w, act)
        block == Normed(IF viaCache THEN made[1] ELSE Predictor(w.context, act))
        context == Grown(w.context, block)
    IN  IF StepRaises(table, w, act)
          THEN [table |-> table, state |-> w, raised |-> TRUE]
          ELSE [table |-> IF viaCache THEN Synced(table, w, context, made[2], block)
                          ELSE IF config.cached THEN Removed(table, w.sid) ELSE table,
                state |-> [w EXCEPT !.context = context, !.acts = Append(@, act)],
                raised |-> FALSE]

-----------------------------------------------------------------------------
(* Candidate rollouts.  What the planner compares is the terminal frame.     *)

\* _rollout_energy: one candidate, step by step, in the session's own name; an
\* exception ends it.
Walked(r, act) == IF r.raised THEN r ELSE Advance(r.table, r.state, act)

RolloutLooped(table, w, acts) ==
    LET after[n \in 0..Len(acts)] ==
            IF n = 0 THEN [table |-> table, state |-> w, raised |-> FALSE]
            ELSE Walked(after[n - 1], acts[n])
    IN  after[Len(acts)]

\* _rollout_energy_batched: no cache, the window carried along.
Rolled(context, act) == Grown(context, Normed(Predictor(context, act)))

RolloutBatched(w, acts) ==
    LET window[n \in 0..Len(acts)] ==
            IF n = 0 THEN w.context ELSE Rolled(window[n - 1], acts[n])
    IN  window[Len(acts)]

\* Every step of the horizon must stay free of eviction.
Fits(w, horizon) == Len(w.context) + horizon <= config.window

\* _rollout_energy_batched_cached: a cache of its own, never stored.
Shared(r, act) ==
    LET made == StepCached(r.cache, act)
    IN  [cache |-> AppendFrame(made[2], Normed(made[1])), terminal |-> Normed(made[1])]

RolloutBatchedCached(w, acts) ==
    LET after[n \in 0..Len(acts)] ==
            IF n = 0 THEN [cache |-> InitCache(w.context), terminal |-> <<>>]
            ELSE Shared(after[n - 1], acts[n])
    IN  after[Len(acts)]

\* _candidate_energies: only the loop touches the session's cache, and only it
\* can raise.
Tried(w, r, acts) == IF r.raised THEN r ELSE RolloutLooped(r.table, w, acts)

Scored(w, candidates) ==
    LET after[n \in 0..Len(candidates)] ==
            IF n = 0 THEN [table |-> kvCache, state |-> w, raised |-> FALSE]
            ELSE Tried(w, after[n - 1], candidates[n])
    IN  after[IF config.batched THEN 0 ELSE Len(candidates)]

\* _warm_start_mean: the last mean shifted by one, its last row repeated.
WarmStart(sid, horizon) ==
    IF config.warm /\ sid \in DOMAIN planMean /\ Len(planMean[sid]) = horizon
      THEN Append(Tail(planMean[sid]), Last(planMean[sid]))
      ELSE [i \in 1..horizon |-> Zero]

\* A sampled candidate: the mean moved by a draw, in the cycle of actions.
Sampled(mean, noise) == [i \in DOMAIN mean |-> (mean[i] + noise[i]) % 2]

-----------------------------------------------------------------------------
(* The operations of the engine. *)

PlannerInit ==
    /\ config \in Configs
    /\ kvCache = <<>> /\ planMean = <<>>
    /\ states = {} /\ released = {}

\* reset: the last frames of the encoded clip, in a new session.
Reset(sid, clip) ==
    LET seed == IF config.seed = 0 THEN config.window ELSE Min({config.seed, config.window})
        frames == LastOf(seed, clip)
        context == [i \in DOMAIN frames |-> Normed(frames[i])]
    IN  /\ \A w \in states : w.sid # sid
        /\ sid \notin released
        /\ Cardinality(states) < MaxStates
        /\ states' = states \cup
             {[sid |-> sid, context |-> context, seed |-> context, acts |-> <<>>]}
        /\ UNCHANGED <<config, kvCache, planMean, released>>

\* step: the caller keeps the state it stepped from, or lets it go.
Step(w, act) ==
    LET after == Advance(kvCache, w, act)
    IN  /\ Len(w.acts) < MaxSteps
        /\ ~after.raised
        /\ kvCache' = after.table
        /\ \/ /\ Cardinality(states) < MaxStates
              /\ states' = states \cup {after.state}
           \/ states' = (states \ {w}) \cup {after.state}
        /\ UNCHANGED <<config, planMean, released>>

StepFails(w, act) == StepRaises(kvCache, w, act) /\ UNCHANGED plannerVars

\* plan: one round of search from the warm-started mean; the elite becomes the
\* mean the session's next plan starts from.  A rollout that raises ends the
\* plan, with the cache where that rollout left it.
Plan(w, noises) ==
    LET horizon == Len(noises[1])
        mean == WarmStart(w.sid, horizon)
        seqs == [i \in DOMAIN noises |-> Sampled(mean, noises[i])]
        scored == Scored(w, seqs)
    IN  /\ \A i \in DOMAIN noises : Len(noises[i]) = horizon
        /\ kvCache' = scored.table
        /\ \/ /\ config.warm => scored.raised
              /\ UNCHANGED planMean
           \/ /\ config.warm /\ ~scored.raised
              /\ \E elite \in Range(seqs) : planMean' = Stored(planMean, w.sid, elite)
        /\ UNCHANGED <<config, states, released>>

\* release: the session's cache and mean go; its caller is done with it.
Release(sid) ==
    /\ \E w \in states : w.sid = sid
    /\ kvCache' = Removed(kvCache, sid)
    /\ planMean' = Removed(planMean, sid)
    /\ states' = {w \in states : w.sid # sid}
    /\ released' = released \cup {sid}
    /\ UNCHANGED config

PlannerNext ==
    \/ \E sid \in Sessions, clip \in Clips : Reset(sid, clip)
    \/ \E w \in states, act \in Actions : Step(w, act) \/ StepFails(w, act)
    \/ \E w \in states, first, second \in Noises : Plan(w, <<first, second>>)
    \/ \E sid \in Sessions : Release(sid)

PlannerSpec == PlannerInit /\ [][PlannerNext]_plannerVars

-----------------------------------------------------------------------------
\* The tables are of their types, and an entry's cache has one key/value per
\* frame of its context but the last, which is pending: neither growing,
\* nor eviction, nor a planning rollout may leave the two out of step.
PlannerTypeOK ==
    /\ config \in Configs
    /\ \A w \in states : Len(w.context) \in 1..config.window
    /\ \A sid \in DOMAIN kvCache :
         LET entry == kvCache[sid]
         IN  /\ Len(entry.cache.kvs) + 1 = Len(entry.context)
             /\ entry.cache.pending = <<Last(entry.context)>>
    /\ \A sid \in DOMAIN planMean : planMean[sid] \in Seq(Actions)
    /\ DOMAIN kvCache \cup DOMAIN planMean \subseteq {w.sid : w \in states}

\* Under "reinit" every world state is what replaying its actions from the
\* seed through the full predictor gives, whatever branches, plans and
\* failed reuses of the session's cache happened in between
\* (models/vjepa2_ac.py:147, "never a wrong answer").
StatesAreExact ==
    config.policy = "reinit" =>
        \A w \in states : w.context = RolloutBatched([w EXCEPT !.context = w.seed], w.acts)

\* The planner's three ways to score a candidate see the same terminal frame
\* from every state and every cache table: looped, batched ("numerically
\* identical to looping"), and batched over a shared prefix whenever that
\* one does not decline.
TerminalsAgree ==
    config.policy = "reinit" =>
        \A w \in states, acts \in Noises :
            LET full == Last(RolloutBatched(w, acts))
            IN  /\ Last(RolloutLooped(kvCache, w, acts).state.context) = full
                /\ Fits(w, Len(acts)) => RolloutBatchedCached(w, acts).terminal = full

\* No cache is ever a wrong answer: what is kept of a session and what a plan
\* is scored by are both what the full predictor would have given.
RolloutIsExact == StatesAreExact /\ TerminalsAgree
=============================================================================
