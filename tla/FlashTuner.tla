---------------------------- MODULE FlashTuner ----------------------------
(***************************************************************************)
(* scripts/autotune_fp8.py, beside the processes that use the CDNA3 kernel *)
(* and the file of its tiles.  For one shape it times the fallback, then   *)
(* tries tiles by hand: it forces each into the shared file, times the     *)
(* kernel, and puts the file back as it found it; the fastest is recorded  *)
(* at the end.  Or it leaves the search to Triton.                         *)
(***************************************************************************)
EXTENDS FlashKernel

CONSTANTS
    Tuner,      \* the thread that runs the script
    TunedShape, \* the shape it is asked to tune
    Found       \* the tiles in the file it finds

ASSUME TunerAssumption ==
    /\ Tuner \in Threads /\ TunedShape \in Shapes
    /\ \A t \in Threads : Host[t] = Host[Tuner] => t = Tuner
    /\ DOMAIN Found \subseteq Shapes
    /\ \A k \in DOMAIN Found : Found[k] \in CDNA3Configs \cap Compiles

VARIABLES
    mode,     \* "off" (no script), "manual", "rerun" (and --manual) or "triton"
              \* (--no-tune makes the same calls)
    at,       \* what the script is about
    trials,   \* the places in ManualConfigs still to try
    snapshot, \* `saved' of _bench_one_config
    fastest,  \* the best time so far
    tried     \* history: <<Triton's key, tile>> it forced

tunerVars == <<mode, at, trials, snapshot, fastest, tried>>

\* _MANUAL_CONFIGS
ManualConfigs ==
    <<Tile(2, 1, 4, 2), Tile(2, 1, 8, 2), Tile(2, 1, 4, 3), Tile(2, 2, 4, 2),
      Tile(2, 2, 8, 2), Tile(4, 1, 4, 2), Tile(4, 1, 8, 2), Tile(4, 2, 4, 2),
      Tile(4, 2, 8, 2), Tile(4, 2, 4, 3), Tile(1, 1, 4, 2), Tile(1, 2, 4, 2)>>

\* The next of them: the grid is tried in its order.
Trial == ManualConfigs[Min(trials)]

Entry(c, cfg) ==
    [k \in DOMAIN c \cup {CacheKey(TunedShape)} |->
        IF k = CacheKey(TunedShape) THEN cfg ELSE c[k]]

\* Its last save, or the calls of its last bench, are over.
Resting(where) == at \in where /\ pc[Tuner] = "idle"
SaveFailed == outcome[Tuner].kind = "raised"

\* _cache_save(c), from the script; the save proper is FlashKernel's.
Save(c) ==
    /\ cache' = [cache EXCEPT ![Tuner] = c]
    /\ pc' = [pc EXCEPT ![Tuner] = "open"]
    /\ outcome' = [outcome EXCEPT ![Tuner] = [kind |-> "none", cfg |-> None]]
    /\ calls' = [calls EXCEPT ![Tuner] = 0]
    /\ UNCHANGED <<files, memo, best, call, winner, fd, won, raced, crashes>>

\* --rerun: the file is deleted before anything else.
Unlink ==
    /\ Resting({"start"}) /\ mode = "rerun"
    /\ path' = 0
    /\ at' = "cleared"
    /\ UNCHANGED <<target, disabled, tmp, data, memo, best, pc, call, winner, cache, fd, outcome,
                   won, raced, calls, crashes, mode, trials, snapshot, fastest, tried>>

\* The fallback is timed under REPERCEP_FP8_DISABLE_AUTOTUNE ...
FixedBegin ==
    /\ Resting(IF mode = "rerun" THEN {"cleared"} ELSE {"start"})
    /\ disabled' = disabled \cup {Host[Tuner]}
    /\ at' = "fixed"
    /\ UNCHANGED <<target, path, tmp, data, memo, best, pc, call, winner, cache, fd, outcome, won, raced,
                   calls, crashes, mode, trials, snapshot, fastest, tried>>

\* ... which is then taken away.
FixedEnd ==
    /\ Resting({"fixed"}) /\ calls[Tuner] > 0
    /\ disabled' = disabled \ {Host[Tuner]}
    /\ at' = IF mode = "triton" THEN "tuned" ELSE "search"
    /\ outcome' = [outcome EXCEPT ![Tuner] = [kind |-> "none", cfg |-> None]]
    /\ calls' = [calls EXCEPT ![Tuner] = 0]
    /\ UNCHANGED <<target, path, tmp, data, memo, best, pc, call, winner, cache, fd, won, raced, crashes,
                   mode, trials, snapshot, fastest, tried>>

\* _bench_one_config: the next tile is forced into the file ...
TrialBegin ==
    /\ Resting({"search", "restoring"}) /\ ~SaveFailed
    /\ trials # {}
    /\ snapshot' = CacheLoad
    /\ Save(Entry(CacheLoad, Trial))
    /\ tried' = tried \cup {<<TritonKey(TunedShape), Trial>>}
    /\ at' = "forcing"
    /\ UNCHANGED <<mode, trials, fastest>>

\* ... the kernel is called as any caller calls it ...
TunerCalls ==
    /\ \/ at \in {"fixed", "bench", "tuned"}
       \/ at = "forcing" /\ ~SaveFailed
    /\ CallKnown(Tuner, TunedShape) \/ CallMiss(Tuner, TunedShape)
    /\ at' = IF at = "forcing" THEN "bench" ELSE at
    /\ UNCHANGED <<mode, trials, snapshot, fastest, tried>>

\* ... and the file put back.  A bench that raised has no time.
TrialEnd ==
    /\ Resting({"bench"})
    /\ Save(snapshot)
    /\ fastest' \in IF SaveFailed THEN {fastest} ELSE {fastest, Trial} \ {None}
    /\ trials' = trials \ {Min(trials)}
    /\ at' = "restoring"
    /\ UNCHANGED <<mode, snapshot, tried>>

\* _manual_autotune: the fastest is recorded.
Persist ==
    /\ Resting({"search", "restoring"}) /\ ~SaveFailed
    /\ trials = {} /\ fastest # None
    /\ Save(Entry(CacheLoad, fastest))
    /\ at' = "persisting"
    /\ UNCHANGED <<mode, trials, snapshot, fastest, tried>>

Persisted ==
    /\ Resting({"persisting"}) /\ ~SaveFailed
    /\ at' = "tuned"
    /\ UNCHANGED <<vars, mode, trials, snapshot, fastest, tried>>

\* A save of the script's own raises through main, as does a search in which
\* no tile could be timed.
TunerDies ==
    /\ \/ Resting({"forcing", "restoring", "persisting"}) /\ SaveFailed
       \/ Resting({"restoring"}) /\ trials = {} /\ fastest = None
    /\ at' = "dead"
    /\ outcome' = [outcome EXCEPT ![Tuner] = [kind |-> "none", cfg |-> None]]
    /\ UNCHANGED <<files, memo, best, pc, call, winner, cache, fd, won, raced, calls, crashes,
                   mode, trials, snapshot, fastest, tried>>

\* The steps inside a call or a save.
Inside(t) == Tunes(t) \/ RecordLoad(t) \/ Saves(t)

TunerInit ==
    /\ Init
    /\ mode = "off"
    /\ at = "start"
    /\ trials = {i \in DOMAIN ManualConfigs : ManualConfigs[i] \in Compiles}
    /\ snapshot = << >>
    /\ fastest = None
    /\ tried = {}

\* The script is started, on a host that has tuned before.
TunerStarts(m) ==
    /\ mode = "off" /\ target = "cdna3" /\ disabled = {}
    /\ path = 0 /\ \A t \in Threads : calls[t] = 0
    /\ mode' = m
    /\ path' = 1
    /\ data' = [data EXCEPT ![1] = Whole(Found)]
    /\ won' = {<<TritonKey(k), Found[k]>> : k \in DOMAIN Found}
    /\ UNCHANGED <<target, disabled, tmp, memo, best, pc, call, winner, cache, fd, outcome, raced,
                   calls, crashes, at, trials, snapshot, fastest, tried>>

\* The process of the script dies.
TunerCrash == Crash(Host[Tuner]) /\ at' = "dead" /\ UNCHANGED <<mode, trials, snapshot, fastest, tried>>

TunerStep ==
    \/ Unlink \/ FixedBegin \/ FixedEnd
    \/ TrialBegin \/ TunerCalls \/ TrialEnd \/ Persist \/ Persisted \/ TunerDies
    \/ TunerCrash
    \/ Inside(Tuner) /\ UNCHANGED tunerVars

TunerNext ==
    \/ mode = "off" /\ Next /\ UNCHANGED tunerVars
    \/ \E m \in {"manual", "rerun", "triton"} : TunerStarts(m)
    \/ mode # "off" /\ TunerStep
    \/ mode # "off" /\ (\E t \in Threads \ {Tuner} : CDNA3Step(t)) /\ UNCHANGED tunerVars

TunerSpec == TunerInit /\ [][TunerNext]_<<vars, tunerVars>>

(***************************************************************************)
(* Properties.                                                             *)
(***************************************************************************)

(* A tile is never used for a shape it was not measured for: what is       *)
(* launched is the fallback of a process that asked for it, or was the     *)
(* fastest tile of a search for that length, width, head count and mask,   *)
(* or is one that the script has tried for them; whichever process         *)
(* searched, and through torn files and deaths in the middle of a save.    *)
(* Not so once two threads of one process have searched for two keys at    *)
(* once: the winner is read back from the one kernel object of the         *)
(* process, and the file may name the tile of the other key from then on.  *)
TunedForShape ==
    \A t \in Threads : outcome[t].kind = "launched" =>
        \/ Host[t] \in disabled /\ outcome[t].cfg = Gpu[target].fallback
        \/ TritonKey(call[t]) \in raced
        \/ <<TritonKey(call[t]), outcome[t].cfg>> \in won \cup tried

(* The trials leave no trace: while no other process calls the kernel, a   *)
(* script that has tried its tiles has changed no entry of the file but    *)
(* that of its shape, and that one to the fastest it tried.                *)
TrialsLeaveNoTrace ==
    (at = "tuned" /\ mode # "triton" /\ (\A t \in Threads \ {Tuner} : calls[t] = 0))
    => CacheLoad = Entry(IF mode = "rerun" THEN << >> ELSE Found, fastest)

(* What is launched was tuned for its shape, and tuning one shape leaves   *)
(* the others alone.                                                       *)
LaunchedWasTuned == TunedForShape /\ TrialsLeaveNoTrace

=============================================================================
