---------------------------- MODULE FlashKernel ----------------------------
(***************************************************************************)
(* The fused FP8 attention of kernels/triton_kernels: the launcher, which  *)
(* looks a tile shape up in a JSON file, lets Triton search for one when   *)
(* the file has none and then records it, and the kernel it launches,      *)
(* which walks the keys in tiles with a running softmax.                   *)
(*                                                                         *)
(* The three files (CDNA3, Hopper, Ada) hold the same code but for the     *)
(* search grid, the fallback tile, the dtype, its range and the name of    *)
(* the JSON file, which every process of the host shares.  A cache this    *)
(* small leaves the buffer in one write, when the file is closed, so a     *)
(* reader sees an inode empty, whole, or with the tail of a longer text    *)
(* behind a shorter one: neither of the last and the first is JSON.        *)
(*                                                                         *)
(* Tiles are counted in units of 64 rows.  Scores are small exponents and  *)
(* the softmax is taken to base 2 in fixed point, and a quantised value is *)
(* a number of 64ths of the largest one of its slice: both are exact here. *)
(* What FP8 rounds off is left out; what leaves its range is not.          *)
(***************************************************************************)
EXTENDS Integers, FiniteSets, FiniteSetsExt, Functions

CONSTANTS
    Threads,    \* threads that call fp8_flash_attention
    Host,       \* the process of each thread
    Shapes,     \* [b, h, s, d, causal]: what is called
    Compiles,   \* the configurations that Triton can compile for these shapes
    Settings,   \* sets of processes: where REPERCEP_FP8_DISABLE_AUTOTUNE is set
    Scores,     \* the score of every key: functions from 0..LastKey to 0..Top
    Top,
    MaxCalls,   \* bound: calls per thread
    MaxCrashes  \* bound: processes that die

ASSUME KernelAssumption ==
    /\ IsFiniteSet(Threads) /\ DOMAIN Host = Threads
    /\ Shapes # {} /\ \A c \in Compiles : c.m > 0
    /\ Settings \subseteq SUBSET {Host[t] : t \in Threads}
    /\ MaxCalls \in Nat /\ MaxCrashes \in Nat

Processes == {Host[t] : t \in Threads}
None == [m |-> 0, n |-> 0, warps |-> 0, stages |-> 0]

(***************************************************************************)
(* The three targets.                                                      *)
(***************************************************************************)
Tile(m, n, warps, stages) == [m |-> m, n |-> n, warps |-> warps, stages |-> stages]

Grid(tiles, stages) == {Tile(t[1], t[2], w, st) : t \in tiles, w \in {4, 8}, st \in stages}

Squares == {1, 2, 4} \X {1, 2, 4} \ {<<1, 4>>}

\* _autotune_configs of the three files: tiles, warps and stages to search.
CDNA3Configs ==
    {c \in Grid(Squares, {2}) : c.m * c.n <= 16 /\ (c.warps = 8 => c.m * c.n >= 2)}
    \cup {Tile(t[1], t[2], w, 3) : t \in {<<2, 1>>, <<4, 2>>}, w \in {4, 8}}

HopperConfigs ==
    {c \in Grid(Squares, {2, 3, 4, 5}) :
        /\ c.m * c.n <= 16
        /\ c.warps = 4 => c.m * c.n <= 1
        /\ c.warps = 8 => c.m * c.n >= 2
        /\ c.stages = 5 => c.m * c.n <= 12}

AdaConfigs ==
    {c \in Grid(Squares \ {<<4, 4>>}, {2, 3}) :
        c.m * c.n <= 8 /\ (c.warps = 8 => c.m * c.n >= 2)}

CDNA3Fallback  == Tile(2, 1, 4, 2)
HopperFallback == Tile(2, 2, 8, 3)
AdaFallback    == Tile(2, 1, 4, 2)

CDNA3  == [grid |-> CDNA3Configs, fallback |-> CDNA3Fallback, max |-> 240, dtype |-> "e4m3fnuz"]
Hopper == [grid |-> HopperConfigs, fallback |-> HopperFallback, max |-> 448, dtype |-> "e4m3fn"]
Ada    == [grid |-> AdaConfigs, fallback |-> AdaFallback, max |-> 448, dtype |-> "e4m3fn"]

Gpu == [cdna3 |-> CDNA3, hopper |-> Hopper, ada |-> Ada]
Targets == DOMAIN Gpu

\* The largest finite number of a format.
Finite(dtype) == IF dtype = "e4m3fnuz" THEN 240 ELSE 448

(***************************************************************************)
(* The kernel.                                                             *)
(***************************************************************************)
Cdiv(a, b) == (a + b - 1) \div b
NegInf == -1
NaN == -1
Levels == 64

\* The score of key j; a masked load returns 0.
Score(shape, s, j) == IF j < shape.s THEN s[j] ELSE 0

\* The values of the slice (b, h), and the largest of them.
Value(shape, bh, j) == 2^bh * (IF j = shape.s - 1 THEN 8 ELSE 1 + j)
Amax(shape, bh) == Max({Value(shape, bh, j) : j \in 0..(shape.s - 1)})

\* The largest value of a slice goes to 0.95 of the range that the file
\* believes in; what the format cannot hold becomes NaN.
Quantize(gpu, x, amax) ==
    LET q == (x * Levels) \div amax
    IN  IF q * 95 * gpu.max <= Levels * 100 * Finite(gpu.dtype) THEN q ELSE NaN

\* _quantize of the siblings, into e4m3fn.
HopperQuantize(x, amax) == Quantize(Hopper, x, amax)
AdaQuantize(x, amax) == Quantize(Ada, x, amax)

Quantized(gpu, x, amax) ==
    CASE gpu = "cdna3"  -> Quantize(CDNA3, x, amax)
      [] gpu = "hopper" -> HopperQuantize(x, amax)
      [] gpu = "ada"    -> AdaQuantize(x, amax)

\* The FP8 value at key j of the slice; a masked load returns 0.
Loaded(gpu, shape, bh, j) ==
    IF j < shape.s THEN Quantized(gpu, Value(shape, bh, j), Amax(shape, bh)) ELSE 0

TileOf(cfg, n) == (n * cfg.n)..(n * cfg.n + cfg.n - 1)

(* Mutant: the last, partial tile is not masked. *)
KeptPadding(shape, cfg, i, n) == {j \in TileOf(cfg, n) : shape.causal => i >= j}

\* The keys of tile n that query i attends to.
Kept(shape, cfg, i, n) ==
    {j \in TileOf(cfg, n) : j < shape.s /\ (shape.causal => i >= j)}

\* One tile: the maximum moves up, what was summed is scaled down to it, and
\* the weights, at most 1, are stretched over the range of the format.
Online(gpu, shape, cfg, bh, s, i, st, n) ==
    LET kept == Kept(shape, cfg, i, n)
        top == Max({st.m} \cup {Score(shape, s, j) : j \in kept})
        alpha(x) == IF st.m = NegInf THEN 0 ELSE x \div 2^(top - st.m)
        p(j) == 2^(Top + Score(shape, s, j) - top)
        v(j) == Loaded(gpu, shape, bh, j)
        pv == MapThenSumSet(LAMBDA j : p(j) * v(j), kept)
    IN  [m |-> top,
         l |-> alpha(st.l) + MapThenSumSet(p, kept),
         acc |-> alpha(st.acc) + (pv * Amax(shape, bh)) \div Levels,
         nan |-> \/ st.nan
                 \/ top = NegInf
                 \/ Gpu[gpu].max > Finite(Gpu[gpu].dtype)
                 \/ \E j \in TileOf(cfg, n) : v(j) = NaN]

\* A row of the output: the tiles one after another.
Row(gpu, shape, cfg, bh, s, i) ==
    LET walk[n \in 0..Cdiv(shape.s, cfg.n)] ==
            IF n = 0 THEN [m |-> NegInf, l |-> 0, acc |-> 0, nan |-> FALSE]
                     ELSE Online(gpu, shape, cfg, bh, s, i, walk[n - 1], n - 1)
    IN  walk[Cdiv(shape.s, cfg.n)]

\* A program is a tile of queries of one slice.
Programs(shape, cfg) == (0..(Cdiv(shape.s, cfg.m) - 1)) \X (0..(shape.b * shape.h - 1))

\* The rows a launch stores: the slice (b, h), the query and what it accumulated.
Stored(gpu, shape, cfg, s) ==
    {[b |-> g[1][2] \div shape.h, h |-> g[1][2] % shape.h, i |-> g[1][1] * cfg.m + g[2],
      row |-> Row(gpu, shape, cfg, g[1][2], s, g[1][1] * cfg.m + g[2])] :
        g \in {x \in Programs(shape, cfg) \X (0..(cfg.m - 1)) : x[1][1] * cfg.m + x[2] < shape.s}}

\* _fp8_flash_attn_fwd_impl of the siblings.
HopperStored(shape, cfg, s) == Stored("hopper", shape, cfg, s)
AdaStored(shape, cfg, s) == Stored("ada", shape, cfg, s)

VARIABLES
    target,   \* whose kernel the host runs
    disabled, \* the processes whose environment turns the search off
    path,     \* the inode the cache file names, 0 when there is none
    tmp,      \* the inode the .json.tmp file names, 0 when there is none
    data,     \* what each inode holds
    memo,     \* Triton's own cache of each process
    best,     \* best_config: the attribute of the one autotuned kernel of a process
    pc, call, winner, cache, fd,   \* each thread's frame
    outcome,  \* what its last call came to: [shape, cfg] of the launch, or "raised"
    won,      \* history: <<Triton's key, tile>> the search found fastest
    raced,    \* history: keys whose winner another thread may have read over
    calls, crashes

files == <<target, disabled, path, tmp, data>>
vars == <<target, disabled, path, tmp, data, memo, best, pc, call, winner, cache, fd, outcome, won,
          raced, calls, crashes>>

(***************************************************************************)
(* The JSON file.                                                          *)
(***************************************************************************)
Inodes == 1..(1 + Cardinality(Threads) * 2)
Searched == Gpu[target].grid \cap Compiles
Tiles == Searched \cup {Gpu[target].fallback}

(* Mutant: the mask is missing from the key of the file. *)
CacheKeyUnmasked(shape) == [shape EXCEPT !.causal = FALSE]

\* The key of the file, and the key Triton's search is made for.
CacheKey(shape) == shape
TritonKey(shape) == [h |-> shape.h, s |-> shape.s, d |-> shape.d, causal |-> shape.causal]

Empty == [ok |-> FALSE, cfg |-> << >>]
Whole(c) == [ok |-> TRUE, cfg |-> c]

\* A missing file and a text that does not parse are an empty cache.
CacheLoad == IF path = 0 \/ ~data[path].ok THEN << >> ELSE data[path].cfg

\* A cached entry of the shape, or None.
ResolveConfig(shape) ==
    IF CacheKey(shape) \in DOMAIN CacheLoad THEN CacheLoad[CacheKey(shape)] ELSE None

FreeInode ==
    Min(Inodes \ ({path, tmp} \cup {fd[t] : t \in Threads}))

\* Overwriting from the start: a longer text shows behind a shorter one.
Overwrites(old, c) ==
    IF ~old.ok THEN {Whole(c)}
    ELSE IF Cardinality(DOMAIN c) > Cardinality(DOMAIN old.cfg) THEN {Whole(c)}
    ELSE IF Cardinality(DOMAIN c) < Cardinality(DOMAIN old.cfg) THEN {Empty}
    ELSE {Whole(c), Empty}

(***************************************************************************)
(* The launcher.                                                           *)
(***************************************************************************)
Idle(t) ==
    /\ pc' = [pc EXCEPT ![t] = "idle"]
    /\ winner' = [winner EXCEPT ![t] = None]
    /\ cache' = [cache EXCEPT ![t] = << >>]
    /\ fd' = [fd EXCEPT ![t] = 0]

\* fp8_flash_attention with a tile that is known before the launch.
CallKnown(t, shape) ==
    LET cfg == IF Host[t] \in disabled THEN Gpu[target].fallback ELSE ResolveConfig(shape)
    IN  /\ pc[t] = "idle"
        /\ calls[t] < MaxCalls
        /\ cfg # None
        /\ calls' = [calls EXCEPT ![t] = @ + 1]
        /\ call' = [call EXCEPT ![t] = shape]
        /\ outcome' = [outcome EXCEPT ![t] = [kind |-> "launched", cfg |-> cfg]]
        /\ UNCHANGED <<files, memo, best, pc, winner, cache, fd, won, raced, crashes>>

\* A miss: the call goes to the autotuned kernel.
CallMiss(t, shape) ==
    /\ pc[t] = "idle"
    /\ calls[t] < MaxCalls
    /\ Host[t] \notin disabled
    /\ ResolveConfig(shape) = None
    /\ calls' = [calls EXCEPT ![t] = @ + 1]
    /\ call' = [call EXCEPT ![t] = shape]
    /\ pc' = [pc EXCEPT ![t] = "tune"]
    /\ outcome' = [outcome EXCEPT ![t] = [kind |-> "none", cfg |-> None]]
    /\ UNCHANGED <<files, memo, best, winner, cache, fd, won, raced, crashes>>

\* Threads of the same process that have launched, and have not read the winner.
Overtaken(t) == {u \in Threads \ {t} : Host[u] = Host[t] /\ pc[u] = "best"}

\* Triton: search unless this process has searched for the key, then launch.
Autotune(t) ==
    LET key == TritonKey(call[t])
        p == Host[t]
    IN  /\ pc[t] = "tune"
        /\ \E cfg \in IF key \in DOMAIN memo[p] THEN {memo[p][key]} ELSE Searched :
              /\ memo' = [memo EXCEPT ![p] = [k \in DOMAIN @ \cup {key} |->
                                                 IF k = key THEN cfg ELSE @[k]]]
              /\ best' = [best EXCEPT ![p] = cfg]
              /\ won' = won \cup {<<key, cfg>>}
              /\ raced' = raced \cup ({TritonKey(call[u]) : u \in Overtaken(t)} \ {key})
              /\ outcome' = [outcome EXCEPT ![t] = [kind |-> "launched", cfg |-> cfg]]
        /\ pc' = [pc EXCEPT ![t] = "best"]
        /\ UNCHANGED <<files, call, winner, cache, fd, calls, crashes>>

\* The winner is read back from the kernel object.
ReadBest(t) ==
    /\ pc[t] = "best"
    /\ winner' = [winner EXCEPT ![t] = best[Host[t]]]
    /\ pc' = [pc EXCEPT ![t] = "record"]
    /\ UNCHANGED <<files, memo, best, call, cache, fd, outcome, won, raced, calls, crashes>>

\* _record_config: read the file, add the entry ...
RecordLoad(t) ==
    /\ pc[t] = "record"
    /\ LET key == CacheKey(call[t])
       IN  cache' = [cache EXCEPT ![t] = [k \in DOMAIN CacheLoad \cup {key} |->
                        IF k = key THEN winner[t] ELSE CacheLoad[k]]]
    /\ pc' = [pc EXCEPT ![t] = "open"]
    /\ UNCHANGED <<files, memo, best, call, winner, fd, outcome, won, raced, calls, crashes>>

\* ... _cache_save: open the temporary file, empty or emptied ...
SaveOpen(t) ==
    /\ pc[t] = "open"
    /\ LET inode == IF tmp = 0 THEN FreeInode ELSE tmp
       IN  /\ tmp' = inode
           /\ fd' = [fd EXCEPT ![t] = inode]
           /\ data' = [data EXCEPT ![inode] = Empty]
    /\ pc' = [pc EXCEPT ![t] = "write"]
    /\ UNCHANGED <<target, disabled, path, memo, best, call, winner, cache, outcome, won, raced, calls,
                   crashes>>

\* ... write it ...
SaveWrite(t) ==
    /\ pc[t] = "write"
    /\ \E d \in Overwrites(data[fd[t]], cache[t]) :
          data' = [data EXCEPT ![fd[t]] = d]
    /\ pc' = [pc EXCEPT ![t] = "replace"]
    /\ UNCHANGED <<target, disabled, path, tmp, memo, best, call, winner, cache, fd, outcome, won, raced,
                   calls, crashes>>

\* ... and give it the name of the cache file.
SaveReplace(t) ==
    /\ pc[t] = "replace"
    /\ tmp # 0
    /\ path' = tmp
    /\ tmp' = 0
    /\ Idle(t)
    /\ UNCHANGED <<target, disabled, data, memo, best, call, outcome, won, raced, calls, crashes>>

\* Another process has already moved the temporary file away: FileNotFoundError.
SaveRaises(t) ==
    /\ pc[t] = "replace"
    /\ tmp = 0
    /\ outcome' = [outcome EXCEPT ![t] = [kind |-> "raised", cfg |-> None]]
    /\ Idle(t)
    /\ UNCHANGED <<files, memo, best, call, won, raced, calls, crashes>>

\* A process dies with its threads where they are, and another takes its place.
Crash(p) ==
    /\ crashes < MaxCrashes
    /\ \E t \in Threads : Host[t] = p /\ pc[t] # "idle"
    /\ crashes' = crashes + 1
    /\ memo' = [memo EXCEPT ![p] = << >>]
    /\ best' = [best EXCEPT ![p] = None]
    /\ pc' = [t \in Threads |-> IF Host[t] = p THEN "idle" ELSE pc[t]]
    /\ winner' = [t \in Threads |-> IF Host[t] = p THEN None ELSE winner[t]]
    /\ cache' = [t \in Threads |-> IF Host[t] = p THEN << >> ELSE cache[t]]
    /\ fd' = [t \in Threads |-> IF Host[t] = p THEN 0 ELSE fd[t]]
    /\ outcome' = [t \in Threads |-> IF Host[t] = p THEN [kind |-> "none", cfg |-> None]
                                                   ELSE outcome[t]]
    /\ UNCHANGED <<files, call, won, raced, calls>>

Init ==
    /\ target \in Targets
    /\ disabled \in Settings
    /\ path = 0 /\ tmp = 0
    /\ data = [i \in Inodes |-> Empty]
    /\ memo = [p \in Processes |-> << >>]
    /\ best = [p \in Processes |-> None]
    /\ pc = [t \in Threads |-> "idle"]
    /\ call \in {[t \in Threads |-> sh] : sh \in {CHOOSE x \in Shapes : TRUE}}
    /\ winner = [t \in Threads |-> None]
    /\ cache = [t \in Threads |-> << >>]
    /\ fd = [t \in Threads |-> 0]
    /\ outcome = [t \in Threads |-> [kind |-> "none", cfg |-> None]]
    /\ won = {}
    /\ raced = {}
    /\ calls = [t \in Threads |-> 0]
    /\ crashes = 0

(***************************************************************************)
(* The three launchers are made of the same steps.                         *)
(***************************************************************************)
Calls(t) == \E shape \in Shapes : CallKnown(t, shape) \/ CallMiss(t, shape)
Tunes(t) == Autotune(t) \/ ReadBest(t)
Saves(t) == SaveOpen(t) \/ SaveWrite(t) \/ SaveReplace(t) \/ SaveRaises(t)

CDNA3Step(t) == target = "cdna3" /\ (Calls(t) \/ Tunes(t) \/ RecordLoad(t) \/ Saves(t))

HopperLaunches(t) == target = "hopper" /\ (Calls(t) \/ Tunes(t))
HopperRecords(t)  == target = "hopper" /\ RecordLoad(t)
HopperSaves(t)    == target = "hopper" /\ Saves(t)

AdaLaunches(t) == target = "ada" /\ (Calls(t) \/ Tunes(t))
AdaRecords(t)  == target = "ada" /\ RecordLoad(t)
AdaSaves(t)    == target = "ada" /\ Saves(t)

Next ==
    \/ \E t \in Threads :
          \/ CDNA3Step(t)
          \/ HopperLaunches(t) \/ HopperRecords(t) \/ HopperSaves(t)
          \/ AdaLaunches(t) \/ AdaRecords(t) \/ AdaSaves(t)
    \/ \E p \in Processes : Crash(p)

Spec == Init /\ [][Next]_vars

(***************************************************************************)
(* Properties.                                                             *)
(***************************************************************************)
IsCache(c) == DOMAIN c \subseteq Shapes /\ \A k \in DOMAIN c : c[k] \in Tiles

(* Types, and the shape of the save: a thread holds an inode exactly       *)
(* between opening and renaming, and the two names never name one inode.   *)
TypeOK ==
    /\ target \in Targets
    /\ disabled \subseteq Processes
    /\ path \in Inodes \cup {0} /\ tmp \in Inodes \cup {0}
    /\ (path # 0) => (path # tmp)
    /\ \A i \in Inodes : data[i].ok \in BOOLEAN /\ IsCache(data[i].cfg)
    /\ pc \in [Threads -> {"idle", "tune", "best", "record", "open", "write", "replace"}]
    /\ \A t \in Threads :
          /\ call[t] \in Shapes /\ winner[t] \in Tiles \cup {None} /\ IsCache(cache[t])
          /\ (fd[t] # 0) = (pc[t] \in {"write", "replace"})
    /\ calls \in [Threads -> 0..MaxCalls] /\ crashes \in 0..MaxCrashes

(* Whatever tile was chosen, a launch stores every query of every slice    *)
(* once, and each row is the softmax of exactly the keys it may attend to: *)
(* cross-multiplied, since the kernel divides by the sum.                  *)
IsAttention(gpu, sh, cfg) ==
    LET keys(i) == {j \in 0..(sh.s - 1) : sh.causal => j <= i}
        weights(s, i) == MapThenSumSet(LAMBDA j : 2^s[j], keys(i))
        values(s, i, bh) == MapThenSumSet(LAMBDA j : 2^s[j] * Value(sh, bh, j), keys(i))
    IN  \A s \in Scores :
          LET out == CASE gpu = "cdna3"  -> Stored("cdna3", sh, cfg, s)
                       [] gpu = "hopper" -> HopperStored(sh, cfg, s)
                       [] gpu = "ada"    -> AdaStored(sh, cfg, s)
          IN  /\ Cardinality(out) = sh.b * sh.h * sh.s
              /\ {<<r.b, r.h, r.i>> : r \in out}
                    = (0..(sh.b - 1)) \X (0..(sh.h - 1)) \X (0..(sh.s - 1))
              /\ \A r \in out :
                    /\ ~r.row.nan /\ r.row.l > 0
                    /\ r.row.acc * weights(s, r.i)
                          = r.row.l * values(s, r.i, r.b * sh.h + r.h)

\* Every launch there is and whether it computes attention, evaluated once.
Launches ==
    {[gpu |-> g, shape |-> sh, cfg |-> c, right |-> IsAttention(g, sh, c)] :
        g \in Targets, sh \in Shapes, c \in Compiles \cup {Gpu[x].fallback : x \in Targets}}

LaunchIsAttention ==
    [][\A t \in Threads :
          /\ outcome'[t].kind = "launched"
          /\ outcome'[t] # outcome[t] \/ call'[t] # call[t]
          => [gpu |-> target, shape |-> call'[t], cfg |-> outcome'[t].cfg, right |-> TRUE]
                \in Launches]_vars

=============================================================================
