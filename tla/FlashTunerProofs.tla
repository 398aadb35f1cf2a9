--------------------------- MODULE FlashTunerProofs ---------------------------
(***************************************************************************)
(* Theorems about FlashKernel and FlashTuner: a launch has a tile that was *)
(* tuned for its shape, through torn files and deaths, for any number of   *)
(* processes, calls, shapes and deaths; and the script that tries its own  *)
(* tiles in the shared file leaves no trace of them.  Then about           *)
(* AttentionDispatch and Backends: the op that is chosen takes the problem *)
(* it is given, and what is told of a machine is what is chosen there; and *)
(* about AttentionOps: whatever op is chosen, the answer is the same.      *)
(***************************************************************************)
EXTENDS MCFlashKernel, FiniteSetTheorems, SequenceTheorems, WellFoundedInduction, TLAPS

-----------------------------------------------------------------------------
(* Numbers *)

(* Every set of natural numbers that is not empty has a least one.         *)
LEMMA LeastOf ==
    ASSUME NEW S \in SUBSET Nat, S # {}
    PROVE  Min(S) \in S /\ \A y \in S : Min(S) <= y
<1>1. PICK x \in S : \A y \in S : ~(<<y, x>> \in OpToRel(<, Nat))
  BY NatLessThanWellFounded, WFMin
<1>2. ASSUME NEW y \in S, y < x PROVE FALSE
  <2>1. <<y, x>> \in Nat \X Nat /\ <<y, x>>[1] < <<y, x>>[2]
    BY <1>2
  <2>2. <<y, x>> \in OpToRel(<, Nat)
    BY <2>1 DEF OpToRel
  <2> QED BY <1>1, <2>2
<1>3. \A y \in S : x <= y
  BY <1>2
<1> QED BY <1>3 DEF Min

LEMMA InodesAre == 1 \in Inodes /\ Inodes \in SUBSET (Nat \ {0})
<1>1. Cardinality(Threads) \in Nat
  BY KernelAssumption, FS_CardinalityType
<1> QED BY <1>1 DEF Inodes

(* There is an inode to open: more of them than threads.                   *)
LEMMA Unused ==
    ASSUME NEW t \in Threads, NEW p, tmp = 0, path = p
    PROVE  /\ FreeInode \in Inodes
           /\ FreeInode # path
           /\ \A u \in Threads : fd[u] # FreeInode
<1> DEFINE used == {path} \cup {fd[u] : u \in Threads}
           n == Cardinality(Threads)
<1>1. IsFiniteSet(Threads) /\ n \in Nat /\ n # 0
  BY KernelAssumption, FS_CardinalityType, FS_EmptySet
<1>2. IsFiniteSet({fd[u] : u \in Threads}) /\ Cardinality({fd[u] : u \in Threads}) <= n
  <2> DEFINE f == [u \in Threads |-> fd[u]]
  <2>1. f \in Surjection(Threads, {fd[u] : u \in Threads})
    BY DEF Surjection
  <2> HIDE DEF f
  <2> QED BY <1>1, <2>1, FS_Surjection
<1>3. IsFiniteSet(used) /\ Cardinality(used) <= n + 1
  <2>1. used = {fd[u] : u \in Threads} \cup {path}
    OBVIOUS
  <2>2. Cardinality({fd[u] : u \in Threads}) \in Nat
    BY <1>2, FS_CardinalityType
  <2>3. /\ IsFiniteSet({fd[u] : u \in Threads} \cup {path})
        /\ \/ Cardinality({fd[u] : u \in Threads} \cup {path}) = Cardinality({fd[u] : u \in Threads})
           \/ Cardinality({fd[u] : u \in Threads} \cup {path}) = Cardinality({fd[u] : u \in Threads}) + 1
    BY <1>2, FS_AddElement, Zenon
  <2> HIDE DEF used
  <2> QED BY <1>1, <1>2, <2>1, <2>2, <2>3
<1>4. IsFiniteSet(Inodes) /\ Cardinality(Inodes) = 1 + n * 2
  <2>1. 1 \in Int /\ 1 + n * 2 \in Int
    BY <1>1
  <2>2. 1 <= 1 + n * 2
    BY <1>1
  <2> QED BY <1>1, <2>1, <2>2, FS_Interval DEF Inodes
<1>5. Inodes \ used # {}
  <2> SUFFICES ASSUME Inodes \subseteq used PROVE FALSE
    OBVIOUS
  <2>1. Cardinality(Inodes) <= Cardinality(used)
    BY <1>3, FS_Subset
  <2>2. Cardinality(used) \in Nat
    BY <1>3, FS_CardinalityType
  <2> HIDE DEF used
  <2> QED BY <1>1, <1>3, <1>4, <2>1, <2>2
<1>6. Inodes \ ({path, tmp} \cup {fd[u] : u \in Threads}) = Inodes \ used
  BY InodesAre
<1>7. Min(Inodes \ used) \in Inodes \ used
  BY <1>5, InodesAre, LeastOf
<1> QED BY <1>6, <1>7 DEF FreeInode

(* A tile of the script's grid is one of the kernel's.                     *)
LEMMA TrialIs ==
    ASSUME trials \subseteq {i \in DOMAIN ManualConfigs : ManualConfigs[i] \in Compiles},
           trials # {}, target = "cdna3"
    PROVE  /\ Min(trials) \in trials
           /\ Trial \in Compiles /\ Trial \in Tiles /\ Trial # None
<1>1. DOMAIN ManualConfigs = 1..12
  BY DEF ManualConfigs
<1>2. Min(trials) \in trials
  BY <1>1, LeastOf
<1>3. Min(trials) \in 1..12 /\ Trial \in Compiles
  BY <1>1, <1>2 DEF Trial
<1>4. ASSUME NEW i \in 1..12 PROVE ManualConfigs[i] \in CDNA3Configs
  <2>1. ASSUME NEW m, NEW k, NEW w \in {4, 8}, <<m, k>> \in Squares,
               m * k <= 16, w = 8 => m * k >= 2
        PROVE  Tile(m, k, w, 2) \in CDNA3Configs
    <3>1. Tile(m, k, w, 2) = Tile(<<m, k>>[1], <<m, k>>[2], w, 2)
      OBVIOUS
    <3>2. Tile(m, k, w, 2) \in Grid(Squares, {2})
      BY <2>1, <3>1 DEF Grid
    <3>3. Tile(m, k, w, 2).m = m /\ Tile(m, k, w, 2).n = k /\ Tile(m, k, w, 2).warps = w
      BY DEF Tile
    <3> QED BY <2>1, <3>2, <3>3 DEF CDNA3Configs
  <2>2. ASSUME NEW m, NEW k, NEW w \in {4, 8}, <<m, k>> \in {<<2, 1>>, <<4, 2>>}
        PROVE  Tile(m, k, w, 3) \in CDNA3Configs
    <3>1. Tile(m, k, w, 3) = Tile(<<m, k>>[1], <<m, k>>[2], w, 3)
      OBVIOUS
    <3> QED BY <2>2, <3>1 DEF CDNA3Configs
  <2>3. \A m \in {1, 2, 4}, k \in {1, 2} : <<m, k>> \in Squares
    BY DEF Squares
  <2>4. /\ Tile(2, 1, 4, 2) \in CDNA3Configs /\ Tile(2, 1, 8, 2) \in CDNA3Configs
        /\ Tile(2, 2, 4, 2) \in CDNA3Configs /\ Tile(2, 2, 8, 2) \in CDNA3Configs
        /\ Tile(4, 1, 4, 2) \in CDNA3Configs /\ Tile(4, 1, 8, 2) \in CDNA3Configs
        /\ Tile(4, 2, 4, 2) \in CDNA3Configs /\ Tile(4, 2, 8, 2) \in CDNA3Configs
        /\ Tile(1, 1, 4, 2) \in CDNA3Configs /\ Tile(1, 2, 4, 2) \in CDNA3Configs
    BY <2>1, <2>3
  <2>5. Tile(2, 1, 4, 3) \in CDNA3Configs /\ Tile(4, 2, 4, 3) \in CDNA3Configs
    BY <2>2
  <2>6. \/ ManualConfigs[i] \in {Tile(2, 1, 4, 2), Tile(2, 1, 8, 2), Tile(2, 1, 4, 3), Tile(2, 2, 4, 2)}
        \/ ManualConfigs[i] \in {Tile(2, 2, 8, 2), Tile(4, 1, 4, 2), Tile(4, 1, 8, 2), Tile(4, 2, 4, 2)}
        \/ ManualConfigs[i] \in {Tile(4, 2, 8, 2), Tile(4, 2, 4, 3), Tile(1, 1, 4, 2), Tile(1, 2, 4, 2)}
    BY DEF ManualConfigs
  <2> QED BY <2>4, <2>5, <2>6
<1>5. Gpu["cdna3"].grid = CDNA3Configs
  BY DEF Gpu, CDNA3
<1>6. Trial \in Tiles
  BY <1>3, <1>4, <1>5 DEF Trial, Tiles, Searched
<1>7. Trial # None
  BY <1>3, KernelAssumption DEF None
<1> QED BY <1>2, <1>3, <1>6, <1>7

-----------------------------------------------------------------------------
(* Types *)

InodeOrNone == Inodes \cup {0}
Steps == {"idle", "tune", "best", "record", "open", "write", "replace"}

FileTypes ==
    /\ target \in Targets
    /\ disabled \subseteq Processes
    /\ path \in InodeOrNone /\ tmp \in InodeOrNone
    /\ path # 0 => path # tmp
    /\ DOMAIN data = Inodes
    /\ \A i \in Inodes : data[i].ok \in BOOLEAN /\ IsCache(data[i].cfg)

FrameTypes ==
    /\ pc \in [Threads -> Steps] /\ calls \in [Threads -> 0..MaxCalls]
    /\ DOMAIN call = Threads /\ DOMAIN winner = Threads /\ DOMAIN cache = Threads
    /\ DOMAIN fd = Threads /\ DOMAIN outcome = Threads
    /\ \A t \in Threads :
          /\ call[t] \in Shapes /\ winner[t] \in Tiles \cup {None} /\ IsCache(cache[t])
          /\ fd[t] \in InodeOrNone
          /\ (fd[t] # 0) = (pc[t] \in {"write", "replace"})
    /\ crashes \in 0..MaxCrashes

(* The winner is there to be read, and then to be recorded.                *)
SearchTypes ==
    /\ DOMAIN memo = Processes /\ DOMAIN best = Processes
    /\ \A p \in Processes : \A k \in DOMAIN memo[p] : memo[p][k] \in Tiles
    /\ \A t \in Threads :
          /\ pc[t] = "best" => best[Host[t]] \in Tiles
          /\ pc[t] = "record" => winner[t] \in Tiles

KernelTypes == FileTypes /\ FrameTypes /\ SearchTypes

ScriptTypes ==
    /\ mode \in {"off", "manual", "rerun", "triton"}
    /\ mode = "off" => at = "start" /\ fastest = None /\ tried = {} /\ snapshot = << >>
    /\ mode # "off" => target = "cdna3"
    /\ IsCache(snapshot)
    /\ trials \subseteq {i \in DOMAIN ManualConfigs : ManualConfigs[i] \in Compiles}
    /\ at \in {"forcing", "bench"} => trials # {}
    /\ fastest \in Tiles \cup {None}

LEMMA HostIs == \A t \in Threads : Host[t] \in Processes
BY DEF Processes

LEMMA LoadIs == FileTypes => IsCache(CacheLoad)
BY DEF FileTypes, CacheLoad, IsCache, InodeOrNone

LEMMA EmptyIs == /\ DOMAIN << >> = {} /\ IsCache(<< >>)
                 /\ Empty.ok = FALSE /\ Empty.cfg = << >>
<1>1. DOMAIN << >> = {}
  OBVIOUS
<1>2. \A c : c = << >> => IsCache(c)
  BY <1>1 DEF IsCache
<1> QED BY <1>1, <1>2 DEF Empty

LEMMA WholeIs == ASSUME NEW c PROVE Whole(c).ok = TRUE /\ Whole(c).cfg = c
BY DEF Whole

(* The tiles are the target's.                                             *)
LEMMA TilesStay ==
    ASSUME UNCHANGED target
    PROVE  Tiles' = Tiles /\ (\A c : IsCache(c)' <=> IsCache(c)) /\ Searched' = Searched
BY DEF Tiles, Searched, IsCache

LEMMA CallTypes ==
    ASSUME KernelTypes, NEW t \in Threads, NEW shape \in Shapes,
           CallKnown(t, shape) \/ CallMiss(t, shape)
    PROVE  KernelTypes'
<1>1. UNCHANGED <<files, memo, best, winner, cache, fd, crashes>>
  BY DEF CallKnown, CallMiss
<1>2. /\ calls[t] < MaxCalls /\ calls' = [calls EXCEPT ![t] = @ + 1]
      /\ call' = [call EXCEPT ![t] = shape] /\ DOMAIN outcome' = DOMAIN outcome
  BY DEF CallKnown, CallMiss
<1>3. pc[t] = "idle" /\ (UNCHANGED pc \/ pc' = [pc EXCEPT ![t] = "tune"])
  BY DEF CallKnown, CallMiss
<1>4. FileTypes'
  BY <1>1, TilesStay DEF KernelTypes, FileTypes, files
<1>5. FrameTypes'
  <2>1. calls' \in [Threads -> 0..MaxCalls]
    BY <1>2, KernelAssumption DEF KernelTypes, FrameTypes
  <2>2. pc' \in [Threads -> Steps]
    BY <1>3 DEF KernelTypes, FrameTypes, Steps
  <2>3. \A u \in Threads : call'[u] \in Shapes
    BY <1>2 DEF KernelTypes, FrameTypes
  <2>4. \A u \in Threads : (pc'[u] \in {"write", "replace"}) = (pc[u] \in {"write", "replace"})
    BY <1>3 DEF KernelTypes, FrameTypes
  <2> QED BY <1>1, <1>2, <2>1, <2>2, <2>3, <2>4, TilesStay DEF KernelTypes, FrameTypes, files
<1>6. SearchTypes'
  <2>1. \A u \in Threads : pc'[u] \in {"best", "record"} => pc'[u] = pc[u]
    BY <1>3 DEF KernelTypes, FrameTypes
  <2> QED BY <1>1, <2>1, TilesStay DEF KernelTypes, SearchTypes, files
<1> QED BY <1>4, <1>5, <1>6 DEF KernelTypes

LEMMA AutotuneTypes ==
    ASSUME KernelTypes, NEW t \in Threads, Autotune(t)
    PROVE  KernelTypes'
<1>1. /\ UNCHANGED <<files, call, winner, cache, fd, calls, crashes>>
      /\ pc[t] = "tune" /\ pc' = [pc EXCEPT ![t] = "best"]
  BY DEF Autotune
<1>2. PICK cfg \in IF TritonKey(call[t]) \in DOMAIN memo[Host[t]]
                   THEN {memo[Host[t]][TritonKey(call[t])]} ELSE Searched :
        /\ memo' = [memo EXCEPT ![Host[t]] = [k \in DOMAIN @ \cup {TritonKey(call[t])} |->
                                                 IF k = TritonKey(call[t]) THEN cfg ELSE @[k]]]
        /\ best' = [best EXCEPT ![Host[t]] = cfg]
        /\ outcome' = [outcome EXCEPT ![t] = [kind |-> "launched", cfg |-> cfg]]
  BY DEF Autotune
<1>3. cfg \in Tiles
  BY <1>2, HostIs DEF KernelTypes, SearchTypes, Tiles
<1>4. FileTypes'
  BY <1>1, TilesStay DEF KernelTypes, FileTypes, files
<1>5. FrameTypes'
  <2>1. pc' \in [Threads -> Steps]
    BY <1>1 DEF KernelTypes, FrameTypes, Steps
  <2>2. \A u \in Threads : (pc'[u] \in {"write", "replace"}) = (pc[u] \in {"write", "replace"})
    BY <1>1 DEF KernelTypes, FrameTypes
  <2>3. DOMAIN outcome' = Threads
    BY <1>2 DEF KernelTypes, FrameTypes
  <2> QED BY <1>1, <2>1, <2>2, <2>3, TilesStay DEF KernelTypes, FrameTypes, files
<1>6. SearchTypes'
  <2>1. DOMAIN memo' = Processes /\ DOMAIN best' = Processes
    BY <1>2 DEF KernelTypes, SearchTypes
  <2>2. \A p \in Processes : \A k \in DOMAIN memo'[p] : memo'[p][k] \in Tiles
    BY <1>2, <1>3 DEF KernelTypes, SearchTypes
  <2>3. ASSUME NEW u \in Threads, pc'[u] = "best" PROVE best'[Host[u]] \in Tiles
    <3>1. u # t => pc[u] = "best"
      BY <1>1, <2>3 DEF KernelTypes, FrameTypes
    <3> QED BY <1>2, <1>3, <3>1, HostIs DEF KernelTypes, SearchTypes
  <2>4. ASSUME NEW u \in Threads, pc'[u] = "record" PROVE winner'[u] \in Tiles
    <3>1. pc[u] = "record"
      BY <1>1, <2>4 DEF KernelTypes, FrameTypes
    <3> QED BY <1>1, <3>1 DEF KernelTypes, SearchTypes
  <2> QED BY <1>1, <2>1, <2>2, <2>3, <2>4, TilesStay DEF SearchTypes, files
<1> QED BY <1>4, <1>5, <1>6 DEF KernelTypes

LEMMA ReadBestTypes ==
    ASSUME KernelTypes, NEW t \in Threads, ReadBest(t)
    PROVE  KernelTypes'
<1>1. /\ UNCHANGED <<files, memo, best, call, cache, fd, outcome, calls, crashes>>
      /\ pc[t] = "best" /\ pc' = [pc EXCEPT ![t] = "record"]
      /\ winner' = [winner EXCEPT ![t] = best[Host[t]]]
  BY DEF ReadBest
<1>2. best[Host[t]] \in Tiles
  BY <1>1 DEF KernelTypes, SearchTypes
<1>3. FileTypes'
  BY <1>1, TilesStay DEF KernelTypes, FileTypes, files
<1>4. FrameTypes'
  <2>1. pc' \in [Threads -> Steps]
    BY <1>1 DEF KernelTypes, FrameTypes, Steps
  <2>2. \A u \in Threads : (pc'[u] \in {"write", "replace"}) = (pc[u] \in {"write", "replace"})
    BY <1>1 DEF KernelTypes, FrameTypes
  <2>3. DOMAIN winner' = Threads /\ \A u \in Threads : winner'[u] \in Tiles \cup {None}
    BY <1>1, <1>2 DEF KernelTypes, FrameTypes
  <2> QED BY <1>1, <2>1, <2>2, <2>3, TilesStay DEF KernelTypes, FrameTypes, files
<1>5. SearchTypes'
  <2>1. ASSUME NEW u \in Threads PROVE /\ pc'[u] = "best" => best[Host[u]] \in Tiles
                                       /\ pc'[u] = "record" => winner'[u] \in Tiles
    BY <1>1, <1>2 DEF KernelTypes, FrameTypes, SearchTypes
  <2> QED BY <1>1, <2>1, TilesStay DEF KernelTypes, SearchTypes, files
<1> QED BY <1>3, <1>4, <1>5 DEF KernelTypes

LEMMA RecordTypes ==
    ASSUME KernelTypes, NEW t \in Threads, RecordLoad(t)
    PROVE  KernelTypes'
<1> DEFINE c == [k \in DOMAIN CacheLoad \cup {CacheKey(call[t])} |->
                    IF k = CacheKey(call[t]) THEN winner[t] ELSE CacheLoad[k]]
<1>1. /\ UNCHANGED <<files, memo, best, call, winner, fd, outcome, calls, crashes>>
      /\ pc[t] = "record" /\ pc' = [pc EXCEPT ![t] = "open"]
      /\ cache' = [cache EXCEPT ![t] = c]
  BY DEF RecordLoad
<1>2. IsCache(c)
  <2>1. winner[t] \in Tiles /\ CacheKey(call[t]) \in Shapes
    BY <1>1 DEF KernelTypes, SearchTypes, FrameTypes, CacheKey
  <2> QED BY <2>1, LoadIs DEF KernelTypes, IsCache
<1> HIDE DEF c
<1>3. FileTypes'
  BY <1>1, TilesStay DEF KernelTypes, FileTypes, files
<1>4. FrameTypes'
  <2>1. pc' \in [Threads -> Steps]
    BY <1>1 DEF KernelTypes, FrameTypes, Steps
  <2>2. \A u \in Threads : (pc'[u] \in {"write", "replace"}) = (pc[u] \in {"write", "replace"})
    BY <1>1 DEF KernelTypes, FrameTypes
  <2>3. DOMAIN cache' = Threads /\ \A u \in Threads : IsCache(cache'[u])
    BY <1>1, <1>2 DEF KernelTypes, FrameTypes
  <2> QED BY <1>1, <2>1, <2>2, <2>3, TilesStay DEF KernelTypes, FrameTypes, files
<1>5. SearchTypes'
  <2>1. \A u \in Threads : pc'[u] \in {"best", "record"} => pc'[u] = pc[u]
    BY <1>1 DEF KernelTypes, FrameTypes
  <2> QED BY <1>1, <2>1, TilesStay DEF KernelTypes, SearchTypes, files
<1> QED BY <1>3, <1>4, <1>5 DEF KernelTypes

LEMMA SaveOpenTypes ==
    ASSUME KernelTypes, NEW t \in Threads, SaveOpen(t)
    PROVE  KernelTypes'
<1> DEFINE inode == IF tmp = 0 THEN FreeInode ELSE tmp
<1>1. /\ UNCHANGED <<target, disabled, path, memo, best, call, winner, cache, outcome, calls, crashes>>
      /\ pc[t] = "open" /\ pc' = [pc EXCEPT ![t] = "write"]
      /\ tmp' = inode /\ fd' = [fd EXCEPT ![t] = inode]
      /\ data' = [data EXCEPT ![inode] = Empty]
  BY DEF SaveOpen
<1>2. inode \in Inodes /\ inode # path /\ inode # 0
  BY Unused, InodesAre DEF KernelTypes, FileTypes, InodeOrNone
<1> HIDE DEF inode
<1>3. FileTypes'
  <2>1. DOMAIN data' = Inodes
    BY <1>1 DEF KernelTypes, FileTypes
  <2>2. \A i \in Inodes : data'[i].ok \in BOOLEAN /\ IsCache(data'[i].cfg)
    BY <1>1, EmptyIs DEF KernelTypes, FileTypes
  <2> QED BY <1>1, <1>2, <2>1, <2>2, TilesStay DEF KernelTypes, FileTypes, InodeOrNone
<1>4. FrameTypes'
  <2>1. pc' \in [Threads -> Steps]
    BY <1>1 DEF KernelTypes, FrameTypes, Steps
  <2>2. \A u \in Threads : /\ fd'[u] \in InodeOrNone
                           /\ (fd'[u] # 0) = (pc'[u] \in {"write", "replace"})
    BY <1>1, <1>2 DEF KernelTypes, FrameTypes, InodeOrNone
  <2>3. DOMAIN fd' = Threads
    BY <1>1 DEF KernelTypes, FrameTypes
  <2> QED BY <1>1, <2>1, <2>2, <2>3, TilesStay DEF KernelTypes, FrameTypes
<1>5. SearchTypes'
  <2>1. \A u \in Threads : pc'[u] \in {"best", "record"} => pc'[u] = pc[u]
    BY <1>1 DEF KernelTypes, FrameTypes
  <2> QED BY <1>1, <2>1, TilesStay DEF KernelTypes, SearchTypes
<1> QED BY <1>3, <1>4, <1>5 DEF KernelTypes

LEMMA SaveWriteTypes ==
    ASSUME KernelTypes, NEW t \in Threads, SaveWrite(t)
    PROVE  KernelTypes'
<1>1. /\ UNCHANGED <<target, disabled, path, tmp, memo, best, call, winner, cache, fd, outcome,
                     calls, crashes>>
      /\ pc[t] = "write" /\ pc' = [pc EXCEPT ![t] = "replace"]
  BY DEF SaveWrite
<1>2. PICK d \in Overwrites(data[fd[t]], cache[t]) : data' = [data EXCEPT ![fd[t]] = d]
  BY DEF SaveWrite
<1>3. d = Whole(cache[t]) \/ d = Empty
  BY <1>2 DEF Overwrites
<1>4. FileTypes'
  <2>1. DOMAIN data' = Inodes
    BY <1>2 DEF KernelTypes, FileTypes
  <2>2. d.ok \in BOOLEAN /\ IsCache(d.cfg)
    <3>1. CASE d = Empty
      BY <3>1, EmptyIs
    <3>2. CASE d = Whole(cache[t])
      <4>1. d.ok = TRUE /\ d.cfg = cache[t]
        BY <3>2, WholeIs
      <4> QED BY <4>1 DEF KernelTypes, FrameTypes
    <3> QED BY <1>3, <3>1, <3>2
  <2>3. \A i \in Inodes : data'[i].ok \in BOOLEAN /\ IsCache(data'[i].cfg)
    BY <1>2, <2>2 DEF KernelTypes, FileTypes
  <2> QED BY <1>1, <2>1, <2>3, TilesStay DEF KernelTypes, FileTypes
<1>5. FrameTypes'
  <2>1. pc' \in [Threads -> Steps]
    BY <1>1 DEF KernelTypes, FrameTypes, Steps
  <2>2. \A u \in Threads : (pc'[u] \in {"write", "replace"}) = (pc[u] \in {"write", "replace"})
    BY <1>1 DEF KernelTypes, FrameTypes
  <2> QED BY <1>1, <2>1, <2>2, TilesStay DEF KernelTypes, FrameTypes
<1>6. SearchTypes'
  <2>1. \A u \in Threads : pc'[u] \in {"best", "record"} => pc'[u] = pc[u]
    BY <1>1 DEF KernelTypes, FrameTypes
  <2> QED BY <1>1, <2>1, TilesStay DEF KernelTypes, SearchTypes
<1> QED BY <1>4, <1>5, <1>6 DEF KernelTypes

(* A thread whose frame is dropped.                                        *)
LEMMA IdleTypes ==
    ASSUME KernelTypes, NEW t \in Threads, Idle(t),
           UNCHANGED <<target, memo, best, call, calls, crashes>>, DOMAIN outcome' = Threads
    PROVE  FrameTypes' /\ SearchTypes'
<1>1. /\ pc' = [pc EXCEPT ![t] = "idle"]
      /\ winner' = [winner EXCEPT ![t] = None]
      /\ cache' = [cache EXCEPT ![t] = << >>]
      /\ fd' = [fd EXCEPT ![t] = 0]
  BY DEF Idle
<1>2. pc' \in [Threads -> Steps]
  BY <1>1 DEF KernelTypes, FrameTypes, Steps
<1>3. ASSUME NEW u \in Threads
      PROVE  /\ winner'[u] \in Tiles \cup {None} /\ IsCache(cache'[u])
             /\ fd'[u] \in InodeOrNone
             /\ (fd'[u] # 0) = (pc'[u] \in {"write", "replace"})
  BY <1>1 DEF KernelTypes, FrameTypes, InodeOrNone, IsCache
<1>4. /\ DOMAIN winner' = Threads /\ DOMAIN cache' = Threads /\ DOMAIN fd' = Threads
  BY <1>1 DEF KernelTypes, FrameTypes
<1>5. FrameTypes'
  BY <1>2, <1>3, <1>4, TilesStay DEF KernelTypes, FrameTypes
<1>6. \A u \in Threads : pc'[u] \in {"best", "record"} => pc'[u] = pc[u] /\ winner'[u] = winner[u]
  BY <1>1 DEF KernelTypes, FrameTypes
<1>7. SearchTypes'
  BY <1>6, TilesStay DEF KernelTypes, SearchTypes
<1> QED BY <1>5, <1>7

LEMMA SaveEndTypes ==
    ASSUME KernelTypes, NEW t \in Threads, SaveReplace(t) \/ SaveRaises(t)
    PROVE  KernelTypes'
<1>1. /\ UNCHANGED <<target, disabled, data, memo, best, call, calls, crashes>>
      /\ Idle(t) /\ DOMAIN outcome' = DOMAIN outcome
  BY DEF SaveReplace, SaveRaises, files
<1>2. UNCHANGED <<path, tmp>> \/ (tmp # 0 /\ path' = tmp /\ tmp' = 0)
  BY DEF SaveReplace, SaveRaises, files
<1>3. FileTypes'
  BY <1>1, <1>2, TilesStay DEF KernelTypes, FileTypes, InodeOrNone
<1>4. FrameTypes' /\ SearchTypes'
  BY <1>1, IdleTypes DEF KernelTypes, FrameTypes
<1> QED BY <1>3, <1>4 DEF KernelTypes

LEMMA CrashTypes ==
    ASSUME KernelTypes, NEW p \in Processes, Crash(p)
    PROVE  KernelTypes'
<1>1. /\ UNCHANGED <<files, call, calls>>
      /\ crashes < MaxCrashes /\ crashes' = crashes + 1
      /\ memo' = [memo EXCEPT ![p] = << >>]
      /\ best' = [best EXCEPT ![p] = None]
      /\ pc' = [t \in Threads |-> IF Host[t] = p THEN "idle" ELSE pc[t]]
      /\ winner' = [t \in Threads |-> IF Host[t] = p THEN None ELSE winner[t]]
      /\ cache' = [t \in Threads |-> IF Host[t] = p THEN << >> ELSE cache[t]]
      /\ fd' = [t \in Threads |-> IF Host[t] = p THEN 0 ELSE fd[t]]
      /\ outcome' = [t \in Threads |-> IF Host[t] = p THEN [kind |-> "none", cfg |-> None]
                                                     ELSE outcome[t]]
  BY DEF Crash
<1>2. FileTypes'
  BY <1>1, TilesStay DEF KernelTypes, FileTypes, files
<1>3. FrameTypes'
  <2>1. pc' \in [Threads -> Steps]
    BY <1>1 DEF KernelTypes, FrameTypes, Steps
  <2>2. ASSUME NEW u \in Threads
        PROVE  /\ winner'[u] \in Tiles \cup {None} /\ IsCache(cache'[u])
               /\ fd'[u] \in InodeOrNone
               /\ (fd'[u] # 0) = (pc'[u] \in {"write", "replace"})
    BY <1>1 DEF KernelTypes, FrameTypes, InodeOrNone, IsCache
  <2>3. /\ DOMAIN winner' = Threads /\ DOMAIN cache' = Threads /\ DOMAIN fd' = Threads
        /\ DOMAIN outcome' = Threads
    BY <1>1
  <2>4. crashes' \in 0..MaxCrashes
    BY <1>1, KernelAssumption DEF KernelTypes, FrameTypes
  <2> QED BY <1>1, <2>1, <2>2, <2>3, <2>4, TilesStay DEF KernelTypes, FrameTypes, files
<1>4. SearchTypes'
  <2>1. DOMAIN memo' = Processes /\ DOMAIN best' = Processes
    BY <1>1 DEF KernelTypes, SearchTypes
  <2>2. \A q \in Processes : \A k \in DOMAIN memo'[q] : memo'[q][k] \in Tiles
    BY <1>1 DEF KernelTypes, SearchTypes
  <2>3. ASSUME NEW u \in Threads, pc'[u] \in {"best", "record"}
        PROVE  pc'[u] = pc[u] /\ winner'[u] = winner[u] /\ best'[Host[u]] = best[Host[u]]
    BY <1>1, <2>3, HostIs DEF KernelTypes, SearchTypes
  <2> QED BY <1>1, <2>1, <2>2, <2>3, TilesStay DEF KernelTypes, SearchTypes, files
<1> QED BY <1>2, <1>3, <1>4 DEF KernelTypes

(* A step of a launcher, whichever of the three.                           *)
KernelStep(t) == Calls(t) \/ Tunes(t) \/ RecordLoad(t) \/ Saves(t)

LEMMA KernelStepTypes ==
    ASSUME KernelTypes, NEW t \in Threads, KernelStep(t)
    PROVE  KernelTypes'
<1>1. CASE Calls(t)
  BY <1>1, CallTypes DEF Calls
<1>2. CASE Tunes(t)
  BY <1>2, AutotuneTypes, ReadBestTypes DEF Tunes
<1>3. CASE RecordLoad(t)
  BY <1>3, RecordTypes
<1>4. CASE Saves(t)
  BY <1>4, SaveOpenTypes, SaveWriteTypes, SaveEndTypes DEF Saves
<1> QED BY <1>1, <1>2, <1>3, <1>4 DEF KernelStep

LEMMA KernelKeepsTarget ==
    /\ \A t \in Threads : KernelStep(t) => UNCHANGED <<target, disabled>>
    /\ \A p \in Processes : Crash(p) => UNCHANGED <<target, disabled>>
<1>1. ASSUME NEW t \in Threads, KernelStep(t) PROVE UNCHANGED <<target, disabled>>
  <2>1. CASE Calls(t)
    BY <2>1 DEF Calls, CallKnown, CallMiss, files
  <2>2. CASE Tunes(t) \/ RecordLoad(t)
    BY <2>2 DEF Tunes, Autotune, ReadBest, RecordLoad, files
  <2>3. CASE Saves(t)
    BY <2>3 DEF Saves, SaveOpen, SaveWrite, SaveReplace, SaveRaises, files
  <2> QED BY <1>1, <2>1, <2>2, <2>3 DEF KernelStep
<1>2. ASSUME NEW p \in Processes, Crash(p) PROVE UNCHANGED <<target, disabled>>
  BY <1>2 DEF Crash, files
<1> QED BY <1>1, <1>2

-----------------------------------------------------------------------------
(* The steps of the script *)

TunerTypes == KernelTypes /\ ScriptTypes

NoCall == [kind |-> "none", cfg |-> None]

ScriptStep ==
    Unlink \/ FixedBegin \/ FixedEnd \/ TrialBegin \/ TrialEnd \/ Persist \/ Persisted \/ TunerDies

(* A step of a thread in a call or in a save, a death, the start of the    *)
(* script, or a step of its own.                                           *)
LEMMA NextIs ==
    ASSUME TunerNext
    PROVE  \/ \E t \in Threads :
                 /\ KernelStep(t)
                 /\ UNCHANGED <<mode, trials, snapshot, fastest, tried>>
                 /\ \/ UNCHANGED at /\ (mode = "off" \/ t # Tuner \/ Inside(t))
                    \/ mode # "off" /\ t = Tuner /\ TunerCalls
           \/ \E p \in Processes :
                 /\ Crash(p)
                 /\ UNCHANGED <<mode, trials, snapshot, fastest, tried>>
                 /\ \/ mode = "off" /\ UNCHANGED at
                    \/ mode # "off" /\ at' = "dead"
           \/ \E m \in {"manual", "rerun", "triton"} : TunerStarts(m)
           \/ mode # "off" /\ ScriptStep
<1>1. CASE mode = "off" /\ Next /\ UNCHANGED tunerVars
  <2>1. CASE \E t \in Threads : KernelStep(t)
    BY <1>1, <2>1, Zenon DEF tunerVars
  <2>2. CASE \E p \in Processes : Crash(p)
    BY <1>1, <2>2, Zenon DEF tunerVars
  <2> QED
    BY <1>1, <2>1, <2>2, Zenon DEF Next, CDNA3Step, HopperLaunches, HopperRecords, HopperSaves,
       AdaLaunches, AdaRecords, AdaSaves, KernelStep
<1>2. CASE \E m \in {"manual", "rerun", "triton"} : TunerStarts(m)
  BY <1>2
<1>3. CASE mode # "off" /\ TunerStep
  <2>1. CASE ScriptStep
    BY <1>3, <2>1
  <2>2. CASE TunerCalls
    <3>1. KernelStep(Tuner) /\ UNCHANGED <<mode, trials, snapshot, fastest, tried>>
      BY <2>2, TunerAssumption, Zenon DEF TunerCalls, KernelStep, Calls
    <3> QED BY <1>3, <2>2, <3>1, TunerAssumption, Zenon
  <2>3. CASE TunerCrash
    BY <1>3, <2>3, TunerAssumption, HostIs, Zenon DEF TunerCrash
  <2>4. CASE Inside(Tuner) /\ UNCHANGED tunerVars
    BY <2>4, TunerAssumption, Zenon DEF Inside, KernelStep, tunerVars
  <2> QED BY <1>3, <2>1, <2>2, <2>3, <2>4, Zenon DEF TunerStep, ScriptStep
<1>4. CASE mode # "off" /\ (\E t \in Threads \ {Tuner} : CDNA3Step(t)) /\ UNCHANGED tunerVars
  BY <1>4, Zenon DEF CDNA3Step, KernelStep, tunerVars
<1> QED BY <1>1, <1>2, <1>3, <1>4, Zenon DEF TunerNext

(* What a save of the script's own writes.                                 *)
ToSave ==
    (IF trials # {} THEN {Entry(CacheLoad, Trial)} ELSE {})
    \cup (IF fastest # None THEN {Entry(CacheLoad, fastest)} ELSE {})
    \cup {snapshot}

LEMMA ScriptFrame ==
    ASSUME ScriptStep
    PROVE  /\ pc[Tuner] = "idle"
           /\ UNCHANGED <<target, tmp, data, memo, best, call, winner, fd, won, raced, crashes, mode>>
           /\ path' \in {path, 0}
           /\ disabled' \in {disabled, disabled \cup {Host[Tuner]}, disabled \ {Host[Tuner]}}
           /\ outcome' \in {outcome, [outcome EXCEPT ![Tuner] = NoCall]}
           /\ calls' \in {calls, [calls EXCEPT ![Tuner] = 0]}
           /\ \/ UNCHANGED <<pc, cache>>
              \/ /\ pc' = [pc EXCEPT ![Tuner] = "open"]
                 /\ \E c \in ToSave : cache' = [cache EXCEPT ![Tuner] = c]
<1>1. CASE Unlink
  BY <1>1 DEF Unlink, Resting
<1>2. CASE FixedBegin
  BY <1>2 DEF FixedBegin, Resting
<1>3. CASE FixedEnd
  BY <1>3 DEF FixedEnd, Resting, NoCall
<1>4. CASE TrialBegin
  BY <1>4 DEF TrialBegin, Resting, Save, files, ToSave, NoCall
<1>5. CASE TrialEnd
  BY <1>5 DEF TrialEnd, Resting, Save, files, ToSave, NoCall
<1>6. CASE Persist
  BY <1>6 DEF Persist, Resting, Save, files, ToSave, NoCall
<1>7. CASE Persisted
  BY <1>7 DEF Persisted, Resting, vars
<1>8. CASE TunerDies
  BY <1>8 DEF TunerDies, Resting, files, NoCall
<1> QED BY <1>1, <1>2, <1>3, <1>4, <1>5, <1>6, <1>7, <1>8 DEF ScriptStep

LEMMA EntryIsCache ==
    ASSUME NEW c, IsCache(c), NEW cfg \in Tiles
    PROVE  IsCache(Entry(c, cfg))
BY TunerAssumption DEF Entry, IsCache, CacheKey

LEMMA ToSaveIs ==
    ASSUME TunerTypes, mode # "off"
    PROVE  \A c \in ToSave : IsCache(c)
<1>1. IsCache(CacheLoad) /\ IsCache(snapshot) /\ (fastest # None => fastest \in Tiles)
  BY LoadIs DEF TunerTypes, KernelTypes, ScriptTypes
<1>2. trials # {} => Trial \in Tiles
  BY TrialIs DEF TunerTypes, ScriptTypes
<1>3. \A cfg \in Tiles : IsCache(Entry(CacheLoad, cfg))
  BY <1>1, EntryIsCache
<1> QED BY <1>1, <1>2, <1>3 DEF ToSave

LEMMA FoundIs == target = "cdna3" => IsCache(Found)
<1>1. Gpu["cdna3"].grid = CDNA3Configs
  BY DEF Gpu, CDNA3
<1> QED BY <1>1, TunerAssumption DEF IsCache, Tiles, Searched

LEMMA ScriptStepTypes ==
    ASSUME TunerTypes, mode # "off", ScriptStep
    PROVE  TunerTypes'
<1>0. Tuner \in Threads /\ Host[Tuner] \in Processes
  BY TunerAssumption, HostIs
<1>1. /\ pc[Tuner] = "idle"
      /\ UNCHANGED <<target, tmp, data, memo, best, call, winner, fd, crashes, mode>>
      /\ path' \in {path, 0}
      /\ disabled' \in {disabled, disabled \cup {Host[Tuner]}, disabled \ {Host[Tuner]}}
      /\ outcome' \in {outcome, [outcome EXCEPT ![Tuner] = NoCall]}
      /\ calls' \in {calls, [calls EXCEPT ![Tuner] = 0]}
  BY ScriptFrame, Zenon
<1>2. \/ UNCHANGED <<pc, cache>>
      \/ /\ pc' = [pc EXCEPT ![Tuner] = "open"]
         /\ \E c \in ToSave : cache' = [cache EXCEPT ![Tuner] = c]
  BY ScriptFrame, Zenon
<1>3. FileTypes'
  <2>1. disabled' \subseteq Processes
    BY <1>0, <1>1 DEF TunerTypes, KernelTypes, FileTypes
  <2> QED BY <1>1, <2>1, TilesStay DEF TunerTypes, KernelTypes, FileTypes, InodeOrNone
<1>4. FrameTypes'
  <2>1. pc' \in [Threads -> Steps]
    BY <1>2 DEF TunerTypes, KernelTypes, FrameTypes, Steps
  <2>2. calls' \in [Threads -> 0..MaxCalls]
    BY <1>1, KernelAssumption DEF TunerTypes, KernelTypes, FrameTypes
  <2>3. DOMAIN outcome' = Threads
    BY <1>1 DEF TunerTypes, KernelTypes, FrameTypes
  <2>4. DOMAIN cache' = Threads /\ \A u \in Threads : IsCache(cache'[u])
    BY <1>0, <1>2, ToSaveIs DEF TunerTypes, KernelTypes, FrameTypes
  <2>5. \A u \in Threads : (pc'[u] \in {"write", "replace"}) = (pc[u] \in {"write", "replace"})
    BY <1>0, <1>1, <1>2 DEF TunerTypes, KernelTypes, FrameTypes
  <2> QED BY <1>1, <2>1, <2>2, <2>3, <2>4, <2>5, TilesStay DEF TunerTypes, KernelTypes, FrameTypes
<1>5. SearchTypes'
  <2>1. \A u \in Threads : pc'[u] \in {"best", "record"} => pc'[u] = pc[u]
    BY <1>2 DEF TunerTypes, KernelTypes, FrameTypes
  <2> QED BY <1>1, <2>1, TilesStay DEF TunerTypes, KernelTypes, SearchTypes
<1>6. ScriptTypes'
  <2>0. ScriptTypes /\ IsCache(CacheLoad) /\ (trials # {} => Trial \in Tiles)
    BY LoadIs, TrialIs DEF TunerTypes, KernelTypes, ScriptTypes
  <2>1. CASE UNCHANGED <<trials, snapshot, fastest>> /\ at' \notin {"forcing", "bench"}
    BY <1>1, <2>0, <2>1, TilesStay DEF ScriptTypes
  <2>2. CASE TrialBegin
    BY <1>1, <2>0, <2>2, TilesStay DEF ScriptTypes, TrialBegin
  <2>3. CASE TrialEnd
    <3>1. fastest' \in Tiles \cup {None}
      <4>1. fastest' \in {fastest, Trial} \ {None} \/ fastest' = fastest
        BY <2>3 DEF TrialEnd
      <4>2. at = "bench"
        BY <2>3 DEF TrialEnd, Resting
      <4> QED BY <2>0, <4>1, <4>2 DEF ScriptTypes
    <3> QED BY <1>1, <2>0, <2>3, <3>1, TilesStay DEF ScriptTypes, TrialEnd
  <2>4. \/ UNCHANGED <<trials, snapshot, fastest>> /\ at' \notin {"forcing", "bench"}
        \/ TrialBegin \/ TrialEnd
    BY DEF ScriptStep, Unlink, FixedBegin, FixedEnd, Persist, Persisted, TunerDies
  <2> QED BY <2>1, <2>2, <2>3, <2>4
<1> QED BY <1>3, <1>4, <1>5, <1>6 DEF TunerTypes, KernelTypes

-----------------------------------------------------------------------------
(* Before anyone has called *)

(* Until a thread calls it does nothing, and until one has called there    *)
(* are no files and nothing was searched: the host the script finds is one *)
(* that tuned in an earlier life.                                          *)
Unborn(t) == (t # Tuner \/ mode = "off") /\ calls[t] = 0 => pc[t] = "idle"

Dawn ==
    (mode = "off" /\ \A t \in Threads : calls[t] = 0)
    => /\ \A t \in Threads : outcome[t].kind = "none" /\ cache[t] = << >>
       /\ tmp = 0 /\ \A i \in Inodes : data[i] = Empty
       /\ memo = [p \in Processes |-> << >>]

TunerInv == TunerTypes /\ Dawn /\ \A t \in Threads : Unborn(t)

LEMMA CallsOrWorks ==
    ASSUME FrameTypes, NEW t \in Threads, KernelStep(t)
    PROVE  /\ \A u \in Threads \ {t} : calls'[u] = calls[u] /\ pc'[u] = pc[u]
           /\ \/ pc[t] # "idle" /\ UNCHANGED calls
              \/ calls'[t] = calls[t] + 1 /\ Calls(t)
<1>1. CASE Calls(t)
  BY <1>1 DEF Calls, CallKnown, CallMiss, FrameTypes
<1>2. CASE Tunes(t) \/ RecordLoad(t)
  BY <1>2 DEF Tunes, Autotune, ReadBest, RecordLoad, FrameTypes
<1>3. CASE Saves(t)
  BY <1>3 DEF Saves, SaveOpen, SaveWrite, SaveReplace, SaveRaises, Idle, FrameTypes
<1> QED BY <1>1, <1>2, <1>3 DEF KernelStep

LEMMA KernelInv ==
    ASSUME TunerInv, NEW t \in Threads, KernelStep(t),
           UNCHANGED <<mode, trials, snapshot, fastest, tried>>,
           UNCHANGED at \/ (mode # "off" /\ t = Tuner /\ TunerCalls)
    PROVE  TunerInv'
<1>1. KernelTypes' /\ UNCHANGED <<target, disabled>>
  BY KernelStepTypes, KernelKeepsTarget DEF TunerInv, TunerTypes
<1>2. ScriptTypes'
  BY <1>1, TilesStay DEF TunerInv, TunerTypes, ScriptTypes, TunerCalls
<1>3. /\ \A u \in Threads \ {t} : calls'[u] = calls[u] /\ pc'[u] = pc[u]
      /\ \/ pc[t] # "idle" /\ UNCHANGED calls
         \/ calls'[t] = calls[t] + 1 /\ Calls(t)
  BY CallsOrWorks DEF TunerInv, TunerTypes, KernelTypes
<1>4. calls[t] \in Nat
  BY KernelAssumption DEF TunerInv, TunerTypes, KernelTypes, FrameTypes
<1>5. ASSUME NEW u \in Threads PROVE Unborn(u)'
  BY <1>3, <1>4 DEF TunerInv, Unborn
<1>6. Dawn'
  BY <1>3, <1>4 DEF TunerInv, Unborn, Dawn
<1> QED BY <1>1, <1>2, <1>5, <1>6 DEF TunerInv, TunerTypes

LEMMA CrashInv ==
    ASSUME TunerInv, NEW p \in Processes, Crash(p),
           UNCHANGED <<mode, trials, snapshot, fastest, tried>>,
           \/ mode = "off" /\ UNCHANGED at
           \/ mode # "off" /\ at' = "dead"
    PROVE  TunerInv'
<1>1. KernelTypes' /\ UNCHANGED <<target, disabled>>
  BY CrashTypes, KernelKeepsTarget DEF TunerInv, TunerTypes
<1>2. ScriptTypes'
  BY <1>1, TilesStay DEF TunerInv, TunerTypes, ScriptTypes
<1>3. /\ UNCHANGED calls
      /\ pc' = [t \in Threads |-> IF Host[t] = p THEN "idle" ELSE pc[t]]
      /\ \E t \in Threads : pc[t] # "idle"
  BY DEF Crash
<1>4. ASSUME NEW u \in Threads PROVE Unborn(u)'
  BY <1>3 DEF TunerInv, Unborn
<1>5. Dawn'
  BY <1>3 DEF TunerInv, Unborn, Dawn
<1> QED BY <1>1, <1>2, <1>4, <1>5 DEF TunerInv, TunerTypes

LEMMA StartInv ==
    ASSUME TunerInv, NEW m \in {"manual", "rerun", "triton"}, TunerStarts(m)
    PROVE  TunerInv'
<1>1. /\ mode = "off" /\ target = "cdna3" /\ \A t \in Threads : calls[t] = 0
      /\ mode' = m /\ path' = 1 /\ data' = [data EXCEPT ![1] = Whole(Found)]
      /\ UNCHANGED <<target, disabled, tmp, memo, best, pc, call, winner, cache, fd, outcome, calls,
                     crashes, at, trials, snapshot, fastest, tried>>
  BY DEF TunerStarts
<1>2. tmp = 0
  BY <1>1 DEF TunerInv, Dawn
<1>3. FileTypes'
  <2>1. DOMAIN data' = Inodes
    BY <1>1 DEF TunerInv, TunerTypes, KernelTypes, FileTypes
  <2>2. ASSUME NEW i \in Inodes PROVE data'[i].ok \in BOOLEAN /\ IsCache(data'[i].cfg)
    BY <1>1, FoundIs, WholeIs DEF TunerInv, TunerTypes, KernelTypes, FileTypes
  <2> QED BY <1>1, <1>2, <2>1, <2>2, TilesStay, InodesAre
          DEF TunerInv, TunerTypes, KernelTypes, FileTypes, InodeOrNone
<1>4. FrameTypes'
  BY <1>1, TilesStay DEF TunerInv, TunerTypes, KernelTypes, FrameTypes
<1>5. SearchTypes'
  BY <1>1, TilesStay DEF TunerInv, TunerTypes, KernelTypes, SearchTypes
<1>6. ScriptTypes'
  BY <1>1, TilesStay DEF TunerInv, TunerTypes, ScriptTypes
<1>7. Dawn' /\ \A t \in Threads : Unborn(t)'
  BY <1>1 DEF TunerInv, Dawn, Unborn
<1> QED BY <1>3, <1>4, <1>5, <1>6, <1>7 DEF TunerInv, TunerTypes, KernelTypes

LEMMA ScriptInv ==
    ASSUME TunerInv, mode # "off", ScriptStep
    PROVE  TunerInv'
<1>1. TunerTypes'
  BY ScriptStepTypes DEF TunerInv
<1>2. /\ UNCHANGED mode
      /\ calls' \in {calls, [calls EXCEPT ![Tuner] = 0]}
      /\ pc' \in {pc, [pc EXCEPT ![Tuner] = "open"]}
  BY ScriptFrame
<1>3. ASSUME NEW t \in Threads PROVE Unborn(t)'
  BY <1>2 DEF TunerInv, TunerTypes, KernelTypes, FrameTypes, Unborn
<1>4. Dawn'
  BY <1>2 DEF Dawn
<1> QED BY <1>1, <1>3, <1>4 DEF TunerInv

LEMMA InitInv == TunerInit => TunerInv
<1> SUFFICES ASSUME TunerInit PROVE TunerInv
  OBVIOUS
<1>1. Init
  BY DEF TunerInit
<1>2. FileTypes
  <2>1. disabled \subseteq Processes
    BY <1>1, KernelAssumption DEF Init, Processes
  <2>2. \A i \in Inodes : data[i].ok \in BOOLEAN /\ IsCache(data[i].cfg)
    BY <1>1, EmptyIs DEF Init
  <2>3. DOMAIN data = Inodes /\ target \in Targets /\ path = 0 /\ tmp = 0
    BY <1>1 DEF Init
  <2> QED BY <2>1, <2>2, <2>3 DEF FileTypes, InodeOrNone
<1>3. FrameTypes
  <2>1. pc \in [Threads -> Steps] /\ calls \in [Threads -> 0..MaxCalls] /\ crashes \in 0..MaxCrashes
    BY <1>1, KernelAssumption DEF Init, Steps
  <2>2. \A t \in Threads : call[t] \in Shapes
    BY <1>1, KernelAssumption DEF Init
  <2>3. \A t \in Threads : winner[t] = None /\ IsCache(cache[t]) /\ fd[t] = 0 /\ pc[t] = "idle"
    BY <1>1, EmptyIs DEF Init
  <2>4. /\ DOMAIN call = Threads /\ DOMAIN winner = Threads /\ DOMAIN cache = Threads
        /\ DOMAIN fd = Threads /\ DOMAIN outcome = Threads
    BY <1>1 DEF Init
  <2> QED BY <2>1, <2>2, <2>3, <2>4 DEF FrameTypes, InodeOrNone
<1>4. SearchTypes
  <2>1. memo = [p \in Processes |-> << >>] /\ best = [p \in Processes |-> None]
    BY <1>1 DEF Init
  <2>2. \A t \in Threads : pc[t] = "idle"
    BY <1>1 DEF Init
  <2> QED BY <2>1, <2>2, EmptyIs DEF SearchTypes
<1>5. ScriptTypes
  BY EmptyIs DEF TunerInit, ScriptTypes
<1>6. Dawn /\ \A t \in Threads : Unborn(t)
  BY <1>1 DEF Init, Dawn, Unborn, TunerInit
<1> QED BY <1>2, <1>3, <1>4, <1>5, <1>6 DEF TunerInv, TunerTypes, KernelTypes

LEMMA StillInv ==
    ASSUME TunerInv, UNCHANGED <<vars, tunerVars>>
    PROVE  TunerInv'
<1>1. UNCHANGED <<target, disabled, path, tmp, data, memo, best, pc, call, winner, cache, fd, outcome,
                  won, calls, crashes, mode, at, trials, snapshot, fastest, tried>>
  BY DEF vars, tunerVars
<1>2. FileTypes' /\ FrameTypes' /\ SearchTypes'
  BY <1>1, TilesStay DEF TunerInv, TunerTypes, KernelTypes, FileTypes, FrameTypes, SearchTypes
<1>3. ScriptTypes' /\ Dawn' /\ \A t \in Threads : Unborn(t)'
  BY <1>1, TilesStay DEF TunerInv, TunerTypes, ScriptTypes, Dawn, Unborn
<1> QED BY <1>2, <1>3 DEF TunerInv, TunerTypes, KernelTypes

LEMMA Lasting == TunerSpec => []TunerInv
<1>1. TunerInv /\ [TunerNext]_<<vars, tunerVars>> => TunerInv'
  <2> SUFFICES ASSUME TunerInv, [TunerNext]_<<vars, tunerVars>> PROVE TunerInv'
    OBVIOUS
  <2>1. CASE UNCHANGED <<vars, tunerVars>>
    BY <2>1, StillInv
  <2>2. CASE TunerNext
    BY <2>2, NextIs, KernelInv, CrashInv, StartInv, ScriptInv
  <2> QED BY <2>1, <2>2
<1> QED BY <1>1, InitInv, PTL DEF TunerSpec

(* The files, the frames of the threads and the searches have their types, *)
(* a thread holds an inode exactly between opening and renaming, and the   *)
(* two names never name one: through deaths, and beside the script.        *)
THEOREM TypeCorrect == TunerSpec => []TypeOK
<1>1. TunerInv => TypeOK
  BY DEF TunerInv, TunerTypes, KernelTypes, FileTypes, FrameTypes, TypeOK, InodeOrNone, Steps
<1> QED BY <1>1, Lasting, PTL

-----------------------------------------------------------------------------
(* What is launched was tuned *)

(* What may be told of a key: what was searched or tried for it, or, once  *)
(* the winners of two threads have crossed, whatever they left.            *)
Known(k, c)  == k \in raced \/ <<k, c>> \in won \cup tried
KnownNext(k, c) == k \in raced' \/ <<k, c>> \in won' \cup tried'

Learns == won \subseteq won' /\ tried \subseteq tried' /\ raced \subseteq raced'
Fits(c) == \A k \in DOMAIN c : Known(TritonKey(k), c[k])

LaunchFits(t) ==
    outcome[t].kind = "launched" =>
        \/ Host[t] \in disabled /\ outcome[t].cfg = Gpu[target].fallback
        \/ Known(TritonKey(call[t]), outcome[t].cfg)

(* A tile stays with its key on its way from the search to the file.       *)
FrameFits(t) ==
    /\ pc[t] = "best" => Known(TritonKey(call[t]), best[Host[t]])
    /\ pc[t] = "record" => Known(TritonKey(call[t]), winner[t])
    /\ Fits(cache[t])

FilesFit == \A i \in Inodes : Fits(data[i].cfg)
SearchesFit == \A p \in Processes : \A k \in DOMAIN memo[p] : Known(k, memo[p][k])

ScriptFits ==
    /\ Fits(snapshot)
    /\ fastest # None => <<TritonKey(TunedShape), fastest>> \in tried
    /\ at \in {"forcing", "bench"} => <<TritonKey(TunedShape), Trial>> \in tried

FitInv ==
    /\ \A t \in Threads : LaunchFits(t) /\ FrameFits(t)
    /\ FilesFit /\ SearchesFit /\ ScriptFits

(* What is known is not forgotten.                                         *)
LEMMA StillFits ==
    ASSUME Learns
    PROVE  \A c : Fits(c) => Fits(c)'
BY DEF Fits, Known, KnownNext, Learns

LEMMA EmptyFits == Fits(<< >>) /\ Fits(Empty.cfg)
BY EmptyIs DEF Fits, Known, KnownNext, Learns

LEMMA LoadFits == FileTypes /\ FilesFit => Fits(CacheLoad)
BY EmptyFits DEF FileTypes, FilesFit, CacheLoad, InodeOrNone

LEMMA EntryFits ==
    ASSUME NEW c, Fits(c), NEW cfg, Known(TritonKey(TunedShape), cfg)
    PROVE  Fits(Entry(c, cfg))
BY DEF Fits, Entry, CacheKey, Known, KnownNext, Learns

(* A thread's step leaves the frames of the others alone.  Where it takes  *)
(* another thread's winner from under it, it has noted that thread's key.  *)
LEMMA OthersFit ==
    ASSUME TunerInv, FitInv, NEW t \in Threads, KernelStep(t), Learns,
           NEW u \in Threads, u # t
    PROVE  LaunchFits(u)' /\ FrameFits(u)'
<1>1. Host[u] \in Processes /\ Host[t] \in Processes
  BY HostIs
<1>2. /\ pc'[u] = pc[u] /\ outcome'[u] = outcome[u] /\ call'[u] = call[u]
      /\ winner'[u] = winner[u] /\ cache'[u] = cache[u]
      /\ best'[Host[u]] = best[Host[u]] \/ Autotune(t)
  <2>1. CASE Calls(t)
    BY <2>1 DEF Calls, CallKnown, CallMiss, TunerInv, TunerTypes, KernelTypes, FrameTypes
  <2>2. CASE Tunes(t) \/ RecordLoad(t)
    <3>1. CASE Autotune(t)
      BY <1>1, <3>1 DEF Autotune, TunerInv, TunerTypes, KernelTypes, FrameTypes, SearchTypes
    <3>2. CASE ReadBest(t) \/ RecordLoad(t)
      BY <3>2 DEF ReadBest, RecordLoad, TunerInv, TunerTypes, KernelTypes, FrameTypes
    <3> QED BY <2>2, <3>1, <3>2 DEF Tunes
  <2>3. CASE Saves(t)
    BY <2>3 DEF Saves, SaveOpen, SaveWrite, SaveReplace, SaveRaises, Idle,
                TunerInv, TunerTypes, KernelTypes, FrameTypes
  <2> QED BY <2>1, <2>2, <2>3 DEF KernelStep
<1>3. UNCHANGED <<target, disabled>>
  BY KernelKeepsTarget
<1>4. pc[u] = "best" => KnownNext(TritonKey(call[u]), best'[Host[u]])
  <2> SUFFICES ASSUME pc[u] = "best" PROVE KnownNext(TritonKey(call[u]), best'[Host[u]])
    OBVIOUS
  <2>1. CASE best'[Host[u]] = best[Host[u]]
    BY <2>1 DEF FitInv, FrameFits, Known, KnownNext, Learns
  <2>2. CASE best'[Host[u]] # best[Host[u]]
    <3>1. PICK cfg : /\ best' = [best EXCEPT ![Host[t]] = cfg]
                     /\ won' = won \cup {<<TritonKey(call[t]), cfg>>}
                     /\ raced' = raced \cup ({TritonKey(call[x]) : x \in Overtaken(t)}
                                                \ {TritonKey(call[t])})
      BY <1>2, <2>2 DEF Autotune
    <3>2. Host[u] = Host[t] /\ best'[Host[u]] = cfg
      BY <1>1, <2>2, <3>1 DEF TunerInv, TunerTypes, KernelTypes, SearchTypes
    <3>3. u \in Overtaken(t)
      BY <3>2 DEF Overtaken
    <3> QED BY <3>1, <3>2, <3>3 DEF KnownNext
  <2> QED BY <2>1, <2>2
<1> QED BY <1>2, <1>3, <1>4, StillFits DEF FitInv, LaunchFits, FrameFits, Known, KnownNext, Learns

LEMMA CallsFit ==
    ASSUME TunerInv, FitInv, NEW t \in Threads, Calls(t), Learns
    PROVE  LaunchFits(t)' /\ FrameFits(t)' /\ FilesFit' /\ SearchesFit'
<1>1. PICK shape \in Shapes : CallKnown(t, shape) \/ CallMiss(t, shape)
  BY DEF Calls
<1>2. UNCHANGED <<target, disabled, path, tmp, data, memo, best, winner, cache>>
  BY <1>1 DEF CallKnown, CallMiss, files
<1>3. FilesFit' /\ SearchesFit'
  BY <1>2, StillFits DEF FitInv, FilesFit, SearchesFit, Known, KnownNext, Learns
<1>4. FrameFits(t)'
  <2>1. pc'[t] \notin {"best", "record"}
    BY <1>1 DEF CallKnown, CallMiss, TunerInv, TunerTypes, KernelTypes, FrameTypes
  <2> QED BY <1>2, <2>1, StillFits DEF FitInv, FrameFits, Known, KnownNext, Learns
<1>5. LaunchFits(t)'
  <2>1. CASE CallMiss(t, shape)
    BY <2>1 DEF CallMiss, LaunchFits, TunerInv, TunerTypes, KernelTypes, FrameTypes, Known, KnownNext, Learns
  <2>2. CASE CallKnown(t, shape)
    <3>0. PICK cfg : cfg = IF Host[t] \in disabled THEN Gpu[target].fallback
                                                  ELSE ResolveConfig(shape)
      OBVIOUS
    <3>1. cfg # None /\ call'[t] = shape /\ outcome'[t] = [kind |-> "launched", cfg |-> cfg]
      BY <2>2, <3>0 DEF CallKnown, TunerInv, TunerTypes, KernelTypes, FrameTypes
    <3>2. CASE Host[t] \in disabled
      BY <1>2, <3>0, <3>1, <3>2 DEF LaunchFits, Known, KnownNext, Learns
    <3>3. CASE Host[t] \notin disabled
      <4>1. CacheKey(shape) \in DOMAIN CacheLoad /\ cfg = CacheLoad[CacheKey(shape)]
        BY <3>0, <3>1, <3>3 DEF ResolveConfig
      <4>2. Known(TritonKey(shape), cfg)
        BY <4>1, LoadFits DEF Fits, FitInv, TunerInv, TunerTypes, KernelTypes, CacheKey, Known, KnownNext, Learns
      <4> QED BY <3>1, <4>2 DEF LaunchFits, Known, KnownNext, Learns
    <3> QED BY <3>2, <3>3
  <2> QED BY <1>1, <2>1, <2>2
<1> QED BY <1>3, <1>4, <1>5

LEMMA TunesFit ==
    ASSUME TunerInv, FitInv, NEW t \in Threads, Tunes(t), tried \subseteq tried'
    PROVE  /\ Learns
           /\ LaunchFits(t)' /\ FrameFits(t)' /\ FilesFit' /\ SearchesFit'
<1>0. Host[t] \in Processes
  BY HostIs
<1>1. CASE Autotune(t)
  <2>1. UNCHANGED <<target, disabled, path, tmp, data, call, winner, cache>>
    BY <1>1 DEF Autotune, files
  <2>2. PICK cfg : /\ memo' = [memo EXCEPT ![Host[t]] = [k \in DOMAIN @ \cup {TritonKey(call[t])} |->
                                                 IF k = TritonKey(call[t]) THEN cfg ELSE @[k]]]
                   /\ best' = [best EXCEPT ![Host[t]] = cfg]
                   /\ won' = won \cup {<<TritonKey(call[t]), cfg>>}
                   /\ raced \subseteq raced'
                   /\ outcome' = [outcome EXCEPT ![t] = [kind |-> "launched", cfg |-> cfg]]
                   /\ pc' = [pc EXCEPT ![t] = "best"]
    BY <1>1 DEF Autotune
  <2>3. Learns /\ KnownNext(TritonKey(call'[t]), cfg)
    BY <2>1, <2>2 DEF Known, KnownNext, Learns
  <2>4. LaunchFits(t)'
    BY <2>2, <2>3 DEF LaunchFits, TunerInv, TunerTypes, KernelTypes, FrameTypes, Known, KnownNext, Learns
  <2>5. FrameFits(t)'
    <3>1. pc'[t] = "best" /\ best'[Host[t]] = cfg
      BY <1>0, <2>2 DEF TunerInv, TunerTypes, KernelTypes, FrameTypes, SearchTypes
    <3> QED BY <2>1, <2>3, <3>1, StillFits DEF FitInv, FrameFits, Known, KnownNext, Learns
  <2>6. SearchesFit'
    <3> SUFFICES ASSUME NEW p \in Processes, NEW k \in DOMAIN memo'[p]
                 PROVE  KnownNext(k, memo'[p][k])
      BY DEF SearchesFit, Known, KnownNext, Learns
    <3>1. CASE p = Host[t] /\ k = TritonKey(call[t])
      BY <2>1, <2>2, <2>3, <3>1 DEF TunerInv, TunerTypes, KernelTypes, SearchTypes
    <3>2. CASE ~(p = Host[t] /\ k = TritonKey(call[t]))
      <4>1. k \in DOMAIN memo[p] /\ memo'[p][k] = memo[p][k]
        BY <2>2, <3>2 DEF TunerInv, TunerTypes, KernelTypes, SearchTypes
      <4> QED BY <2>3, <4>1 DEF FitInv, SearchesFit, Known, KnownNext, Learns
    <3> QED BY <3>1, <3>2
  <2>7. FilesFit'
    BY <2>1, <2>3, StillFits DEF FitInv, FilesFit
  <2> QED BY <2>3, <2>4, <2>5, <2>6, <2>7
<1>2. CASE ReadBest(t)
  <2>1. /\ UNCHANGED <<target, disabled, path, tmp, data, call, cache, memo, best, outcome, won, raced>>
        /\ pc[t] = "best" /\ pc' = [pc EXCEPT ![t] = "record"]
        /\ winner' = [winner EXCEPT ![t] = best[Host[t]]]
    BY <1>2 DEF ReadBest, files
  <2>2. Learns
    BY <2>1 DEF Known, KnownNext, Learns
  <2>3. FrameFits(t)'
    <3>1. pc'[t] = "record" /\ winner'[t] = best[Host[t]]
      BY <2>1 DEF TunerInv, TunerTypes, KernelTypes, FrameTypes
    <3> QED BY <2>1, <2>2, <3>1, StillFits DEF FitInv, FrameFits, Known, KnownNext, Learns
  <2> QED BY <2>1, <2>2, <2>3, StillFits DEF FitInv, LaunchFits, FilesFit, SearchesFit, Known, KnownNext, Learns
<1> QED BY <1>1, <1>2 DEF Tunes

(* The winner goes into the file under its own shape, and the file is read *)
(* by the shape: one key of the file, one key of the search.               *)
LEMMA RecordFits ==
    ASSUME TunerInv, FitInv, NEW t \in Threads, RecordLoad(t), Learns
    PROVE  LaunchFits(t)' /\ FrameFits(t)' /\ FilesFit' /\ SearchesFit'
<1> DEFINE c == [k \in DOMAIN CacheLoad \cup {CacheKey(call[t])} |->
                    IF k = CacheKey(call[t]) THEN winner[t] ELSE CacheLoad[k]]
<1>1. /\ UNCHANGED <<target, disabled, path, tmp, data, memo, best, call, winner, outcome>>
      /\ pc[t] = "record" /\ pc' = [pc EXCEPT ![t] = "open"] /\ cache' = [cache EXCEPT ![t] = c]
  BY DEF RecordLoad, files
<1>2. Fits(c)
  <2>1. Known(TritonKey(call[t]), winner[t])
    BY <1>1 DEF FitInv, FrameFits, Known, KnownNext, Learns
  <2>2. Fits(CacheLoad)
    BY LoadFits DEF FitInv, TunerInv, TunerTypes, KernelTypes
  <2> QED BY <2>1, <2>2 DEF Fits, CacheKey, Known, KnownNext, Learns
<1> HIDE DEF c
<1>3. FrameFits(t)'
  <2>1. pc'[t] = "open" /\ cache'[t] = c
    BY <1>1 DEF TunerInv, TunerTypes, KernelTypes, FrameTypes
  <2> QED BY <1>2, <2>1, StillFits DEF FrameFits, Known, KnownNext, Learns
<1> QED BY <1>1, <1>3, StillFits DEF FitInv, LaunchFits, FilesFit, SearchesFit, Known, KnownNext, Learns

LEMMA SavesFit ==
    ASSUME TunerInv, FitInv, NEW t \in Threads, Saves(t), Learns
    PROVE  LaunchFits(t)' /\ FrameFits(t)' /\ FilesFit' /\ SearchesFit'
<1>1. UNCHANGED <<target, disabled, memo, call>>
  BY DEF Saves, SaveOpen, SaveWrite, SaveReplace, SaveRaises, files
<1>2. outcome'[t] = outcome[t] \/ outcome'[t].kind = "raised"
  BY DEF Saves, SaveOpen, SaveWrite, SaveReplace, SaveRaises, TunerInv, TunerTypes, KernelTypes,
         FrameTypes
<1>3. /\ pc'[t] \notin {"best", "record"}
      /\ cache'[t] = cache[t] \/ cache'[t] = << >>
  BY DEF Saves, SaveOpen, SaveWrite, SaveReplace, SaveRaises, Idle, TunerInv, TunerTypes,
         KernelTypes, FrameTypes
<1>4. LaunchFits(t)'
  BY <1>1, <1>2 DEF FitInv, LaunchFits, Known, KnownNext, Learns
<1>5. FrameFits(t)'
  BY <1>3, StillFits, EmptyFits DEF FitInv, FrameFits, Known, KnownNext, Learns
<1>6. SearchesFit'
  BY <1>1 DEF FitInv, SearchesFit, Known, KnownNext, Learns
<1>7. FilesFit'
  <2>1. \/ UNCHANGED data
        \/ \E i \in Inodes : \E d : /\ data' = [data EXCEPT ![i] = d]
                                    /\ d = Empty \/ d = Whole(cache[t])
    <3>1. CASE SaveOpen(t)
      <4>1. tmp = 0 => FreeInode \in Inodes
        BY Unused
      <4> QED BY <3>1, <4>1 DEF SaveOpen, TunerInv, TunerTypes, KernelTypes, FileTypes, InodeOrNone
    <3>2. CASE SaveWrite(t)
      <4>1. fd[t] \in Inodes
        BY <3>2 DEF SaveWrite, TunerInv, TunerTypes, KernelTypes, FrameTypes, InodeOrNone
      <4> QED BY <3>2, <4>1 DEF SaveWrite, Overwrites
    <3>3. CASE SaveReplace(t) \/ SaveRaises(t)
      BY <3>3 DEF SaveReplace, SaveRaises, files
    <3> QED BY <3>1, <3>2, <3>3 DEF Saves
  <2>2. CASE UNCHANGED data
    BY <2>2, StillFits DEF FitInv, FilesFit
  <2>3. ASSUME NEW i \in Inodes, NEW d, data' = [data EXCEPT ![i] = d],
               d = Empty \/ d = Whole(cache[t])
        PROVE  FilesFit'
    <3>1. Fits(d.cfg)
      BY <2>3, EmptyFits, WholeIs DEF FitInv, FrameFits, Known, KnownNext, Learns
    <3>2. ASSUME NEW j \in Inodes PROVE Fits(data'[j].cfg)
      BY <2>3, <3>1 DEF FitInv, FilesFit, TunerInv, TunerTypes, KernelTypes, FileTypes
    <3> QED BY <3>2, StillFits DEF FilesFit
  <2> QED BY <2>1, <2>2, <2>3
<1> QED BY <1>4, <1>5, <1>6, <1>7

LEMMA KernelFits ==
    ASSUME TunerInv, FitInv, NEW t \in Threads, KernelStep(t),
           UNCHANGED <<mode, trials, snapshot, fastest, tried>>,
           UNCHANGED at \/ (mode # "off" /\ t = Tuner /\ TunerCalls)
    PROVE  FitInv'
<1>1. Learns
  <2>1. won \subseteq won' /\ raced \subseteq raced'
    BY DEF KernelStep, Calls, CallKnown, CallMiss, Tunes, Autotune, ReadBest, RecordLoad, Saves,
           SaveOpen, SaveWrite, SaveReplace, SaveRaises, Overtaken
  <2> QED BY <2>1 DEF Known, KnownNext, Learns
<1>2. LaunchFits(t)' /\ FrameFits(t)' /\ FilesFit' /\ SearchesFit'
  BY <1>1, CallsFit, TunesFit, RecordFits, SavesFit DEF KernelStep
<1>3. ASSUME NEW u \in Threads, u # t PROVE LaunchFits(u)' /\ FrameFits(u)'
  BY <1>1, <1>3, OthersFit
<1>4. ScriptFits'
  <2>1. Fits(snapshot)'
    BY <1>1, StillFits DEF FitInv, ScriptFits, Known, KnownNext, Learns
  <2>2. Trial' = Trial /\ (at' \in {"forcing", "bench"} => at \in {"forcing", "bench"})
    BY DEF Trial, TunerCalls
  <2> QED BY <2>1, <2>2 DEF FitInv, ScriptFits, Known, KnownNext, Learns
<1> QED BY <1>2, <1>3, <1>4 DEF FitInv

LEMMA CrashFits ==
    ASSUME TunerInv, FitInv, NEW p \in Processes, Crash(p),
           UNCHANGED <<mode, trials, snapshot, fastest, tried>>, at' \in {at, "dead"}
    PROVE  FitInv'
<1>1. /\ UNCHANGED <<target, disabled, path, tmp, data, call, won, raced>>
      /\ memo' = [memo EXCEPT ![p] = << >>]
      /\ best' = [best EXCEPT ![p] = None]
      /\ pc' = [t \in Threads |-> IF Host[t] = p THEN "idle" ELSE pc[t]]
      /\ winner' = [t \in Threads |-> IF Host[t] = p THEN None ELSE winner[t]]
      /\ cache' = [t \in Threads |-> IF Host[t] = p THEN << >> ELSE cache[t]]
      /\ outcome' = [t \in Threads |-> IF Host[t] = p THEN [kind |-> "none", cfg |-> None]
                                                     ELSE outcome[t]]
  BY DEF Crash, files
<1>2. Learns /\ raced' = raced
  BY <1>1 DEF Known, KnownNext, Learns
<1>3. ASSUME NEW t \in Threads PROVE LaunchFits(t)' /\ FrameFits(t)'
  <2>1. CASE Host[t] = p
    <3>1. outcome'[t].kind = "none" /\ pc'[t] = "idle" /\ cache'[t] = << >>
      BY <1>1, <2>1
    <3> QED BY <1>2, <3>1, StillFits, EmptyFits DEF LaunchFits, FrameFits, Known, KnownNext, Learns
  <2>2. CASE Host[t] # p
    <3>1. /\ outcome'[t] = outcome[t] /\ pc'[t] = pc[t] /\ cache'[t] = cache[t]
          /\ winner'[t] = winner[t] /\ best'[Host[t]] = best[Host[t]]
      BY <1>1, <2>2, HostIs DEF TunerInv, TunerTypes, KernelTypes, SearchTypes
    <3> QED BY <1>1, <1>2, <3>1, StillFits DEF FitInv, LaunchFits, FrameFits, Known, KnownNext, Learns
  <2> QED BY <2>1, <2>2
<1>4. FilesFit'
  BY <1>1, <1>2, StillFits DEF FitInv, FilesFit
<1>5. SearchesFit'
  BY <1>1, <1>2, EmptyIs DEF FitInv, SearchesFit, TunerInv, TunerTypes, KernelTypes, SearchTypes, Known, KnownNext, Learns
<1>6. ScriptFits'
  <2>1. Trial' = Trial
    BY DEF Trial
  <2> QED BY <1>2, <2>1, StillFits DEF FitInv, ScriptFits, Known, KnownNext, Learns
<1> QED BY <1>3, <1>4, <1>5, <1>6 DEF FitInv

LEMMA StartFits ==
    ASSUME TunerInv, FitInv, NEW m \in {"manual", "rerun", "triton"}, TunerStarts(m)
    PROVE  FitInv'
<1>1. /\ mode = "off" /\ \A t \in Threads : calls[t] = 0
      /\ data' = [data EXCEPT ![1] = Whole(Found)]
      /\ won' = {<<TritonKey(k), Found[k]>> : k \in DOMAIN Found}
      /\ UNCHANGED <<target, disabled, memo, best, pc, call, winner, cache, outcome, at, trials,
                     snapshot, fastest, tried>>
  BY DEF TunerStarts
<1>2. /\ \A t \in Threads : outcome[t].kind = "none" /\ cache[t] = << >> /\ pc[t] = "idle"
      /\ \A i \in Inodes : data[i] = Empty
      /\ memo = [p \in Processes |-> << >>]
  BY <1>1 DEF TunerInv, Dawn, Unborn
<1>3. Fits(Found)' /\ Fits(<< >>)' /\ Fits(Empty.cfg)'
  BY <1>1, EmptyIs DEF Fits, Known, KnownNext, Learns
<1>4. ASSUME NEW t \in Threads PROVE LaunchFits(t)' /\ FrameFits(t)'
  BY <1>1, <1>2, <1>3 DEF LaunchFits, FrameFits, Known, KnownNext, Learns
<1>5. FilesFit'
  <2>1. ASSUME NEW i \in Inodes PROVE data'[i].cfg = Found \/ data'[i].cfg = Empty.cfg
    BY <1>1, <1>2, WholeIs DEF TunerInv, TunerTypes, KernelTypes, FileTypes
  <2>2. \A c : c = Found \/ c = Empty.cfg => Fits(c)'
    BY <1>3 DEF Fits, Known, KnownNext, Learns
  <2> QED BY <2>1, <2>2 DEF FilesFit
<1>6. SearchesFit'
  <2>1. \A p \in Processes : DOMAIN memo'[p] = {}
    BY <1>1, <1>2, EmptyIs
  <2> QED BY <1>1, <1>2, <2>1 DEF SearchesFit, Known, KnownNext, Learns
<1>7. ScriptFits'
  <2>1. at = "start" /\ fastest = None
    BY <1>1 DEF TunerInv, TunerTypes, ScriptTypes
  <2>2. Fits(snapshot)'
    <3>1. snapshot' = << >>
      BY <1>1 DEF TunerInv, TunerTypes, ScriptTypes
    <3> QED BY <1>3, <3>1 DEF Fits, Known, KnownNext, Learns
  <2> QED BY <1>1, <2>1, <2>2 DEF ScriptFits, Known, KnownNext, Learns
<1> QED BY <1>4, <1>5, <1>6, <1>7 DEF FitInv

LEMMA ScriptStepFits ==
    ASSUME TunerInv, FitInv, mode # "off", ScriptStep
    PROVE  FitInv'
<1>0. Tuner \in Threads /\ Host[Tuner] \in Processes
  BY TunerAssumption, HostIs
<1>1. /\ UNCHANGED <<target, tmp, data, memo, best, call, winner, won, raced>>
      /\ disabled' \in {disabled, disabled \cup {Host[Tuner]}, disabled \ {Host[Tuner]}}
      /\ outcome' \in {outcome, [outcome EXCEPT ![Tuner] = NoCall]}
  BY ScriptFrame
<1>2. \/ UNCHANGED <<pc, cache>>
      \/ /\ pc' = [pc EXCEPT ![Tuner] = "open"]
         /\ \E c \in ToSave : cache' = [cache EXCEPT ![Tuner] = c]
  BY ScriptFrame
<1>3. disabled \subseteq disabled' \/ outcome'[Tuner].kind = "none"
  <2>1. CASE FixedEnd
    BY <1>0, <2>1 DEF FixedEnd, TunerInv, TunerTypes, KernelTypes, FrameTypes
  <2>2. CASE ~FixedEnd
    BY <2>2 DEF ScriptStep, Unlink, FixedBegin, TrialBegin, TrialEnd, Persist, Persisted, TunerDies,
                Save, files, vars
  <2> QED BY <2>1, <2>2
<1>4. tried \subseteq tried' /\ (TrialBegin => tried' = tried \cup {<<TritonKey(TunedShape), Trial>>})
  BY DEF ScriptStep, Unlink, FixedBegin, FixedEnd, TrialBegin, TrialEnd, Persist, Persisted, TunerDies
<1>5. Learns
  BY <1>1, <1>4 DEF Known, KnownNext, Learns
<1>6. Fits(CacheLoad) /\ Fits(snapshot)
  BY LoadFits DEF FitInv, ScriptFits, TunerInv, TunerTypes, KernelTypes, Known, KnownNext, Learns
<1>7. ASSUME NEW t \in Threads PROVE LaunchFits(t)'
  <2>1. outcome'[t] = outcome[t] \/ outcome'[t].kind = "none"
    BY <1>1 DEF NoCall, TunerInv, TunerTypes, KernelTypes, FrameTypes
  <2>2. (Host[t] \in disabled => Host[t] \in disabled') \/ outcome'[t].kind = "none"
    BY <1>0, <1>1, <1>3, TunerAssumption DEF TunerAssumption
  <2> QED BY <1>1, <1>5, <2>1, <2>2 DEF FitInv, LaunchFits, Known, KnownNext, Learns
<1>8. ASSUME NEW c \in ToSave, UNCHANGED pc \/ pc' = [pc EXCEPT ![Tuner] = "open"],
             TrialBegin \/ TrialEnd \/ Persist,
             cache' = [cache EXCEPT ![Tuner] = c]
      PROVE  Fits(c)'
  <2>1. CASE c = snapshot
    BY <1>5, <1>6, <2>1, StillFits
  <2>2. CASE fastest # None /\ c = Entry(CacheLoad, fastest)
    <3>1. Known(TritonKey(TunedShape), fastest)
      BY <2>2 DEF FitInv, ScriptFits, Known, KnownNext, Learns
    <3> QED BY <1>5, <1>6, <2>2, <3>1, EntryFits, StillFits
  <2>3. CASE TrialBegin
    <3>1. cache' = [cache EXCEPT ![Tuner] = Entry(CacheLoad, Trial)]
      BY <2>3 DEF TrialBegin, Save
    <3>2. c = Entry(CacheLoad, Trial)
      BY <1>0, <1>8, <3>1 DEF TunerInv, TunerTypes, KernelTypes, FrameTypes
    <3>3. KnownNext(TritonKey(TunedShape), Trial)
      BY <1>4, <2>3 DEF Known, KnownNext, Learns
    <3>4. DOMAIN c = DOMAIN CacheLoad \cup {TunedShape}
          /\ \A k \in DOMAIN c : c[k] = IF k = TunedShape THEN Trial ELSE CacheLoad[k]
      BY <3>2 DEF Entry, CacheKey
    <3> QED BY <1>5, <1>6, <3>3, <3>4 DEF Fits, Known, KnownNext, Learns
  <2>4. CASE TrialEnd
    <3>1. cache' = [cache EXCEPT ![Tuner] = snapshot]
      BY <2>4 DEF TrialEnd, Save
    <3>2. c = snapshot
      BY <1>0, <1>8, <3>1 DEF TunerInv, TunerTypes, KernelTypes, FrameTypes
    <3> QED BY <2>1, <3>2
  <2>5. CASE Persist
    <3>1. fastest # None /\ cache' = [cache EXCEPT ![Tuner] = Entry(CacheLoad, fastest)]
      BY <2>5 DEF Persist, Save
    <3>2. c = Entry(CacheLoad, fastest)
      BY <1>0, <1>8, <3>1 DEF TunerInv, TunerTypes, KernelTypes, FrameTypes
    <3> QED BY <2>2, <3>1, <3>2
  <2> QED BY <1>8, <2>3, <2>4, <2>5
<1>9. ASSUME NEW t \in Threads PROVE FrameFits(t)'
  <2>1. CASE UNCHANGED <<pc, cache>>
    BY <1>1, <1>5, <2>1, StillFits DEF FitInv, FrameFits, Known, KnownNext, Learns
  <2>2. CASE ~UNCHANGED <<pc, cache>>
    <3>1. TrialBegin \/ TrialEnd \/ Persist
      BY <2>2 DEF ScriptStep, Unlink, FixedBegin, FixedEnd, Persisted, TunerDies, vars
    <3>2. PICK c \in ToSave : cache' = [cache EXCEPT ![Tuner] = c]
      BY <1>2, <2>2
    <3>3. pc' = [pc EXCEPT ![Tuner] = "open"]
      BY <1>2, <2>2
    <3>4. Fits(c)'
      BY <1>8, <3>1, <3>2, <3>3
    <3>5. (cache'[t] = c \/ cache'[t] = cache[t])
          /\ (pc'[t] \in {"best", "record"} => pc'[t] = pc[t])
      BY <3>2, <3>3 DEF TunerInv, TunerTypes, KernelTypes, FrameTypes
    <3>6. \A x : x = c \/ x = cache[t] => \A k \in DOMAIN x : KnownNext(TritonKey(k), x[k])
      BY <1>5, <3>4 DEF FitInv, FrameFits, Fits, Known, KnownNext, Learns
    <3> QED BY <1>1, <1>5, <3>5, <3>6 DEF FitInv, FrameFits, Fits, Known, KnownNext, Learns
  <2> QED BY <2>1, <2>2
<1>10. FilesFit' /\ SearchesFit'
  BY <1>1, <1>5, StillFits DEF FitInv, FilesFit, SearchesFit, Known, KnownNext, Learns
<1>11. ScriptFits'
  <2>1. CASE UNCHANGED <<trials, snapshot, fastest, tried>> /\ at' \notin {"forcing", "bench"}
    BY <1>5, <2>1, StillFits DEF FitInv, ScriptFits, Known, KnownNext, Learns
  <2>2. CASE TrialBegin
    <3>1. snapshot' = CacheLoad /\ UNCHANGED <<trials, fastest>>
      BY <2>2 DEF TrialBegin
    <3>2. Fits(snapshot)'
      <4>1. \A x : x = CacheLoad => \A k \in DOMAIN x : KnownNext(TritonKey(k), x[k])
        BY <1>5, <1>6 DEF Fits, Known, KnownNext, Learns
      <4> QED BY <3>1, <4>1 DEF Fits, Known, KnownNext, Learns
    <3> QED BY <1>4, <2>2, <3>1, <3>2 DEF FitInv, ScriptFits, Trial, Known, KnownNext, Learns
  <2>3. CASE TrialEnd
    <3>1. at = "bench" /\ UNCHANGED <<snapshot, tried>> /\ at' = "restoring"
          /\ (fastest' = fastest \/ fastest' = Trial)
      BY <2>3 DEF TrialEnd, Resting
    <3> QED BY <1>5, <3>1, StillFits DEF FitInv, ScriptFits, Known, KnownNext, Learns
  <2>4. \/ UNCHANGED <<trials, snapshot, fastest, tried>> /\ at' \notin {"forcing", "bench"}
        \/ TrialBegin \/ TrialEnd
    BY DEF ScriptStep, Unlink, FixedBegin, FixedEnd, Persist, Persisted, TunerDies
  <2> QED BY <2>1, <2>2, <2>3, <2>4
<1> QED BY <1>7, <1>9, <1>10, <1>11 DEF FitInv

LEMMA InitFits == TunerInit => FitInv
<1> SUFFICES ASSUME TunerInit PROVE FitInv
  OBVIOUS
<1>1. Init /\ at = "start" /\ fastest = None /\ snapshot = << >>
  BY DEF TunerInit
<1>2. /\ \A t \in Threads : outcome[t].kind = "none" /\ pc[t] = "idle" /\ cache[t] = << >>
      /\ \A i \in Inodes : data[i] = Empty
      /\ \A p \in Processes : DOMAIN memo[p] = {}
  BY <1>1, EmptyIs DEF Init
<1>3. \A t \in Threads : LaunchFits(t) /\ FrameFits(t)
  BY <1>2, EmptyFits DEF LaunchFits, FrameFits, Known, KnownNext, Learns
<1>4. FilesFit /\ SearchesFit
  BY <1>2, EmptyFits DEF FilesFit, SearchesFit, Known, KnownNext, Learns
<1> QED BY <1>1, <1>3, <1>4, EmptyFits DEF FitInv, ScriptFits, Known, KnownNext, Learns

LEMMA StaysFit ==
    ASSUME TunerInv, FitInv, [TunerNext]_<<vars, tunerVars>>
    PROVE  FitInv'
<1>1. CASE UNCHANGED <<vars, tunerVars>>
  BY <1>1 DEF vars, tunerVars, FitInv, LaunchFits, FrameFits, FilesFit, SearchesFit, ScriptFits, Fits,
              Known, Trial
<1>2. CASE TunerNext
  BY <1>2, NextIs, KernelFits, CrashFits, StartFits, ScriptStepFits
<1> QED BY <1>1, <1>2

-----------------------------------------------------------------------------
(* The trials leave no trace *)

(* Only the script's thread calls.                                         *)
Quiet == \A t \in Threads \ {Tuner} : calls[t] = 0

Base == IF mode = "rerun" THEN << >> ELSE Found

(* What the file holds, or will when the save that is under way is done.   *)
Held ==
    IF at = "start" THEN Found
    ELSE IF at \in {"forcing", "bench"} THEN Entry(Base, Trial)
    ELSE IF at \in {"persisting", "tuned"} THEN Entry(Base, fastest)
    ELSE Base

(* A save with nobody else about: the temporary file is its own, it is     *)
(* empty when it is written, and it is there to be renamed.                *)
Saving ==
    /\ pc[Tuner] \in {"idle", "open", "write", "replace"}
    /\ pc[Tuner] \in {"idle", "open"} => tmp = 0
    /\ pc[Tuner] \in {"open", "write"} => cache[Tuner] = Held
    /\ pc[Tuner] \in {"write", "replace"} => tmp = fd[Tuner] /\ tmp # 0
    /\ pc[Tuner] = "write" => ~data[tmp].ok
    /\ pc[Tuner] = "replace" => data[tmp] = Whole(Held)
    /\ pc[Tuner] = "idle" => CacheLoad = Held

NoTrace ==
    (mode \in {"manual", "rerun"} /\ Quiet /\ at # "dead")
    => /\ at \in {"start", "cleared", "fixed", "search", "forcing", "bench", "restoring",
                  "persisting", "tuned"}
       /\ Saving
       /\ at \notin {"forcing", "restoring", "persisting"} => pc[Tuner] = "idle"
       /\ at \in {"forcing", "bench"} => snapshot = Base
       /\ at \in {"persisting", "tuned"} => fastest # None
       /\ at = "fixed" => Host[Tuner] \in disabled

LEMMA HeldIs ==
    ASSUME UNCHANGED <<mode, trials, fastest>>,
           UNCHANGED at \/ (at = "forcing" /\ at' = "bench")
    PROVE  Held' = Held
BY DEF Held, Base, Entry, Trial

(* A call of the script's finds the tile it forced, or recorded.           *)
LEMMA EntryResolves ==
    ASSUME NEW c, NEW cfg, cfg # None, CacheLoad = Entry(c, cfg)
    PROVE  ResolveConfig(TunedShape) # None
BY DEF Entry, ResolveConfig

LEMMA TunerCallsKnown ==
    ASSUME TunerInv, NoTrace, mode \in {"manual", "rerun"}, Quiet, TunerCalls
    PROVE  /\ UNCHANGED <<disabled, path, tmp, data, pc, cache, fd>>
           /\ pc[Tuner] = "idle"
<1>1. at \in {"fixed", "forcing", "bench", "tuned"} /\ pc[Tuner] = "idle"
  BY DEF TunerCalls, CallKnown, CallMiss
<1>2. CacheLoad = Held
  BY <1>1 DEF NoTrace, Saving
<1>3. ~CallMiss(Tuner, TunedShape)
  <2>1. CASE at = "fixed"
    BY <2>1 DEF NoTrace, CallMiss
  <2>2. CASE at \in {"forcing", "bench"}
    <3>1. Trial # None
      BY <2>2, TrialIs DEF TunerInv, TunerTypes, ScriptTypes
    <3>2. CacheLoad = Entry(Base, Trial)
      BY <1>2, <2>2 DEF Held
    <3> QED BY <3>1, <3>2, EntryResolves DEF CallMiss
  <2>3. CASE at = "tuned"
    <3>1. fastest # None
      BY <2>3 DEF NoTrace
    <3>2. CacheLoad = Entry(Base, fastest)
      BY <1>2, <2>3 DEF Held
    <3> QED BY <3>1, <3>2, EntryResolves DEF CallMiss
  <2> QED BY <1>1, <2>1, <2>2, <2>3
<1>4. CallKnown(Tuner, TunedShape)
  BY <1>3 DEF TunerCalls
<1> QED BY <1>1, <1>4 DEF CallKnown, files

LEMMA SavingGoesOn ==
    ASSUME TunerInv, Saving, pc[Tuner] # "idle", Inside(Tuner), Held' = Held
    PROVE  Saving'
<1>0. Tuner \in Threads
  BY TunerAssumption
<1>1. SaveOpen(Tuner) \/ SaveWrite(Tuner) \/ SaveReplace(Tuner)
  BY DEF Saving, Inside, Tunes, Autotune, ReadBest, RecordLoad, Saves, SaveRaises
<1>2. CASE SaveOpen(Tuner)
  <2>1. pc[Tuner] = "open" /\ tmp = 0 /\ cache[Tuner] = Held
    BY <1>2 DEF SaveOpen, Saving
  <2>2. FreeInode \in Inodes /\ FreeInode # 0
    BY <1>0, <2>1, Unused, InodesAre
  <2>3. /\ pc'[Tuner] = "write" /\ tmp' = FreeInode /\ fd'[Tuner] = FreeInode
        /\ data'[tmp'] = Empty /\ cache'[Tuner] = Held
    BY <1>0, <1>2, <2>1, <2>2
    DEF SaveOpen, TunerInv, TunerTypes, KernelTypes, FileTypes, FrameTypes
  <2> QED BY <2>2, <2>3, EmptyIs DEF Saving
<1>3. CASE SaveWrite(Tuner)
  <2>1. pc[Tuner] = "write" /\ tmp = fd[Tuner] /\ tmp # 0 /\ ~data[tmp].ok /\ cache[Tuner] = Held
    BY <1>3 DEF SaveWrite, Saving
  <2>2. data' = [data EXCEPT ![tmp] = Whole(Held)]
    BY <1>3, <2>1 DEF SaveWrite, Overwrites
  <2>3. tmp \in Inodes
    BY <2>1 DEF TunerInv, TunerTypes, KernelTypes, FileTypes, InodeOrNone
  <2>4. pc'[Tuner] = "replace" /\ tmp' = tmp /\ fd' = fd /\ data'[tmp'] = Whole(Held)
    BY <1>0, <1>3, <2>2, <2>3
    DEF SaveWrite, TunerInv, TunerTypes, KernelTypes, FileTypes, FrameTypes
  <2> QED BY <2>1, <2>4 DEF Saving
<1>4. CASE SaveReplace(Tuner)
  <2>1. tmp # 0 /\ data[tmp] = Whole(Held)
    BY <1>4 DEF SaveReplace, Saving
  <2>2. pc'[Tuner] = "idle" /\ path' = tmp /\ tmp' = 0 /\ data' = data
    BY <1>0, <1>4 DEF SaveReplace, Idle, TunerInv, TunerTypes, KernelTypes, FrameTypes
  <2>3. CacheLoad' = Held
    BY <2>1, <2>2, WholeIs DEF CacheLoad
  <2> QED BY <2>2, <2>3 DEF Saving
<1> QED BY <1>1, <1>2, <1>3, <1>4

LEMMA KernelNoTrace ==
    ASSUME TunerInv, NoTrace, NEW t \in Threads, KernelStep(t),
           UNCHANGED <<mode, trials, snapshot, fastest, tried>>,
           \/ UNCHANGED at /\ (mode = "off" \/ t # Tuner \/ Inside(t))
           \/ mode # "off" /\ t = Tuner /\ TunerCalls
    PROVE  NoTrace'
<1> SUFFICES ASSUME mode \in {"manual", "rerun"}, Quiet', at' # "dead"
             PROVE  NoTrace'
  BY DEF NoTrace
<1>1. /\ \A u \in Threads \ {t} : calls'[u] = calls[u] /\ pc'[u] = pc[u]
      /\ \/ pc[t] # "idle" /\ UNCHANGED calls
         \/ calls'[t] = calls[t] + 1 /\ Calls(t)
  BY CallsOrWorks DEF TunerInv, TunerTypes, KernelTypes
<1>2. t = Tuner
  <2> SUFFICES ASSUME t # Tuner PROVE FALSE
    OBVIOUS
  <2>1. calls'[t] = 0 /\ calls[t] \in Nat
    BY KernelAssumption DEF Quiet, TunerInv, TunerTypes, KernelTypes, FrameTypes
  <2>2. pc[t] # "idle" /\ calls[t] = 0
    BY <1>1, <2>1
  <2> QED BY <2>2 DEF TunerInv, Unborn
<1>3. Quiet
  BY <1>1, <1>2 DEF Quiet
<1>4. UNCHANGED disabled
  BY KernelKeepsTarget
<1>5. Base' = Base
  BY DEF Base
<1>6. CASE TunerCalls
  <2>1. UNCHANGED <<disabled, path, tmp, data, pc, cache, fd>> /\ pc[Tuner] = "idle"
    BY <1>3, <1>6, TunerCallsKnown
  <2>2. at' = (IF at = "forcing" THEN "bench" ELSE at) /\ at # "dead"
    BY <1>6 DEF TunerCalls
  <2>3. Held' = Held
    BY <2>2, HeldIs
  <2>4. Saving /\ CacheLoad' = CacheLoad
    BY <1>3, <2>1, <2>2 DEF NoTrace, CacheLoad
  <2>5. Saving'
    BY <2>1, <2>3, <2>4 DEF Saving
  <2> QED BY <1>3, <1>5, <2>1, <2>2, <2>5 DEF NoTrace
<1>7. CASE UNCHANGED at /\ Inside(Tuner)
  <2>1. Saving /\ Held' = Held
    BY <1>3, <1>7, HeldIs DEF NoTrace
  <2>2. pc[Tuner] # "idle"
    BY <1>7 DEF Inside, Tunes, Autotune, ReadBest, RecordLoad, Saves, SaveOpen, SaveWrite,
                SaveReplace, SaveRaises
  <2>3. Saving'
    BY <1>7, <2>1, <2>2, SavingGoesOn
  <2>4. at \in {"forcing", "restoring", "persisting"}
    BY <1>3, <1>7, <2>2 DEF NoTrace
  <2> QED BY <1>3, <1>5, <1>7, <2>3, <2>4 DEF NoTrace
<1> QED BY <1>2, <1>6, <1>7

LEMMA StartNoTrace ==
    ASSUME TunerInv, NEW m \in {"manual", "rerun", "triton"}, TunerStarts(m)
    PROVE  NoTrace'
<1>1. /\ mode = "off" /\ \A t \in Threads : calls[t] = 0
      /\ path' = 1 /\ data' = [data EXCEPT ![1] = Whole(Found)]
      /\ UNCHANGED <<tmp, pc, at>>
  BY DEF TunerStarts
<1>2. at' = "start" /\ tmp' = 0 /\ pc'[Tuner] = "idle"
  BY <1>1, TunerAssumption DEF TunerInv, TunerTypes, ScriptTypes, Dawn, Unborn
<1>3. data'[path'] = Whole(Found) /\ path' # 0
  BY <1>1, InodesAre DEF TunerInv, TunerTypes, KernelTypes, FileTypes
<1>4. CacheLoad' = Found
  <2>1. data'[path'].ok = TRUE /\ data'[path'].cfg = Found
    BY <1>3, WholeIs
  <2> QED BY <1>3, <2>1 DEF CacheLoad
<1> QED BY <1>2, <1>4 DEF NoTrace, Saving, Held

(* A save of the script's own begins.                                      *)
LEMMA SaveBegins ==
    ASSUME TunerInv, Saving, pc[Tuner] = "idle", NEW c, Save(c), c = Held'
    PROVE  Saving'
<1>1. pc'[Tuner] = "open" /\ cache'[Tuner] = c /\ tmp' = tmp
  BY TunerAssumption DEF Save, files, TunerInv, TunerTypes, KernelTypes, FrameTypes
<1> QED BY <1>1 DEF Saving

LEMMA ScriptNoTrace ==
    ASSUME TunerInv, NoTrace, mode # "off", ScriptStep
    PROVE  NoTrace'
<1> SUFFICES ASSUME mode' \in {"manual", "rerun"}, Quiet', at' # "dead"
             PROVE  NoTrace'
  BY DEF NoTrace
<1>1. /\ pc[Tuner] = "idle" /\ UNCHANGED <<mode, tmp, data, fd>>
      /\ calls' \in {calls, [calls EXCEPT ![Tuner] = 0]}
  BY ScriptFrame
<1>2. Quiet
  BY <1>1 DEF Quiet, TunerInv, TunerTypes, KernelTypes, FrameTypes
<1>3. Base' = Base
  BY <1>1 DEF Base
<1>4. at # "dead"
  BY DEF ScriptStep, Unlink, FixedBegin, FixedEnd, TrialBegin, TrialEnd, Persist, Persisted, TunerDies,
         Resting
<1>5. Saving /\ CacheLoad = Held /\ tmp = 0
  BY <1>1, <1>2, <1>4 DEF NoTrace, Saving
<1>6. CASE UNCHANGED <<path, pc, cache>> /\ Held' = Held
  <2>1. Saving'
    BY <1>1, <1>5, <1>6 DEF Saving, CacheLoad
  <2>2. CASE FixedBegin
    <3>1. at' = "fixed" /\ Host[Tuner] \in disabled'
      BY <2>2 DEF FixedBegin
    <3> QED BY <1>1, <1>6, <2>1, <3>1 DEF NoTrace
  <2>3. CASE FixedEnd
    <3>1. at' = "search"
      BY <1>1, <2>3 DEF FixedEnd
    <3> QED BY <1>1, <1>6, <2>1, <3>1 DEF NoTrace
  <2>4. CASE Persisted
    <3>1. at = "persisting" /\ at' = "tuned" /\ UNCHANGED fastest
      BY <2>4 DEF Persisted, Resting
    <3> QED BY <1>1, <1>2, <1>6, <2>1, <3>1 DEF NoTrace
  <2>5. CASE Unlink
    <3>1. at' = "cleared"
      BY <2>5 DEF Unlink
    <3> QED BY <1>1, <1>6, <2>1, <3>1 DEF NoTrace
  <2>6. CASE TrialBegin \/ TrialEnd \/ Persist
    BY <1>1, <1>6, <2>6, TunerAssumption
    DEF TrialBegin, TrialEnd, Persist, Save, TunerInv, TunerTypes, KernelTypes, FrameTypes
  <2>7. CASE TunerDies
    BY <2>7 DEF TunerDies
  <2> QED BY <2>2, <2>3, <2>4, <2>5, <2>6, <2>7 DEF ScriptStep
<1>7. CASE Unlink
  <2>1. at' = "cleared" /\ mode = "rerun" /\ path' = 0 /\ pc' = pc
    BY <1>7 DEF Unlink
  <2>2. Held' = << >> /\ CacheLoad' = << >>
    BY <1>1, <2>1 DEF Held, Base, CacheLoad
  <2>3. Saving'
    BY <1>1, <1>5, <2>1, <2>2 DEF Saving
  <2> QED BY <1>1, <2>1, <2>3 DEF NoTrace
<1>8. CASE FixedBegin
  <2>1. UNCHANGED <<path, pc, cache>> /\ at' = "fixed"
        /\ at = (IF mode = "rerun" THEN "cleared" ELSE "start")
    BY <1>8 DEF FixedBegin, Resting
  <2>2. Held' = Held
    BY <1>1, <1>3, <2>1 DEF Held, Base
  <2> QED BY <1>6, <2>1, <2>2
<1>9. CASE FixedEnd
  <2>1. UNCHANGED <<path, pc, cache>> /\ at' = "search" /\ at = "fixed"
    BY <1>1, <1>9 DEF FixedEnd, Resting
  <2>2. Held' = Held
    BY <1>3, <2>1 DEF Held
  <2> QED BY <1>6, <2>1, <2>2
<1>10. CASE TrialBegin
  <2>1. /\ at \in {"search", "restoring"} /\ at' = "forcing" /\ snapshot' = CacheLoad
        /\ Save(Entry(CacheLoad, Trial)) /\ UNCHANGED <<trials, fastest>>
    BY <1>10 DEF TrialBegin, Resting
  <2>2. CacheLoad = Base
    BY <1>5, <2>1 DEF Held
  <2>3. Held' = Entry(CacheLoad, Trial)
    BY <1>3, <2>1, <2>2 DEF Held, Entry, Trial
  <2>4. Saving'
    BY <1>1, <1>5, <2>1, <2>3, SaveBegins
  <2> QED BY <1>3, <2>1, <2>2, <2>4 DEF NoTrace
<1>11. CASE TrialEnd
  <2>1. at = "bench" /\ at' = "restoring" /\ Save(snapshot)
    BY <1>11 DEF TrialEnd, Resting
  <2>2. snapshot = Base
    BY <1>1, <1>2, <2>1 DEF NoTrace
  <2>3. Held' = snapshot
    BY <1>3, <2>1, <2>2 DEF Held
  <2>4. Saving'
    BY <1>1, <1>5, <2>1, <2>3, SaveBegins
  <2> QED BY <2>1, <2>4 DEF NoTrace
<1>12. CASE Persist
  <2>1. /\ at \in {"search", "restoring"} /\ at' = "persisting" /\ fastest # None
        /\ Save(Entry(CacheLoad, fastest)) /\ UNCHANGED fastest
    BY <1>12 DEF Persist, Resting
  <2>2. CacheLoad = Base
    BY <1>5, <2>1 DEF Held
  <2>3. Held' = Entry(CacheLoad, fastest)
    BY <1>3, <2>1, <2>2 DEF Held, Entry
  <2>4. Saving'
    BY <1>1, <1>5, <2>1, <2>3, SaveBegins
  <2> QED BY <2>1, <2>4 DEF NoTrace
<1>13. CASE Persisted
  <2>1. UNCHANGED <<path, pc, cache, fastest>> /\ at = "persisting" /\ at' = "tuned"
    BY <1>13 DEF Persisted, Resting, vars
  <2>2. Held' = Held
    BY <1>3, <2>1 DEF Held, Entry
  <2> QED BY <1>6, <2>1, <2>2
<1>14. ~TunerDies
  BY DEF TunerDies
<1> QED BY <1>7, <1>8, <1>9, <1>10, <1>11, <1>12, <1>13, <1>14 DEF ScriptStep

-----------------------------------------------------------------------------
(* Theorems *)

LEMMA StaysClean ==
    ASSUME TunerInv, NoTrace, [TunerNext]_<<vars, tunerVars>>
    PROVE  NoTrace'
<1>1. CASE UNCHANGED <<vars, tunerVars>>
  <2>1. UNCHANGED <<mode, at, trials, snapshot, fastest, calls, disabled, path, tmp, data, pc, cache, fd>>
    BY <1>1 DEF vars, tunerVars
  <2>2. Held' = Held /\ Base' = Base /\ CacheLoad' = CacheLoad
    BY <2>1 DEF Held, Base, Entry, Trial, CacheLoad
  <2> QED BY <2>1, <2>2 DEF NoTrace, Saving, Quiet
<1>2. CASE \E p \in Processes :
              /\ Crash(p) /\ UNCHANGED <<mode, trials, snapshot, fastest, tried>>
              /\ \/ mode = "off" /\ UNCHANGED at
                 \/ mode # "off" /\ at' = "dead"
  BY <1>2 DEF NoTrace
<1>3. CASE TunerNext
  BY <1>2, <1>3, NextIs, KernelNoTrace, StartNoTrace, ScriptNoTrace
<1> QED BY <1>1, <1>3

(* While no other thread calls, a script that has tried its tiles has      *)
(* changed the entry of its shape only, and that one to the fastest:       *)
(* whatever Triton, the tiles, the file it found and the deaths before it. *)
THEOREM TrialsAreClean == TunerSpec => []TrialsLeaveNoTrace
<1>1. TunerInit => NoTrace
  BY DEF TunerInit, NoTrace
<1>2. TunerInv /\ NoTrace /\ [TunerNext]_<<vars, tunerVars>> => NoTrace'
  BY StaysClean
<1>3. TunerInv /\ NoTrace => TrialsLeaveNoTrace
  <2> SUFFICES ASSUME TunerInv, NoTrace, at = "tuned", mode # "triton", Quiet
               PROVE  CacheLoad = Entry(Base, fastest)
    BY DEF TrialsLeaveNoTrace, Quiet, Base
  <2>1. mode \in {"manual", "rerun"}
    BY DEF TunerInv, TunerTypes, ScriptTypes
  <2>2. CacheLoad = Held
    BY <2>1 DEF NoTrace, Saving
  <2> QED BY <2>2 DEF Held
<1> QED BY <1>1, <1>2, <1>3, Lasting, PTL DEF TunerSpec

(* However many threads and processes call, what is launched was found     *)
(* fastest for its key, or was tried for it by the script, or is the       *)
(* fallback that was asked for, unless the winner of that very key was     *)
(* open to another thread's; and the trials leave no trace.                *)
THEOREM TilesAreTuned == TunerSpec => []LaunchedWasTuned
<1>1. TunerInit => FitInv
  BY InitFits
<1>2. TunerInv /\ FitInv /\ [TunerNext]_<<vars, tunerVars>> => FitInv'
  BY StaysFit
<1>3. FitInv => TunedForShape
  BY DEF FitInv, LaunchFits, Known, TunedForShape
<1>4. TunedForShape /\ TrialsLeaveNoTrace => LaunchedWasTuned
  BY DEF LaunchedWasTuned
<1> QED BY <1>1, <1>2, <1>3, <1>4, Lasting, TrialsAreClean, PTL DEF TunerSpec

-----------------------------------------------------------------------------
(* Which op is chosen *)

(* The least of a set of numbers, where it is known which one it is.       *)
LEMMA Leftmost ==
    ASSUME NEW I \in SUBSET Nat, NEW k \in I, \A i \in I : k <= i
    PROVE  Min(I) = k
<1>1. \E x \in I : \A y \in I : x =< y
  OBVIOUS
<1>2. Min(I) \in I /\ \A y \in I : Min(I) =< y
  BY <1>1 DEF Min
<1>3. Min(I) \in Nat /\ k \in Nat /\ Min(I) =< k /\ k =< Min(I)
  BY <1>2
<1> QED BY ONLY <1>3

(* What two lists that are joined hold, and what they start with.          *)
LEMMA Joined ==
    ASSUME NEW S, NEW s \in Seq(S), NEW t \in Seq(S)
    PROVE  /\ s \o t \in Seq(S)
           /\ s # <<>> => s \o t # <<>> /\ (s \o t)[1] = s[1]
           /\ t # <<>> => s \o t # <<>> /\ (Len(s) = 1 => 2 \in DOMAIN (s \o t) /\ (s \o t)[2] = t[1])
           /\ s = <<>> => s \o t = t
           /\ Range(s \o t) = Range(s) \cup Range(t)
<1>1. /\ s \o t \in Seq(S) /\ Len(s \o t) = Len(s) + Len(t)
      /\ \A i \in 1..Len(s) : (s \o t)[i] = s[i]
      /\ \A i \in 1..Len(t) : (s \o t)[Len(s) + i] = t[i]
  OBVIOUS
<1>2. s # <<>> => s \o t # <<>> /\ (s \o t)[1] = s[1]
  BY <1>1
<1>3. s = <<>> => s \o t = t
  OBVIOUS
<1>a. t # <<>> => s \o t # <<>> /\ (Len(s) = 1 => 2 \in DOMAIN (s \o t) /\ (s \o t)[2] = t[1])
  <2>1. t # <<>> => 1 \in 1..Len(t) /\ Len(s) + Len(t) # 0
    OBVIOUS
  <2>2. ASSUME t # <<>>, Len(s) = 1 PROVE 2 \in DOMAIN (s \o t) /\ (s \o t)[2] = t[1]
    <3>1. (s \o t)[Len(s) + 1] = t[1]
      BY <1>1, <2>1, <2>2
    <3>2. Len(s \o t) \in Nat /\ Len(s \o t) = 1 + Len(t) /\ 1 \in 1..Len(t)
      BY <1>1, <2>1, <2>2
    <3>3. 2 \in 1..Len(s \o t)
      BY ONLY <3>2
    <3> QED BY <2>2, <3>1, <3>3
  <2> QED BY <1>1, <2>1, <2>2
<1>4. DOMAIN s = 1..Len(s) /\ DOMAIN t = 1..Len(t) /\ DOMAIN (s \o t) = 1..Len(s) + Len(t)
      /\ Len(s) \in Nat /\ Len(t) \in Nat
  BY <1>1
<1>5. ASSUME NEW i \in 1..Len(s) + Len(t)
      PROVE  (s \o t)[i] \in Range(s) \cup Range(t)
  <2>1. CASE i \in 1..Len(s)
    BY <1>1, <1>4, <2>1 DEF Range
  <2>2. CASE i \notin 1..Len(s)
    <3>1. i - Len(s) \in 1..Len(t) /\ Len(s) + (i - Len(s)) = i
      BY <1>4, <2>2
    <3> QED BY <1>1, <1>4, <3>1 DEF Range
  <2> QED BY <2>1, <2>2
<1>6. \A i \in 1..Len(s) : s[i] \in Range(s \o t)
  BY <1>1, <1>4 DEF Range
<1>7. \A i \in 1..Len(t) : t[i] \in Range(s \o t)
  <2> TAKE i \in 1..Len(t)
  <2>1. Len(s) + i \in 1..Len(s) + Len(t)
    BY <1>4
  <2> QED BY <1>1, <1>4, <2>1 DEF Range
<1>8. Range(s \o t) = Range(s) \cup Range(t)
  BY <1>4, <1>5, <1>6, <1>7 DEF Range
<1> QED BY <1>1, <1>2, <1>3, <1>a, <1>8

(* Lists of up to two elements.                                            *)
LEMMA ShortSeqs ==
    ASSUME NEW S
    PROVE  /\ <<>> \in Seq(S)
           /\ \A a \in S : <<a>> \in Seq(S)
           /\ \A a, b \in S : <<a, b>> \in Seq(S)
OBVIOUS

(* What short lists hold.                                                  *)
LEMMA RangesOf == /\ Range(<<>>) = {} /\ \A a : Range(<<a>>) = {a}
                  /\ \A a, b : Range(<<a, b>>) = {a, b}
BY DEF Range

(* A list that holds one op or nothing.                                    *)
LEMMA Perhaps ==
    ASSUME NEW S, NEW op \in S, NEW s, s = <<op>> \/ s = <<>>
    PROVE  s \in Seq(S) /\ Range(s) \subseteq {op} /\ (s = <<op>> => s # <<>> /\ s[1] = op /\ Len(s) = 1)
<1>1. CASE s = <<op>>
  BY <1>1, RangesOf, ShortSeqs
<1>2. CASE s = <<>>
  BY <1>2, RangesOf, ShortSeqs
<1> QED BY <1>1, <1>2

(* Two ops that are tried perhaps, and then a list.                        *)
Listing(S, a, b, s1, s2, t) ==
    /\ s1 \o s2 \o t \in Seq(S)
    /\ Range(s1 \o s2 \o t) \subseteq {a, b} \cup Range(t)
    /\ Range(t) \subseteq Range(s1 \o s2 \o t)
    /\ s1 = <<a>> => (s1 \o s2 \o t)[1] = a
    /\ s1 = <<>> /\ s2 = <<b>> =>
          (s1 \o s2 \o t)[1] = b /\ (t # <<>> => 2 \in DOMAIN (s1 \o s2 \o t) /\ (s1 \o s2 \o t)[2] = t[1])
    /\ t # <<>> => s1 \o s2 \o t # <<>>
    /\ s1 = <<>> /\ s2 = <<>> => s1 \o s2 \o t = t

(* Such a list is what its parts make of it.                               *)
LEMMA TwoAndList ==
    ASSUME NEW S, NEW a \in S, NEW b \in S, NEW t \in Seq(S),
           NEW s1, s1 = <<a>> \/ s1 = <<>>, NEW s2, s2 = <<b>> \/ s2 = <<>>
    PROVE  Listing(S, a, b, s1, s2, t)
<1>1. s1 \in Seq(S) /\ Range(s1) \subseteq {a} /\ (s1 = <<a>> => s1 # <<>> /\ s1[1] = a /\ Len(s1) = 1)
  BY Perhaps
<1>2. s2 \in Seq(S) /\ Range(s2) \subseteq {b} /\ (s2 = <<b>> => s2 # <<>> /\ s2[1] = b /\ Len(s2) = 1)
  BY Perhaps
<1> DEFINE s == s1 \o s2
<1>3. /\ s \in Seq(S)
      /\ s1 # <<>> => s # <<>> /\ s[1] = s1[1]
      /\ s1 = <<>> => s = s2
      /\ Range(s) = Range(s1) \cup Range(s2)
  BY <1>1, <1>2, Joined
<1> SUFFICES /\ s \o t \in Seq(S)
             /\ Range(s \o t) \subseteq {a, b} \cup Range(t)
             /\ Range(t) \subseteq Range(s \o t)
             /\ s1 = <<a>> => (s \o t)[1] = a
             /\ s1 = <<>> /\ s2 = <<b>> =>
                   (s \o t)[1] = b /\ (t # <<>> => 2 \in DOMAIN (s \o t) /\ (s \o t)[2] = t[1])
             /\ t # <<>> => s \o t # <<>>
             /\ s1 = <<>> /\ s2 = <<>> => s \o t = t
  BY DEF Listing
<1> HIDE DEF s
<1>4. /\ s \o t \in Seq(S)
      /\ s # <<>> => s \o t # <<>> /\ (s \o t)[1] = s[1]
      /\ t # <<>> => s \o t # <<>> /\ (Len(s) = 1 => 2 \in DOMAIN (s \o t) /\ (s \o t)[2] = t[1])
      /\ s = <<>> => s \o t = t
      /\ Range(s \o t) = Range(s) \cup Range(t)
  BY <1>3, Joined
<1> QED BY <1>1, <1>2, <1>3, <1>4

(* What the registry tries on a backend; what it tries first when a bridge *)
(* would run a kernel, and when nothing is set.                            *)
LEMMA TriedOnROCm ==
    ASSUME NEW env
    PROVE  /\ Candidates("rocm", env) \in Seq(AllOps)
           /\ Range(Candidates("rocm", env)) \subseteq
                 {"fp8-triton-flash", "fp8-scaled-mm", "rocm-ck-flash", "naive-sdpa"}
           /\ "naive-sdpa" \in Range(Candidates("rocm", env))
           /\ env \in On \cup {"triton"} =>
                 Candidates("rocm", env)[1] = "fp8-triton-flash"
           /\ env = "" => Candidates("rocm", env) = <<"rocm-ck-flash", "naive-sdpa">>
<1> DEFINE w1 == env \in FP8Truthy \ (TE \cup {"scaled_mm"})
           w2 == env \in FP8Truthy \ (TE \cup {"triton"})
           s1 == If(w1, "fp8-triton-flash")
           s2 == If(w2, "fp8-scaled-mm")
           t == <<"rocm-ck-flash", "naive-sdpa">>
<1>1. Candidates("rocm", env) = s1 \o s2 \o t
  BY DEF Candidates
<1>2. /\ env \in On \cup {"triton"} => s1 = <<"fp8-triton-flash">>
      /\ env = "" => s1 = <<>> /\ s2 = <<>>
      /\ s1 = <<"fp8-triton-flash">> \/ s1 = <<>>
      /\ s2 = <<"fp8-scaled-mm">> \/ s2 = <<>>
  BY DEF If, FP8Truthy, On, TE
<1>3. {"fp8-triton-flash", "fp8-scaled-mm", "rocm-ck-flash", "naive-sdpa"} \subseteq AllOps
  BY DEF AllOps
<1>4. t \in Seq(AllOps) /\ Range(t) = {"rocm-ck-flash", "naive-sdpa"}
  BY <1>3, ShortSeqs, RangesOf
<1>5. Candidates("rocm", env)= s1 \o s2 \o t
  BY <1>1
<1> HIDE DEF s1, s2
<1>6. /\ s1 \o s2 \o t \in Seq(AllOps)
      /\ Range(s1 \o s2 \o t) \subseteq {"fp8-triton-flash", "fp8-scaled-mm"} \cup Range(t)
      /\ Range(t) \subseteq Range(s1 \o s2 \o t)
      /\ s1 = <<"fp8-triton-flash">> => (s1 \o s2 \o t)[1] = "fp8-triton-flash"
      /\ s1 = <<>> /\ s2 = <<>> => s1 \o s2 \o t = t
  <2>1. "fp8-triton-flash" \in AllOps /\ "fp8-scaled-mm" \in AllOps /\ t \in Seq(AllOps)
    BY <1>3, <1>4
  <2>2. s1 = <<"fp8-triton-flash">> \/ s1 = <<>>
    BY <1>2
  <2>3. s2 = <<"fp8-scaled-mm">> \/ s2 = <<>>
    BY <1>2
  <2> HIDE DEF t
  <2>4. Listing(AllOps, "fp8-triton-flash", "fp8-scaled-mm", s1, s2, t)
    BY ONLY <2>1, <2>2, <2>3, TwoAndList
  <2> QED BY <2>4 DEF Listing
<1> QED BY <1>2, <1>4, <1>5, <1>6

LEMMA TriedOnCUDA ==
    ASSUME NEW env
    PROVE  /\ Candidates("cuda", env) \in Seq(AllOps)
           /\ Range(Candidates("cuda", env)) \subseteq
                 {"fp8-hopper-triton-flash", "transformer-engine-fp8", "nvidia-flash", "naive-sdpa"}
           /\ "naive-sdpa" \in Range(Candidates("cuda", env))
           /\ env \in On \cup {"triton"} =>
                 Candidates("cuda", env)[1] = "fp8-hopper-triton-flash"
           /\ env \in TE => Candidates("cuda", env)[1] = "transformer-engine-fp8"
           /\ env = "" => Candidates("cuda", env) = <<"nvidia-flash", "naive-sdpa">>
<1> DEFINE w1 == env \in FP8Truthy \ (TE \cup {"scaled_mm"})
           w2 == env \in On \cup TE
           s1 == If(w1, "fp8-hopper-triton-flash")
           s2 == If(w2, "transformer-engine-fp8")
           t == <<"nvidia-flash", "naive-sdpa">>
<1>1. Candidates("cuda", env) = s1 \o s2 \o t
  BY DEF Candidates
<1>2. /\ env \in On \cup {"triton"} => s1 = <<"fp8-hopper-triton-flash">>
      /\ env \in TE => s1 = <<>> /\ s2 = <<"transformer-engine-fp8">>
      /\ env = "" => s1 = <<>> /\ s2 = <<>>
      /\ s1 = <<"fp8-hopper-triton-flash">> \/ s1 = <<>>
      /\ s2 = <<"transformer-engine-fp8">> \/ s2 = <<>>
  BY DEF If, FP8Truthy, On, TE
<1>3. {"fp8-hopper-triton-flash", "transformer-engine-fp8", "nvidia-flash", "naive-sdpa"}
         \subseteq AllOps
  BY DEF AllOps
<1>4. t \in Seq(AllOps) /\ Range(t) = {"nvidia-flash", "naive-sdpa"}
  BY <1>3, ShortSeqs, RangesOf
<1> HIDE DEF s1, s2
<1>5. Listing(AllOps, "fp8-hopper-triton-flash", "transformer-engine-fp8", s1, s2, t)
  <2>1. /\ "fp8-hopper-triton-flash" \in AllOps /\ "transformer-engine-fp8" \in AllOps
        /\ t \in Seq(AllOps)
    BY <1>3, <1>4
  <2>2. s1 = <<"fp8-hopper-triton-flash">> \/ s1 = <<>>
    BY <1>2
  <2>3. s2 = <<"transformer-engine-fp8">> \/ s2 = <<>>
    BY <1>2
  <2> HIDE DEF t
  <2> QED BY ONLY <2>1, <2>2, <2>3, TwoAndList
<1> DEFINE u == s1 \o s2 \o t
<1>6. /\ u \in Seq(AllOps)
      /\ Range(u) \subseteq {"fp8-hopper-triton-flash", "transformer-engine-fp8"} \cup Range(t)
      /\ Range(t) \subseteq Range(u)
      /\ s1 = <<"fp8-hopper-triton-flash">> => u[1] = "fp8-hopper-triton-flash"
      /\ s1 = <<>> /\ s2 = <<"transformer-engine-fp8">> => u[1] = "transformer-engine-fp8"
      /\ s1 = <<>> /\ s2 = <<>> => u = t
  <2> HIDE DEF t
  <2> QED BY <1>5 DEF Listing
<1>7. Candidates("cuda", env) = u
  BY <1>1
<1> HIDE DEF u
<1> QED BY <1>2, <1>4, <1>6, <1>7

Regrouped(a, b, c) == (a \o b) \o c = a \o (b \o c)

(* It does not matter which lists are joined first.                        *)
LEMMA ThreeJoined ==
    ASSUME NEW S, NEW a \in Seq(S), NEW b \in Seq(S), NEW c \in Seq(S)
    PROVE  Regrouped(a, b, c)
<1>1. (a \o b) \o c = a \o (b \o c)
  BY ConcatAssociative
<1> QED BY <1>1 DEF Regrouped

LastThree(a, b, c, d, e) == a \o b \o c \o d \o e = a \o b \o (c \o d \o e)

LEMMA FiveJoined ==
    ASSUME NEW S, NEW a \in Seq(S), NEW b \in Seq(S), NEW c \in Seq(S), NEW d \in Seq(S),
           NEW e \in Seq(S)
    PROVE  LastThree(a, b, c, d, e)
<1>0. a \o b \in Seq(S) /\ c \o d \in Seq(S)
  OBVIOUS
<1>1. PICK x \in Seq(S) : x = a \o b
  BY <1>0
<1>2. PICK y \in Seq(S) : y = c \o d
  BY <1>0
<1>3. Regrouped(x, c, d) /\ Regrouped(x, y, e)
  BY ThreeJoined
<1> QED BY <1>1, <1>2, <1>3 DEF Regrouped, LastThree

LEMMA TriedOnCPU ==
    ASSUME NEW env
    PROVE  /\ Candidates("cpu", env) \in Seq(AllOps)
           /\ Range(Candidates("cpu", env)) \subseteq
                 CPUFlashOps \cup {"amx-sdpa", "naive-sdpa"}
           /\ "naive-sdpa" \in Range(Candidates("cpu", env))
           /\ env = "int8" => Candidates("cpu", env)[1] = "amx-int8-flash"
           /\ env = "fp16" => Candidates("cpu", env)[1] = "amx-fp16-flash"
           /\ env = "amx" => Candidates("cpu", env)[1] = "amx-bf16-flash"
           /\ env = "ipex" => Candidates("cpu", env)[1] = "ipex-flash"
           /\ env \in On => /\ 2 \in DOMAIN Candidates("cpu", env)
                            /\ Candidates("cpu", env)[1] = "amx-fp16-flash"
                            /\ Candidates("cpu", env)[2] = "amx-bf16-flash"
           /\ env = "" => Candidates("cpu", env) = <<"amx-sdpa", "naive-sdpa">>
<1> DEFINE s1 == If(env = "int8", "amx-int8-flash")
           s2 == If(env \in On \cup {"fp16"}, "amx-fp16-flash")
           s3 == If(env \in AMXTruthy \ {"ipex", "int8", "fp16"}, "amx-bf16-flash")
           s4 == If(env \in AMXTruthy \ {"amx", "int8", "fp16"}, "ipex-flash")
           t == <<"amx-sdpa", "naive-sdpa">>
<1>1. Candidates("cpu", env) = s1 \o s2 \o s3 \o s4 \o t
  BY DEF Candidates
<1>2. /\ env = "int8" => s1 = <<"amx-int8-flash">>
      /\ env \in On \cup {"fp16"} => s1 = <<>> /\ s2 = <<"amx-fp16-flash">>
      /\ env = "amx" => s1 = <<>> /\ s2 = <<>>
      /\ env = "ipex" => s1 = <<>> /\ s2 = <<>>
      /\ env = "" => s1 = <<>> /\ s2 = <<>>
      /\ s1 = <<"amx-int8-flash">> \/ s1 = <<>>
      /\ s2 = <<"amx-fp16-flash">> \/ s2 = <<>>
  BY DEF If, On
<1>3. /\ env \in On \cup {"amx"} => s3 = <<"amx-bf16-flash">>
      /\ env = "ipex" => s3 = <<>> /\ s4 = <<"ipex-flash">>
      /\ env = "" => s3 = <<>> /\ s4 = <<>>
      /\ s3 = <<"amx-bf16-flash">> \/ s3 = <<>>
      /\ s4 = <<"ipex-flash">> \/ s4 = <<>>
  BY DEF If, On, AMXTruthy
<1>4. /\ "amx-int8-flash" \in AllOps /\ "amx-fp16-flash" \in AllOps
      /\ "amx-bf16-flash" \in AllOps /\ "ipex-flash" \in AllOps
      /\ "amx-sdpa" \in AllOps /\ "naive-sdpa" \in AllOps
  BY DEF AllOps
<1>5. t \in Seq(AllOps) /\ Range(t) = {"amx-sdpa", "naive-sdpa"} /\ t # <<>>
  BY <1>4, ShortSeqs, RangesOf
<1> HIDE DEF s1, s2, s3, s4
<1> DEFINE u == s3 \o s4 \o t
<1>6. Listing(AllOps, "amx-bf16-flash", "ipex-flash", s3, s4, t)
  <2>1. s3 = <<"amx-bf16-flash">> \/ s3 = <<>>
    BY <1>3
  <2>2. s4 = <<"ipex-flash">> \/ s4 = <<>>
    BY <1>3
  <2> HIDE DEF t
  <2> QED BY ONLY <1>4, <1>5, <2>1, <2>2, TwoAndList
<1>7. /\ u \in Seq(AllOps) /\ u # <<>>
      /\ Range(u) \subseteq {"amx-bf16-flash", "ipex-flash", "amx-sdpa", "naive-sdpa"}
      /\ "naive-sdpa" \in Range(u)
      /\ s3 = <<"amx-bf16-flash">> => u[1] = "amx-bf16-flash"
      /\ s3 = <<>> /\ s4 = <<"ipex-flash">> => u[1] = "ipex-flash"
      /\ s3 = <<>> /\ s4 = <<>> => u = t
  BY <1>5, <1>6 DEF Listing
<1>8. Candidates("cpu", env) = s1 \o s2 \o u
  <2>1. s1 \in Seq(AllOps) /\ s2 \in Seq(AllOps) /\ s3 \in Seq(AllOps) /\ s4 \in Seq(AllOps)
    BY <1>2, <1>3, <1>4, ShortSeqs
  <2> HIDE DEF t
  <2>2. s1 \o s2 \o s3 \o s4 \o t = s1 \o s2 \o u
    <3>1. LastThree(s1, s2, s3, s4, t)
      BY <1>5, <2>1, FiveJoined
    <3> QED BY <3>1 DEF LastThree
  <2> QED BY <1>1, <2>2
<1>9. Listing(AllOps, "amx-int8-flash", "amx-fp16-flash", s1, s2, u)
  <2>1. s1 = <<"amx-int8-flash">> \/ s1 = <<>>
    BY <1>2
  <2>2. s2 = <<"amx-fp16-flash">> \/ s2 = <<>>
    BY <1>2
  <2>3. u \in Seq(AllOps)
    BY <1>7
  <2> HIDE DEF u
  <2> QED BY ONLY <1>4, <2>1, <2>2, <2>3, TwoAndList
<1> HIDE DEF u
<1> QED BY <1>2, <1>3, <1>7, <1>8, <1>9 DEF Listing, CPUFlashOps

(* Of a list, the first op that supports the problem is taken. *)
FirstFit(p, c) ==
    /\ SelectAttentionOp(p) \in Range(c)
    /\ Supports(SelectAttentionOp(p), p)
    /\ Supports(c[1], p) => SelectAttentionOp(p) = c[1]
    /\ 2 \in DOMAIN c /\ ~Supports(c[1], p) /\ Supports(c[2], p) => SelectAttentionOp(p) = c[2]
    /\ \A op \in Range(c) :
          Supports(op, p) => op = SelectAttentionOp(p) \/ Before(c, SelectAttentionOp(p), op)

(* The plain attention of PyTorch takes every problem.                     *)
LEMMA NaiveSupportsAll == \A p : Supports("naive-sdpa", p)
BY DEF Supports

(* Where a list ends in the op that takes all, what is selected of it fits. *)
LEMMA FirstIsChosen ==
    ASSUME NEW p, NEW c \in Seq(AllOps), c = Candidates(SelectBackend(p), p.env),
           "naive-sdpa" \in Range(c)
    PROVE  FirstFit(p, c)
<1> DEFINE fit == {i \in 1..Len(c) : Supports(c[i], p)}
           i == SelectInSeq(c, LAMBDA op : Supports(op, p))
<1>1. SelectAttentionOp(p) = c[i]
  BY DEF SelectAttentionOp
<1>2. fit # {} /\ fit \in SUBSET Nat
  <2>1. PICK k \in DOMAIN c : c[k] = "naive-sdpa"
    BY DEF Range
  <2>2. k \in 1..Len(c) /\ Supports(c[k], p)
    BY <2>1, NaiveSupportsAll
  <2> QED BY <2>2
<1>3. i = Min(fit)
  BY <1>2 DEF SelectInSeq
<1> HIDE DEF i
<1>4. i \in fit
  BY <1>2, <1>3, LeastOf
<1>5. i \in DOMAIN c /\ Supports(c[i], p)
  BY <1>4
<1>6. ASSUME Supports(c[1], p) PROVE i = 1
  <2>1. 1 \in fit
    <3>1. Len(c) \in Nat /\ i \in 1..Len(c)
      BY <1>4
    <3>2. 1 \in 1..Len(c)
      BY ONLY <3>1
    <3> QED BY <1>6, <3>2
  <2>2. \A j \in fit : 1 <= j
    OBVIOUS
  <2> HIDE DEF fit
  <2> QED BY <1>2, <1>3, <2>1, <2>2, Leftmost
<1>7. ASSUME 2 \in DOMAIN c, ~Supports(c[1], p), Supports(c[2], p) PROVE i = 2
  <2>1. 2 \in fit
    BY <1>7
  <2>2. \A j \in fit : 2 <= j
    <3> SUFFICES ASSUME NEW j \in fit PROVE 2 <= j
      OBVIOUS
    <3>1. j \in 1..Len(c) /\ j # 1 /\ Len(c) \in Nat
      BY <1>7
    <3> QED BY ONLY <3>1
  <2> HIDE DEF fit
  <2> QED BY <1>2, <1>3, <2>1, <2>2, Leftmost
<1>8. ASSUME NEW op \in Range(c), Supports(op, p)
      PROVE  op = c[i] \/ Before(c, c[i], op)
  <2>1. PICK j \in DOMAIN c : c[j] = op
    BY DEF Range
  <2>2. j \in fit
    BY <1>8, <2>1
  <2>3. i <= j
    <3> HIDE DEF fit
    <3> QED BY <1>2, <1>3, <2>2, LeastOf
  <2>4. i \in Nat /\ j \in Nat
    BY <1>4, <2>2
  <2>5. CASE i = j
    BY <2>1, <2>5
  <2>6. CASE i # j
    <3>1. i < j
      BY ONLY <2>3, <2>4, <2>6
    <3> QED BY <1>5, <2>1, <3>1 DEF Before
  <2> QED BY <2>5, <2>6
<1> QED BY <1>1, <1>5, <1>6, <1>7, <1>8 DEF FirstFit, Range

(* The backend of each kind of host. *)
LEMMA BackendIs ==
    ASSUME NEW p
    PROVE  /\ p.gpu = "none" /\ p.prefer = "none" => SelectBackend(p) = "cpu"
           /\ p.gpu = "rocm" /\ p.prefer = "none" => SelectBackend(p) = "rocm"
           /\ p.gpu = "cuda" /\ p.prefer \in {"none", "cuda"} => SelectBackend(p) = "cuda"
           /\ p.gpu = "rocm" /\ p.prefer = "cpu" => SelectBackend(p) = "cpu"
<1> DEFINE fit == {i \in 1..3 : IsAvailable(p, AllBackends[i])
                                /\ (p.prefer = "none" \/ AllBackends[i] = p.prefer)}
<1>1. /\ Len(AllBackends) = 3
      /\ AllBackends[1] = "rocm" /\ AllBackends[2] = "cuda" /\ AllBackends[3] = "cpu"
  BY DEF AllBackends
<1>2. fit # {} => SelectBackend(p) = AllBackends[Min(fit)] \/ Min(fit) = 0
  BY <1>1 DEF SelectBackend, SelectInSeq
<1>3. ASSUME NEW k \in fit, \A i \in fit : k <= i PROVE SelectBackend(p) = AllBackends[k]
  <2>1. fit \in SUBSET Nat /\ k # 0
    OBVIOUS
  <2> HIDE DEF fit
  <2> QED BY <1>2, <1>3, <2>1, Leftmost
<1>4. ASSUME p.gpu = "none", p.prefer = "none" PROVE SelectBackend(p) = "cpu"
  <2>1. 3 \in fit /\ \A i \in fit : 3 <= i
    BY <1>1, <1>4 DEF IsAvailable
  <2> QED BY <1>1, <1>3, <2>1
<1>5. ASSUME p.gpu = "rocm", p.prefer = "none" PROVE SelectBackend(p) = "rocm"
  <2>1. 1 \in fit /\ \A i \in fit : 1 <= i
    BY <1>1, <1>5 DEF IsAvailable
  <2> QED BY <1>1, <1>3, <2>1
<1>6. ASSUME p.gpu = "cuda", p.prefer \in {"none", "cuda"} PROVE SelectBackend(p) = "cuda"
  <2>1. 2 \in fit /\ \A i \in fit : 2 <= i
    BY <1>1, <1>6 DEF IsAvailable
  <2> QED BY <1>1, <1>3, <2>1
<1>7. ASSUME p.gpu = "rocm", p.prefer = "cpu" PROVE SelectBackend(p) = "cpu"
  <2>1. 3 \in fit /\ \A i \in fit : 3 <= i
    BY <1>1, <1>7 DEF IsAvailable
  <2> QED BY <1>1, <1>3, <2>1
<1> QED BY <1>4, <1>5, <1>6, <1>7

(* What is selected on a backend is the first that fits of what is tried there. *)
LEMMA FirstFits ==
    ASSUME NEW p, SelectBackend(p) \in {"rocm", "cuda", "cpu"}
    PROVE  FirstFit(p, Candidates(SelectBackend(p), p.env))
<1> DEFINE c == Candidates(SelectBackend(p), p.env)
<1>1. c \in Seq(AllOps) /\ "naive-sdpa" \in Range(c)
  <2>1. CASE SelectBackend(p) = "rocm"
    BY <2>1, TriedOnROCm
  <2>2. CASE SelectBackend(p) = "cuda"
    BY <2>2, TriedOnCUDA
  <2>3. CASE SelectBackend(p) = "cpu"
    BY <2>3, TriedOnCPU
  <2> QED BY <2>1, <2>2, <2>3
<1>2. PICK d \in Seq(AllOps) : d = c
  BY <1>1
<1>3. FirstFit(p, d)
  BY <1>1, <1>2, FirstIsChosen
<1> QED BY <1>2, <1>3

\* What every problem is made of.
Plain(p) ==
    /\ p.dtype \in DTypes /\ p.kind \in Kinds /\ p.dim \in Nat
    /\ p.q \in Nat \ {0} /\ p.kv \in Nat \ {0}

AskedOn(p, backend) ==
    /\ SelectBackend(p) = backend /\ p.env \in Environments(backend)
    /\ Plain(p)
    /\ FirstFit(p, Candidates(backend, p.env))

(* Every problem of every host is asked of one of the three backends.      *)
LEMMA ProblemsAre ==
    ASSUME NEW host \in Hosts, NEW p \in Problems(host)
    PROVE  AskedOn(p, "rocm") \/ AskedOn(p, "cuda") \/ AskedOn(p, "cpu")
<1>1. /\ p.gpu = host.gpu /\ p.prefer = host.prefer
      /\ p.env \in Environments(SelectBackend(host))
      /\ p.dtype \in DTypes /\ p.kind \in Kinds /\ p.dim \in Dims
      /\ \E l \in Lengths : p.q = l[1] /\ p.kv = l[2]
  BY DEF Problems
<1>2. Plain(p)
  BY <1>1, DispatchAssumption DEF Plain
<1>3. SelectBackend(p) = SelectBackend(host) /\ SelectBackend(p) \in {"rocm", "cuda", "cpu"}
  <2>1. CASE host = [gpu |-> "none", prefer |-> "none"]
    <3>1. SelectBackend(p) = "cpu" /\ SelectBackend(host) = "cpu"
      BY <1>1, <2>1, BackendIs
    <3> QED BY <3>1
  <2>2. CASE host = [gpu |-> "rocm", prefer |-> "none"]
    <3>1. SelectBackend(p) = "rocm" /\ SelectBackend(host) = "rocm"
      BY <1>1, <2>2, BackendIs
    <3> QED BY <3>1
  <2>3. CASE host = [gpu |-> "cuda", prefer |-> "cuda"]
    <3>1. SelectBackend(p) = "cuda" /\ SelectBackend(host) = "cuda"
      BY <1>1, <2>3, BackendIs
    <3> QED BY <3>1
  <2>4. CASE host = [gpu |-> "rocm", prefer |-> "cpu"]
    <3>1. SelectBackend(p) = "cpu" /\ SelectBackend(host) = "cpu"
      BY <1>1, <2>4, BackendIs
    <3> QED BY <3>1
  <2> QED BY <2>1, <2>2, <2>3, <2>4 DEF Hosts
<1>4. FirstFit(p, Candidates(SelectBackend(p), p.env))
  BY <1>3, FirstFits
<1> QED BY <1>1, <1>2, <1>3, <1>4 DEF AskedOn

(* The table of an op covers what its kernel checks, but for the misfits.  *)
LEMMA SupportsMeans ==
    ASSUME NEW p, Plain(p), NEW op \in AllOps, Supports(op, p)
    PROVE  /\ op # "naive-sdpa" => Masked(p)
           /\ KernelTakes(op, p) <=> ~Misfit(op, p)
<1>1. /\ p.dtype \in {"fp32", "fp16", "bf16", "fp8"} /\ p.dim \in Nat
      /\ p.q \in Nat \ {0} /\ p.kv \in Nat \ {0}
      /\ Masked(p) <=> p.kind # "neighborhood"
  BY DEF Plain, DTypes, Kinds, Masked
<1>2. CASE op = "naive-sdpa"
  BY <1>1, <1>2 DEF KernelTakes, LibraryTakes, Misfit, FP8Kernels, AMXKernels
<1>3. CASE op \in {"fp8-triton-flash", "fp8-hopper-triton-flash"}
  <2>1. /\ p.dtype \in Half /\ p.dim \in {32, 64, 128, 256} /\ Masked(p) /\ SelfAttention(p)
    BY <1>3 DEF Supports, FP8TritonSupports, FP8HopperSupports
  <2> QED BY <1>1, <1>3, <2>1 DEF KernelTakes, TritonKernelTakes, Misfit, FP8Kernels, AMXKernels
<1>4. CASE op = "fp8-scaled-mm"
  <2>1. /\ Masked(p) /\ p.dim \in {64, 96, 128, 192, 256} /\ p.q % 16 = 0 /\ p.kv % 16 = 0
    BY <1>4 DEF Supports, FP8ScaledMMSupports
  <2>2. p.dim % 16 = 0
    BY <2>1
  <2> QED BY <1>1, <1>4, <2>1, <2>2 DEF KernelTakes, ScaledMMTakes, Misfit, FP8Kernels, AMXKernels
<1>5. CASE op \in {"rocm-ck-flash", "nvidia-flash"}
  <2>1. p.dtype \in Half /\ p.dim <= 256 /\ Masked(p)
    <3>1. ASSUME op = "rocm-ck-flash" PROVE p.dtype \in Half /\ p.dim \in {64, 128, 256} /\ Masked(p)
      BY <3>1 DEF Supports, ROCmFlashSupports
    <3>2. ASSUME op = "nvidia-flash"
          PROVE  p.dtype \in Half /\ p.dim \in {64, 96, 128, 192, 256} /\ Masked(p)
      BY <3>2 DEF Supports, HopperFlashSupports
    <3> QED BY <1>5, <3>1, <3>2
  <2> QED BY <1>1, <1>5, <2>1 DEF KernelTakes, LibraryTakes, Misfit, FP8Kernels, AMXKernels
<1>6. CASE op = "transformer-engine-fp8"
  <2>1. p.dtype \in {"bf16", "fp16", "fp8"} /\ Masked(p)
    BY <1>6 DEF Supports, TransformerEngineSupports, Half
  <2> QED BY <1>1, <1>6, <2>1 DEF KernelTakes, LibraryTakes, Misfit, FP8Kernels, AMXKernels
<1>7. CASE op \in AMXKernels
  <2> DEFINE dtype == IF op = "amx-fp16-flash" THEN "fp16" ELSE "bf16"
  <2>1. p.dtype = dtype /\ p.dim \in {64, 128} /\ Masked(p)
    BY <1>7 DEF Supports, AMXFlashSupports, AMXFP16FlashSupports, AMXInt8FlashSupports, AMXKernels
  <2>2. KernelTakes(op, p) <=> Masked(p) /\ AMXKernelTakes(p, dtype)
    BY <1>7 DEF KernelTakes, AMXKernels
  <2>3. Misfit(op, p) <=> p.kind = "neighborhood" \/ ~SelfAttention(p) \/ p.q % 32 # 0
    BY <1>7 DEF Misfit, AMXKernels, FP8Kernels
  <2>4. p.q % 32 = 0 => p.q >= 32
    BY <1>1
  <2> QED BY <1>1, <1>7, <2>1, <2>2, <2>3, <2>4 DEF AMXKernelTakes, AMXKernels
<1>8. CASE op \in {"ipex-flash", "amx-sdpa"}
  <2>1. p.dtype # "fp8" /\ Masked(p)
    BY <1>8 DEF Supports, IPEXFlashSupports, AMXSDPASupports, Half
  <2> QED BY <1>1, <1>8, <2>1 DEF KernelTakes, LibraryTakes, Misfit, FP8Kernels, AMXKernels
<1> QED BY <1>2, <1>3, <1>4, <1>5, <1>6, <1>7, <1>8 DEF AllOps, AMXKernels

\* The kernels that a bridge may end in, and why.
Fused(p, op) ==
    \/ /\ op = "amx-bf16-flash" /\ SelectBackend(p) = "cpu"
       /\ Activated(p) /\ RouteShouldUseAMX(p) /\ op \in p.installed
    \/ /\ SelectBackend(p) # "cpu" /\ Activated(p)
       /\ op = IF SelectBackend(p) = "rocm" THEN "fp8-triton-flash" ELSE "fp8-hopper-triton-flash"
       /\ p.env \notin {"fa", "flash"}
       /\ RouteShouldUseFP8(p) /\ op \in p.installed

\* What a bridge runs, and what of the call it leaves out.
Runs(p, needs, ran) ==
    /\ \/ ran.op = "sdpa"
       \/ ran.op = "flash" /\ p.dtype \in Half /\ p.dim <= 256
       \/ Fused(p, ran.op) /\ "parallel" \notin needs
    /\ Activated(p) => needs \ ran.heeds = needs \cap {"parallel"}
    /\ ~Activated(p) => needs \subseteq ran.heeds

(* What a bridge answers with. *)
LEMMA BridgeRuns ==
    ASSUME NEW p, NEW needs \in SUBSET Needs, NEW finite \in BOOLEAN
    PROVE  LET ran == Bridge(p, needs, finite)
           IN  IF Activated(p) /\ "lse" \in needs THEN ran.op = "raises" ELSE Runs(p, needs, ran)
<1> DEFINE ran == Bridge(p, needs, finite)
           good == IF Activated(p) /\ "lse" \in needs THEN ran.op = "raises"
                   ELSE Runs(p, needs, ran)
<1> SUFFICES good
  OBVIOUS
<1>1. needs \subseteq {"mask", "dropout", "gqa", "causal", "lse", "parallel"}
  BY DEF Needs
<1>2. /\ Sdpa.op = "sdpa" /\ Sdpa.heeds = {"mask", "dropout", "gqa", "causal"}
      /\ \A op : Kernel(op).op = op /\ Kernel(op).heeds = {"causal"}
  BY DEF Sdpa, Kernel, OnlySDPA
<1>3. ASSUME Activated(p), "lse" \notin needs PROVE Runs(p, needs, Sdpa)
  BY <1>1, <1>2, <1>3 DEF Runs
<1>4. ASSUME Activated(p), "lse" \notin needs PROVE Runs(p, needs, NativeFallback(p, needs))
  <2>1. CASE NativeFallback(p, needs) = Sdpa
    BY <1>3, <1>4, <2>1
  <2>2. CASE NativeFallback(p, needs) # Sdpa
    <3>1. /\ NativeFallback(p, needs) = Kernel("flash") /\ p.dtype \in Half /\ p.dim <= 256
          /\ needs \cap {"mask", "dropout", "gqa"} = {}
      BY <2>2 DEF NativeFallback, OnlySDPA
    <3>2. PICK r : r = NativeFallback(p, needs) /\ r.op = "flash" /\ r.heeds = {"causal"}
      BY <1>2, <3>1
    <3>3. needs \ r.heeds = needs \cap {"parallel"}
      BY <1>1, <1>4, <3>1, <3>2
    <3> QED BY <1>4, <3>1, <3>2, <3>3 DEF Runs
  <2> QED BY <2>1, <2>2
<1>5. ASSUME Activated(p), "lse" \notin needs, NEW op, Fused(p, op),
             needs \cap {"mask", "dropout", "gqa", "parallel"} = {}
      PROVE  Runs(p, needs, Kernel(op))
  <2>1. PICK r : r = Kernel(op) /\ r.op = op /\ r.heeds = {"causal"}
    BY <1>2
  <2>2. needs \ r.heeds = needs \cap {"parallel"} /\ "parallel" \notin needs
    BY <1>1, <1>5, <2>1
  <2>3. Fused(p, r.op)
    BY <1>5, <2>1
  <2>4. Runs(p, needs, r)
    BY <1>5, <2>2, <2>3 DEF Runs
  <2> QED BY <2>1, <2>4
<1>6. CASE ~Activated(p)
  <2>1. ran.op = "sdpa" /\ ran.heeds = Needs
    BY <1>6 DEF Bridge, Diffusers
  <2>2. Runs(p, needs, ran)
    <3> HIDE DEF ran
    <3> QED BY <1>6, <2>1 DEF Runs
  <2> QED BY <1>6, <2>2
<1>7. CASE Activated(p) /\ "lse" \in needs
  <2>1. ran = [op |-> "raises", heeds |-> {}]
    BY <1>7 DEF Bridge, AMXAttention, FP8Attention
  <2> QED BY <1>7, <2>1
<1>8. CASE Activated(p) /\ "lse" \notin needs /\ SelectBackend(p) = "cpu"
  <2>1. ran = AMXAttention(p, needs, finite)
    BY <1>8 DEF Bridge
  <2>2. \/ ran = Sdpa
        \/ /\ ran = Kernel("amx-bf16-flash") /\ RouteShouldUseAMX(p)
           /\ "amx-bf16-flash" \in p.installed
           /\ needs \cap {"mask", "dropout", "gqa", "parallel"} = {}
    BY <1>8, <2>1 DEF AMXAttention, OnlySDPA
  <2>3. CASE ran = Sdpa
    BY <1>3, <1>8, <2>3
  <2>4. CASE ran # Sdpa
    <3>1. Fused(p, "amx-bf16-flash")
      BY <1>8, <2>2, <2>4 DEF Fused
    <3> QED BY <1>5, <1>8, <2>2, <2>4, <3>1
  <2> QED BY <2>3, <2>4
<1>9. CASE Activated(p) /\ "lse" \notin needs /\ SelectBackend(p) # "cpu"
  <2> DEFINE op == IF SelectBackend(p) = "rocm" THEN "fp8-triton-flash"
                   ELSE "fp8-hopper-triton-flash"
  <2>1. ran = FP8Attention(p, needs, finite)
    BY <1>9 DEF Bridge
  <2>2. \/ ran = NativeFallback(p, needs)
        \/ /\ ran = Kernel(op) /\ RouteShouldUseFP8(p) /\ op \in p.installed
           /\ p.env \notin {"fa", "flash"}
           /\ needs \cap {"mask", "dropout", "gqa", "parallel"} = {}
    BY <1>9, <2>1 DEF FP8Attention, OnlySDPA
  <2>3. CASE ran = NativeFallback(p, needs)
    BY <1>4, <1>9, <2>3
  <2>4. CASE ran # NativeFallback(p, needs)
    <3>1. Fused(p, op)
      BY <1>9, <2>2, <2>4 DEF Fused
    <3> QED BY <1>5, <1>9, <2>2, <2>4, <3>1
  <2> QED BY <2>3, <2>4
<1> HIDE DEF good
<1> QED BY <1>6, <1>7, <1>8, <1>9

(* A plain call, which is what a problem stands for. *)
LEMMA PlainCall ==
    ASSUME NEW p
    PROVE  Runs(p, {}, Bridge(p, {}, TRUE))
<1>1. {} \in SUBSET Needs /\ "lse" \notin {}
  OBVIOUS
<1> QED BY <1>1, BridgeRuns

(* The settings of the environment that there are.                         *)
LEMMA EnvironmentsAre ==
    /\ \A b \in {"rocm", "cuda"} : Environments(b) = {"", "1", "triton", "scaled_mm", "te", "fa"}
    /\ Environments("cpu") = {"", "1", "amx", "int8", "fp16", "ipex"}
BY DEF Environments

(* What is selected takes the problem: of DispatchFits, the first part.    *)
LEMMA SelectedTakes ==
    ASSUME NEW host \in Hosts, problem \in Problems(host)
    PROVE  KernelTakesIt
<1> DEFINE op == SelectAttentionOp(problem)
           ran == Bridge(problem, {}, TRUE).op
<1> SUFFICES /\ KernelTakes(op, problem) <=> ~Misfit(op, problem)
             /\ KernelTakes(ran, problem) <=> ~Misfit(ran, problem)
             /\ problem.kind = "neighborhood" => op = "naive-sdpa"
  BY DEF KernelTakesIt
<1>1. PICK backend \in {"rocm", "cuda", "cpu"} : AskedOn(problem, backend)
  BY ProblemsAre DEF AskedOn
<1>2. op \in AllOps /\ Supports(op, problem) /\ Plain(problem)
  <2>1. Candidates(backend, problem.env) \in Seq(AllOps)
    <3>1. CASE backend = "rocm"
      BY <3>1, TriedOnROCm
    <3>2. CASE backend = "cuda"
      BY <3>2, TriedOnCUDA
    <3>3. CASE backend = "cpu"
      BY <3>3, TriedOnCPU
    <3> QED BY <3>1, <3>2, <3>3
  <2>2. Range(Candidates(backend, problem.env)) \subseteq AllOps
    BY <2>1 DEF Range
  <2> QED BY <1>1, <2>2 DEF AskedOn, FirstFit
<1> HIDE DEF op
<1>3. /\ op # "naive-sdpa" => Masked(problem)
      /\ KernelTakes(op, problem) <=> ~Misfit(op, problem)
  BY <1>2, SupportsMeans
<1>4. /\ problem.dtype \in {"fp32", "fp16", "bf16", "fp8"} /\ problem.dim \in Nat
      /\ problem.q \in Nat /\ (Masked(problem) <=> problem.kind # "neighborhood")
  BY <1>2 DEF Plain, DTypes, Kinds, Masked
<1>5. \/ ran = "sdpa"
      \/ ran = "flash" /\ problem.dtype \in Half /\ problem.dim <= 256
      \/ Fused(problem, ran)
  BY PlainCall DEF Runs
<1> HIDE DEF ran
<1>6. ASSUME ran \in {"sdpa", "flash"}
      PROVE  KernelTakes(ran, problem) <=> ~Misfit(ran, problem)
  <2>1. ran = "sdpa" \/ (ran = "flash" /\ problem.dtype \in Half /\ problem.dim <= 256)
    BY <1>5, <1>6 DEF Fused
  <2>2. CASE ran = "sdpa"
    BY <1>4, <2>2 DEF KernelTakes, LibraryTakes, Misfit, FP8Kernels, AMXKernels
  <2>3. CASE ran = "flash" /\ problem.dtype \in Half /\ problem.dim <= 256
    BY <1>4, <2>3 DEF KernelTakes, LibraryTakes, Misfit, FP8Kernels, AMXKernels
  <2> QED BY <2>1, <2>2, <2>3
<1>7. ASSUME ran \notin {"sdpa", "flash"} /\ SelectBackend(problem) = "cpu"
      PROVE  KernelTakes(ran, problem) <=> ~Misfit(ran, problem)
  <2>1. /\ ran = "amx-bf16-flash" /\ SelfAttention(problem) /\ problem.q >= 4096
        /\ problem.dtype = "bf16" /\ problem.dim \in {64, 128}
    BY <1>5, <1>7 DEF Fused, RouteShouldUseAMX
  <2>2. problem.q >= 32
    BY <1>4, <2>1
  <2>3. KernelTakes(ran, problem) <=> Masked(problem) /\ problem.q % 32 = 0
    BY <2>1, <2>2 DEF KernelTakes, AMXKernelTakes
  <2>4. Misfit(ran, problem) <=> ~Masked(problem) \/ problem.q % 32 # 0
    BY <1>4, <2>1 DEF Misfit, FP8Kernels, AMXKernels
  <2> QED BY <2>3, <2>4
<1>8. ASSUME ran \notin {"sdpa", "flash"} /\ SelectBackend(problem) # "cpu"
      PROVE  KernelTakes(ran, problem) <=> ~Misfit(ran, problem)
  <2>1. /\ ran \in {"fp8-triton-flash", "fp8-hopper-triton-flash"}
        /\ SelfAttention(problem) /\ problem.dim \in {32, 64, 128, 256}
    BY <1>5, <1>8 DEF Fused, RouteShouldUseFP8
  <2>2. KernelTakes(ran, problem) <=> Masked(problem) /\ problem.arch \in FP8Archs
    BY <2>1 DEF KernelTakes, TritonKernelTakes
  <2>3. Misfit(ran, problem) <=> ~Masked(problem) \/ problem.arch \notin FP8Archs
    BY <1>4, <2>1 DEF Misfit, FP8Kernels, AMXKernels
  <2> QED BY <2>2, <2>3
<1>9. problem.kind = "neighborhood" => op = "naive-sdpa"
  BY <1>3, <1>4
<1> QED BY <1>3, <1>6, <1>7, <1>8, <1>9

(* The bridges run what the registry selects: the second part.             *)
LEMMA BridgeMirrors ==
    ASSUME NEW host \in Hosts, problem \in Problems(host)
    PROVE  BridgeMirrorsRegistry
<1> DEFINE ran == Bridge(problem, {}, TRUE).op
<1> SUFFICES ASSUME problem.kind # "neighborhood", problem.env # "scaled_mm",
                    ran \notin {"sdpa", "flash"}
             PROVE  ran = SelectAttentionOp(problem)
  BY DEF BridgeMirrorsRegistry
<1>1. \/ /\ ran = "amx-bf16-flash" /\ SelectBackend(problem) = "cpu"
         /\ Activated(problem) /\ RouteShouldUseAMX(problem) /\ ran \in problem.installed
      \/ /\ SelectBackend(problem) # "cpu" /\ Activated(problem)
         /\ ran = IF SelectBackend(problem) = "rocm" THEN "fp8-triton-flash"
                  ELSE "fp8-hopper-triton-flash"
         /\ problem.env \notin {"fa", "flash"}
         /\ RouteShouldUseFP8(problem) /\ ran \in problem.installed
  BY PlainCall DEF Runs, Fused
<1> HIDE DEF ran
<1>2. PICK backend \in {"rocm", "cuda", "cpu"} : AskedOn(problem, backend)
  BY ProblemsAre
<1>3. /\ SelectBackend(problem) = backend
      /\ FirstFit(problem, Candidates(backend, problem.env))
      /\ Masked(problem) /\ problem.q \in Nat /\ problem.kv \in Nat
  BY <1>2 DEF AskedOn, Plain, Kinds, Masked
<1>4. CASE backend = "cpu"
  <2>1. /\ ran = "amx-bf16-flash" /\ RouteShouldUseAMX(problem) /\ ran \in problem.installed
        /\ problem.env \in On \cup {"amx"}
    BY <1>1, <1>3, <1>4 DEF Activated
  <2>2. Supports("amx-bf16-flash", problem) /\ ~Supports("amx-fp16-flash", problem)
    BY <1>3, <2>1 DEF Supports, AMXFlashSupports, AMXFP16FlashSupports, RouteShouldUseAMX
  <2>3. CASE problem.env \in On
    <3>1. /\ Candidates("cpu", problem.env)[1] = "amx-fp16-flash"
          /\ Candidates("cpu", problem.env)[2] = "amx-bf16-flash"
          /\ Candidates("cpu", problem.env) \in Seq(AllOps)
      BY <2>3, TriedOnCPU
    <3>2. 2 \in DOMAIN Candidates("cpu", problem.env)
      BY <2>3, TriedOnCPU
    <3> QED BY <1>3, <1>4, <2>1, <2>2, <3>1, <3>2 DEF FirstFit
  <2>4. CASE problem.env = "amx"
    <3>1. Candidates("cpu", problem.env)[1] = "amx-bf16-flash"
      BY <2>4, TriedOnCPU
    <3> QED BY <1>3, <1>4, <2>1, <2>2, <3>1 DEF FirstFit
  <2> QED BY <2>1, <2>3, <2>4
<1>5. CASE backend \in {"rocm", "cuda"}
  <2>1. /\ ran = IF backend = "rocm" THEN "fp8-triton-flash" ELSE "fp8-hopper-triton-flash"
        /\ RouteShouldUseFP8(problem) /\ ran \in problem.installed
        /\ problem.env \in On \cup {"triton"}
    BY <1>1, <1>3, <1>5 DEF Activated
  <2>2. Supports(ran, problem)
    <3>1. /\ problem.dtype \in Half /\ problem.dim \in {32, 64, 128, 256}
          /\ SelfAttention(problem) /\ problem.q >= 128 /\ problem.kv >= 128
      BY <1>3, <2>1 DEF RouteShouldUseFP8, SelfAttention
    <3>2. CASE ran = "fp8-triton-flash"
      <4>1. FP8TritonSupports(problem)
        BY <1>3, <2>1, <3>1, <3>2 DEF FP8TritonSupports
      <4> QED BY <3>2, <4>1 DEF Supports
    <3>3. CASE ran = "fp8-hopper-triton-flash"
      <4>1. FP8HopperSupports(problem)
        BY <1>3, <2>1, <3>1, <3>3 DEF FP8HopperSupports
      <4> QED BY <3>3, <4>1 DEF Supports
    <3> QED BY <2>1, <3>2, <3>3
  <2>3. Candidates(backend, problem.env)[1] = ran
    <3>1. CASE backend = "rocm"
      BY <2>1, <3>1, TriedOnROCm
    <3>2. CASE backend = "cuda"
      BY <2>1, <3>2, TriedOnCUDA
    <3> QED BY <1>5, <3>1, <3>2
  <2> QED BY <1>3, <2>2, <2>3 DEF FirstFit
<1> QED BY <1>4, <1>5

(* The bridges heed what the call asks for, but for its parallel           *)
(* configuration: the third part.                                          *)
LEMMA BridgeHeeds == problem.kind = "full" => BridgeHeedsTheCall
<1> SUFFICES ASSUME NEW needs \in SUBSET Needs, NEW finite \in BOOLEAN
             PROVE  LET ran == Bridge(problem, needs, finite)
                    IN  IF ~Activated(problem) THEN needs \subseteq ran.heeds
                        ELSE IF "lse" \in needs THEN ran.op = "raises"
                        ELSE /\ needs \ ran.heeds = needs \cap {"parallel"}
                             /\ "parallel" \in needs => ran.op \in {"sdpa", "flash"}
  BY DEF BridgeHeedsTheCall
<1> DEFINE ran == Bridge(problem, needs, finite)
<1>1. IF Activated(problem) /\ "lse" \in needs THEN ran.op = "raises"
      ELSE Runs(problem, needs, ran)
  BY BridgeRuns
<1> HIDE DEF ran
<1>2. CASE ~Activated(problem)
  BY <1>1, <1>2 DEF Runs, ran
<1>3. CASE Activated(problem) /\ "lse" \in needs
  BY <1>1, <1>3 DEF ran
<1>4. CASE Activated(problem) /\ "lse" \notin needs
  BY <1>1, <1>4 DEF Runs, ran
<1> QED BY <1>2, <1>3, <1>4

ProblemIs == problem = NoProblem \/ \E host \in Hosts : problem \in Problems(host)

(* The three parts.                                                        *)
LEMMA FitsAlways == ProblemIs => DispatchFits
<1> SUFFICES ASSUME ProblemIs, problem # NoProblem PROVE DispatchFits
  BY DEF DispatchFits, KernelTakesIt, BridgeMirrorsRegistry, BridgeHeedsTheCall, Asked
<1>1. PICK host \in Hosts : problem \in Problems(host)
  BY DEF ProblemIs
<1>2. KernelTakesIt /\ BridgeMirrorsRegistry
  BY <1>1, SelectedTakes, BridgeMirrors
<1>3. BridgeHeedsTheCall
  <2>1. problem.kind # "full" => BridgeHeedsTheCall
    BY DEF BridgeHeedsTheCall
  <2> QED BY <2>1, BridgeHeeds
<1> QED BY <1>2, <1>3 DEF DispatchFits

(* Whatever problem a host is asked, with a GPU or without, and whatever   *)
(* is set and installed: the kernel behind the op that is selected, or     *)
(* behind a bridge, takes the problem exactly when it is not one of the    *)
(* misfits (a window; FP8 tensors for the reference; FP8 kernels on a GPU  *)
(* without FP8; lengths that an AMX kernel refuses); a bridge runs the op  *)
(* that the registry names for the same call, or falls back; and it heeds  *)
(* every argument of the call, except that what it falls back to is not    *)
(* told of a parallel configuration.                                       *)
THEOREM WhatIsChosenFits == MCSpec => []DispatchFits
<1>1. MCInit => ProblemIs
  BY DEF MCInit, ProblemIs
<1>2. ProblemIs /\ [MCNext]_<<part, vars, tunerVars, problem, machine, opsVars>> => ProblemIs'
  <2> SUFFICES ASSUME ProblemIs, [MCNext]_<<part, vars, tunerVars, problem, machine, opsVars>>
               PROVE  ProblemIs'
    OBVIOUS
  <2>1. problem' = problem
    BY DEF MCNext
  <2> QED BY <2>1 DEF ProblemIs, NoProblem, Hosts, Problems
<1>3. ProblemIs => DispatchFits
  BY FitsAlways
<1> QED BY <1>1, <1>2, <1>3, PTL DEF MCSpec

-----------------------------------------------------------------------------
(* What is told of a machine *)

AddRanges(a, b) == Range(a \o b) = Range(a) \cup Range(b)

(* Lists that are joined hold what each of them holds.                     *)
LEMMA TwoRanges ==
    ASSUME NEW S, NEW a \in Seq(S), NEW b \in Seq(S)
    PROVE  AddRanges(a, b)
BY Joined DEF AddRanges

AddFive(a, b, c, d, e) ==
    Range(a \o b \o c \o d \o e) = Range(a) \cup Range(b) \cup Range(c) \cup Range(d) \cup Range(e)

AddFour(a, b, c, d) == Range(a \o b \o c \o d) = Range(a) \cup Range(b) \cup Range(c) \cup Range(d)

LEMMA FiveRanges ==
    ASSUME NEW S, NEW a \in Seq(S), NEW b \in Seq(S), NEW c \in Seq(S), NEW d \in Seq(S),
           NEW e \in Seq(S)
    PROVE  AddFour(a, b, c, d) /\ AddFive(a, b, c, d, e)
<1>1. a \o b \in Seq(S) /\ a \o b \o c \in Seq(S) /\ a \o b \o c \o d \in Seq(S)
  OBVIOUS
<1>2. PICK x \in Seq(S), y \in Seq(S), z \in Seq(S) :
          x = a \o b /\ y = a \o b \o c /\ z = a \o b \o c \o d
  BY <1>1
<1>3. AddRanges(a, b) /\ AddRanges(x, c) /\ AddRanges(y, d) /\ AddRanges(z, e)
  BY TwoRanges
<1> QED BY <1>2, <1>3 DEF AddRanges, AddFour, AddFive

ListsIf(s, wanted, op) ==
    s \in Seq(AllOps) /\ (wanted => Range(s) = {op}) /\ (~wanted => Range(s) = {})

(* An op that is listed under a condition.                                 *)
LEMMA RangeIf ==
    ASSUME NEW wanted, NEW op \in AllOps
    PROVE  ListsIf(If(wanted, op), wanted, op)
<1>1. CASE wanted
  <2>1. If(wanted, op) = <<op>>
    BY <1>1 DEF If
  <2>2. <<op>> \in Seq(AllOps) /\ Range(<<op>>) = {op}
    BY ShortSeqs, RangesOf
  <2> QED BY <1>1, <2>1, <2>2 DEF ListsIf
<1>2. CASE ~wanted
  <2>1. If(wanted, op) = <<>>
    BY <1>2 DEF If
  <2>2. <<>> \in Seq(AllOps) /\ Range(<<>>) = {}
    BY ShortSeqs, RangesOf
  <2> QED BY <1>2, <2>1, <2>2 DEF ListsIf
<1> QED BY <1>1, <1>2

\* What a list that is joined of others has in order.
Order2(a, b) ==
    \A x, y : Before(a \o b, x, y)
                 <=> Before(a, x, y) \/ Before(b, x, y) \/ (x \in Range(a) /\ y \in Range(b))

LEMMA TwoInOrder ==
    ASSUME NEW S, NEW a \in Seq(S), NEW b \in Seq(S)
    PROVE  Order2(a, b)
<1> DEFINE c == a \o b
<1>1. /\ Len(a) \in Nat /\ Len(b) \in Nat
      /\ DOMAIN a = 1..Len(a) /\ DOMAIN b = 1..Len(b) /\ DOMAIN c = 1..Len(a) + Len(b)
      /\ \A i \in 1..Len(a) : c[i] = a[i]
      /\ \A i \in 1..Len(b) : c[Len(a) + i] = b[i]
  OBVIOUS
<1> HIDE DEF c
<1> SUFFICES ASSUME NEW x, NEW y
             PROVE  Before(c, x, y) <=> Before(a, x, y) \/ Before(b, x, y)
                                           \/ (x \in Range(a) /\ y \in Range(b))
  BY DEF Order2, c
<1>2. ASSUME Before(c, x, y)
      PROVE  Before(a, x, y) \/ Before(b, x, y) \/ (x \in Range(a) /\ y \in Range(b))
  <2>1. PICK i \in DOMAIN c, j \in DOMAIN c : i < j /\ c[i] = x /\ c[j] = y
    BY <1>2 DEF Before
  <2>2. CASE j \in 1..Len(a)
    <3>1. i \in 1..Len(a)
      BY <1>1, <2>1, <2>2
    <3>2. a[i] = x /\ a[j] = y
      BY <1>1, <2>1, <2>2, <3>1
    <3> QED BY <1>1, <2>1, <2>2, <3>1, <3>2 DEF Before
  <2>3. CASE j \notin 1..Len(a)
    <3>1. j - Len(a) \in 1..Len(b) /\ Len(a) + (j - Len(a)) = j
      BY <1>1, <2>1, <2>3
    <3>2. b[j - Len(a)] = y
      BY <1>1, <2>1, <3>1
    <3>3. CASE i \in 1..Len(a)
      <4>1. a[i] = x
        BY <1>1, <2>1, <3>3
      <4> QED BY <1>1, <3>1, <3>2, <3>3, <4>1 DEF Range
    <3>4. CASE i \notin 1..Len(a)
      <4>1. /\ i - Len(a) \in 1..Len(b) /\ Len(a) + (i - Len(a)) = i
            /\ i - Len(a) < j - Len(a)
        BY <1>1, <2>1, <3>4
      <4>2. b[i - Len(a)] = x
        BY <1>1, <2>1, <4>1
      <4> QED BY <1>1, <3>1, <3>2, <4>1, <4>2 DEF Before
    <3> QED BY <3>3, <3>4
  <2> QED BY <2>2, <2>3
<1>3. ASSUME Before(a, x, y) PROVE Before(c, x, y)
  <2>1. PICK i \in DOMAIN a, j \in DOMAIN a : i < j /\ a[i] = x /\ a[j] = y
    BY <1>3 DEF Before
  <2>2. i \in DOMAIN c /\ j \in DOMAIN c /\ c[i] = x /\ c[j] = y
    BY <1>1, <2>1
  <2> QED BY <2>1, <2>2 DEF Before
<1>4. ASSUME Before(b, x, y) PROVE Before(c, x, y)
  <2>1. PICK i \in DOMAIN b, j \in DOMAIN b : i < j /\ b[i] = x /\ b[j] = y
    BY <1>4 DEF Before
  <2>2. /\ Len(a) + i \in DOMAIN c /\ Len(a) + j \in DOMAIN c /\ Len(a) + i < Len(a) + j
        /\ c[Len(a) + i] = x /\ c[Len(a) + j] = y
    BY <1>1, <2>1
  <2> QED BY <2>2 DEF Before
<1>5. ASSUME x \in Range(a), y \in Range(b) PROVE Before(c, x, y)
  <2>1. PICK i \in DOMAIN a, j \in DOMAIN b : a[i] = x /\ b[j] = y
    BY <1>5 DEF Range
  <2>2. /\ i \in DOMAIN c /\ Len(a) + j \in DOMAIN c /\ i < Len(a) + j
        /\ c[i] = x /\ c[Len(a) + j] = y
    BY <1>1, <2>1
  <2> QED BY <2>2 DEF Before
<1> QED BY <1>2, <1>3, <1>4, <1>5

Order3(a, b, c) ==
    \A x, y : Before(a \o b \o c, x, y)
                 <=> \/ Before(a, x, y) \/ Before(b, x, y) \/ Before(c, x, y)
                     \/ x \in Range(a) /\ y \in Range(b) \cup Range(c)
                     \/ x \in Range(b) /\ y \in Range(c)

LEMMA ThreeInOrder ==
    ASSUME NEW S, NEW a \in Seq(S), NEW b \in Seq(S), NEW c \in Seq(S)
    PROVE  Order3(a, b, c)
<1>0. a \o b \in Seq(S)
  OBVIOUS
<1>1. PICK z \in Seq(S) : z = a \o b
  BY <1>0
<1>2. Order2(a, b) /\ Order2(z, c) /\ AddRanges(a, b)
  BY TwoInOrder, TwoRanges
<1>3. \A x, y : /\ Before(z, x, y)
                      <=> Before(a, x, y) \/ Before(b, x, y) \/ (x \in Range(a) /\ y \in Range(b))
                /\ Before(z \o c, x, y)
                      <=> Before(z, x, y) \/ Before(c, x, y) \/ (x \in Range(z) /\ y \in Range(c))
  BY <1>1, <1>2 DEF Order2
<1>4. Range(z) = Range(a) \cup Range(b)
  BY <1>1, <1>2 DEF AddRanges
<1>5. z \o c = a \o b \o c
  BY <1>1
<1>6. \A x, y : Before(z \o c, x, y)
                 <=> \/ Before(a, x, y) \/ Before(b, x, y) \/ Before(c, x, y)
                     \/ x \in Range(a) /\ y \in Range(b) \cup Range(c)
                     \/ x \in Range(b) /\ y \in Range(c)
  BY <1>3, <1>4
<1> QED BY <1>5, <1>6 DEF Order3

Order4(a, b, c, d) ==
    \A x, y : Before(a \o b \o c \o d, x, y)
                 <=> \/ Before(a, x, y) \/ Before(b, x, y) \/ Before(c, x, y) \/ Before(d, x, y)
                     \/ x \in Range(a) /\ y \in Range(b) \cup Range(c) \cup Range(d)
                     \/ x \in Range(b) /\ y \in Range(c) \cup Range(d)
                     \/ x \in Range(c) /\ y \in Range(d)

LEMMA FourInOrder ==
    ASSUME NEW S, NEW a \in Seq(S), NEW b \in Seq(S), NEW c \in Seq(S), NEW d \in Seq(S)
    PROVE  Order4(a, b, c, d)
<1>0. a \o b \in Seq(S) /\ a \o b \o c \in Seq(S)
  OBVIOUS
<1>1. PICK x \in Seq(S), z \in Seq(S) : x = a \o b /\ z = a \o b \o c
  BY <1>0
<1>2. Order3(a, b, c) /\ Order2(z, d) /\ AddRanges(a, b) /\ AddRanges(x, c)
  BY ThreeInOrder, TwoInOrder, TwoRanges
<1>3. \A v, w : /\ Before(z, v, w)
                      <=> \/ Before(a, v, w) \/ Before(b, v, w) \/ Before(c, v, w)
                          \/ v \in Range(a) /\ w \in Range(b) \cup Range(c)
                          \/ v \in Range(b) /\ w \in Range(c)
                /\ Before(z \o d, v, w)
                      <=> Before(z, v, w) \/ Before(d, v, w) \/ (v \in Range(z) /\ w \in Range(d))
  BY <1>1, <1>2 DEF Order2, Order3
<1>4. Range(z) = Range(a) \cup Range(b) \cup Range(c)
  BY <1>1, <1>2 DEF AddRanges
<1>5. z \o d = a \o b \o c \o d
  BY <1>1
<1>6. \A v, w : Before(z \o d, v, w)
                 <=> \/ Before(a, v, w) \/ Before(b, v, w) \/ Before(c, v, w) \/ Before(d, v, w)
                     \/ v \in Range(a) /\ w \in Range(b) \cup Range(c) \cup Range(d)
                     \/ v \in Range(b) /\ w \in Range(c) \cup Range(d)
                     \/ v \in Range(c) /\ w \in Range(d)
  BY <1>3, <1>4
<1> QED BY <1>5, <1>6 DEF Order4

Order5(a, b, c, d, e) ==
    \A x, y : Before(a \o b \o c \o d \o e, x, y)
                 <=> \/ Before(a, x, y) \/ Before(b, x, y) \/ Before(c, x, y) \/ Before(d, x, y)
                     \/ Before(e, x, y)
                     \/ x \in Range(a) /\ y \in Range(b) \cup Range(c) \cup Range(d) \cup Range(e)
                     \/ x \in Range(b) /\ y \in Range(c) \cup Range(d) \cup Range(e)
                     \/ x \in Range(c) /\ y \in Range(d) \cup Range(e)
                     \/ x \in Range(d) /\ y \in Range(e)

LEMMA FiveInOrder ==
    ASSUME NEW S, NEW a \in Seq(S), NEW b \in Seq(S), NEW c \in Seq(S), NEW d \in Seq(S),
           NEW e \in Seq(S)
    PROVE  Order5(a, b, c, d, e)
<1>0. a \o b \o c \o d \in Seq(S)
  <2>1. a \o b \in Seq(S) /\ a \o b \o c \in Seq(S)
    OBVIOUS
  <2>2. PICK y \in Seq(S) : y = a \o b \o c
    BY <2>1
  <2>3. y \o d \in Seq(S)
    OBVIOUS
  <2> QED BY <2>2, <2>3
<1>1. PICK z \in Seq(S) : z = a \o b \o c \o d
  BY <1>0
<1>2. Order4(a, b, c, d) /\ Order2(z, e) /\ AddFour(a, b, c, d)
  BY <1>1, FourInOrder, TwoInOrder, FiveRanges
<1>3. \A v, w : /\ Before(z \o e, v, w)
                      <=> Before(z, v, w) \/ Before(e, v, w) \/ (v \in Range(z) /\ w \in Range(e))
                /\ Before(z, v, w)
                      <=> \/ Before(a, v, w) \/ Before(b, v, w) \/ Before(c, v, w) \/ Before(d, v, w)
                          \/ v \in Range(a) /\ w \in Range(b) \cup Range(c) \cup Range(d)
                          \/ v \in Range(b) /\ w \in Range(c) \cup Range(d)
                          \/ v \in Range(c) /\ w \in Range(d)
  BY <1>1, <1>2 DEF Order2, Order4
<1>4. Range(z) = Range(a) \cup Range(b) \cup Range(c) \cup Range(d)
  BY <1>1, <1>2 DEF AddFour
<1>5. z \o e = a \o b \o c \o d \o e
  BY <1>1
<1>6. \A v, w : Before(z \o e, v, w)
                 <=> \/ Before(a, v, w) \/ Before(b, v, w) \/ Before(c, v, w) \/ Before(d, v, w)
                     \/ Before(e, v, w)
                     \/ v \in Range(a) /\ w \in Range(b) \cup Range(c) \cup Range(d) \cup Range(e)
                     \/ v \in Range(b) /\ w \in Range(c) \cup Range(d) \cup Range(e)
                     \/ v \in Range(c) /\ w \in Range(d) \cup Range(e)
                     \/ v \in Range(d) /\ w \in Range(e)
  BY <1>3, <1>4
<1> QED BY <1>5, <1>6 DEF Order5

(* Short lists.                                                            *)
LEMMA ShortInOrder ==
    /\ \A x, y : ~Before(<<>>, x, y)
    /\ \A a, x, y : ~Before(<<a>>, x, y)
    /\ \A a, b, x, y : Before(<<a, b>>, x, y) <=> x = a /\ y = b
<1>1. \A x, y : ~Before(<<>>, x, y)
  BY DEF Before
<1>2. \A a, x, y : ~Before(<<a>>, x, y)
  BY DEF Before
<1>3. \A a, b, x, y : Before(<<a, b>>, x, y) <=> x = a /\ y = b
  <2> TAKE a, b, x, y
  <2>1. DOMAIN <<a, b>> = {1, 2} /\ <<a, b>>[1] = a /\ <<a, b>>[2] = b
    OBVIOUS
  <2> QED BY <2>1 DEF Before
<1> QED BY <1>1, <1>2, <1>3

IfHolds(s, op) ==
    s \in Seq(AllOps) /\ Range(s) \subseteq {op} /\ \A x, y : ~Before(s, x, y)

(* An op that is listed or tried under a condition is before nothing.      *)
LEMMA IfInOrder ==
    ASSUME NEW wanted, NEW op \in AllOps
    PROVE  IfHolds(If(wanted, op), op)
<1>1. If(wanted, op) = <<op>> \/ If(wanted, op) = <<>>
  BY DEF If
<1>2. /\ <<>> \in Seq(AllOps) /\ <<op>> \in Seq(AllOps)
      /\ Range(<<>>) = {} /\ Range(<<op>>) = {op}
  BY ShortSeqs, RangesOf
<1>3. CASE If(wanted, op) = <<op>>
  BY <1>2, <1>3, ShortInOrder DEF IfHolds
<1>4. CASE If(wanted, op) = <<>>
  BY <1>2, <1>4, ShortInOrder DEF IfHolds
<1> QED BY <1>1, <1>3, <1>4

(* What is told of a machine. *)
LEMMA ToldOnROCm ==
    ASSUME NEW m
    PROVE  /\ Range(TellsOps(m, "rocm")) \subseteq {"rocm-ck-flash", "naive-sdpa"}
           /\ "naive-sdpa" \in Range(TellsOps(m, "rocm"))
           /\ "rocm-ck-flash" \in Range(TellsOps(m, "rocm")) <=> Loads(m, "rocm-ck-flash")
<1> DEFINE a == Listed(m, "rocm-ck-flash")
           t == <<"naive-sdpa">>
<1>1. "rocm-ck-flash" \in AllOps /\ "naive-sdpa" \in AllOps
  BY DEF AllOps
<1>2. ListsIf(a, Loads(m, "rocm-ck-flash"), "rocm-ck-flash")
  BY <1>1, RangeIf DEF Listed
<1>3. t \in Seq(AllOps) /\ Range(t) = {"naive-sdpa"}
  BY <1>1, ShortSeqs, RangesOf
<1>4. TellsOps(m, "rocm") = a \o t
  BY DEF TellsOps, ROCmOps
<1> HIDE DEF a, t
<1>5. AddRanges(a, t)
  BY <1>2, <1>3, TwoRanges DEF ListsIf
<1> QED BY <1>2, <1>3, <1>4, <1>5 DEF ListsIf, AddRanges

LEMMA ToldOnCUDA ==
    ASSUME NEW m
    PROVE  LET told == Range(TellsOps(m, "cuda"))
           IN  /\ told \subseteq {"transformer-engine-fp8", "fp8-hopper-triton-flash",
                                  "nvidia-flash", "naive-sdpa"}
               /\ "naive-sdpa" \in told
               /\ \A op \in {"transformer-engine-fp8", "fp8-hopper-triton-flash", "nvidia-flash"} :
                     op \in told <=> Loads(m, op)
<1> DEFINE a == Listed(m, "transformer-engine-fp8")
           b == Listed(m, "fp8-hopper-triton-flash")
           c == Listed(m, "nvidia-flash")
           t == <<"naive-sdpa">>
<1>1. /\ "transformer-engine-fp8" \in AllOps /\ "fp8-hopper-triton-flash" \in AllOps
      /\ "nvidia-flash" \in AllOps /\ "naive-sdpa" \in AllOps
  BY DEF AllOps
<1>2. /\ ListsIf(a, Loads(m, "transformer-engine-fp8"), "transformer-engine-fp8")
      /\ ListsIf(b, Loads(m, "fp8-hopper-triton-flash"), "fp8-hopper-triton-flash")
      /\ ListsIf(c, Loads(m, "nvidia-flash"), "nvidia-flash")
  BY <1>1, RangeIf DEF Listed
<1>3. t \in Seq(AllOps) /\ Range(t) = {"naive-sdpa"}
  BY <1>1, ShortSeqs, RangesOf
<1>4. TellsOps(m, "cuda") = a \o b \o c \o t
  BY DEF TellsOps, CUDAOps
<1> HIDE DEF a, b, c, t
<1>5. AddFour(a, b, c, t)
  BY <1>2, <1>3, FiveRanges DEF ListsIf
<1> QED BY <1>2, <1>3, <1>4, <1>5 DEF ListsIf, AddFour

LEMMA ToldOnCPU ==
    ASSUME NEW m
    PROVE  LET told == Range(TellsOps(m, "cpu"))
           IN  /\ told \subseteq CPUFlashOps \cup {"amx-sdpa", "naive-sdpa"}
               /\ "naive-sdpa" \in told /\ "amx-sdpa" \in told
               /\ \A op \in CPUFlashOps : op \in told => Loads(m, op)
               /\ \A op \in CPUFlashOps : Loads(m, op) =>
                     op \in told \/ (op = "ipex-flash" /\ "amx_bf16" \notin m.cpu.flags)
<1> DEFINE w1 == "amx_bf16" \in m.cpu.flags /\ Loads(m, "amx-bf16-flash")
           w2 == "amx_bf16" \in m.cpu.flags /\ Loads(m, "ipex-flash")
           w3 == "amx_int8" \in m.cpu.flags /\ Loads(m, "amx-int8-flash")
           w4 == "amx_fp16" \in m.cpu.flags /\ Loads(m, "amx-fp16-flash")
           a == If(w1, "amx-bf16-flash")
           b == If(w2, "ipex-flash")
           c == If(w3, "amx-int8-flash")
           d == If(w4, "amx-fp16-flash")
           t == <<"amx-sdpa", "naive-sdpa">>
<1>1. /\ "amx-bf16-flash" \in AllOps /\ "ipex-flash" \in AllOps
      /\ "amx-int8-flash" \in AllOps /\ "amx-fp16-flash" \in AllOps
      /\ "amx-sdpa" \in AllOps /\ "naive-sdpa" \in AllOps
  BY DEF AllOps
<1>2. /\ (w1 <=> Loads(m, "amx-bf16-flash")) /\ (w2 => Loads(m, "ipex-flash"))
      /\ (w3 <=> Loads(m, "amx-int8-flash")) /\ (w4 <=> Loads(m, "amx-fp16-flash"))
      /\ Loads(m, "ipex-flash") => w2 \/ "amx_bf16" \notin m.cpu.flags
  BY DEF Loads, AMXLoads
<1>3. t \in Seq(AllOps) /\ Range(t) = {"amx-sdpa", "naive-sdpa"}
  BY <1>1, ShortSeqs, RangesOf
<1>4. TellsOps(m, "cpu") = a \o b \o c \o d \o t
  BY DEF TellsOps, CPUOps
<1> HIDE DEF w1, w2, w3, w4
<1>5. /\ ListsIf(a, w1, "amx-bf16-flash") /\ ListsIf(b, w2, "ipex-flash")
      /\ ListsIf(c, w3, "amx-int8-flash") /\ ListsIf(d, w4, "amx-fp16-flash")
  BY <1>1, RangeIf
<1> HIDE DEF a, b, c, d, t
<1>6. AddFive(a, b, c, d, t)
  BY <1>3, <1>5, FiveRanges DEF ListsIf
<1> QED BY <1>2, <1>3, <1>4, <1>5, <1>6 DEF ListsIf, AddFive, CPUFlashOps

(* A head dimension and a length are asked for that every op takes. *)
Exercised == 64 \in Dims /\ \E l \in Lengths : l[1] = l[2] /\ l[1] >= 128 /\ l[1] % 32 = 0

(* What is asked on a machine is asked of the backend that it has.         *)
LEMMA HomeIs ==
    ASSUME NEW m
    PROVE  /\ Home(m) \in {"rocm", "cuda", "cpu"}
           /\ \A env, dtype, kind, dim, l :
                 SelectBackend(Asking(m, env, dtype, kind, dim, l)) = Home(m)
<1>1. Vendor(m) \in {"rocm", "cuda", "none"}
  BY DEF Vendor
<1>2. \A env, dtype, kind, dim, l :
          /\ Asking(m, env, dtype, kind, dim, l).gpu = Vendor(m)
          /\ Asking(m, env, dtype, kind, dim, l).prefer = "none"
  BY DEF Asking
<1>3. CASE Vendor(m) = "rocm"
  BY <1>2, <1>3, BackendIs DEF Home
<1>4. CASE Vendor(m) = "cuda"
  BY <1>2, <1>4, BackendIs DEF Home
<1>5. CASE Vendor(m) = "none"
  BY <1>2, <1>5, BackendIs DEF Home
<1> QED BY <1>1, <1>3, <1>4, <1>5

\* The ops whose kernels are imported, of those that `repercep info` knows.
Imported ==
    CPUFlashOps \cup {"rocm-ck-flash", "nvidia-flash", "fp8-hopper-triton-flash",
                      "transformer-engine-fp8"}

(* An op is only selected where its kernel can be loaded.                  *)
LEMMA SupportsNeedsKernel ==
    ASSUME NEW p, NEW op \in Imported, Supports(op, p)
    PROVE  op \in p.installed
<1>1. CASE op = "amx-bf16-flash"
  BY <1>1 DEF Supports, AMXFlashSupports
<1>2. CASE op = "amx-fp16-flash"
  BY <1>2 DEF Supports, AMXFP16FlashSupports
<1>3. CASE op = "amx-int8-flash"
  BY <1>3 DEF Supports, AMXInt8FlashSupports
<1>4. CASE op = "ipex-flash"
  BY <1>4 DEF Supports, IPEXFlashSupports
<1>5. CASE op = "rocm-ck-flash"
  BY <1>5 DEF Supports, ROCmFlashSupports
<1>6. CASE op = "nvidia-flash"
  BY <1>6 DEF Supports, HopperFlashSupports
<1>7. CASE op = "fp8-hopper-triton-flash"
  BY <1>7 DEF Supports, FP8HopperSupports
<1>8. CASE op = "transformer-engine-fp8"
  BY <1>8 DEF Supports, TransformerEngineSupports
<1> QED BY <1>1, <1>2, <1>3, <1>4, <1>5, <1>6, <1>7, <1>8 DEF Imported, CPUFlashOps

(* What is asked on a machine, and what is selected for it. *)
LEMMA AsksAre ==
    ASSUME NEW m, NEW envs, NEW p \in Asks(m, envs)
    PROVE  /\ p.env \in envs /\ p.installed = Installed(m) /\ p.arch = Arch(m) /\ Plain(p)
           /\ SelectBackend(p) = Home(m) /\ Home(m) \in {"rocm", "cuda", "cpu"}
           /\ FirstFit(p, Candidates(Home(m), p.env))
           /\ SelectAttentionOp(p) \in AllOps
<1>1. PICK env \in envs, dtype \in DTypes, kind \in {"full", "neighborhood"}, dim \in Dims,
           l \in Lengths : p = Asking(m, env, dtype, kind, dim, l)
  BY DEF Asks
<1>2. /\ p.env = env /\ p.installed = Installed(m) /\ p.arch = Arch(m)
      /\ p.dtype = dtype /\ p.kind = kind /\ p.dim = dim /\ p.q = l[1] /\ p.kv = l[2]
  BY <1>1 DEF Asking
<1>3. Plain(p)
  BY <1>2, DispatchAssumption DEF Plain, Kinds
<1>4. SelectBackend(p) = Home(m) /\ Home(m) \in {"rocm", "cuda", "cpu"}
  BY <1>1, HomeIs
<1>5. FirstFit(p, Candidates(Home(m), p.env))
  BY <1>4, FirstFits
<1>6. SelectAttentionOp(p) \in AllOps
  <2>1. Candidates(Home(m), p.env) \in Seq(AllOps)
    BY <1>4, TriedOnROCm, TriedOnCUDA, TriedOnCPU
  <2>2. Range(Candidates(Home(m), p.env)) \subseteq AllOps
    BY <2>1 DEF Range
  <2> QED BY <1>5, <2>2 DEF FirstFit
<1> QED BY <1>2, <1>3, <1>4, <1>5, <1>6

(* What is picked was tried, and its kernel loads. *)
LEMMA PickedLoads ==
    ASSUME NEW m, NEW envs, NEW op \in PickedIn(m, envs)
    PROVE  \E env \in envs :
              /\ op \in Range(Candidates(Home(m), env))
              /\ op \in Imported => Loads(m, op)
<1>1. PICK p \in Asks(m, envs) : op = SelectAttentionOp(p)
  BY DEF PickedIn
<1>2. /\ p.env \in envs /\ p.installed = Installed(m)
      /\ FirstFit(p, Candidates(Home(m), p.env))
  BY AsksAre
<1>3. op \in Range(Candidates(Home(m), p.env)) /\ Supports(op, p)
  BY <1>1, <1>2 DEF FirstFit
<1>4. op \in Imported => op \in Installed(m)
  BY <1>2, <1>3, SupportsNeedsKernel
<1> QED BY <1>2, <1>3, <1>4 DEF Installed

(* An op that is tried first in an environment is picked for a problem     *)
(* that it supports, and it can do that problem if it is an easy one.      *)
LEMMA FirstIsPicked ==
    ASSUME NEW m, NEW envs, NEW env \in envs, NEW dtype \in DTypes \ {"fp8"}, NEW dim \in Dims,
           NEW l \in Lengths, l[1] = l[2], l[1] % 32 = 0,
           NEW op, Candidates(Home(m), env)[1] = op,
           Supports(op, Asking(m, env, dtype, "full", dim, l))
    PROVE  /\ op \in PickedIn(m, envs)
           /\ op \notin FP8Kernels \/ Arch(m) \in FP8Archs => op \in ServedBy(m, envs)
<1> DEFINE p == Asking(m, env, dtype, "full", dim, l)
<1>1. p \in Asks(m, envs)
  BY DEF Asks
<1>2. p.env = env /\ p.dtype = dtype /\ p.kind = "full" /\ p.q = l[1] /\ p.kv = l[2]
  BY DEF Asking
<1>3. Supports(op, p)
  OBVIOUS
<1> HIDE DEF p
<1>4. /\ FirstFit(p, Candidates(Home(m), env)) /\ Plain(p) /\ p.arch = Arch(m)
      /\ SelectAttentionOp(p) \in AllOps
  BY <1>1, <1>2, AsksAre
<1>5. SelectAttentionOp(p) = op
  BY <1>3, <1>4 DEF FirstFit
<1>6. ASSUME op \notin FP8Kernels \/ Arch(m) \in FP8Archs PROVE KernelTakes(op, p)
  <2>1. KernelTakes(op, p) <=> ~Misfit(op, p)
    BY <1>3, <1>4, <1>5, SupportsMeans
  <2>2. ~Misfit(op, p)
    BY <1>2, <1>4, <1>6 DEF Misfit, SelfAttention
  <2> QED BY <2>1, <2>2
<1> QED BY <1>1, <1>5, <1>6 DEF PickedIn, ServedBy

(* The plain attention of PyTorch is selected for something everywhere.    *)
LEMMA NaiveIsPicked ==
    ASSUME NEW m, NEW envs, NEW env \in envs, NEW dim \in Dims, NEW l \in Lengths
    PROVE  "naive-sdpa" \in PickedIn(m, envs)
<1> DEFINE p == Asking(m, env, "bf16", "neighborhood", dim, l)
           op == SelectAttentionOp(p)
<1>1. p.kind = "neighborhood"
  BY DEF Asking
<1>2. p \in Asks(m, envs)
  BY DEF Asks, DTypes
<1> HIDE DEF p
<1>3. op \in AllOps /\ Supports(op, p) /\ Plain(p)
  BY <1>2, AsksAre DEF FirstFit
<1> HIDE DEF op
<1>4. op = "naive-sdpa"
  BY <1>1, <1>3, SupportsMeans DEF Masked
<1> QED BY <1>2, <1>4 DEF PickedIn, op

(* On a GPU it does what is not in half precision ...                      *)
LEMMA NaiveIsServed ==
    ASSUME NEW m, NEW envs, NEW env \in envs, NEW dim \in Dims, NEW l \in Lengths,
           Home(m) \in {"rocm", "cuda"}
    PROVE  "naive-sdpa" \in ServedBy(m, envs)
<1> DEFINE p == Asking(m, env, "fp32", "full", dim, l)
           op == SelectAttentionOp(p)
<1>1. p.kind = "full" /\ p.dtype = "fp32"
  BY DEF Asking
<1>2. p \in Asks(m, envs)
  BY DEF Asks, DTypes
<1> HIDE DEF p
<1>3. op \in Range(Candidates(Home(m), p.env)) /\ Supports(op, p)
  BY <1>2, AsksAre DEF FirstFit
<1>4. op \in {"fp8-triton-flash", "fp8-scaled-mm", "rocm-ck-flash", "naive-sdpa",
              "fp8-hopper-triton-flash", "transformer-engine-fp8", "nvidia-flash"}
  <2>1. CASE Home(m) = "rocm"
    BY <1>3, <2>1, TriedOnROCm
  <2>2. CASE Home(m) = "cuda"
    BY <1>3, <2>2, TriedOnCUDA
  <2> QED BY <2>1, <2>2
<1> HIDE DEF op
<1>5. op = "naive-sdpa"
  BY <1>1, <1>3, <1>4 DEF Supports, FP8TritonSupports, FP8HopperSupports, FP8ScaledMMSupports,
     ROCmFlashSupports, HopperFlashSupports, TransformerEngineSupports, Half
<1>6. KernelTakes("naive-sdpa", p)
  BY <1>1 DEF KernelTakes, LibraryTakes, Masked
<1> QED BY <1>2, <1>5, <1>6 DEF ServedBy, op

(* ... and on the CPU nothing.                                             *)
LEMMA NaiveIsUseless ==
    ASSUME NEW m, NEW envs, Home(m) = "cpu",
           \A env : ~Before(Candidates("cpu", env), "naive-sdpa", "amx-sdpa"),
           \A env : "amx-sdpa" \in Range(Candidates("cpu", env))
    PROVE  "naive-sdpa" \notin ServedBy(m, envs)
<1> SUFFICES ASSUME NEW p \in Asks(m, envs), SelectAttentionOp(p) = "naive-sdpa",
                    KernelTakes("naive-sdpa", p)
             PROVE  FALSE
  BY DEF ServedBy
<1>1. FirstFit(p, Candidates("cpu", p.env)) /\ Plain(p)
  BY AsksAre
<1>2. ~Supports("amx-sdpa", p)
  BY <1>1 DEF FirstFit
<1>3. p.dtype # "fp8" /\ Masked(p) /\ p.dtype \in {"fp32", "fp16", "bf16", "fp8"}
  BY <1>1 DEF KernelTakes, LibraryTakes, Plain, DTypes
<1>4. AMXSDPASupports(p)
  BY <1>3 DEF AMXSDPASupports, Half
<1> QED BY <1>2, <1>4 DEF Supports

(* Nothing is served that is not picked, and an FP8 kernel of this         *)
(* repository only where there is FP8.                                     *)
LEMMA ServedIs ==
    ASSUME NEW m, NEW envs
    PROVE  /\ ServedBy(m, envs) \subseteq PickedIn(m, envs)
           /\ \A op \in ServedBy(m, envs) \cap FP8Kernels : Arch(m) \in FP8Archs
<1>1. ServedBy(m, envs) \subseteq PickedIn(m, envs)
  BY DEF ServedBy, PickedIn
<1>2. ASSUME NEW op \in ServedBy(m, envs), op \in FP8Kernels PROVE Arch(m) \in FP8Archs
  <2>1. PICK p \in Asks(m, envs) : op = SelectAttentionOp(p) /\ KernelTakes(op, p)
    BY DEF ServedBy
  <2>2. p.arch = Arch(m)
    BY AsksAre
  <2>3. p.arch \in FP8Archs
    BY <1>2, <2>1 DEF KernelTakes, TritonKernelTakes, ScaledMMTakes, FP8Kernels
  <2> QED BY <2>2, <2>3
<1> QED BY <1>1, <1>2

\* In which order ops are listed and tried.
OrderHolds(m, backend) ==
    \A a, b : Before(TellsOps(m, backend), a, b) =>
        (<<a, b>> \in Transposed
           <=> \E env \in Environments(backend) : Before(Candidates(backend, env), b, a))

LEMMA OrderOnROCm ==
    ASSUME NEW m
    PROVE  OrderHolds(m, "rocm")
<1>0. /\ "fp8-triton-flash" \in AllOps /\ "fp8-scaled-mm" \in AllOps
      /\ "rocm-ck-flash" \in AllOps /\ "naive-sdpa" \in AllOps
  BY DEF AllOps
<1>1. \A a, b : Before(TellsOps(m, "rocm"), a, b) => a = "rocm-ck-flash" /\ b = "naive-sdpa"
  <2> DEFINE s1 == Listed(m, "rocm-ck-flash")
             t == <<"naive-sdpa">>
  <2>1. IfHolds(s1, "rocm-ck-flash")
    BY <1>0, IfInOrder DEF Listed
  <2>2. t \in Seq(AllOps) /\ Range(t) = {"naive-sdpa"} /\ \A x, y : ~Before(t, x, y)
    BY <1>0, ShortSeqs, RangesOf, ShortInOrder
  <2>3. TellsOps(m, "rocm") = s1 \o t
    BY DEF TellsOps, ROCmOps
  <2> HIDE DEF s1, t
  <2>4. Order2(s1, t)
    BY <2>1, <2>2, TwoInOrder DEF IfHolds
  <2>5. \A x, y : Before(TellsOps(m, "rocm"), x, y)
                 <=> Before(s1, x, y) \/ Before(t, x, y) \/ (x \in Range(s1) /\ y \in Range(t))
    BY <2>3, <2>4 DEF Order2
  <2> QED BY <2>1, <2>2, <2>5 DEF IfHolds
<1>2. ASSUME NEW env PROVE ~Before(Candidates("rocm", env), "naive-sdpa", "rocm-ck-flash")
  <2> DEFINE s1 == If(env \in FP8Truthy \ (TE \cup {"scaled_mm"}), "fp8-triton-flash")
             s2 == If(env \in FP8Truthy \ (TE \cup {"triton"}), "fp8-scaled-mm")
             t == <<"rocm-ck-flash", "naive-sdpa">>
  <2>1. IfHolds(s1, "fp8-triton-flash") /\ IfHolds(s2, "fp8-scaled-mm")
    BY <1>0, IfInOrder
  <2>2. /\ t \in Seq(AllOps) /\ Range(t) = {"rocm-ck-flash", "naive-sdpa"}
        /\ \A x, y : Before(t, x, y) <=> x = "rocm-ck-flash" /\ y = "naive-sdpa"
    BY <1>0, ShortSeqs, RangesOf, ShortInOrder
  <2>3. Candidates("rocm", env) = s1 \o s2 \o t
    BY DEF Candidates
  <2> HIDE DEF s1, s2, t
  <2>4. Order3(s1, s2, t)
    BY <2>1, <2>2, ThreeInOrder DEF IfHolds
  <2>5. \A x, y : Before(Candidates("rocm", env), x, y)
                 <=> \/ Before(s1, x, y) \/ Before(s2, x, y) \/ Before(t, x, y)
                     \/ x \in Range(s1) /\ y \in Range(s2) \cup Range(t)
                     \/ x \in Range(s2) /\ y \in Range(t)
    BY <2>3, <2>4 DEF Order3
  <2> QED BY <2>1, <2>2, <2>5 DEF IfHolds
<1>3. <<"rocm-ck-flash", "naive-sdpa">> \notin Transposed
  BY DEF Transposed
<1> QED BY <1>1, <1>2, <1>3 DEF OrderHolds

LEMMA OrderOnCUDA ==
    ASSUME NEW m
    PROVE  OrderHolds(m, "cuda")
<1> DEFINE te == "transformer-engine-fp8"
           hopper == "fp8-hopper-triton-flash"
<1>0. te \in AllOps /\ hopper \in AllOps /\ "nvidia-flash" \in AllOps /\ "naive-sdpa" \in AllOps
  BY DEF AllOps
<1>1. \A a, b : Before(TellsOps(m, "cuda"), a, b) =>
         \/ a = te /\ b \in {hopper, "nvidia-flash", "naive-sdpa"}
         \/ a = hopper /\ b \in {"nvidia-flash", "naive-sdpa"}
         \/ a = "nvidia-flash" /\ b = "naive-sdpa"
  <2> DEFINE s1 == Listed(m, te)
             s2 == Listed(m, hopper)
             s3 == Listed(m, "nvidia-flash")
             t == <<"naive-sdpa">>
  <2>1. IfHolds(s1, te) /\ IfHolds(s2, hopper) /\ IfHolds(s3, "nvidia-flash")
    BY <1>0, IfInOrder DEF Listed
  <2>2. t \in Seq(AllOps) /\ Range(t) = {"naive-sdpa"} /\ \A x, y : ~Before(t, x, y)
    BY <1>0, ShortSeqs, RangesOf, ShortInOrder
  <2>3. TellsOps(m, "cuda") = s1 \o s2 \o s3 \o t
    BY DEF TellsOps, CUDAOps
  <2> HIDE DEF s1, s2, s3, t
  <2>4. Order4(s1, s2, s3, t)
    BY <2>1, <2>2, FourInOrder DEF IfHolds
  <2>5. \A x, y : Before(TellsOps(m, "cuda"), x, y)
          <=> \/ Before(s1, x, y) \/ Before(s2, x, y) \/ Before(s3, x, y) \/ Before(t, x, y)
              \/ x \in Range(s1) /\ y \in Range(s2) \cup Range(s3) \cup Range(t)
              \/ x \in Range(s2) /\ y \in Range(s3) \cup Range(t)
              \/ x \in Range(s3) /\ y \in Range(t)
    BY <2>3, <2>4 DEF Order4
  <2> QED BY <2>1, <2>2, <2>5 DEF IfHolds
<1>2. ASSUME NEW env
      PROVE  /\ \A a, b : Before(Candidates("cuda", env), a, b) =>
                  \/ a = hopper /\ b \in {te, "nvidia-flash", "naive-sdpa"}
                  \/ a = te /\ b \in {"nvidia-flash", "naive-sdpa"}
                  \/ a = "nvidia-flash" /\ b = "naive-sdpa"
             /\ env = "1" => Before(Candidates("cuda", env), hopper, te)
  <2> DEFINE s1 == If(env \in FP8Truthy \ (TE \cup {"scaled_mm"}), hopper)
             s2 == If(env \in On \cup TE, te)
             t == <<"nvidia-flash", "naive-sdpa">>
  <2>1. IfHolds(s1, hopper) /\ IfHolds(s2, te)
    BY <1>0, IfInOrder
  <2>2. /\ t \in Seq(AllOps) /\ Range(t) = {"nvidia-flash", "naive-sdpa"}
        /\ \A x, y : Before(t, x, y) <=> x = "nvidia-flash" /\ y = "naive-sdpa"
    BY <1>0, ShortSeqs, RangesOf, ShortInOrder
  <2>3. Candidates("cuda", env) = s1 \o s2 \o t
    BY DEF Candidates
  <2>4. env = "1" => hopper \in Range(s1) /\ te \in Range(s2)
    BY RangesOf DEF If, FP8Truthy, On, TE
  <2> HIDE DEF s1, s2, t
  <2>5. Order3(s1, s2, t)
    BY <2>1, <2>2, ThreeInOrder DEF IfHolds
  <2>6. \A x, y : Before(Candidates("cuda", env), x, y)
                 <=> \/ Before(s1, x, y) \/ Before(s2, x, y) \/ Before(t, x, y)
                     \/ x \in Range(s1) /\ y \in Range(s2) \cup Range(t)
                     \/ x \in Range(s2) /\ y \in Range(t)
    BY <2>3, <2>5 DEF Order3
  <2> QED BY <2>1, <2>2, <2>4, <2>6 DEF IfHolds
<1>3. "1" \in Environments("cuda")
  BY EnvironmentsAre
<1>4. \A b \in {hopper, "nvidia-flash", "naive-sdpa"} : <<te, b>> \in Transposed <=> b = hopper
  BY DEF Transposed
<1>5. \A a \in {hopper, "nvidia-flash"} : \A b : <<a, b>> \notin Transposed
  BY DEF Transposed
<1> SUFFICES ASSUME NEW a, NEW b, Before(TellsOps(m, "cuda"), a, b)
             PROVE  <<a, b>> \in Transposed
                       <=> \E env \in Environments("cuda") : Before(Candidates("cuda", env), b, a)
  BY DEF OrderHolds
<1>6. CASE a = te /\ b = hopper
  BY <1>2, <1>3, <1>4, <1>6
<1>7. CASE ~(a = te /\ b = hopper)
  <2>1. <<a, b>> \notin Transposed
    BY <1>1, <1>4, <1>5, <1>7
  <2>2. \A env : ~Before(Candidates("cuda", env), b, a)
    BY <1>1, <1>2, <1>7
  <2> QED BY <2>1, <2>2
<1> QED BY <1>6, <1>7

\* The pairs that are in order in some list that the CPU backend tries.
TriedInOrder(a, b) ==
    \/ a = "amx-int8-flash" /\ b \in {"amx-sdpa", "naive-sdpa"}
    \/ a = "amx-fp16-flash" /\ b \in {"amx-bf16-flash", "ipex-flash", "amx-sdpa", "naive-sdpa"}
    \/ a = "amx-bf16-flash" /\ b \in {"ipex-flash", "amx-sdpa", "naive-sdpa"}
    \/ a = "ipex-flash" /\ b \in {"amx-sdpa", "naive-sdpa"}
    \/ a = "amx-sdpa" /\ b = "naive-sdpa"

LEMMA TriedInOrderOnCPU ==
    ASSUME NEW env
    PROVE  /\ \A a, b : Before(Candidates("cpu", env), a, b) => TriedInOrder(a, b)
           /\ env = "1" => /\ Before(Candidates("cpu", env), "amx-fp16-flash", "amx-bf16-flash")
                           /\ Before(Candidates("cpu", env), "amx-fp16-flash", "ipex-flash")
           /\ "amx-sdpa" \in Range(Candidates("cpu", env))
<1> DEFINE s1 == If(env = "int8", "amx-int8-flash")
           s2 == If(env \in On \cup {"fp16"}, "amx-fp16-flash")
           s3 == If(env \in AMXTruthy \ {"ipex", "int8", "fp16"}, "amx-bf16-flash")
           s4 == If(env \in AMXTruthy \ {"amx", "int8", "fp16"}, "ipex-flash")
           t == <<"amx-sdpa", "naive-sdpa">>
<1>1. /\ "amx-int8-flash" \in AllOps /\ "amx-fp16-flash" \in AllOps
      /\ "amx-bf16-flash" \in AllOps /\ "ipex-flash" \in AllOps
      /\ "amx-sdpa" \in AllOps /\ "naive-sdpa" \in AllOps
  BY DEF AllOps
<1>2. /\ IfHolds(s1, "amx-int8-flash") /\ IfHolds(s2, "amx-fp16-flash")
      /\ IfHolds(s3, "amx-bf16-flash") /\ IfHolds(s4, "ipex-flash")
  BY <1>1, IfInOrder
<1>3. /\ t \in Seq(AllOps) /\ Range(t) = {"amx-sdpa", "naive-sdpa"}
      /\ \A x, y : Before(t, x, y) <=> x = "amx-sdpa" /\ y = "naive-sdpa"
  BY <1>1, ShortSeqs, RangesOf, ShortInOrder
<1>4. Candidates("cpu", env) = s1 \o s2 \o s3 \o s4 \o t
  BY DEF Candidates
<1>5. env = "int8" => Range(s2) = {} /\ Range(s3) = {} /\ Range(s4) = {}
  BY RangesOf DEF If, On, AMXTruthy
<1>6. env # "int8" => Range(s1) = {}
  BY RangesOf DEF If
<1>7. env = "1" => /\ "amx-fp16-flash" \in Range(s2) /\ "amx-bf16-flash" \in Range(s3)
                   /\ "ipex-flash" \in Range(s4)
  BY RangesOf DEF If, On, AMXTruthy
<1> HIDE DEF s1, s2, s3, s4, t
<1>8. Order5(s1, s2, s3, s4, t) /\ AddFive(s1, s2, s3, s4, t)
  BY <1>2, <1>3, FiveInOrder, FiveRanges DEF IfHolds
<1>9. \A x, y : Before(Candidates("cpu", env), x, y)
         <=> \/ Before(s1, x, y) \/ Before(s2, x, y) \/ Before(s3, x, y) \/ Before(s4, x, y)
             \/ Before(t, x, y)
             \/ x \in Range(s1) /\ y \in Range(s2) \cup Range(s3) \cup Range(s4) \cup Range(t)
             \/ x \in Range(s2) /\ y \in Range(s3) \cup Range(s4) \cup Range(t)
             \/ x \in Range(s3) /\ y \in Range(s4) \cup Range(t)
             \/ x \in Range(s4) /\ y \in Range(t)
  BY <1>4, <1>8 DEF Order5
<1>10. Range(t) \subseteq Range(Candidates("cpu", env))
  BY <1>4, <1>8 DEF AddFive
<1>11. ASSUME NEW a, NEW b, Before(Candidates("cpu", env), a, b) PROVE TriedInOrder(a, b)
  <2>1. \/ Before(t, a, b)
        \/ a \in Range(s1) /\ b \in Range(s2) \cup Range(s3) \cup Range(s4) \cup Range(t)
        \/ a \in Range(s2) /\ b \in Range(s3) \cup Range(s4) \cup Range(t)
        \/ a \in Range(s3) /\ b \in Range(s4) \cup Range(t)
        \/ a \in Range(s4) /\ b \in Range(t)
    BY <1>2, <1>9, <1>11 DEF IfHolds
  <2>2. /\ Range(s1) \subseteq {"amx-int8-flash"} /\ Range(s2) \subseteq {"amx-fp16-flash"}
        /\ Range(s3) \subseteq {"amx-bf16-flash"} /\ Range(s4) \subseteq {"ipex-flash"}
    BY <1>2 DEF IfHolds
  <2> QED BY <1>3, <1>5, <1>6, <2>1, <2>2 DEF TriedInOrder
<1> QED BY <1>3, <1>7, <1>9, <1>10, <1>11

LEMMA OrderOnCPU ==
    ASSUME NEW m
    PROVE  OrderHolds(m, "cpu")
<1>0. /\ "amx-int8-flash" \in AllOps /\ "amx-fp16-flash" \in AllOps
      /\ "amx-bf16-flash" \in AllOps /\ "ipex-flash" \in AllOps
      /\ "amx-sdpa" \in AllOps /\ "naive-sdpa" \in AllOps
  BY DEF AllOps
<1> DEFINE listed(a, b) ==
        \/ a = "amx-bf16-flash" /\ b \in {"ipex-flash", "amx-int8-flash", "amx-fp16-flash",
                                          "amx-sdpa", "naive-sdpa"}
        \/ a = "ipex-flash" /\ b \in {"amx-int8-flash", "amx-fp16-flash", "amx-sdpa", "naive-sdpa"}
        \/ a = "amx-int8-flash" /\ b \in {"amx-fp16-flash", "amx-sdpa", "naive-sdpa"}
        \/ a = "amx-fp16-flash" /\ b \in {"amx-sdpa", "naive-sdpa"}
        \/ a = "amx-sdpa" /\ b = "naive-sdpa"
<1>1. ASSUME NEW a, NEW b, Before(TellsOps(m, "cpu"), a, b) PROVE listed(a, b)
  <2> DEFINE s1 == If("amx_bf16" \in m.cpu.flags /\ Loads(m, "amx-bf16-flash"), "amx-bf16-flash")
             s2 == If("amx_bf16" \in m.cpu.flags /\ Loads(m, "ipex-flash"), "ipex-flash")
             s3 == If("amx_int8" \in m.cpu.flags /\ Loads(m, "amx-int8-flash"), "amx-int8-flash")
             s4 == If("amx_fp16" \in m.cpu.flags /\ Loads(m, "amx-fp16-flash"), "amx-fp16-flash")
             t == <<"amx-sdpa", "naive-sdpa">>
  <2>1. /\ IfHolds(s1, "amx-bf16-flash") /\ IfHolds(s2, "ipex-flash")
        /\ IfHolds(s3, "amx-int8-flash") /\ IfHolds(s4, "amx-fp16-flash")
    BY <1>0, IfInOrder
  <2>2. /\ t \in Seq(AllOps) /\ Range(t) = {"amx-sdpa", "naive-sdpa"}
        /\ \A x, y : Before(t, x, y) <=> x = "amx-sdpa" /\ y = "naive-sdpa"
    BY <1>0, ShortSeqs, RangesOf, ShortInOrder
  <2>3. TellsOps(m, "cpu") = s1 \o s2 \o s3 \o s4 \o t
    BY DEF TellsOps, CPUOps
  <2> HIDE DEF s1, s2, s3, s4, t
  <2>4. Order5(s1, s2, s3, s4, t)
    BY <2>1, <2>2, FiveInOrder DEF IfHolds
  <2>5. \/ Before(t, a, b)
        \/ a \in Range(s1) /\ b \in Range(s2) \cup Range(s3) \cup Range(s4) \cup Range(t)
        \/ a \in Range(s2) /\ b \in Range(s3) \cup Range(s4) \cup Range(t)
        \/ a \in Range(s3) /\ b \in Range(s4) \cup Range(t)
        \/ a \in Range(s4) /\ b \in Range(t)
    BY <1>1, <2>1, <2>3, <2>4 DEF Order5, IfHolds
  <2>6. /\ Range(s1) \subseteq {"amx-bf16-flash"} /\ Range(s2) \subseteq {"ipex-flash"}
        /\ Range(s3) \subseteq {"amx-int8-flash"} /\ Range(s4) \subseteq {"amx-fp16-flash"}
    BY <2>1 DEF IfHolds
  <2> QED BY <2>2, <2>5, <2>6
<1>2. "1" \in Environments("cpu")
  BY EnvironmentsAre
<1> SUFFICES ASSUME NEW a, NEW b, Before(TellsOps(m, "cpu"), a, b)
             PROVE  <<a, b>> \in Transposed
                       <=> \E env \in Environments("cpu") : Before(Candidates("cpu", env), b, a)
  BY DEF OrderHolds
<1>3. CASE a \in {"amx-bf16-flash", "ipex-flash"} /\ b = "amx-fp16-flash"
  <2>1. <<a, b>> \in Transposed
    BY <1>3 DEF Transposed
  <2>2. Before(Candidates("cpu", "1"), b, a)
    BY <1>3, TriedInOrderOnCPU
  <2> QED BY <1>2, <2>1, <2>2
<1>4. CASE ~(a \in {"amx-bf16-flash", "ipex-flash"} /\ b = "amx-fp16-flash")
  <2>1. listed(a, b)
    BY <1>1
  <2>2. <<a, b>> \notin Transposed
    BY <1>4, <2>1 DEF Transposed
  <2>3. ~TriedInOrder(b, a)
    BY <1>4, <2>1 DEF TriedInOrder
  <2>4. \A env : ~Before(Candidates("cpu", env), b, a)
    BY <2>3, TriedInOrderOnCPU
  <2> QED BY <2>2, <2>4
<1> QED BY <1>3, <1>4

FlashOps == CPUFlashOps \cup {"rocm-ck-flash", "nvidia-flash"}

InfoHolds(m) ==
    LET backend == Home(m)
        told == Range(TellsOps(m, backend))
        ever == PickedIn(m, Environments(backend))
        served == ServedBy(m, Environments(backend))
    IN  /\ told \subseteq ever /\ told \ served = told \cap Useless(m)
        /\ PickedIn(m, {""}) \subseteq told
        /\ ever \ told \subseteq Unlisted(m)
        /\ SupportsFlashAttention(m, backend) <=> ever \cap told \cap FlashOps # {}
        /\ served \cap FP8Kernels # {} => SupportsFP8(m, backend)

(* With nothing set: the op that is tried first, and what else there is.   *)
LEMMA UnsetTries ==
    /\ Candidates("rocm", "")[1] = "rocm-ck-flash"
    /\ Range(Candidates("rocm", "")) = {"rocm-ck-flash", "naive-sdpa"}
    /\ Candidates("cuda", "")[1] = "nvidia-flash"
    /\ Range(Candidates("cuda", "")) = {"nvidia-flash", "naive-sdpa"}
    /\ Candidates("cpu", "")[1] = "amx-sdpa"
    /\ Range(Candidates("cpu", "")) = {"amx-sdpa", "naive-sdpa"}
<1>1. /\ Candidates("rocm", "") = <<"rocm-ck-flash", "naive-sdpa">>
      /\ Candidates("cuda", "") = <<"nvidia-flash", "naive-sdpa">>
      /\ Candidates("cpu", "") = <<"amx-sdpa", "naive-sdpa">>
  BY TriedOnROCm, TriedOnCUDA, TriedOnCPU
<1>2. \A a, b : <<a, b>>[1] = a /\ Range(<<a, b>>) = {a, b}
  BY RangesOf
<1> QED BY <1>1, <1>2

(* With nothing set, what is picked comes from the list for that.          *)
LEMMA PickedUnset ==
    ASSUME NEW m, NEW op \in PickedIn(m, {""})
    PROVE  op \in Range(Candidates(Home(m), "")) /\ (op \in Imported => Loads(m, op))
<1>1. PICK env \in {""} :
          op \in Range(Candidates(Home(m), env)) /\ (op \in Imported => Loads(m, op))
  BY PickedLoads
<1> QED BY <1>1

(* What is told of a machine is so: on each backend.                       *)
LEMMA InfoOnROCm ==
    ASSUME NEW m, Home(m) = "rocm", Exercised
    PROVE  InfoHolds(m)
<1> DEFINE told == Range(TellsOps(m, "rocm"))
           ever == PickedIn(m, Environments("rocm"))
           served == ServedBy(m, Environments("rocm"))
<1>1. /\ told \subseteq {"rocm-ck-flash", "naive-sdpa"} /\ "naive-sdpa" \in told
      /\ "rocm-ck-flash" \in told <=> Loads(m, "rocm-ck-flash")
  BY ToldOnROCm
<1>2. PICK l \in Lengths : l[1] = l[2] /\ l[1] >= 128 /\ l[1] % 32 = 0
  BY DEF Exercised
<1>3. 64 \in Dims /\ "" \in Environments("rocm") /\ "bf16" \in DTypes \ {"fp8"}
  BY EnvironmentsAre DEF Exercised, DTypes
<1> HIDE DEF told
<1>4. ASSUME Loads(m, "rocm-ck-flash") PROVE "rocm-ck-flash" \in served
  <2> DEFINE p == Asking(m, "", "bf16", "full", 64, l)
  <2>1. "rocm-ck-flash" \in p.installed
    BY <1>4 DEF Asking, Installed, AllOps
  <2>2. p.dtype = "bf16" /\ p.dim = 64 /\ p.kind = "full"
    BY DEF Asking
  <2>3. Supports("rocm-ck-flash", p)
    <3> HIDE DEF p
    <3> QED BY <2>1, <2>2 DEF Supports, ROCmFlashSupports, Masked, Half
  <2>4. Candidates("rocm", "")[1] = "rocm-ck-flash" /\ "rocm-ck-flash" \notin FP8Kernels
    BY UnsetTries DEF FP8Kernels
  <2> QED BY <1>2, <1>3, <2>3, <2>4, FirstIsPicked
<1>5. "naive-sdpa" \in served
  BY <1>2, <1>3, NaiveIsServed
<1>6. PickedIn(m, {""}) \subseteq told
  <2> SUFFICES ASSUME NEW op \in PickedIn(m, {""}) PROVE op \in told
    OBVIOUS
  <2>1. /\ op \in Range(Candidates("rocm", ""))
        /\ op = "rocm-ck-flash" => Loads(m, op)
    BY PickedUnset DEF Imported
  <2>2. Range(Candidates("rocm", "")) = {"rocm-ck-flash", "naive-sdpa"}
    BY UnsetTries
  <2> QED BY <1>1, <2>1, <2>2
<1>7. ever \ told \subseteq {"fp8-triton-flash", "fp8-scaled-mm"}
  <2> SUFFICES ASSUME NEW op \in ever PROVE op \in told \/ op \in {"fp8-triton-flash", "fp8-scaled-mm"}
    OBVIOUS
  <2>1. PICK env \in Environments("rocm") :
            op \in Range(Candidates("rocm", env)) /\ (op \in Imported => Loads(m, op))
    BY PickedLoads
  <2> QED BY <1>1, <2>1, TriedOnROCm DEF Imported
<1>8. SupportsFlashAttention(m, "rocm") = Loads(m, "rocm-ck-flash") /\ SupportsFP8(m, "rocm")
  BY DEF SupportsFlashAttention, SupportsFP8
<1>9. served \subseteq ever
  BY ServedIs
<1>10. Useless(m) = {} /\ Unlisted(m) = {"fp8-triton-flash", "fp8-scaled-mm"}
  BY DEF Useless, Unlisted
<1> HIDE DEF ever, served
<1>11. told \subseteq ever /\ told \ served = told \cap Useless(m)
  BY <1>1, <1>4, <1>5, <1>9, <1>10
<1>12. Loads(m, "rocm-ck-flash") <=> ever \cap told \cap FlashOps # {}
  BY <1>1, <1>11 DEF CPUFlashOps, FlashOps
<1> QED BY <1>6, <1>7, <1>8, <1>10, <1>11, <1>12 DEF InfoHolds, told, ever, served

LEMMA GpusAre ==
    ASSUME NEW m \in Machines
    PROVE  \/ m.gpus = <<>> \/ \E x \in Gpus : m.gpus = <<x>>
           \/ \E x, y \in Gpus : m.gpus = <<x, y>>
<1>1. m.gpus \in GpuLists \/ (\E x \in Sm90 : m.gpus = <<x>>) \/ m.gpus = << >>
  BY DEF Machines
<1>2. CASE m.gpus \in GpuLists
  BY <1>2 DEF GpuLists
<1>3. CASE \E x \in Sm90 : m.gpus = <<x>>
  BY <1>3 DEF Sm90
<1> QED BY <1>1, <1>2, <1>3

LEMMA InfoOnCUDA ==
    ASSUME NEW m \in Machines, Home(m) = "cuda", Exercised
    PROVE  InfoHolds(m)
<1> DEFINE told == Range(TellsOps(m, "cuda"))
           ever == PickedIn(m, Environments("cuda"))
           served == ServedBy(m, Environments("cuda"))
           hopper == "fp8-hopper-triton-flash"
<1>1. /\ told \subseteq {"transformer-engine-fp8", hopper, "nvidia-flash", "naive-sdpa"}
      /\ "naive-sdpa" \in told
      /\ \A op \in {"transformer-engine-fp8", hopper, "nvidia-flash"} : op \in told <=> Loads(m, op)
  BY ToldOnCUDA
<1>2. PICK l \in Lengths : l[1] = l[2] /\ l[1] >= 128 /\ l[1] % 32 = 0
  BY DEF Exercised
<1>3. /\ 64 \in Dims /\ "bf16" \in DTypes \ {"fp8"}
      /\ "" \in Environments("cuda") /\ "triton" \in Environments("cuda")
      /\ "te" \in Environments("cuda")
  BY EnvironmentsAre DEF Exercised, DTypes
<1>0. l[1] \in Nat /\ l[2] \in Nat
  BY DispatchAssumption
<1> HIDE DEF told
<1>4. ASSUME NEW env, NEW op \in {"transformer-engine-fp8", hopper, "nvidia-flash"}, Loads(m, op)
      PROVE  Supports(op, Asking(m, env, "bf16", "full", 64, l))
  <2> DEFINE p == Asking(m, env, "bf16", "full", 64, l)
  <2>1. op \in p.installed
    BY <1>4 DEF Asking, Installed, AllOps
  <2>2. p.dtype = "bf16" /\ p.dim = 64 /\ p.kind = "full" /\ p.q = l[1] /\ p.kv = l[2]
    BY DEF Asking
  <2> HIDE DEF p
  <2>3. Masked(p) /\ p.dtype \in Half /\ SelfAttention(p) /\ p.q >= 128 /\ p.kv >= 128
    BY <1>0, <1>2, <2>2 DEF Masked, Half, SelfAttention
  <2>4. ASSUME op = "transformer-engine-fp8" PROVE Supports(op, p)
    BY <2>1, <2>2, <2>3, <2>4 DEF Supports, TransformerEngineSupports
  <2>5. ASSUME op = "fp8-hopper-triton-flash" PROVE Supports(op, p)
    BY <2>1, <2>2, <2>3, <2>5 DEF Supports, FP8HopperSupports
  <2>6. ASSUME op = "nvidia-flash" PROVE Supports(op, p)
    BY <2>1, <2>2, <2>3, <2>6 DEF Supports, HopperFlashSupports
  <2> QED BY <2>4, <2>5, <2>6 DEF p
<1>5. "naive-sdpa" \in served
  BY <1>2, <1>3, NaiveIsServed
<1>6. ASSUME Loads(m, "transformer-engine-fp8") PROVE "transformer-engine-fp8" \in served
  <2>1. Candidates("cuda", "te")[1] = "transformer-engine-fp8"
    BY TriedOnCUDA DEF TE
  <2>2. Supports("transformer-engine-fp8", Asking(m, "te", "bf16", "full", 64, l))
    BY <1>4, <1>6
  <2>3. "transformer-engine-fp8" \notin FP8Kernels
    BY DEF FP8Kernels
  <2> QED BY <1>2, <1>3, <2>1, <2>2, <2>3, FirstIsPicked
<1>7. ASSUME Loads(m, hopper)
      PROVE  hopper \in ever /\ (Arch(m) \in FP8Archs => hopper \in served)
  <2>1. Candidates("cuda", "triton")[1] = hopper
    BY TriedOnCUDA
  <2>2. Supports(hopper, Asking(m, "triton", "bf16", "full", 64, l))
    BY <1>4, <1>7
  <2> QED BY <1>2, <1>3, <2>1, <2>2, FirstIsPicked
<1>8. ASSUME Loads(m, "nvidia-flash") PROVE "nvidia-flash" \in served
  <2>1. Candidates("cuda", "")[1] = "nvidia-flash" /\ "nvidia-flash" \notin FP8Kernels
    BY UnsetTries DEF FP8Kernels
  <2>2. Supports("nvidia-flash", Asking(m, "", "bf16", "full", 64, l))
    BY <1>4, <1>8
  <2> QED BY <1>2, <1>3, <2>1, <2>2, FirstIsPicked
<1>9. PickedIn(m, {""}) \subseteq told
  <2> SUFFICES ASSUME NEW op \in PickedIn(m, {""}) PROVE op \in told
    OBVIOUS
  <2>1. /\ op \in Range(Candidates("cuda", ""))
        /\ op = "nvidia-flash" => Loads(m, op)
    BY PickedUnset DEF Imported
  <2>2. Range(Candidates("cuda", "")) = {"nvidia-flash", "naive-sdpa"}
    BY UnsetTries
  <2> QED BY <1>1, <2>1, <2>2
<1>10. ever \subseteq told
  <2> SUFFICES ASSUME NEW op \in ever PROVE op \in told
    OBVIOUS
  <2>1. PICK env \in Environments("cuda") :
            op \in Range(Candidates("cuda", env)) /\ (op \in Imported => Loads(m, op))
    BY PickedLoads
  <2>2. op \in {hopper, "transformer-engine-fp8", "nvidia-flash", "naive-sdpa"}
    BY <2>1, TriedOnCUDA
  <2> QED BY <1>1, <2>1, <2>2 DEF Imported
<1>11. SupportsFlashAttention(m, "cuda") = Loads(m, "nvidia-flash")
  BY DEF SupportsFlashAttention
<1>12. served \subseteq ever /\ (\A op \in served \cap FP8Kernels : Arch(m) \in FP8Archs)
  BY ServedIs
<1>13. Useless(m) = IF Arch(m) \in FP8Archs THEN {} ELSE {hopper}
  BY DEF Useless
<1>14. hopper \in FP8Kernels
  BY DEF FP8Kernels
<1>15. Arch(m) \in FP8Archs => SupportsFP8(m, "cuda")
  <2> SUFFICES ASSUME Arch(m) \in FP8Archs PROVE SupportsFP8(m, "cuda")
    OBVIOUS
  <2>1. m.gpus # <<>>
    <3>1. CASE Vendor(m) = "cuda"
      BY <3>1 DEF Vendor, CUDAAvailable, ROCmAvailable
    <3>2. CASE Vendor(m) = "rocm"
      BY <3>2 DEF Vendor, ROCmAvailable
    <3>3. CASE Vendor(m) = "none"
      BY <3>3, BackendIs DEF Home
    <3> QED BY <3>1, <3>2, <3>3 DEF Vendor
  <2>2. 1 \in DOMAIN m.gpus
    <3>1. \/ m.gpus = <<>> \/ \E x \in Gpus : m.gpus = <<x>>
          \/ \E x, y \in Gpus : m.gpus = <<x, y>>
      BY GpusAre
    <3> QED BY <2>1, <3>1
  <2>3. Arch(m) = Devices(m, "cuda")[1]
    BY DEF Arch
  <2>4. Devices(m, "cuda")[1] = CUDAArch(m.gpus[1])
    BY <2>2 DEF Devices
  <2>5. CUDAArch(m.gpus[1]) \in {"unknown", "H200", "H100", "sm80", "sm86", "sm89"}
    <3>1. DOMAIN SMToArch = {"sm_90", "sm_80", "sm_86", "sm_89"}
      BY DEF SMToArch
    <3> QED BY <3>1 DEF CUDAArch, SMToArch
  <2>6. Devices(m, "cuda")[1] \in {"H100", "H200", "sm89"}
    BY <2>3, <2>4, <2>5 DEF FP8Archs
  <2> QED BY <2>2, <2>6 DEF SupportsFP8
<1>16. Unlisted(m) = {}
  BY DEF Unlisted
<1> HIDE DEF ever, served
<1>17. told \subseteq ever /\ told \ served = told \cap Useless(m)
  <2>1. /\ Loads(m, "transformer-engine-fp8") => "transformer-engine-fp8" \in served
        /\ Loads(m, "nvidia-flash") => "nvidia-flash" \in served
        /\ Loads(m, hopper) => hopper \in ever /\ (Arch(m) \in FP8Archs => hopper \in served)
        /\ hopper \in served => Arch(m) \in FP8Archs
    BY <1>6, <1>7, <1>8, <1>12, <1>14
  <2>2. told \subseteq ever
    BY <1>1, <1>5, <1>12, <2>1
  <2>3. ASSUME NEW op \in told PROVE op \notin served <=> op \in Useless(m)
    BY <1>1, <1>5, <1>13, <2>1, <2>3
  <2> QED BY <2>2, <2>3
<1>18. Loads(m, "nvidia-flash") <=> ever \cap told \cap FlashOps # {}
  BY <1>1, <1>17 DEF CPUFlashOps, FlashOps
<1>19. served \cap FP8Kernels # {} => SupportsFP8(m, "cuda")
  BY <1>12, <1>15
<1> QED BY <1>9, <1>10, <1>11, <1>16, <1>17, <1>18, <1>19 DEF InfoHolds, told, ever, served

LEMMA InfoOnCPU ==
    ASSUME NEW m, Home(m) = "cpu", Exercised
    PROVE  InfoHolds(m)
<1> DEFINE told == Range(TellsOps(m, "cpu"))
           ever == PickedIn(m, Environments("cpu"))
           served == ServedBy(m, Environments("cpu"))
<1>1. /\ told \subseteq CPUFlashOps \cup {"amx-sdpa", "naive-sdpa"}
      /\ "naive-sdpa" \in told /\ "amx-sdpa" \in told
      /\ \A op \in CPUFlashOps : op \in told => Loads(m, op)
      /\ \A op \in CPUFlashOps : Loads(m, op) =>
            op \in told \/ (op = "ipex-flash" /\ "amx_bf16" \notin m.cpu.flags)
  BY ToldOnCPU
<1>2. PICK l \in Lengths : l[1] = l[2] /\ l[1] >= 128 /\ l[1] % 32 = 0
  BY DEF Exercised
<1>3. /\ 64 \in Dims /\ {"bf16", "fp16", "fp32"} \subseteq DTypes \ {"fp8"}
      /\ {"", "amx", "int8", "fp16", "ipex"} \subseteq Environments("cpu")
  BY EnvironmentsAre DEF Exercised, DTypes
<1>0. \A op \in CPUFlashOps \cup {"amx-sdpa", "naive-sdpa"} : op \notin FP8Kernels
  BY DEF CPUFlashOps, FP8Kernels
<1> HIDE DEF told
<1>4. ASSUME NEW op \in CPUFlashOps, Loads(m, op),
             NEW dtype, dtype = IF op = "amx-fp16-flash" THEN "fp16" ELSE "bf16", NEW env
      PROVE  Supports(op, Asking(m, env, dtype, "full", 64, l))
  <2> DEFINE p == Asking(m, env, dtype, "full", 64, l)
  <2>1. op \in p.installed
    BY <1>4 DEF Asking, Installed, AllOps, CPUFlashOps
  <2>2. p.dtype = dtype /\ p.dim = 64 /\ p.kind = "full"
    BY DEF Asking
  <2> HIDE DEF p
  <2>3. Masked(p)
    BY <2>2 DEF Masked
  <2>4. ASSUME op = "amx-bf16-flash" PROVE Supports(op, p)
    BY <1>4, <2>1, <2>2, <2>3, <2>4 DEF Supports, AMXFlashSupports
  <2>5. ASSUME op = "amx-int8-flash" PROVE Supports(op, p)
    BY <1>4, <2>1, <2>2, <2>3, <2>5 DEF Supports, AMXInt8FlashSupports
  <2>6. ASSUME op = "amx-fp16-flash" PROVE Supports(op, p)
    BY <1>4, <2>1, <2>2, <2>3, <2>6 DEF Supports, AMXFP16FlashSupports
  <2>7. ASSUME op = "ipex-flash" PROVE Supports(op, p)
    BY <1>4, <2>1, <2>2, <2>3, <2>7 DEF Supports, IPEXFlashSupports, Half
  <2> QED BY <2>4, <2>5, <2>6, <2>7 DEF p, CPUFlashOps
<1>5. "naive-sdpa" \in ever /\ "naive-sdpa" \notin served
  <2>1. \A env : /\ ~Before(Candidates("cpu", env), "naive-sdpa", "amx-sdpa")
                 /\ "amx-sdpa" \in Range(Candidates("cpu", env))
    BY TriedInOrderOnCPU DEF TriedInOrder
  <2> QED BY <1>2, <1>3, <2>1, NaiveIsPicked, NaiveIsUseless
<1>6. "amx-sdpa" \in served
  <2> DEFINE p == Asking(m, "", "fp32", "full", 64, l)
  <2>1. p.dtype = "fp32" /\ p.kind = "full"
    BY DEF Asking
  <2>2. Supports("amx-sdpa", p)
    <3> HIDE DEF p
    <3> QED BY <2>1 DEF Supports, AMXSDPASupports, Masked
  <2>3. Candidates("cpu", "")[1] = "amx-sdpa"
    BY UnsetTries
  <2> QED BY <1>0, <1>2, <1>3, <2>2, <2>3, FirstIsPicked
<1>7. ASSUME NEW op \in CPUFlashOps, Loads(m, op) PROVE op \in served
  <2> DEFINE env == CASE op = "amx-bf16-flash" -> "amx" [] op = "amx-int8-flash" -> "int8"
                      [] op = "amx-fp16-flash" -> "fp16" [] op = "ipex-flash" -> "ipex"
             dtype == IF op = "amx-fp16-flash" THEN "fp16" ELSE "bf16"
  <2>1. Candidates("cpu", env)[1] = op /\ env \in Environments("cpu")
    <3>1. CASE op = "amx-bf16-flash"
      <4>1. env = "amx"
        BY <3>1
      <4> QED BY <1>3, <3>1, <4>1, TriedOnCPU
    <3>2. CASE op = "amx-int8-flash"
      <4>1. env = "int8"
        BY <3>2
      <4> QED BY <1>3, <3>2, <4>1, TriedOnCPU
    <3>3. CASE op = "amx-fp16-flash"
      <4>1. env = "fp16"
        BY <3>3
      <4> QED BY <1>3, <3>3, <4>1, TriedOnCPU
    <3>4. CASE op = "ipex-flash"
      <4>1. env = "ipex"
        BY <3>4
      <4> QED BY <1>3, <3>4, <4>1, TriedOnCPU
    <3> QED BY <3>1, <3>2, <3>3, <3>4 DEF CPUFlashOps
  <2>2. dtype \in DTypes \ {"fp8"}
    BY <1>3
  <2>3. Supports(op, Asking(m, env, dtype, "full", 64, l))
    <3> HIDE DEF env
    <3> QED BY <1>4, <1>7
  <2> HIDE DEF env, dtype
  <2> QED BY <1>0, <1>2, <1>3, <2>1, <2>2, <2>3, FirstIsPicked
<1>8. PickedIn(m, {""}) \subseteq told
  <2> SUFFICES ASSUME NEW op \in PickedIn(m, {""}) PROVE op \in told
    OBVIOUS
  <2>1. op \in Range(Candidates("cpu", ""))
    BY PickedUnset
  <2>2. Range(Candidates("cpu", "")) = {"amx-sdpa", "naive-sdpa"}
    BY UnsetTries
  <2> QED BY <1>1, <2>1, <2>2
<1>9. ever \subseteq CPUFlashOps \cup {"amx-sdpa", "naive-sdpa"} /\ ever \ told \subseteq Unlisted(m)
  <2> SUFFICES ASSUME NEW op \in ever
               PROVE  /\ op \in CPUFlashOps \cup {"amx-sdpa", "naive-sdpa"}
                      /\ op \in told \/ op \in Unlisted(m)
    OBVIOUS
  <2>1. PICK env \in Environments("cpu") :
            op \in Range(Candidates("cpu", env)) /\ (op \in Imported => Loads(m, op))
    BY PickedLoads
  <2>2. op \in CPUFlashOps \cup {"amx-sdpa", "naive-sdpa"}
    BY <2>1, TriedOnCPU
  <2>3. op \in told \/ (op = "ipex-flash" /\ "amx_bf16" \notin m.cpu.flags)
    BY <1>1, <2>1, <2>2 DEF Imported
  <2> QED BY <2>2, <2>3 DEF Unlisted
<1>10. served \subseteq ever /\ Useless(m) = {"naive-sdpa"}
  BY ServedIs DEF Useless
<1> HIDE DEF ever, served
<1>11. told \subseteq ever /\ told \ served = told \cap Useless(m)
  BY <1>1, <1>5, <1>6, <1>7, <1>10
<1>12. SupportsFlashAttention(m, "cpu") <=> \E op \in CPUFlashOps : op \in told
  <2>1. SupportsFlashAttention(m, "cpu") <=> \E op \in CPUFlashOps : Contains(CPUOps(m), op)
    BY DEF SupportsFlashAttention
  <2>2. told = Range(CPUOps(m))
    BY DEF told, TellsOps
  <2>3. \A op : Contains(CPUOps(m), op) <=> op \in Range(CPUOps(m))
    BY DEF Contains, Range
  <2> QED BY <2>1, <2>2, <2>3
<1>13. (\E op \in CPUFlashOps : op \in told) <=> ever \cap told \cap FlashOps # {}
  BY <1>1, <1>11 DEF CPUFlashOps, FlashOps
<1>14. served \cap FP8Kernels = {}
  BY <1>0, <1>9, <1>10
<1> QED BY <1>8, <1>9, <1>11, <1>12, <1>13, <1>14 DEF InfoHolds, told, ever, served

MachineIs == machine = NoMachine \/ machine \in Machines

(* On every machine.                                                       *)
LEMMA InfoIsSo == Exercised /\ MachineIs => InfoTellsTruth
<1> SUFFICES ASSUME Exercised, machine \in Machines PROVE InfoTellsTruth
  BY DEF InfoTellsTruth, MachineIs
<1>1. InfoHolds(machine)
  BY HomeIs, InfoOnROCm, InfoOnCUDA, InfoOnCPU
<1>2. OrderHolds(machine, Home(machine))
  BY HomeIs, OrderOnROCm, OrderOnCUDA, OrderOnCPU
<1> DEFINE backend == Home(machine)
           told == Range(TellsOps(machine, backend))
           ever == PickedIn(machine, Environments(backend))
           served == ServedBy(machine, Environments(backend))
           unset == PickedIn(machine, {""})
<1>3. /\ told \subseteq ever /\ told \ served = told \cap Useless(machine)
      /\ unset \subseteq told
      /\ ever \ told \subseteq Unlisted(machine)
      /\ SupportsFlashAttention(machine, backend)
            <=> ever \cap told \cap (CPUFlashOps \cup {"rocm-ck-flash", "nvidia-flash"}) # {}
      /\ served \cap FP8Kernels # {} => SupportsFP8(machine, backend)
  BY <1>1 DEF InfoHolds, FlashOps
<1>4. \A a, b \in told : Before(TellsOps(machine, backend), a, b) =>
         (<<a, b>> \in Transposed
            <=> \E env \in Environments(backend) : Before(Candidates(backend, env), b, a))
  BY <1>2 DEF OrderHolds
<1> HIDE DEF told, ever, served, unset, backend
<1>5. machine # NoMachine =>
        /\ told \subseteq ever /\ told \ served = told \cap Useless(machine)
        /\ unset \subseteq told
        /\ ever \ told \subseteq Unlisted(machine)
        /\ \A a, b \in told : Before(TellsOps(machine, backend), a, b) =>
              (<<a, b>> \in Transposed
                 <=> \E env \in Environments(backend) : Before(Candidates(backend, env), b, a))
        /\ SupportsFlashAttention(machine, backend)
              <=> ever \cap told \cap (CPUFlashOps \cup {"rocm-ck-flash", "nvidia-flash"}) # {}
        /\ served \cap FP8Kernels # {} => SupportsFP8(machine, backend)
  BY <1>3, <1>4
<1> QED BY <1>5 DEF InfoTellsTruth, told, ever, served, unset, backend

(* On every machine, what `repercep info` tells is what dispatch does: the *)
(* ops it lists are the ones that are picked there under some setting, for *)
(* a problem that they can do, and no other is picked, in the order in     *)
(* which they are tried; flash attention and FP8 are told of where an op   *)
(* has them.  It is not so in the cases that Useless, Unlisted and         *)
(* Transposed name, and in these it never is.  That a listed op is ever    *)
(* picked needs a problem that every op takes among those that are asked:  *)
(* that is all that is assumed of the constants.                           *)
THEOREM InfoIsTrue ==
    ASSUME Exercised
    PROVE  MCSpec => []InfoTellsTruth
<1>1. MCInit => MachineIs
  BY DEF MCInit, MachineIs
<1>2. MachineIs /\ [MCNext]_<<part, vars, tunerVars, problem, machine, opsVars>> => MachineIs'
  <2> SUFFICES ASSUME MachineIs, [MCNext]_<<part, vars, tunerVars, problem, machine, opsVars>>
               PROVE  MachineIs'
    OBVIOUS
  <2>1. machine' = machine
    BY DEF MCNext
  <2> QED BY <2>1 DEF MachineIs
<1>3. MachineIs => InfoTellsTruth
  BY InfoIsSo
<1> QED BY <1>1, <1>2, <1>3, PTL DEF MCSpec

-----------------------------------------------------------------------------
(* How tensors are laid out *)

(* A function on 1..3 is a triple.                                         *)
LEMMA Triple ==
    ASSUME NEW f, f = [j \in 1..3 |-> f[j]]
    PROVE  f = <<f[1], f[2], f[3]>>
<1>1. Len(<<f[1], f[2], f[3]>>) = 3 /\ <<f[1], f[2], f[3]>> \in Seq({f[1], f[2], f[3]})
  OBVIOUS
<1>2. f \in [1..3 -> {f[1], f[2], f[3]}]
  <2>1. \A j \in 1..3 : j = 1 \/ j = 2 \/ j = 3
    OBVIOUS
  <2> QED BY <2>1
<1>3. f \in Seq({f[1], f[2], f[3]}) /\ Len(f) = 3
  BY <1>2, IsASeq
<1> DEFINE g == <<f[1], f[2], f[3]>>
<1>4. g[1] = f[1] /\ g[2] = f[2] /\ g[3] = f[3]
  OBVIOUS
<1>5. \A j \in 1..3 : f[j] = g[j]
  BY <1>4
<1> HIDE DEF g
<1> SUFFICES f = g
  BY DEF g
<1> QED BY <1>1, <1>3, <1>5, SeqEqual DEF g

DimsAre(t, d1, d2, d3) ==
    /\ t.dims[1] = d1 /\ t.dims[2] = d2 /\ t.dims[3] = d3
    /\ d1 \in Nat /\ d2 \in Nat /\ d3 \in Nat

InBox(d1, d2, d3, x, y, z) == x \in 1..d1 /\ y \in 1..d2 /\ z \in 1..d3

(* What is an entry of a tensor.                                           *)
LEMMA Boxes ==
    ASSUME NEW dims, NEW x, NEW y, NEW z
    PROVE  <<x, y, z>> \in O!Box(dims) <=> InBox(dims[1], dims[2], dims[3], x, y, z)
BY DEF O!Box, InBox

(* permute: where an entry is, and what the dimensions are.                *)
LEMMA Permutes ==
    ASSUME NEW t, NEW p \in [1..3 -> 1..3], NEW inv \in [1..3 -> 1..3],
           \A j \in 1..3 : p[inv[j]] = j /\ \A k \in 1..3 : p[k] = j => k = inv[j]
    PROVE  /\ \A k \in 1..3 : O!Permute(t, p).dims[k] = t.dims[p[k]]
           /\ \A i \in O!Box(O!Permute(t, p).dims) :
                 O!Permute(t, p).at[i] = t.at[<<i[inv[1]], i[inv[2]], i[inv[3]]>>]
<1> DEFINE dims == [k \in 1..3 |-> t.dims[p[k]]]
           Axis(j) == CHOOSE k \in 1..3 : p[k] = j
           entries == [i \in O!Box(dims) |-> t.at[[j \in 1..3 |-> i[Axis(j)]]]]
<1>1. O!Permute(t, p) = [dims |-> dims, at |-> entries]
  BY DEF O!Permute
<1>2. \A j \in 1..3 : Axis(j) = inv[j]
  OBVIOUS
<1>3. ASSUME NEW i \in O!Box(dims)
      PROVE  entries[i] = t.at[<<i[inv[1]], i[inv[2]], i[inv[3]]>>]
  <2> DEFINE g == [j \in 1..3 |-> i[Axis(j)]]
  <2>1. entries[i] = t.at[g]
    OBVIOUS
  <2>2. g[1] = i[inv[1]] /\ g[2] = i[inv[2]] /\ g[3] = i[inv[3]] /\ g = [j \in 1..3 |-> g[j]]
    BY <1>2
  <2> HIDE DEF g, entries
  <2>3. g = <<i[inv[1]], i[inv[2]], i[inv[3]]>>
    BY <2>2, Triple
  <2> QED BY <2>1, <2>3
<1>4. \A k \in 1..3 : dims[k] = t.dims[p[k]]
  OBVIOUS
<1> HIDE DEF dims, entries
<1>5. O!Permute(t, p).dims = dims /\ O!Permute(t, p).at = entries
  BY <1>1
<1> QED BY <1>3, <1>4, <1>5

Swapped(t, u, d1, d2, d3) ==
    /\ DimsAre(u, d1, d3, d2)
    /\ \A x, y, z : InBox(d1, d3, d2, x, y, z) => u.at[<<x, y, z>>] = t.at[<<x, z, y>>]

(* Where an entry is when the last two axes have been swapped,             *)
LEMMA Transposes ==
    ASSUME NEW t, NEW d1, NEW d2, NEW d3, DimsAre(t, d1, d2, d3)
    PROVE  Swapped(t, O!Transpose(t), d1, d2, d3)
<1> DEFINE p == <<1, 3, 2>>  u == O!Permute(t, p)
<1>1. p \in [1..3 -> 1..3] /\ p[1] = 1 /\ p[2] = 3 /\ p[3] = 2
  OBVIOUS
<1>2. \A j \in 1..3 : p[p[j]] = j /\ \A k \in 1..3 : p[k] = j => k = p[j]
  BY <1>1
<1> HIDE DEF p
<1>3. /\ \A k \in 1..3 : u.dims[k] = t.dims[p[k]]
      /\ \A i \in O!Box(u.dims) : u.at[i] = t.at[<<i[p[1]], i[p[2]], i[p[3]]>>]
  BY <1>1, <1>2, Permutes
<1>4. O!Transpose(t) = u
  BY DEF O!Transpose, p
<1> HIDE DEF u
<1>5. DimsAre(u, d1, d3, d2)
  BY <1>1, <1>3 DEF DimsAre
<1>6. ASSUME NEW x, NEW y, NEW z, InBox(d1, d3, d2, x, y, z)
      PROVE  u.at[<<x, y, z>>] = t.at[<<x, z, y>>]
  <2>1. <<x, y, z>> \in O!Box(u.dims)
    BY <1>5, <1>6, Boxes DEF DimsAre
  <2> QED BY <1>1, <1>3, <2>1
<1> QED BY <1>4, <1>5, <1>6 DEF Swapped

Rolled(t, u, d1, d2, d3) ==
    /\ DimsAre(u, d3, d1, d2)
    /\ \A x, y, z : InBox(d3, d1, d2, x, y, z) => u.at[<<x, y, z>>] = t.at[<<y, z, x>>]

(* when the last one has come to the front,                                *)
LEMMA RollsForward ==
    ASSUME NEW t, NEW d1, NEW d2, NEW d3, DimsAre(t, d1, d2, d3)
    PROVE  Rolled(t, O!Permute(t, <<3, 1, 2>>), d1, d2, d3)
<1> DEFINE p == <<3, 1, 2>>  n == <<2, 3, 1>>  u == O!Permute(t, p)
<1>1. /\ p \in [1..3 -> 1..3] /\ p[1] = 3 /\ p[2] = 1 /\ p[3] = 2
      /\ n \in [1..3 -> 1..3] /\ n[1] = 2 /\ n[2] = 3 /\ n[3] = 1
  OBVIOUS
<1>2. \A j \in 1..3 : p[n[j]] = j /\ \A k \in 1..3 : p[k] = j => k = n[j]
  BY <1>1
<1> SUFFICES Rolled(t, u, d1, d2, d3)
  OBVIOUS
<1> HIDE DEF p, n
<1>3. /\ \A k \in 1..3 : u.dims[k] = t.dims[p[k]]
      /\ \A i \in O!Box(u.dims) : u.at[i] = t.at[<<i[n[1]], i[n[2]], i[n[3]]>>]
  BY <1>1, <1>2, Permutes
<1> HIDE DEF u
<1>5. DimsAre(u, d3, d1, d2)
  BY <1>1, <1>3 DEF DimsAre
<1>6. ASSUME NEW x, NEW y, NEW z, InBox(d3, d1, d2, x, y, z)
      PROVE  u.at[<<x, y, z>>] = t.at[<<y, z, x>>]
  <2>1. <<x, y, z>> \in O!Box(u.dims)
    BY <1>5, <1>6, Boxes DEF DimsAre
  <2> QED BY <1>1, <1>3, <2>1
<1> QED BY <1>5, <1>6 DEF Rolled

RolledBack(t, u, d1, d2, d3) ==
    /\ DimsAre(u, d2, d3, d1)
    /\ \A x, y, z : InBox(d2, d3, d1, x, y, z) => u.at[<<x, y, z>>] = t.at[<<z, x, y>>]

(* and when the first one has gone to the end.                             *)
LEMMA RollsBack ==
    ASSUME NEW t, NEW d1, NEW d2, NEW d3, DimsAre(t, d1, d2, d3)
    PROVE  RolledBack(t, O!Permute(t, <<2, 3, 1>>), d1, d2, d3)
<1> DEFINE p == <<2, 3, 1>>  n == <<3, 1, 2>>  u == O!Permute(t, p)
<1>1. /\ p \in [1..3 -> 1..3] /\ p[1] = 2 /\ p[2] = 3 /\ p[3] = 1
      /\ n \in [1..3 -> 1..3] /\ n[1] = 3 /\ n[2] = 1 /\ n[3] = 2
  OBVIOUS
<1>2. \A j \in 1..3 : p[n[j]] = j /\ \A k \in 1..3 : p[k] = j => k = n[j]
  BY <1>1
<1> SUFFICES RolledBack(t, u, d1, d2, d3)
  OBVIOUS
<1> HIDE DEF p, n
<1>3. /\ \A k \in 1..3 : u.dims[k] = t.dims[p[k]]
      /\ \A i \in O!Box(u.dims) : u.at[i] = t.at[<<i[n[1]], i[n[2]], i[n[3]]>>]
  BY <1>1, <1>2, Permutes
<1> HIDE DEF u
<1>5. DimsAre(u, d2, d3, d1)
  BY <1>1, <1>3 DEF DimsAre
<1>6. ASSUME NEW x, NEW y, NEW z, InBox(d2, d3, d1, x, y, z)
      PROVE  u.at[<<x, y, z>>] = t.at[<<z, x, y>>]
  <2>1. <<x, y, z>> \in O!Box(u.dims)
    BY <1>5, <1>6, Boxes DEF DimsAre
  <2> QED BY <1>1, <1>3, <2>1
<1> QED BY <1>5, <1>6 DEF RolledBack

-----------------------------------------------------------------------------
(* Layouts, and what attention is on a tensor in each of them *)

Layouts == {"bhsd", "bshd", "sbhd"}

Spot(layout, b, h, s) ==
    CASE layout = "bhsd" -> <<b, h, s>>
      [] layout = "bshd" -> <<b, s, h>>
      [] layout = "sbhd" -> <<s, b, h>>

Shaped(t, layout, bs, hs, ss) ==
    CASE layout = "bhsd" -> DimsAre(t, bs, hs, ss)
      [] layout = "bshd" -> DimsAre(t, bs, ss, hs)
      [] layout = "sbhd" -> DimsAre(t, ss, bs, hs)

Seen(mask, s, qs, ks) ==
    {j \in 1..ks : mask = "none" \/ j <= s + (IF mask = "bottom" THEN ks - qs ELSE 0)}

RowOf(q, k, v, layout, b, h, s, seen, scale) ==
    [of |-> q.at[Spot(layout, b, h, s)],
     over |-> {<<k.at[Spot(layout, b, h, j)], v.at[Spot(layout, b, h, j)]>> : j \in seen},
     scale |-> scale]

Attends(ans, q, k, v, layout, bs, hs, qs, ks, mask, scale) ==
    /\ Shaped(ans, layout, bs, hs, qs)
    /\ \A b, h, s : InBox(bs, hs, qs, b, h, s) =>
          ans.at[Spot(layout, b, h, s)]
              = RowOf(q, k, v, layout, b, h, s, Seen(mask, s, qs, ks), scale)

(* The rows that a query looks at, in the layout that the kernel takes.    *)
LEMMA KeysSeen ==
    ASSUME NEW layout \in Layouts, NEW q, NEW k, NEW bs, NEW hs, NEW qs, NEW ks, NEW mask,
           Shaped(q, layout, bs, hs, qs), Shaped(k, layout, bs, hs, ks),
           NEW b, NEW h, NEW s, InBox(bs, hs, qs, b, h, s)
    PROVE  LET x == O!Axes[layout]
               i == Spot(layout, b, h, s)
               shift == IF mask = "bottom" THEN k.dims[x.s] - q.dims[x.s] ELSE 0
           IN  /\ i \in O!Box(q.dims)
               /\ \A j : j \in O!Box(k.dims) /\ j[x.b] = i[x.b] /\ j[x.h] = i[x.h]
                          /\ (mask = "none" \/ j[x.s] <= i[x.s] + shift)
                     <=> \E n \in Seen(mask, s, qs, ks) : j = Spot(layout, b, h, n)
<1> DEFINE x == O!Axes[layout]
           i == Spot(layout, b, h, s)
           shift == IF mask = "bottom" THEN k.dims[x.s] - q.dims[x.s] ELSE 0
           Keys(j) == /\ j \in O!Box(k.dims) /\ j[x.b] = i[x.b] /\ j[x.h] = i[x.h]
                      /\ mask = "none" \/ j[x.s] <= i[x.s] + shift
<1>1. /\ layout = "bhsd" => x.b = 1 /\ x.h = 2 /\ x.s = 3
      /\ layout = "bshd" => x.b = 1 /\ x.h = 3 /\ x.s = 2
      /\ layout = "sbhd" => x.b = 2 /\ x.h = 3 /\ x.s = 1
  BY DEF O!Axes
<1>2. shift = IF mask = "bottom" THEN ks - qs ELSE 0
  BY <1>1 DEF Shaped, DimsAre, Layouts
<1>3. \A n : n \in Seen(mask, s, qs, ks) <=>
        n \in 1..ks /\ (mask = "none" \/ n <= s + shift)
  BY <1>2 DEF Seen
<1>4. \A j : j \in O!Box(k.dims) => j = <<j[1], j[2], j[3]>>
  BY DEF O!Box
<1> HIDE DEF x, shift
<1>5. CASE layout = "bhsd"
  <2>1. i = <<b, h, s>> /\ \A n : Spot(layout, b, h, n) = <<b, h, n>>
    BY <1>5 DEF Spot
  <2>2. \A u, v, w : <<u, v, w>> \in O!Box(k.dims) <=> InBox(bs, hs, ks, u, v, w)
    BY <1>5, Boxes DEF Shaped, DimsAre
  <2>3. i \in O!Box(q.dims)
    BY <1>5, <2>1, Boxes DEF Shaped, DimsAre
  <2>4. x.b = 1 /\ x.h = 2 /\ x.s = 3 /\ i[1] = b /\ i[2] = h /\ i[3] = s
    BY <1>1, <1>5, <2>1
  <2> HIDE DEF i
  <2>5. ASSUME NEW j, Keys(j) PROVE \E n \in Seen(mask, s, qs, ks) : j = Spot(layout, b, h, n)
    <3>1. j = <<b, h, j[3]>> /\ j[3] \in 1..ks /\ (mask = "none" \/ j[3] <= s + shift)
      BY <1>4, <2>2, <2>4, <2>5 DEF InBox
    <3> QED BY <1>3, <2>1, <3>1
  <2>6. ASSUME NEW n \in Seen(mask, s, qs, ks) PROVE Keys(<<b, h, n>>)
    BY <1>3, <2>2, <2>4 DEF InBox
  <2> HIDE DEF Keys
  <2>7. \A j : Keys(j) <=> \E n \in Seen(mask, s, qs, ks) : j = Spot(layout, b, h, n)
    BY <2>1, <2>5, <2>6
  <2> QED BY <2>3, <2>7 DEF Keys, i, x, shift
<1>6. CASE layout = "bshd"
  <2>1. i = <<b, s, h>> /\ \A n : Spot(layout, b, h, n) = <<b, n, h>>
    BY <1>6 DEF Spot
  <2>2. \A u, v, w : <<u, v, w>> \in O!Box(k.dims) <=> InBox(bs, ks, hs, u, v, w)
    BY <1>6, Boxes DEF Shaped, DimsAre
  <2>3. i \in O!Box(q.dims)
    BY <1>6, <2>1, Boxes DEF Shaped, DimsAre, InBox
  <2>4. x.b = 1 /\ x.h = 3 /\ x.s = 2 /\ i[1] = b /\ i[3] = h /\ i[2] = s
    BY <1>1, <1>6, <2>1
  <2> HIDE DEF i
  <2>5. ASSUME NEW j, Keys(j) PROVE \E n \in Seen(mask, s, qs, ks) : j = Spot(layout, b, h, n)
    <3>1. j = <<b, j[2], h>> /\ j[2] \in 1..ks /\ (mask = "none" \/ j[2] <= s + shift)
      BY <1>4, <2>2, <2>4, <2>5 DEF InBox
    <3> QED BY <1>3, <2>1, <3>1
  <2>6. ASSUME NEW n \in Seen(mask, s, qs, ks) PROVE Keys(<<b, n, h>>)
    BY <1>3, <2>2, <2>4 DEF InBox
  <2> HIDE DEF Keys
  <2>7. \A j : Keys(j) <=> \E n \in Seen(mask, s, qs, ks) : j = Spot(layout, b, h, n)
    BY <2>1, <2>5, <2>6
  <2> QED BY <2>3, <2>7 DEF Keys, i, x, shift
<1>7. CASE layout = "sbhd"
  <2>1. i = <<s, b, h>> /\ \A n : Spot(layout, b, h, n) = <<n, b, h>>
    BY <1>7 DEF Spot
  <2>2. \A u, v, w : <<u, v, w>> \in O!Box(k.dims) <=> InBox(ks, bs, hs, u, v, w)
    BY <1>7, Boxes DEF Shaped, DimsAre
  <2>3. i \in O!Box(q.dims)
    BY <1>7, <2>1, Boxes DEF Shaped, DimsAre, InBox
  <2>4. x.b = 2 /\ x.h = 3 /\ x.s = 1 /\ i[2] = b /\ i[3] = h /\ i[1] = s
    BY <1>1, <1>7, <2>1
  <2> HIDE DEF i
  <2>5. ASSUME NEW j, Keys(j) PROVE \E n \in Seen(mask, s, qs, ks) : j = Spot(layout, b, h, n)
    <3>1. j = <<j[1], b, h>> /\ j[1] \in 1..ks /\ (mask = "none" \/ j[1] <= s + shift)
      BY <1>4, <2>2, <2>4, <2>5 DEF InBox
    <3> QED BY <1>3, <2>1, <3>1
  <2>6. ASSUME NEW n \in Seen(mask, s, qs, ks) PROVE Keys(<<n, b, h>>)
    BY <1>3, <2>2, <2>4 DEF InBox
  <2> HIDE DEF Keys
  <2>7. \A j : Keys(j) <=> \E n \in Seen(mask, s, qs, ks) : j = Spot(layout, b, h, n)
    BY <2>1, <2>5, <2>6
  <2> QED BY <2>3, <2>7 DEF Keys, i, x, shift
<1> QED BY <1>5, <1>6, <1>7 DEF Layouts

(* What the kernels answer, row by row.                                    *)
LEMMA AttendIs ==
    ASSUME NEW layout \in Layouts, NEW q, NEW k, NEW v, NEW bs, NEW hs, NEW qs, NEW ks,
           NEW mask, NEW scale,
           Shaped(q, layout, bs, hs, qs), Shaped(k, layout, bs, hs, ks)
    PROVE  Attends(O!Attend(q, k, v, layout, mask, scale), q, k, v, layout, bs, hs, qs, ks,
                   mask, scale)
<1> DEFINE x == O!Axes[layout]
           shift == IF mask = "bottom" THEN k.dims[x.s] - q.dims[x.s] ELSE 0
           Keys(i) == {j \in O!Box(k.dims) : j[x.b] = i[x.b] /\ j[x.h] = i[x.h]
                                               /\ (mask = "none" \/ j[x.s] <= i[x.s] + shift)}
           RowAt(i) == [of |-> q.at[i], over |-> {<<k.at[j], v.at[j]>> : j \in Keys(i)},
                      scale |-> scale]
           ans == O!Attend(q, k, v, layout, mask, scale)
<1>1. ans.dims = q.dims /\ ans.at = [i \in O!Box(q.dims) |-> RowAt(i)]
  BY DEF O!Attend
<1> HIDE DEF ans
<1>2. ASSUME NEW b, NEW h, NEW s, InBox(bs, hs, qs, b, h, s)
      PROVE  ans.at[Spot(layout, b, h, s)]
                 = RowOf(q, k, v, layout, b, h, s, Seen(mask, s, qs, ks), scale)
  <2> DEFINE i == Spot(layout, b, h, s)
  <2>1. i \in O!Box(q.dims)
    BY <1>2, KeysSeen
  <2>2. \A j : j \in Keys(i) <=> \E n \in Seen(mask, s, qs, ks) : j = Spot(layout, b, h, n)
    BY <1>2, KeysSeen
  <2> HIDE DEF i, Keys
  <2>3. {<<k.at[j], v.at[j]>> : j \in Keys(i)}
          = {<<k.at[Spot(layout, b, h, n)], v.at[Spot(layout, b, h, n)]>> :
                n \in Seen(mask, s, qs, ks)}
    BY <2>2
  <2>4. ans.at[i] = RowAt(i)
    BY <1>1, <2>1
  <2> QED BY <2>3, <2>4 DEF RowOf, i
<1>3. Shaped(ans, layout, bs, hs, qs)
  BY <1>1 DEF Shaped, DimsAre, Layouts
<1> QED BY <1>2, <1>3 DEF Attends, ans

-----------------------------------------------------------------------------
(* Tensors and answers that are laid out again *)

Relaid(t, u, from, to, bs, hs, ss) ==
    /\ Shaped(u, to, bs, hs, ss)
    /\ \A b, h, s : InBox(bs, hs, ss, b, h, s) =>
          u.at[Spot(to, b, h, s)] = t.at[Spot(from, b, h, s)]

(* The wrappers turn one layout into another.                              *)
LEMMA TransposeRelays ==
    ASSUME NEW t, NEW bs, NEW hs, NEW ss
    PROVE  /\ Shaped(t, "bhsd", bs, hs, ss) =>
                 Relaid(t, O!Transpose(t), "bhsd", "bshd", bs, hs, ss)
           /\ Shaped(t, "bshd", bs, hs, ss) =>
                 Relaid(t, O!Transpose(t), "bshd", "bhsd", bs, hs, ss)
<1> DEFINE u == O!Transpose(t)
<1>1. ASSUME Shaped(t, "bhsd", bs, hs, ss)
      PROVE  Relaid(t, u, "bhsd", "bshd", bs, hs, ss)
  <2>1. DimsAre(t, bs, hs, ss)
    BY <1>1 DEF Shaped
  <2>2. Swapped(t, u, bs, hs, ss)
    BY <2>1, Transposes
  <2> HIDE DEF u
  <2> QED BY <2>2 DEF Swapped, Relaid, Shaped, Spot, InBox
<1>2. ASSUME Shaped(t, "bshd", bs, hs, ss)
      PROVE  Relaid(t, u, "bshd", "bhsd", bs, hs, ss)
  <2>1. DimsAre(t, bs, ss, hs)
    BY <1>2 DEF Shaped
  <2>2. Swapped(t, u, bs, ss, hs)
    BY <2>1, Transposes
  <2> HIDE DEF u
  <2> QED BY <2>2 DEF Swapped, Relaid, Shaped, Spot, InBox
<1> QED BY <1>1, <1>2

LEMMA PermuteRelays ==
    ASSUME NEW t, NEW bs, NEW hs, NEW ss
    PROVE  /\ Shaped(t, "bhsd", bs, hs, ss) =>
                 Relaid(t, O!Permute(t, <<3, 1, 2>>), "bhsd", "sbhd", bs, hs, ss)
           /\ Shaped(t, "sbhd", bs, hs, ss) =>
                 Relaid(t, O!Permute(t, <<2, 3, 1>>), "sbhd", "bhsd", bs, hs, ss)
<1>1. ASSUME Shaped(t, "bhsd", bs, hs, ss)
      PROVE  Relaid(t, O!Permute(t, <<3, 1, 2>>), "bhsd", "sbhd", bs, hs, ss)
  <2> DEFINE u == O!Permute(t, <<3, 1, 2>>)
  <2>1. DimsAre(t, bs, hs, ss)
    BY <1>1 DEF Shaped
  <2>2. Rolled(t, u, bs, hs, ss)
    BY <2>1, RollsForward
  <2> SUFFICES Relaid(t, u, "bhsd", "sbhd", bs, hs, ss)
    OBVIOUS
  <2> HIDE DEF u
  <2> QED BY <2>2 DEF Rolled, Relaid, Shaped, Spot, InBox
<1>2. ASSUME Shaped(t, "sbhd", bs, hs, ss)
      PROVE  Relaid(t, O!Permute(t, <<2, 3, 1>>), "sbhd", "bhsd", bs, hs, ss)
  <2> DEFINE u == O!Permute(t, <<2, 3, 1>>)
  <2>1. DimsAre(t, ss, bs, hs)
    BY <1>2 DEF Shaped
  <2>2. RolledBack(t, u, ss, bs, hs)
    BY <2>1, RollsBack
  <2> SUFFICES Relaid(t, u, "sbhd", "bhsd", bs, hs, ss)
    OBVIOUS
  <2> HIDE DEF u
  <2> QED BY <2>2 DEF RolledBack, Relaid, Shaped, Spot, InBox
<1> QED BY <1>1, <1>2

(* A tensor of the call, wherever it has been moved since.                 *)
Holds(t, name, home, layout, bs, hs, ss) ==
    /\ Shaped(t, layout, bs, hs, ss)
    /\ \A b, h, s : InBox(bs, hs, ss, b, h, s) =>
          t.at[Spot(layout, b, h, s)] = <<name, Spot(home, b, h, s)>>

Due(home, b, h, s, seen, scale) ==
    [of |-> <<"q", Spot(home, b, h, s)>>,
     over |-> {<< <<"k", Spot(home, b, h, j)>>, <<"v", Spot(home, b, h, j)>> >> : j \in seen},
     scale |-> scale]

LowerTriangle(causal, s, ks) == {j \in 1..ks : causal => j <= s}

(* An answer to the call.                                                  *)
Answers(ans, home, layout, bs, hs, qs, ks, causal, scale) ==
    /\ Shaped(ans, layout, bs, hs, qs)
    /\ \A b, h, s : InBox(bs, hs, qs, b, h, s) =>
          ans.at[Spot(layout, b, h, s)] = Due(home, b, h, s, LowerTriangle(causal, s, ks), scale)

(* A tensor of the call, and an answer to it, are what they were when they are moved. *)
LEMMA HoldsStill ==
    ASSUME NEW t, NEW u, NEW from, NEW to, NEW bs, NEW hs, NEW ss, NEW name, NEW home,
           Holds(t, name, home, from, bs, hs, ss), Relaid(t, u, from, to, bs, hs, ss)
    PROVE  Holds(u, name, home, to, bs, hs, ss)
BY DEF Holds, Relaid

LEMMA AnswersStill ==
    ASSUME NEW t, NEW u, NEW from, NEW to, NEW bs, NEW hs, NEW qs, NEW ks, NEW home,
           NEW causal, NEW scale,
           Answers(t, home, from, bs, hs, qs, ks, causal, scale),
           Relaid(t, u, from, to, bs, hs, qs)
    PROVE  Answers(u, home, to, bs, hs, qs, ks, causal, scale)
BY DEF Answers, Relaid

Masks(mask, causal, qs, ks) ==
    IF causal THEN mask = "top" \/ (mask = "bottom" /\ qs = ks) ELSE mask = "none"

(* A kernel that is given the tensors of a call in the layout it takes answers the call. *)
LEMMA AttendAnswers ==
    ASSUME NEW layout \in Layouts, NEW home, NEW q, NEW k, NEW v, NEW bs, NEW hs, NEW qs, NEW ks,
           NEW mask, NEW causal, NEW scale, Masks(mask, causal, qs, ks), bs \in Nat, hs \in Nat,
           qs \in Nat, ks \in Nat,
           Holds(q, "q", home, layout, bs, hs, qs), Holds(k, "k", home, layout, bs, hs, ks),
           Holds(v, "v", home, layout, bs, hs, ks)
    PROVE  Answers(O!Attend(q, k, v, layout, mask, scale), home, layout, bs, hs, qs, ks, causal,
                   scale)
<1> DEFINE ans == O!Attend(q, k, v, layout, mask, scale)
<1>1. Attends(ans, q, k, v, layout, bs, hs, qs, ks, mask, scale)
  BY AttendIs DEF Holds
<1> HIDE DEF ans
<1>2. ASSUME NEW b, NEW h, NEW s, InBox(bs, hs, qs, b, h, s)
      PROVE  ans.at[Spot(layout, b, h, s)]
                = Due(home, b, h, s, LowerTriangle(causal, s, ks), scale)
  <2> DEFINE seen == LowerTriangle(causal, s, ks)
  <2>1. Seen(mask, s, qs, ks) = seen
    <3>1. s \in Nat
      BY <1>2 DEF InBox
    <3>2. CASE ~causal
      BY <3>2 DEF Masks, Seen, LowerTriangle
    <3>3. CASE causal /\ mask = "top"
      BY <3>1, <3>3 DEF Masks, Seen, LowerTriangle
    <3>4. CASE causal /\ mask = "bottom" /\ qs = ks
      BY <3>1, <3>4 DEF Masks, Seen, LowerTriangle
    <3> QED BY <3>2, <3>3, <3>4 DEF Masks
  <2>2. ans.at[Spot(layout, b, h, s)] = RowOf(q, k, v, layout, b, h, s, seen, scale)
    BY <1>1, <1>2, <2>1 DEF Attends
  <2>3. q.at[Spot(layout, b, h, s)] = <<"q", Spot(home, b, h, s)>>
    BY <1>2 DEF Holds
  <2>4. \A j \in seen : /\ k.at[Spot(layout, b, h, j)] = <<"k", Spot(home, b, h, j)>>
                        /\ v.at[Spot(layout, b, h, j)] = <<"v", Spot(home, b, h, j)>>
    BY <1>2 DEF Holds, LowerTriangle, InBox
  <2> HIDE DEF seen
  <2>5. {<<k.at[Spot(layout, b, h, j)], v.at[Spot(layout, b, h, j)]>> : j \in seen}
          = {<< <<"k", Spot(home, b, h, j)>>, <<"v", Spot(home, b, h, j)>> >> : j \in seen}
    BY <2>4
  <2>6. RowOf(q, k, v, layout, b, h, s, seen, scale) = Due(home, b, h, s, seen, scale)
    BY <2>3, <2>5, Zenon DEF RowOf, Due
  <2> QED BY <2>2, <2>6 DEF seen
<1> QED BY <1>1, <1>2 DEF Answers, Attends, ans

Called(q, k, v, home, layout, bs, hs, qs, ks) ==
    /\ bs \in Nat \ {0} /\ hs \in Nat \ {0} /\ qs \in Nat \ {0} /\ ks \in Nat \ {0}
    /\ Holds(q, "q", home, layout, bs, hs, qs)
    /\ Holds(k, "k", home, layout, bs, hs, ks)
    /\ Holds(v, "v", home, layout, bs, hs, ks)

(* The tensors of a call, moved together.                                  *)
LEMMA CalledStill ==
    ASSUME NEW q, NEW k, NEW v, NEW home, NEW bs, NEW hs, NEW qs, NEW ks
    PROVE  /\ Called(q, k, v, home, "bhsd", bs, hs, qs, ks) =>
                 Called(O!Transpose(q), O!Transpose(k), O!Transpose(v), home, "bshd",
                        bs, hs, qs, ks)
           /\ Called(q, k, v, home, "bshd", bs, hs, qs, ks) =>
                 Called(O!Transpose(q), O!Transpose(k), O!Transpose(v), home, "bhsd",
                        bs, hs, qs, ks)
           /\ Called(q, k, v, home, "bhsd", bs, hs, qs, ks) =>
                 Called(O!Permute(q, <<3, 1, 2>>), O!Permute(k, <<3, 1, 2>>),
                        O!Permute(v, <<3, 1, 2>>), home, "sbhd", bs, hs, qs, ks)
<1>1. ASSUME NEW t, NEW name, NEW ss, Holds(t, name, home, "bhsd", bs, hs, ss)
      PROVE  Holds(O!Transpose(t), name, home, "bshd", bs, hs, ss)
  <2>1. Shaped(t, "bhsd", bs, hs, ss)
    BY <1>1 DEF Holds
  <2>2. Relaid(t, O!Transpose(t), "bhsd", "bshd", bs, hs, ss)
    BY <2>1, TransposeRelays
  <2> QED BY <1>1, <2>2, HoldsStill
<1>2. ASSUME NEW t, NEW name, NEW ss, Holds(t, name, home, "bshd", bs, hs, ss)
      PROVE  Holds(O!Transpose(t), name, home, "bhsd", bs, hs, ss)
  <2>1. Shaped(t, "bshd", bs, hs, ss)
    BY <1>2 DEF Holds
  <2>2. Relaid(t, O!Transpose(t), "bshd", "bhsd", bs, hs, ss)
    BY <2>1, TransposeRelays
  <2> QED BY <1>2, <2>2, HoldsStill
<1>3. ASSUME NEW t, NEW name, NEW ss, Holds(t, name, home, "bhsd", bs, hs, ss)
      PROVE  Holds(O!Permute(t, <<3, 1, 2>>), name, home, "sbhd", bs, hs, ss)
  <2>1. Shaped(t, "bhsd", bs, hs, ss)
    BY <1>3 DEF Holds
  <2>2. Relaid(t, O!Permute(t, <<3, 1, 2>>), "bhsd", "sbhd", bs, hs, ss)
    BY <2>1, PermuteRelays
  <2> QED BY <1>3, <2>2, HoldsStill
<1> QED BY <1>1, <1>2, <1>3 DEF Called

-----------------------------------------------------------------------------
(* What each op answers.                                                   *)
AnswersCall(ans, home, layout, bs, hs, qs, ks, causal, scale) ==
    Answers(ans, home, layout, bs, hs, qs, ks, causal, O!Scale(scale))

(* The ops that take the layout of the call.                               *)
LEMMA SdpaAnswers ==
    ASSUME NEW home, NEW q, NEW k, NEW v, NEW bs, NEW hs, NEW qs, NEW ks, NEW causal, NEW scale,
           Called(q, k, v, home, "bhsd", bs, hs, qs, ks), causal => qs = ks
    PROVE  /\ AnswersCall(O!Sdpa(q, k, v, causal, scale), home, "bhsd", bs, hs, qs, ks, causal,
                          scale)
           /\ AnswersCall(O!Fused(q, k, v, causal, scale), home, "bhsd", bs, hs, qs, ks, causal,
                          scale)
           /\ AnswersCall(O!Fused(q, k, v, causal, O!Scale(scale)), home, "bhsd", bs, hs, qs, ks,
                          causal, scale)
<1>1. Masks(O!TopLeft(causal), causal, qs, ks)
  BY DEF Masks, O!TopLeft
<1>2. O!Scale(O!Scale(scale)) = O!Scale(scale)
  BY DEF O!Scale
<1>3. Answers(O!Attend(q, k, v, "bhsd", O!TopLeft(causal), O!Scale(scale)), home, "bhsd",
              bs, hs, qs, ks, causal, O!Scale(scale))
  BY <1>1, AttendAnswers DEF Called, Layouts
<1> QED BY <1>2, <1>3 DEF AnswersCall, O!Sdpa, O!Fused

LEMMA TransposedAnswers ==
    ASSUME NEW ans, NEW home, NEW bs, NEW hs, NEW qs, NEW ks, NEW causal, NEW scale
    PROVE  /\ AnswersCall(ans, home, "bshd", bs, hs, qs, ks, causal, scale) =>
                 AnswersCall(O!Transpose(ans), home, "bhsd", bs, hs, qs, ks, causal, scale)
           /\ AnswersCall(ans, home, "bhsd", bs, hs, qs, ks, causal, scale) =>
                 AnswersCall(O!Transpose(ans), home, "bshd", bs, hs, qs, ks, causal, scale)
<1>1. ASSUME AnswersCall(ans, home, "bshd", bs, hs, qs, ks, causal, scale)
      PROVE  AnswersCall(O!Transpose(ans), home, "bhsd", bs, hs, qs, ks, causal, scale)
  <2>1. Shaped(ans, "bshd", bs, hs, qs)
    BY <1>1 DEF AnswersCall, Answers
  <2>2. Relaid(ans, O!Transpose(ans), "bshd", "bhsd", bs, hs, qs)
    BY <2>1, TransposeRelays
  <2> QED BY <1>1, <2>2, AnswersStill DEF AnswersCall
<1>2. ASSUME AnswersCall(ans, home, "bhsd", bs, hs, qs, ks, causal, scale)
      PROVE  AnswersCall(O!Transpose(ans), home, "bshd", bs, hs, qs, ks, causal, scale)
  <2>1. Shaped(ans, "bhsd", bs, hs, qs)
    BY <1>2 DEF AnswersCall, Answers
  <2>2. Relaid(ans, O!Transpose(ans), "bhsd", "bshd", bs, hs, qs)
    BY <2>1, TransposeRelays
  <2> QED BY <1>2, <2>2, AnswersStill DEF AnswersCall
<1> QED BY <1>1, <1>2

(* The ops that swap heads and positions on the way, there and back.       *)
LEMMA FlashAnswers ==
    ASSUME NEW home, NEW q, NEW k, NEW v, NEW bs, NEW hs, NEW qs, NEW ks, NEW causal, NEW scale,
           Called(q, k, v, home, "bhsd", bs, hs, qs, ks), causal => qs = ks
    PROVE  /\ AnswersCall(O!ROCmFlash(q, k, v, causal, scale), home, "bhsd", bs, hs, qs, ks,
                          causal, scale)
           /\ AnswersCall(O!HopperFlash(q, k, v, causal, scale), home, "bhsd", bs, hs, qs, ks,
                          causal, scale)
<1> DEFINE tq == O!Transpose(q)  tk == O!Transpose(k)  tv == O!Transpose(v)
           mask == IF causal THEN "bottom" ELSE "none"
           out == O!Attend(tq, tk, tv, "bshd", mask, O!Scale(scale))
<1>1. Called(tq, tk, tv, home, "bshd", bs, hs, qs, ks)
  BY CalledStill
<1>2. Masks(mask, causal, qs, ks)
  BY DEF Masks
<1>3. /\ O!ROCmFlash(q, k, v, causal, scale) = O!Transpose(O!FlashAttn(tq, tk, tv, causal, scale)[1])
      /\ O!HopperFlash(q, k, v, causal, scale)
            = O!Transpose(O!FlashAttn(tq, tk, tv, causal, scale)[1])
  BY DEF O!ROCmFlash, O!HopperFlash
<1>4. O!FlashAttn(tq, tk, tv, causal, scale)
        = IF wheel.fa3 THEN <<out, "lse">> ELSE <<out>>
  BY DEF O!FlashAttn
<1> HIDE DEF tq, tk, tv, mask
<1>5. Answers(out, home, "bshd", bs, hs, qs, ks, causal, O!Scale(scale))
  BY <1>1, <1>2, AttendAnswers DEF Called, Layouts
<1> HIDE DEF out
<1>6. O!FlashAttn(tq, tk, tv, causal, scale)[1] = out
  BY <1>4
<1> QED BY <1>3, <1>5, <1>6, TransposedAnswers DEF AnswersCall

(* A module is kept with the mask that it was built for.                   *)
OwnMasks == \A key \in DOMAIN modules : modules[key] = key[2]

LEMMA TransformerEngineAnswers ==
    ASSUME NEW home, NEW q, NEW k, NEW v, NEW bs, NEW hs, NEW qs, NEW ks, NEW causal, NEW scale,
           Called(q, k, v, home, "bhsd", bs, hs, qs, ks), causal => qs = ks, OwnMasks
    PROVE  AnswersCall(O!TransformerEngine(q, k, v, causal, scale), home, "bhsd", bs, hs, qs, ks,
                       causal, scale)
<1> DEFINE mask == O!ModuleMask(q.dims[2], causal)
           sq == O!Permute(q, <<3, 1, 2>>)
           sk == O!Permute(k, <<3, 1, 2>>)
           sv == O!Permute(v, <<3, 1, 2>>)
           out == O!Attend(sq, sk, sv, "sbhd", mask, O!Scale(scale))
           told == O!Attend(q, k, v, "bhsd", mask, O!Scale(scale))
           back == O!Permute(out, <<2, 3, 1>>)
<1>1. mask = O!TopLeft(causal)
  BY DEF O!ModuleMask, O!ModuleKey, OwnMasks
<1>2. Masks(mask, causal, qs, ks)
  BY <1>1 DEF Masks, O!TopLeft
<1>3. O!TransformerEngine(q, k, v, causal, scale) = IF wheel.bhsd THEN told ELSE back
  BY DEF O!TransformerEngine
<1>4. Called(sq, sk, sv, home, "sbhd", bs, hs, qs, ks)
  BY CalledStill
<1> HIDE DEF mask, sq, sk, sv
<1>5. /\ Answers(told, home, "bhsd", bs, hs, qs, ks, causal, O!Scale(scale))
      /\ Answers(out, home, "sbhd", bs, hs, qs, ks, causal, O!Scale(scale))
  BY <1>2, <1>4, AttendAnswers DEF Called, Layouts
<1> HIDE DEF told, out
<1>6. Answers(back, home, "bhsd", bs, hs, qs, ks, causal, O!Scale(scale))
  <2>1. Shaped(out, "sbhd", bs, hs, qs)
    BY <1>5 DEF Answers
  <2>2. Relaid(out, back, "sbhd", "bhsd", bs, hs, qs)
    BY <2>1, PermuteRelays
  <2> QED BY <1>5, <2>2, AnswersStill
<1> QED BY <1>3, <1>5, <1>6 DEF AnswersCall

(* Batch and heads in one axis, and back.                                  *)
LEMMA Divides ==
    ASSUME NEW n \in Nat \ {0}, NEW a \in Nat, NEW r \in 0..n - 1
    PROVE  (a * n + r) \div n = a /\ (a * n + r) % n = r
<1> DEFINE x == a * n + r  d == x \div n  m == x % n
<1>1. x \in Nat /\ d \in Int /\ m \in Int
  OBVIOUS
<1>2. x = n * d + m /\ 0 <= m /\ m < n
  OBVIOUS
<1>3. x = n * a + r /\ 0 <= r /\ r < n /\ r \in Int /\ a \in Int /\ n \in Int /\ n > 0
  OBVIOUS
<1> SUFFICES d = a /\ m = r
  OBVIOUS
<1> HIDE DEF x, d, m
<1>4. n * (d - a) = r - m
  <2>1. n * (d - a) = n * d - n * a
    BY ONLY <1>1, <1>3
  <2> QED BY ONLY <1>1, <1>2, <1>3, <2>1
<1>5. ~(d - a >= 1)
  <2> SUFFICES ASSUME d - a >= 1 PROVE FALSE
    OBVIOUS
  <2>1. n * (d - a) >= n
    BY ONLY <1>1, <1>3, d - a >= 1
  <2> QED BY ONLY <1>1, <1>2, <1>3, <1>4, <2>1
<1>6. ~(d - a <= -1)
  <2> SUFFICES ASSUME d - a <= -1 PROVE FALSE
    OBVIOUS
  <2>1. n * (d - a) <= -n
    BY ONLY <1>1, <1>3, d - a <= -1
  <2> QED BY ONLY <1>1, <1>2, <1>3, <1>4, <2>1
<1>7. d = a
  BY ONLY <1>1, <1>3, <1>5, <1>6
<1> QED BY ONLY <1>1, <1>2, <1>3, <1>7

GroupOf(b, h, hs) == (b - 1) * hs + h

Folded(c, t, bs, hs, ss) ==
    /\ c.dims[2] = ss
    /\ \A b, h, s : InBox(bs, hs, ss, b, h, s) => c.at[GroupOf(b, h, hs), s] = t.at[<<b, h, s>>]

LEMMA CollapsedAt ==
    ASSUME NEW t, NEW bs, NEW hs, NEW ss, DimsAre(t, bs, hs, ss)
    PROVE  Folded(O!Collapsed(t), t, bs, hs, ss)
<1> DEFINE c == O!Collapsed(t)
           Entry1(g, s) == t.at[<<((g - 1) \div hs) + 1, ((g - 1) % hs) + 1, s>>]
<1>1. /\ c.dims[2] = ss
      /\ c.at = [g \in (1..bs * hs) \X (1..ss) |-> Entry1(g[1], g[2])]
  BY DEF O!Collapsed, DimsAre
<1> HIDE DEF c
<1>2. ASSUME NEW b, NEW h, NEW s, InBox(bs, hs, ss, b, h, s)
      PROVE  c.at[GroupOf(b, h, hs), s] = t.at[<<b, h, s>>]
  <2> DEFINE g == (b - 1) * hs + h
  <2>1. /\ b \in 1..bs /\ h \in 1..hs /\ s \in 1..ss /\ hs \in Nat \ {0} /\ bs \in Nat
        /\ b - 1 \in Nat /\ h - 1 \in 0..hs - 1
    BY <1>2 DEF InBox, DimsAre
  <2>2. (b - 1) * hs \in Nat
    BY <2>1
  <2>3. (b - 1) * hs <= (bs - 1) * hs /\ (bs - 1) * hs = bs * hs - hs /\ bs * hs \in Nat
    <3>1. (bs - 1) * hs - (b - 1) * hs = (bs - b) * hs
      BY ONLY <2>1
    <3>2. (bs - b) * hs >= 0 /\ (bs - 1) * hs \in Int
      BY ONLY <2>1
    <3>3. (bs - 1) * hs = bs * hs - hs /\ bs * hs \in Nat
      BY ONLY <2>1
    <3> QED BY ONLY <2>2, <3>1, <3>2, <3>3
  <2>4. g \in 1..bs * hs /\ g - 1 = (b - 1) * hs + (h - 1)
    <3> DEFINE y == (b - 1) * hs  z == bs * hs
    <3>1. y \in Nat /\ z \in Nat /\ y <= z - hs /\ h \in 1..hs /\ hs \in Nat
      BY <2>1, <2>2, <2>3
    <3> HIDE DEF y, z
    <3>2. y + h \in 1..z /\ (y + h) - 1 = y + (h - 1)
      BY ONLY <3>1
    <3> QED BY <3>2 DEF y, z
  <2>5. (g - 1) \div hs = b - 1 /\ (g - 1) % hs = h - 1
    BY <2>1, <2>4, Divides
  <2> HIDE DEF g
  <2> HIDE DEF Entry1
  <2>6. c.at[g, s] = Entry1(g, s)
    <3>1. <<g, s>> \in (1..bs * hs) \X (1..ss)
      BY <2>1, <2>4
    <3> QED BY <1>1, <3>1
  <2>7. (b - 1) + 1 = b /\ (h - 1) + 1 = h
    BY <2>1
  <2> QED BY <2>5, <2>6, <2>7 DEF g, GroupOf, Entry1
<1> QED BY <1>1, <1>2 DEF c, Folded

HasRow(c, name, home, hs, b, h, s) == c.at[GroupOf(b, h, hs), s] = <<name, Spot(home, b, h, s)>>

LEMMA FoldedHolds ==
    ASSUME NEW c, NEW t, NEW name, NEW home, NEW bs, NEW hs, NEW ss, NEW b, NEW h, NEW s,
           Folded(c, t, bs, hs, ss), Holds(t, name, home, "bhsd", bs, hs, ss),
           InBox(bs, hs, ss, b, h, s)
    PROVE  HasRow(c, name, home, hs, b, h, s)
<1>1. c.at[GroupOf(b, h, hs), s] = t.at[<<b, h, s>>]
  BY DEF Folded
<1>2. Spot("bhsd", b, h, s) = <<b, h, s>>
  BY DEF Spot
<1>3. t.at[Spot("bhsd", b, h, s)] = <<name, Spot(home, b, h, s)>>
  BY DEF Holds
<1> QED BY <1>1, <1>2, <1>3 DEF HasRow

(* Every operand is quantised along the axis that is summed over.          *)
LEMMA QuantisedExactly == O!Exact
<1>1. <<"q", "d">>[Len(<<"q", "d">>)] = "d"
  OBVIOUS
<1>2. <<"kv", "d">>[Len(<<"kv", "d">>)] = "d"
  OBVIOUS
<1>3. <<"q", "kv">>[Len(<<"q", "kv">>)] = "kv"
  OBVIOUS
<1>4. <<"d", "kv">>[Len(<<"d", "kv">>)] = "kv"
  OBVIOUS
<1> QED BY <1>1, <1>2, <1>3, <1>4 DEF O!Exact, O!RowwiseQuantize, O!Reordered

(* The two products of matrices, batch and heads in one axis.              *)
LEMMA ScaledMMAnswers ==
    ASSUME NEW home, NEW q, NEW k, NEW v, NEW bs, NEW hs, NEW qs, NEW ks, NEW causal, NEW scale,
           Called(q, k, v, home, "bhsd", bs, hs, qs, ks)
    PROVE  AnswersCall(O!FP8ScaledMM(q, k, v, causal, scale), home, "bhsd", bs, hs, qs, ks,
                       causal, scale)
<1> DEFINE cq == O!Collapsed(q)  ck == O!Collapsed(k)  cv == O!Collapsed(v)
           Group(i) == (i[1] - 1) * q.dims[2] + i[2]
           Keys(i) == {j \in 1..ck.dims[2] : causal => j <= i[3]}
           RowAt(i) == [of |-> cq.at[Group(i), i[3]],
                      over |-> {<<ck.at[Group(i), j], cv.at[Group(i), j]>> : j \in Keys(i)},
                      scale |-> IF O!Exact THEN O!Scale(scale) ELSE "garbled"]
           ans == O!FP8ScaledMM(q, k, v, causal, scale)
<1>1. ans.dims = q.dims /\ ans.at = [i \in O!Box(q.dims) |-> RowAt(i)]
  BY DEF O!FP8ScaledMM
<1> HIDE DEF ans
<1>2. DimsAre(q, bs, hs, qs) /\ DimsAre(k, bs, hs, ks) /\ DimsAre(v, bs, hs, ks)
  BY DEF Called, Holds, Shaped
<1>3. Folded(cq, q, bs, hs, qs) /\ Folded(ck, k, bs, hs, ks) /\ Folded(cv, v, bs, hs, ks)
  BY <1>2, CollapsedAt
<1> HIDE DEF cq, ck, cv
<1>4. ASSUME NEW b, NEW h, NEW s, InBox(bs, hs, qs, b, h, s)
      PROVE  ans.at[<<b, h, s>>] = Due(home, b, h, s, LowerTriangle(causal, s, ks), O!Scale(scale))
  <2> DEFINE i == <<b, h, s>>  g == GroupOf(b, h, hs)
  <2>1. i \in O!Box(q.dims)
    BY <1>2, <1>4, Boxes DEF DimsAre
  <2>2. i[1] = b /\ i[2] = h /\ i[3] = s
    OBVIOUS
  <2> HIDE DEF i
  <2>3. Group(i) = g
    BY <1>2, <2>2 DEF DimsAre, GroupOf
  <2>4. Keys(i) = LowerTriangle(causal, s, ks)
    BY <1>3, <2>2 DEF LowerTriangle, Folded
  <2> HIDE DEF Group, Keys
  <2>5. ans.at[i] = RowAt(i)
    BY <1>1, <2>1
  <2>6. HasRow(cq, "q", home, hs, b, h, s)
    BY <1>3, <1>4, FoldedHolds DEF Called
  <2>7. cq.at[g, s] = <<"q", Spot(home, b, h, s)>>
    BY <2>6, Zenon DEF HasRow
  <2>8. \A j \in LowerTriangle(causal, s, ks) : InBox(bs, hs, ks, b, h, j)
    BY <1>4 DEF LowerTriangle, InBox
  <2>9. \A j \in LowerTriangle(causal, s, ks) :
           /\ ck.at[g, j] = <<"k", Spot(home, b, h, j)>>
           /\ cv.at[g, j] = <<"v", Spot(home, b, h, j)>>
    <3>1. \A j \in LowerTriangle(causal, s, ks) :
            HasRow(ck, "k", home, hs, b, h, j) /\ HasRow(cv, "v", home, hs, b, h, j)
      BY <1>3, <2>8, FoldedHolds DEF Called
    <3> QED BY <3>1, Zenon DEF HasRow
  <2> HIDE DEF g
  <2>10. {<<ck.at[g, j], cv.at[g, j]>> : j \in LowerTriangle(causal, s, ks)}
            = {<< <<"k", Spot(home, b, h, j)>>, <<"v", Spot(home, b, h, j)>> >> :
                  j \in LowerTriangle(causal, s, ks)}
    BY <2>9
  <2>11. RowAt(i) = [of |-> cq.at[g, s],
                   over |-> {<<ck.at[g, j], cv.at[g, j]>> : j \in LowerTriangle(causal, s, ks)},
                   scale |-> O!Scale(scale)]
    BY <2>2, <2>3, <2>4, QuantisedExactly
  <2> QED BY <2>5, <2>7, <2>10, <2>11 DEF Due, i
<1>5. Shaped(ans, "bhsd", bs, hs, qs)
  BY <1>1, <1>2 DEF Shaped, DimsAre
<1>6. \A x, y, z : Spot("bhsd", x, y, z) = <<x, y, z>>
  BY DEF Spot
<1> QED BY <1>4, <1>5, <1>6 DEF AnswersCall, Answers, ans

(* Every op answers the call,                                              *)
LEMMA RunAnswers ==
    ASSUME NEW op \in O!Ops, NEW home, NEW q, NEW k, NEW v, NEW bs, NEW hs, NEW qs, NEW ks,
           NEW causal, NEW scale,
           Called(q, k, v, home, "bhsd", bs, hs, qs, ks), causal => qs = ks, OwnMasks
    PROVE  AnswersCall(O!Run(op, q, k, v, causal, scale), home, "bhsd", bs, hs, qs, ks, causal,
                       scale)
<1>1. CASE op = "naive-sdpa"
  BY <1>1, SdpaAnswers DEF O!Run, O!Naive
<1>2. CASE op = "rocm-ck-flash"
  BY <1>2, FlashAnswers DEF O!Run
<1>3. CASE op = "nvidia-flash"
  BY <1>3, FlashAnswers DEF O!Run
<1>4. CASE op = "transformer-engine-fp8"
  BY <1>4, TransformerEngineAnswers DEF O!Run
<1>5. CASE op = "fp8-scaled-mm"
  BY <1>5, ScaledMMAnswers DEF O!Run
<1>6. CASE op = "fp8-triton-flash"
  BY <1>6, SdpaAnswers DEF O!Run, O!FP8Triton
<1>7. CASE op = "amx-bf16-flash"
  BY <1>7, SdpaAnswers DEF O!Run, O!AMXFlash
<1>8. CASE op = "ipex-flash"
  BY <1>8, SdpaAnswers DEF O!Run, O!IPEXFlash
<1>9. CASE op = "amx-sdpa"
  BY <1>9, SdpaAnswers DEF O!Run, O!AMXSDPA
<1> QED BY <1>1, <1>2, <1>3, <1>4, <1>5, <1>6, <1>7, <1>8, <1>9 DEF O!Ops

(* and so does every op behind a bridge.                                   *)
LEMMA PermutedAnswers ==
    ASSUME NEW op \in O!Ops, NEW q, NEW k, NEW v, NEW bs, NEW hs, NEW qs, NEW ks,
           NEW causal, NEW scale,
           Called(q, k, v, "bshd", "bshd", bs, hs, qs, ks), causal => qs = ks, OwnMasks
    PROVE  AnswersCall(O!Permuted(op, q, k, v, causal, scale), "bshd", "bshd", bs, hs, qs, ks,
                       causal, scale)
<1> DEFINE tq == O!Transpose(q)  tk == O!Transpose(k)  tv == O!Transpose(v)
           ans == O!Run(op, tq, tk, tv, causal, scale)
<1>1. Called(tq, tk, tv, "bshd", "bhsd", bs, hs, qs, ks)
  BY CalledStill
<1>2. O!Permuted(op, q, k, v, causal, scale) = O!Transpose(ans)
  BY DEF O!Permuted
<1> HIDE DEF tq, tk, tv
<1>3. AnswersCall(ans, "bshd", "bhsd", bs, hs, qs, ks, causal, scale)
  BY <1>1, RunAnswers
<1> HIDE DEF ans
<1> QED BY <1>2, <1>3, TransposedAnswers

(* The tensors as they are made for a call.                                *)
Fresh(t, name, d1, d2, d3) ==
    /\ DimsAre(t, d1, d2, d3)
    /\ \A x, y, z : InBox(d1, d2, d3, x, y, z) => t.at[<<x, y, z>>] = <<name, <<x, y, z>>>>

LEMMA TensorIs ==
    ASSUME NEW name, NEW d1 \in Nat, NEW d2 \in Nat, NEW d3 \in Nat
    PROVE  Fresh(O!Tensor(name, <<d1, d2, d3>>), name, d1, d2, d3)
<1> DEFINE d == <<d1, d2, d3>>
<1>1. /\ O!Tensor(name, d).dims = d
      /\ O!Tensor(name, d).at = [i \in O!Box(d) |-> <<name, i>>]
  BY DEF O!Tensor
<1>2. d[1] = d1 /\ d[2] = d2 /\ d[3] = d3
  OBVIOUS
<1> SUFFICES Fresh(O!Tensor(name, d), name, d1, d2, d3)
  OBVIOUS
<1> HIDE DEF d
<1>3. \A x, y, z : InBox(d1, d2, d3, x, y, z) => <<x, y, z>> \in O!Box(d)
  BY <1>2, Boxes
<1>4. DimsAre(O!Tensor(name, d), d1, d2, d3)
  BY <1>1, <1>2 DEF DimsAre
<1> QED BY <1>1, <1>3, <1>4 DEF Fresh

LEMMA TensorHolds ==
    ASSUME NEW name, NEW d1 \in Nat, NEW d2 \in Nat, NEW d3 \in Nat
    PROVE  /\ Holds(O!Tensor(name, <<d1, d2, d3>>), name, "bhsd", "bhsd", d1, d2, d3)
           /\ Holds(O!Tensor(name, <<d1, d3, d2>>), name, "bshd", "bshd", d1, d2, d3)
<1>1. Fresh(O!Tensor(name, <<d1, d2, d3>>), name, d1, d2, d3)
  BY TensorIs
<1>2. Fresh(O!Tensor(name, <<d1, d3, d2>>), name, d1, d3, d2)
  BY TensorIs
<1>3. /\ \A b, h, s : Spot("bhsd", b, h, s) = <<b, h, s>>
      /\ \A b, h, s : Spot("bshd", b, h, s) = <<b, s, h>>
  BY DEF Spot
<1>4. \A t : Fresh(t, name, d1, d2, d3) => Holds(t, name, "bhsd", "bhsd", d1, d2, d3)
  BY <1>3 DEF Fresh, Holds, Shaped
<1>5. \A t : Fresh(t, name, d1, d3, d2) => Holds(t, name, "bshd", "bshd", d1, d2, d3)
  BY <1>3 DEF Fresh, Holds, Shaped, InBox
<1> QED BY <1>1, <1>2, <1>4, <1>5

(* What SameAnswer says of the call that is made.                          *)
LEMMA SameIfAnswers ==
    ASSUME NEW home,
           asked' # O!NoCall => home = IF asked'.bridged THEN "bshd" ELSE "bhsd",
           asked' # O!NoCall /\ (asked'.causal => asked'.size.q = asked'.size.kv) =>
              AnswersCall(answer', home, home, asked'.size.b, asked'.size.h, asked'.size.q,
                          asked'.size.kv, asked'.causal, asked'.scale)
    PROVE  SameAnswer'
<1> SUFFICES ASSUME asked' # O!NoCall, asked'.causal => asked'.size.q = asked'.size.kv,
                    NEW b \in 1..asked'.size.b, NEW h \in 1..asked'.size.h,
                    NEW s \in 1..asked'.size.q
             PROVE  answer'.at[O!Place(asked', b, h, s)] =
                [of |-> <<"q", O!Place(asked', b, h, s)>>,
                 over |-> {<< <<"k", O!Place(asked', b, h, j)>>, <<"v", O!Place(asked', b, h, j)>> >> :
                             j \in {j \in 1..asked'.size.kv : asked'.causal => j <= s}},
                 scale |-> IF asked'.scale = "none" THEN "default" ELSE asked'.scale]
  BY DEF SameAnswer, O!SameAnswer, O!SelfCall
<1>1. \A x, y, z : Spot(home, x, y, z) = O!Place(asked', x, y, z)
  BY DEF Spot, O!Place
<1>2. answer'.at[Spot(home, b, h, s)]
        = Due(home, b, h, s, LowerTriangle(asked'.causal, s, asked'.size.kv), O!Scale(asked'.scale))
  BY DEF AnswersCall, Answers, InBox
<1> QED BY <1>1, <1>2 DEF Due, LowerTriangle, O!Scale

(* The two actions.                                                        *)
LEMMA OpAnswers ==
    ASSUME NEW op \in O!Ops, NEW size \in Sizes, NEW causal \in BOOLEAN,
           NEW scale \in {"none", "given"}, OwnMasks, O!CallOp(op, size, causal, scale)
    PROVE  OwnMasks' /\ SameAnswer'
<1>1. size.b \in Nat \ {0} /\ size.h \in Nat \ {0} /\ size.q \in Nat \ {0} /\ size.kv \in Nat \ {0}
  BY MCOpsAssumption DEF O!OpsAssumption
<1> DEFINE q == O!Tensor("q", <<size.b, size.h, size.q>>)
           k == O!Tensor("k", <<size.b, size.h, size.kv>>)
           v == O!Tensor("v", <<size.b, size.h, size.kv>>)
<1>2. Called(q, k, v, "bhsd", "bhsd", size.b, size.h, size.q, size.kv)
  BY <1>1, TensorHolds DEF Called
<1>3. /\ asked' = [op |-> op, size |-> size, causal |-> causal, scale |-> scale, bridged |-> FALSE]
      /\ answer' = O!Run(op, q, k, v, causal, scale)
  BY DEF O!CallOp
<1> HIDE DEF q, k, v
<1>4. (causal => size.q = size.kv) =>
        AnswersCall(answer', "bhsd", "bhsd", size.b, size.h, size.q, size.kv, causal, scale)
  BY <1>2, <1>3, RunAnswers
<1>5. SameAnswer'
  BY <1>3, <1>4, SameIfAnswers
<1>6. OwnMasks'
  BY DEF O!CallOp, O!Remember, O!ModuleKey, OwnMasks
<1> QED BY <1>5, <1>6

LEMMA BridgeAnswers ==
    ASSUME NEW op \in {"fp8-triton-flash", "amx-bf16-flash"}, NEW size \in Sizes,
           NEW finite \in BOOLEAN, NEW flash \in BOOLEAN, NEW causal \in BOOLEAN,
           NEW scale \in {"none", "given"}, OwnMasks,
           O!CallBridge(op, finite, flash, size, causal, scale)
    PROVE  OwnMasks' /\ SameAnswer'
<1>1. size.b \in Nat \ {0} /\ size.h \in Nat \ {0} /\ size.q \in Nat \ {0} /\ size.kv \in Nat \ {0}
  BY MCOpsAssumption DEF O!OpsAssumption
<1> DEFINE q == O!Tensor("q", <<size.b, size.q, size.h>>)
           k == O!Tensor("k", <<size.b, size.kv, size.h>>)
           v == O!Tensor("v", <<size.b, size.kv, size.h>>)
           ran == IF finite THEN op ELSE IF flash THEN "nvidia-flash" ELSE "amx-sdpa"
<1>2. Called(q, k, v, "bshd", "bshd", size.b, size.h, size.q, size.kv)
  BY <1>1, TensorHolds DEF Called
<1>3. /\ asked' = [op |-> ran, size |-> size, causal |-> causal, scale |-> scale, bridged |-> TRUE]
      /\ answer' = O!BridgeAnswer(op, finite, flash, q, k, v, causal, scale)
  BY DEF O!CallBridge
<1> HIDE DEF q, k, v
<1>4. O!BridgeAnswer(op, finite, flash, q, k, v, causal, scale)
        = O!Permuted(ran, q, k, v, causal, scale)
  BY DEF O!BridgeAnswer, O!NativeFallback
<1>5. ran \in O!Ops
  BY DEF O!Ops
<1> HIDE DEF ran
<1>6. (causal => size.q = size.kv) =>
        AnswersCall(answer', "bshd", "bshd", size.b, size.h, size.q, size.kv, causal, scale)
  BY <1>2, <1>3, <1>4, <1>5, PermutedAnswers
<1>7. SameAnswer'
  BY <1>3, <1>6, SameIfAnswers
<1>8. OwnMasks'
  BY DEF O!CallBridge, OwnMasks
<1> QED BY <1>7, <1>8

(* A call gets the same attention from every op, directly or through a     *)
(* bridge: whatever layouts the tensors of attention/ops are turned into   *)
(* and back, whatever masks a flash wheel or a module of the transformer   *)
(* engine was built for and whatever was asked before, each row of the     *)
(* answer is that of its own query over its own keys and values; for calls *)
(* of every size.                                                          *)
THEOREM EveryOpAnswersAlike == MCSpec => []SameAnswer
<1> DEFINE all == <<part, vars, tunerVars, problem, machine, opsVars>>
           Inv == OwnMasks /\ SameAnswer
<1>1. MCInit => Inv
  BY DEF MCInit, O!Init, OwnMasks, SameAnswer, O!SameAnswer
<1>2. Inv /\ [MCNext]_all => Inv'
  <2> SUFFICES ASSUME Inv, [MCNext]_all PROVE Inv'
    OBVIOUS
  <2>1. CASE O!Next
    BY <2>1, OpAnswers, BridgeAnswers DEF O!Next
  <2>2. CASE UNCHANGED opsVars
    BY <2>2 DEF opsVars, OwnMasks, SameAnswer, O!SameAnswer, O!Place, O!NoCall, O!SelfCall
  <2> QED BY <2>1, <2>2 DEF MCNext
<1>3. Inv => SameAnswer
  OBVIOUS
<1> QED BY <1>1, <1>2, <1>3, PTL DEF MCSpec

===============================================================================
