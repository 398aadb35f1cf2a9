-------------------------- MODULE AttentionDispatch --------------------------
(***************************************************************************)
(* Which attention runs: the registry of attention/registry.py with the    *)
(* ops it picks from, the choice of the backend in front of it             *)
(* (backend/registry.py), and the two bridges that stand in for it where   *)
(* diffusers makes the call (diffusers_backend.py, .._amx.py).             *)
(*                                                                         *)
(* The tables of the registry are written out twice, in the ops and again  *)
(* in the bridges, and each kernel has checks of its own behind them; what *)
(* is computed is only which op is chosen, and what of the call it heeds.  *)
(***************************************************************************)
EXTENDS Integers, Sequences, SequencesExt, FiniteSets

CONSTANTS
    Dims,     \* head dimensions that are asked for
    Lengths   \* <<q, kv>>: sequence lengths that are asked for

\* A host, the environment and a problem, or NoProblem:
\* [gpu, arch, prefer, env, installed, dtype, kind, dim, q, kv].
VARIABLE problem

ASSUME DispatchAssumption ==
    Dims \subseteq Nat \ {0} /\ Lengths \subseteq (Nat \ {0}) \X (Nat \ {0})

Batch == 2
Heads == 16
DTypes == {"fp32", "fp16", "bf16", "fp8"}
Kinds == {"full", "causal", "neighborhood"}
Half == {"bf16", "fp16"}

-----------------------------------------------------------------------------
(* backend/registry.py *)

AllBackends == <<"rocm", "cuda", "cpu">>

\* A ROCm wheel hides CUDA, and a CPU is always there.
IsAvailable(p, backend) == backend \in {p.gpu, "cpu"}

\* The pinned backend if it is there, else the first that is; or it raises.
SelectBackend(p) ==
    LET first == SelectInSeq(AllBackends, LAMBDA b :
                    IsAvailable(p, b) /\ (p.prefer = "none" \/ b = p.prefer))
    IN  IF first = 0 THEN "raises" ELSE AllBackends[first]

-----------------------------------------------------------------------------
(* supports() of every op; an op whose import fails is not installed. *)

SelfAttention(p) == p.q = p.kv
Masked(p) == p.kind \in {"full", "causal"}

\* FP8TritonAttention, and its Hopper sibling.
FP8TritonSupports(p) ==
    /\ "fp8-triton-flash" \in p.installed
    /\ p.dtype \in Half /\ p.dim \in {32, 64, 128, 256} /\ Masked(p)
    /\ p.q >= 128 /\ p.kv >= 128 /\ SelfAttention(p)

FP8HopperSupports(p) ==
    /\ "fp8-hopper-triton-flash" \in p.installed
    /\ p.dtype \in Half /\ p.dim \in {32, 64, 128, 256} /\ Masked(p)
    /\ p.q >= 128 /\ p.kv >= 128 /\ SelfAttention(p)

\* The scores are materialised, and may take 4 GiB: 2 * B * H * q * kv
\* bytes, compared in units of 512 since lengths are multiples of 16.
FP8ScaledMMSupports(p) ==
    /\ "fp8-scaled-mm" \in p.installed
    /\ p.dtype \in Half \cup {"fp8"} /\ p.dim \in {64, 96, 128, 192, 256} /\ Masked(p)
    /\ p.q >= 16 /\ p.kv >= 16 /\ p.q % 16 = 0 /\ p.kv % 16 = 0
    /\ Batch * Heads * (p.q \div 16) * (p.kv \div 16) <= 2^23

ROCmFlashSupports(p) ==
    /\ "rocm-ck-flash" \in p.installed
    /\ p.dtype \in Half /\ p.dim \in {64, 128, 256} /\ Masked(p)

HopperFlashSupports(p) ==
    /\ "nvidia-flash" \in p.installed
    /\ p.dtype \in Half /\ p.dim \in {64, 96, 128, 192, 256} /\ Masked(p)

TransformerEngineSupports(p) ==
    /\ "transformer-engine-fp8" \in p.installed
    /\ p.dtype \in Half \cup {"fp8"} /\ p.dim \in {64, 128} /\ Masked(p)
    /\ SelfAttention(p)

AMXFlashSupports(p) ==
    /\ "amx-bf16-flash" \in p.installed
    /\ p.dtype = "bf16" /\ p.dim \in {64, 128} /\ Masked(p)

AMXFP16FlashSupports(p) ==
    /\ "amx-fp16-flash" \in p.installed
    /\ p.dtype = "fp16" /\ p.dim \in {64, 128} /\ Masked(p)

AMXInt8FlashSupports(p) ==
    /\ "amx-int8-flash" \in p.installed
    /\ p.dtype = "bf16" /\ p.dim \in {64, 128} /\ Masked(p)

IPEXFlashSupports(p) ==
    /\ "ipex-flash" \in p.installed
    /\ p.dtype \in Half \cup {"fp32"} /\ p.dim \in {64, 80, 96, 128, 192, 256} /\ Masked(p)

AMXSDPASupports(p) == p.dtype \in Half \cup {"fp32"} /\ Masked(p)

Supports(op, p) ==
    CASE op = "fp8-triton-flash" -> FP8TritonSupports(p)
      [] op = "fp8-hopper-triton-flash" -> FP8HopperSupports(p)
      [] op = "fp8-scaled-mm" -> FP8ScaledMMSupports(p)
      [] op = "rocm-ck-flash" -> ROCmFlashSupports(p)
      [] op = "nvidia-flash" -> HopperFlashSupports(p)
      [] op = "transformer-engine-fp8" -> TransformerEngineSupports(p)
      [] op = "amx-bf16-flash" -> AMXFlashSupports(p)
      [] op = "amx-fp16-flash" -> AMXFP16FlashSupports(p)
      [] op = "amx-int8-flash" -> AMXInt8FlashSupports(p)
      [] op = "ipex-flash" -> IPEXFlashSupports(p)
      [] op = "amx-sdpa" -> AMXSDPASupports(p)
      [] op = "naive-sdpa" -> TRUE

-----------------------------------------------------------------------------
(* select_attention_op.  env is REPERCEP_FP8_ATTENTION on a GPU backend    *)
(* and REPERCEP_AMX_ATTENTION on the CPU's; the other one is not set.      *)

On == {"1", "true", "on"}
TE == {"te", "transformer_engine"}
FP8Truthy == On \cup TE \cup {"triton", "scaled_mm"}
AMXTruthy == On \cup {"amx", "int8", "fp16", "ipex"}

\* An op, when the environment calls for it.
If(wanted, op) == IF wanted THEN <<op>> ELSE << >>

Candidates(backend, env) ==
    CASE backend = "rocm" ->
            If(env \in FP8Truthy \ (TE \cup {"scaled_mm"}), "fp8-triton-flash")
            \o If(env \in FP8Truthy \ (TE \cup {"triton"}), "fp8-scaled-mm")
            \o <<"rocm-ck-flash", "naive-sdpa">>
      [] backend = "cuda" ->
            If(env \in FP8Truthy \ (TE \cup {"scaled_mm"}), "fp8-hopper-triton-flash")
            \o If(env \in On \cup TE, "transformer-engine-fp8")
            \o <<"nvidia-flash", "naive-sdpa">>
      [] backend = "cpu" ->
            If(env = "int8", "amx-int8-flash")
            \o If(env \in On \cup {"fp16"}, "amx-fp16-flash")
            \o If(env \in AMXTruthy \ {"ipex", "int8", "fp16"}, "amx-bf16-flash")
            \o If(env \in AMXTruthy \ {"amx", "int8", "fp16"}, "ipex-flash")
            \o <<"amx-sdpa", "naive-sdpa">>

SelectAttentionOp(p) ==
    LET ops == Candidates(SelectBackend(p), p.env)
    IN  ops[SelectInSeq(ops, LAMBDA op : Supports(op, p))]

-----------------------------------------------------------------------------
(* The bridges.  A call says what it needs besides the three tensors.      *)

Needs == {"mask", "dropout", "gqa", "causal", "lse", "parallel"}
OnlySDPA == {"mask", "dropout", "gqa"}

\* External: diffusers' own attention, when no bridge is in front of it.
Diffusers == [op |-> "sdpa", heeds |-> Needs]

Sdpa == [op |-> "sdpa", heeds |-> OnlySDPA \cup {"causal"}]
Kernel(op) == [op |-> op, heeds |-> {"causal"}]

\* _native_fallback: a flash wheel when the call is plain and it does not
\* raise, else torch.  It is not told of a parallel configuration.
NativeFallback(p, needs) ==
    IF /\ needs \cap OnlySDPA = {} /\ p.dtype \in Half /\ SelectBackend(p) # "cpu"
       /\ p.installed \cap {"nvidia-flash", "rocm-ck-flash"} # {} /\ p.dim <= 256
    THEN Kernel("flash")
    ELSE Sdpa

RouteShouldUseFP8(p) ==
    p.dtype \in Half /\ SelfAttention(p) /\ p.dim \in {32, 64, 128, 256} /\ p.q >= 4096

(* Mutant: grouped queries are handed to the kernel.                       *)
FP8AttentionGrouped(p, needs, finite) ==
    LET op == IF SelectBackend(p) = "rocm" THEN "fp8-triton-flash" ELSE "fp8-hopper-triton-flash"
    IN  IF "lse" \in needs THEN [op |-> "raises", heeds |-> {}]
        ELSE IF \/ p.env \in {"fa", "flash"}
                \/ needs \cap {"mask", "dropout", "parallel"} # {}
                \/ ~RouteShouldUseFP8(p)
                \/ op \notin p.installed
                \/ ~finite
             THEN NativeFallback(p, needs)
        ELSE Kernel(op)

\* _repercep_fp8_attention; a result that is not finite is thrown away.
FP8Attention(p, needs, finite) ==
    LET op == IF SelectBackend(p) = "rocm" THEN "fp8-triton-flash" ELSE "fp8-hopper-triton-flash"
    IN  IF "lse" \in needs THEN [op |-> "raises", heeds |-> {}]
        ELSE IF \/ p.env \in {"fa", "flash"}
                \/ needs \cap (OnlySDPA \cup {"parallel"}) # {}
                \/ ~RouteShouldUseFP8(p)
                \/ op \notin p.installed
                \/ ~finite
             THEN NativeFallback(p, needs)
        ELSE Kernel(op)

RouteShouldUseAMX(p) ==
    p.dtype = "bf16" /\ SelfAttention(p) /\ p.dim \in {64, 128} /\ p.q >= 4096

AMXAttention(p, needs, finite) ==
    IF "lse" \in needs THEN [op |-> "raises", heeds |-> {}]
    ELSE IF \/ needs \cap (OnlySDPA \cup {"parallel"}) # {}
            \/ ~RouteShouldUseAMX(p)
            \/ "amx-bf16-flash" \notin p.installed
            \/ ~finite
         THEN Sdpa
    ELSE Kernel("amx-bf16-flash")

\* maybe_activate_from_env of each bridge: whether diffusers calls it.
Activated(p) ==
    IF SelectBackend(p) = "cpu" THEN p.env \in On \cup {"amx"}
    ELSE p.env \in On \cup {"triton", "scaled_mm", "fa", "flash"}

\* What diffusers' dispatcher runs.
Bridge(p, needs, finite) ==
    IF ~Activated(p) THEN Diffusers
    ELSE IF SelectBackend(p) = "cpu" THEN AMXAttention(p, needs, finite)
    ELSE FP8Attention(p, needs, finite)

-----------------------------------------------------------------------------
(* What stands behind an op, whatever supports() says.  No kernel has a    *)
(* window; FP8 arithmetic is in the hardware of these architectures.       *)

FP8Archs == {"MI300X", "H100", "H200", "sm89"}
FP8Kernels == {"fp8-triton-flash", "fp8-hopper-triton-flash", "fp8-scaled-mm"}
AMXKernels == {"amx-bf16-flash", "amx-int8-flash", "amx-fp16-flash"}

\* The asserts of fp8_flash_attention ...
TritonKernelTakes(p) ==
    p.arch \in FP8Archs /\ SelfAttention(p) /\ p.dim \in {32, 64, 128, 256}

\* ... _scaled_grouped_mm, in sixteens ...
ScaledMMTakes(p) ==
    p.arch \in FP8Archs /\ p.q % 16 = 0 /\ p.kv % 16 = 0 /\ p.dim % 16 = 0

\* ... and the TORCH_CHECKs of flash_attn_bf16 and its siblings.
AMXKernelTakes(p, dtype) ==
    /\ SelfAttention(p) /\ p.dtype = dtype /\ p.dim \in {64, 128}
    /\ p.q >= 32 /\ p.q % 32 = 0

\* External: flash wheels take halves of up to 256, TransformerEngine what
\* its table says, and torch and IPEX everything but FP8 tensors.
LibraryTakes(op, p) ==
    CASE op \in {"rocm-ck-flash", "nvidia-flash", "flash"} -> p.dtype \in Half /\ p.dim <= 256
      [] op = "transformer-engine-fp8" -> p.dtype # "fp32"
      [] op \in {"ipex-flash", "amx-sdpa", "naive-sdpa", "sdpa"} -> p.dtype # "fp8"

KernelTakes(op, p) ==
    /\ Masked(p)
    /\ CASE op \in {"fp8-triton-flash", "fp8-hopper-triton-flash"} -> TritonKernelTakes(p)
         [] op = "fp8-scaled-mm" -> ScaledMMTakes(p)
         [] op \in {"amx-bf16-flash", "amx-int8-flash"} -> AMXKernelTakes(p, "bf16")
         [] op = "amx-fp16-flash" -> AMXKernelTakes(p, "fp16")
         [] OTHER -> LibraryTakes(op, p)

-----------------------------------------------------------------------------
(* Properties *)

\* A host with one kind of GPU or none, and the backend that is pinned.
Hosts == {[gpu |-> "none", prefer |-> "none"], [gpu |-> "rocm", prefer |-> "none"],
          [gpu |-> "cuda", prefer |-> "cuda"], [gpu |-> "rocm", prefer |-> "cpu"]}

Installable(backend) ==
    CASE backend = "rocm" -> {"fp8-triton-flash", "fp8-scaled-mm", "rocm-ck-flash"}
      [] backend = "cuda" -> {"fp8-hopper-triton-flash", "transformer-engine-fp8", "nvidia-flash"}
      [] backend = "cpu" -> {"amx-bf16-flash", "amx-fp16-flash", "amx-int8-flash", "ipex-flash"}
Archs(backend) ==
    CASE backend = "rocm" -> {"MI300X", "MI250X"}
      [] backend = "cuda" -> {"H100", "sm86"}
      [] backend = "cpu" -> {"spr"}
Environments(backend) ==
    {"", "1"} \cup IF backend = "cpu" THEN {"amx", "int8", "fp16", "ipex"}
                   ELSE {"triton", "scaled_mm", "te", "fa"}

NoProblem == [gpu |-> "nowhere"]

Problems(host) ==
    LET backend == SelectBackend(host)
    IN  {[gpu |-> host.gpu, arch |-> arch, prefer |-> host.prefer, env |-> env,
          installed |-> ops, dtype |-> dtype, kind |-> kind, dim |-> dim,
          q |-> l[1], kv |-> l[2]] :
            arch \in Archs(backend), env \in Environments(backend), ops \in SUBSET Installable(backend),
            dtype \in DTypes, kind \in Kinds, dim \in Dims, l \in Lengths}

Asked == problem # NoProblem

(* Where supports() says yes to what the kernel does not do: a window, for *)
(* which the reference computes attention to everything; FP8 tensors, left *)
(* to the reference; an FP8 kernel of this repository on a GPU without FP8 *)
(* (the class comment of CUDABackend has it disqualify itself there); AMX  *)
(* kernels, which look at neither length.                                  *)
Misfit(op, p) ==
    \/ p.kind = "neighborhood"
    \/ op \in {"naive-sdpa", "sdpa"} /\ p.dtype = "fp8"
    \/ op \in FP8Kernels /\ p.arch \notin FP8Archs
    \/ op \in AMXKernels /\ (~SelfAttention(p) \/ p.q % 32 # 0)

(* Whatever is set and installed, on a GPU and on the CPU: the kernel that *)
(* is reached, through the registry or through a bridge, takes the problem *)
(* but for the misfits, where it never does; and what the fused ops cannot *)
(* express goes to the reference.                                          *)
KernelTakesIt ==
    Asked =>
        LET op == SelectAttentionOp(problem)
            ran == Bridge(problem, {}, TRUE).op
        IN  /\ KernelTakes(op, problem) <=> ~Misfit(op, problem)
            /\ KernelTakes(ran, problem) <=> ~Misfit(ran, problem)
            /\ problem.kind = "neighborhood" => op = "naive-sdpa"

(* The bridges repeat the tables of the registry: with the same host and   *)
(* variable, the kernel a bridge runs is the op the registry picks, except *)
(* for scaled_mm, which the bridge serves with the fused kernel.           *)
BridgeMirrorsRegistry ==
    Asked /\ problem.kind # "neighborhood" /\ problem.env # "scaled_mm" =>
        LET ran == Bridge(problem, {}, TRUE).op
        IN  ran \notin {"sdpa", "flash"} => ran = SelectAttentionOp(problem)

(* No mask, dropout, grouping or causality of a call is dropped on the way *)
(* to a kernel, also when the result was thrown away, and the one thing    *)
(* that no kernel returns raises instead of being forgotten.  A parallel   *)
(* configuration keeps a call away from the fused kernels; but what stands *)
(* in for them is not told of it.  (A bridge gets no kind, only is_causal, *)
(* so one kind of problem is enough.)                                      *)
BridgeHeedsTheCall ==
    Asked /\ problem.kind = "full" => \A needs \in SUBSET Needs, finite \in BOOLEAN :
        LET ran == Bridge(problem, needs, finite)
        IN  IF ~Activated(problem) THEN needs \subseteq ran.heeds
            ELSE IF "lse" \in needs THEN ran.op = "raises"
            ELSE /\ needs \ ran.heeds = needs \cap {"parallel"}
                 /\ "parallel" \in needs => ran.op \in {"sdpa", "flash"}

(* What is chosen takes the problem, by the registry's tables as by the    *)
(* bridges', with the misfits above; and a bridge leaves nothing of a call *)
(* out but its parallel configuration.                                     *)
DispatchFits == KernelTakesIt /\ BridgeMirrorsRegistry /\ BridgeHeedsTheCall

=============================================================================
