------------------------------ MODULE Backends ------------------------------
(***************************************************************************)
(* The backends of backend/ on a machine: what devices they find, which    *)
(* ops can be loaded there, and what `repercep info` tells of them         *)
(* (Backend.capabilities), a summary that is written by hand beside the    *)
(* registry that picks the ops.                                            *)
(***************************************************************************)
EXTENDS AttentionDispatch, FiniteSetsExt

CONSTANTS
    Gpus,     \* [target, gib]: capability or gfx target, and memory
    Flags,    \* flags that /proc/cpuinfo may show
    Builds    \* what may be importable: wheels and built extensions

\* [torch, gpus, cpu, built], or NoMachine: the build of torch, its devices, the
\* first processor of /proc/cpuinfo, and what can be imported.
VARIABLE machine

ASSUME BackendsAssumption == Flags \subseteq STRING /\ Builds \subseteq STRING

NoMachine == [torch |-> "none"]

-----------------------------------------------------------------------------
(* is_available: a ROCm wheel has a HIP version, and speaks torch.cuda.    *)
ROCmAvailable(m) == m.torch = "hip" /\ m.gpus # << >>
CUDAAvailable(m) == m.torch = "cuda" /\ m.gpus # << >>

Vendor(m) == IF ROCmAvailable(m) THEN "rocm" ELSE IF CUDAAvailable(m) THEN "cuda" ELSE "none"

SMToArch == [sm_90 |-> "H100", sm_80 |-> "sm80", sm_86 |-> "sm86", sm_89 |-> "sm89"]

(* CUDABackend.devices: Hopper with more than 96 GiB is an H200; a device  *)
(* that is not known loses its prefix.                                     *)
CUDAArch(gpu) ==
    IF gpu.target \notin DOMAIN SMToArch THEN "unknown"
    ELSE IF gpu.target = "sm_90" /\ gpu.gib > 96 THEN "H200"
    ELSE SMToArch[gpu.target]

GfxToArch == [gfx942 |-> "MI300X", gfx90a |-> "MI250X"]

ROCmArch(gpu) == IF gpu.target \in DOMAIN GfxToArch THEN GfxToArch[gpu.target] ELSE "unknown"

IntelModelToArch == [m143 |-> "spr", m207 |-> "emr", m173 |-> "gnr"]

(* _detect_arch_and_name; what is not a number is as good as no model.     *)
DetectArch(cpu) ==
    IF ~cpu.intel THEN "x86_64"
    ELSE IF cpu.model \in DOMAIN IntelModelToArch THEN IntelModelToArch[cpu.model]
    ELSE IF "avx512f" \in cpu.flags THEN "avx512" ELSE "x86_64"

(* devices: their architectures.                                           *)
Devices(m, backend) ==
    CASE backend = "rocm" -> [i \in DOMAIN m.gpus |-> ROCmArch(m.gpus[i])]
      [] backend = "cuda" -> [i \in DOMAIN m.gpus |-> CUDAArch(m.gpus[i])]
      [] backend = "cpu"  -> <<DetectArch(m.cpu)>>

-----------------------------------------------------------------------------
(* available: the op's kernel could be imported.  The AMX ops look for     *)
(* their flag before they try.                                             *)

AMXLoads(m, flag, extension) == flag \in m.cpu.flags /\ extension \in m.built

Loads(m, op) ==
    CASE op = "rocm-ck-flash" -> "flash_attn" \in m.built
      [] op = "nvidia-flash" -> m.built \cap {"flash_attn_interface", "flash_attn"} # {}
      [] op \in {"fp8-triton-flash", "fp8-hopper-triton-flash"} -> "triton" \in m.built
      [] op = "fp8-ada-triton-flash" ->
            CUDAAvailable(m) /\ m.gpus[1].target = "sm_89" /\ "triton" \in m.built
      [] op = "fp8-scaled-mm" -> TRUE
      [] op = "transformer-engine-fp8" -> "transformer_engine" \in m.built /\ m.gpus # << >>
      [] op = "ipex-flash" -> "ipex" \in m.built
      [] op = "amx-bf16-flash" -> AMXLoads(m, "amx_bf16", "amx_attn")
      [] op = "amx-int8-flash" -> AMXLoads(m, "amx_int8", "amx_int8_attn")
      [] op = "amx-fp16-flash" -> AMXLoads(m, "amx_fp16", "amx_fp16_attn")
      [] op \in {"amx-sdpa", "naive-sdpa"} -> TRUE

AllOps == {"rocm-ck-flash", "nvidia-flash", "fp8-triton-flash", "fp8-hopper-triton-flash",
           "fp8-scaled-mm", "transformer-engine-fp8", "ipex-flash", "amx-bf16-flash",
           "amx-int8-flash", "amx-fp16-flash", "amx-sdpa", "naive-sdpa"}

Installed(m) == {op \in AllOps : Loads(m, op)}

-----------------------------------------------------------------------------
(* capabilities().attention_ops, and the flags beside them. *)

Listed(m, op) == If(Loads(m, op), op)

ROCmOps(m) == Listed(m, "rocm-ck-flash") \o <<"naive-sdpa">>

CUDAOps(m) ==
    Listed(m, "transformer-engine-fp8") \o Listed(m, "fp8-hopper-triton-flash")
    \o Listed(m, "nvidia-flash") \o <<"naive-sdpa">>

(* Mutant: what the CPU can do is taken for what is built.                 *)
CPUOpsByFlag(m) ==
    If("amx_bf16" \in m.cpu.flags, "amx-bf16-flash")
    \o If("amx_bf16" \in m.cpu.flags /\ Loads(m, "ipex-flash"), "ipex-flash")
    \o If("amx_int8" \in m.cpu.flags, "amx-int8-flash")
    \o If("amx_fp16" \in m.cpu.flags, "amx-fp16-flash")
    \o <<"amx-sdpa", "naive-sdpa">>

CPUOps(m) ==
    If("amx_bf16" \in m.cpu.flags /\ Loads(m, "amx-bf16-flash"), "amx-bf16-flash")
    \o If("amx_bf16" \in m.cpu.flags /\ Loads(m, "ipex-flash"), "ipex-flash")
    \o If("amx_int8" \in m.cpu.flags /\ Loads(m, "amx-int8-flash"), "amx-int8-flash")
    \o If("amx_fp16" \in m.cpu.flags /\ Loads(m, "amx-fp16-flash"), "amx-fp16-flash")
    \o <<"amx-sdpa", "naive-sdpa">>

TellsOps(m, backend) ==
    CASE backend = "rocm" -> ROCmOps(m) [] backend = "cuda" -> CUDAOps(m) [] backend = "cpu" -> CPUOps(m)

CPUFlashOps == {"amx-bf16-flash", "amx-int8-flash", "amx-fp16-flash", "ipex-flash"}

SupportsFlashAttention(m, backend) ==
    CASE backend = "rocm" -> Loads(m, "rocm-ck-flash")
      [] backend = "cuda" -> Loads(m, "nvidia-flash")
      [] backend = "cpu"  -> \E op \in CPUFlashOps : Contains(CPUOps(m), op)

(* On CUDA, if any of the devices is Hopper or Ada.                        *)
SupportsFP8(m, backend) ==
    \/ backend = "rocm"
    \/ backend = "cuda" /\ \E i \in DOMAIN m.gpus :
          Devices(m, backend)[i] \in {"H100", "H200", "sm89"}

-----------------------------------------------------------------------------
(* Properties *)

Cpus ==
    {[intel |-> i, model |-> md, flags |-> f] :
        i \in BOOLEAN, md \in {"m143", "m106"}, f \in SUBSET Flags}

GpuLists == {<< >>} \cup {<<x>> : x \in Gpus} \cup {<<x, y>> : x, y \in Gpus}
Sm90 == {x \in Gpus : x.target = "sm_90"}
Wheels == SUBSET (Builds \cap {"flash_attn", "triton", "transformer_engine"})
Extensions == SUBSET (Builds \cap {"ipex", "amx_attn", "amx_int8_attn", "amx_fp16_attn"})
NoCpu == [intel |-> FALSE, model |-> "", flags |-> {}]

\* One or two devices with the wheels for them, FA-3's on Hopper alone; CPUs
\* with what is built for them.
Machines ==
    {[torch |-> t, gpus |-> g, cpu |-> NoCpu, built |-> b] :
        t \in {"hip", "cuda"}, g \in GpuLists, b \in Wheels}
    \cup
    {[torch |-> "cuda", gpus |-> <<x>>, cpu |-> NoCpu, built |-> b \cup {"flash_attn_interface"}] :
        x \in Sm90, b \in Wheels}
    \cup
    {[torch |-> "cpu", gpus |-> << >>, cpu |-> c, built |-> b] :
        c \in {c \in Cpus : c.intel \/ c.flags = {}}, b \in Extensions}

Home(m) == SelectBackend([gpu |-> Vendor(m), prefer |-> "none"])

\* The device that ops are picked for, and calls run on.
Arch(m) == Devices(m, Home(m))[1]

Asking(m, env, dtype, kind, dim, length) ==
    [gpu |-> Vendor(m), arch |-> Arch(m), prefer |-> "none", env |-> env,
     installed |-> Installed(m), dtype |-> dtype, kind |-> kind, dim |-> dim,
     q |-> length[1], kv |-> length[2]]

Asks(m, envs) ==
    {Asking(m, env, dtype, kind, dim, length) :
        env \in envs, dtype \in DTypes, kind \in {"full", "neighborhood"}, dim \in Dims,
        length \in Lengths}

\* What is picked in some environments, and that for a problem it can do.
PickedIn(m, envs) == {SelectAttentionOp(p) : p \in Asks(m, envs)}
ServedBy(m, envs) ==
    {SelectAttentionOp(p) : p \in {p \in Asks(m, envs) : KernelTakes(SelectAttentionOp(p), p)}}

Before(list, a, b) == \E i, j \in DOMAIN list : i < j /\ list[i] = a /\ list[j] = b

\* Listed, but of no use: an FP8 kernel on a GPU without FP8, and the
\* reference on the CPU, which is left with what nothing does.
Useless(m) ==
    CASE Home(m) = "cuda" -> IF Arch(m) \in FP8Archs THEN {} ELSE {"fp8-hopper-triton-flash"}
      [] Home(m) = "cpu" -> {"naive-sdpa"}
      [] OTHER -> {}

\* Picked when it is asked for, but not listed.
Unlisted(m) ==
    CASE Home(m) = "rocm" -> {"fp8-triton-flash", "fp8-scaled-mm"}
      [] Home(m) = "cpu" -> IF "amx_bf16" \in m.cpu.flags THEN {} ELSE {"ipex-flash"}
      [] OTHER -> {}

\* Listed the other way round than they are tried.
Transposed == {<<"transformer-engine-fp8", "fp8-hopper-triton-flash">>,
            <<"amx-bf16-flash", "amx-fp16-flash">>, <<"ipex-flash", "amx-fp16-flash">>}

(* What is told of a machine is what happens on it: an op that is listed   *)
(* is picked under some setting, for a problem that it can do; what is     *)
(* picked is listed; the list has the order in which ops are tried; flash  *)
(* attention is told of when an op of it is picked for something, and FP8  *)
(* where an FP8 kernel of this repository does its work.  The exceptions   *)
(* are those above, and no more.                                           *)
InfoTellsTruth ==
    machine # NoMachine =>
        LET backend == Home(machine)
            list == TellsOps(machine, backend)
            told == Range(list)
            ever == PickedIn(machine, Environments(backend))
            served == ServedBy(machine, Environments(backend))
        IN  /\ told \subseteq ever /\ told \ served = told \cap Useless(machine)
            /\ PickedIn(machine, {""}) \subseteq told
            /\ ever \ told \subseteq Unlisted(machine)
            /\ \A a, b \in told : Before(list, a, b) =>
                  (<<a, b>> \in Transposed
                     <=> \E env \in Environments(backend) : Before(Candidates(backend, env), b, a))
            /\ SupportsFlashAttention(machine, backend)
                  <=> ever \cap told \cap (CPUFlashOps \cup {"rocm-ck-flash", "nvidia-flash"}) # {}
            /\ served \cap FP8Kernels # {} => SupportsFP8(machine, backend)

=============================================================================
