---------------------------- MODULE AttentionOps ----------------------------
(***************************************************************************)
(* What the ops of attention/ do with a call once they are chosen: how the *)
(* tensors are laid out for the kernel behind each, what is handed to it,  *)
(* and how its answer is laid out again; and the same of the two functions *)
(* that stand in for them where diffusers makes the call.                  *)
(*                                                                         *)
(* A tensor has three axes here, the head dimension being left out: its    *)
(* entries are rows, told apart by the place they had when the call was    *)
(* made.  The kernels, external, compute attention on the layout they      *)
(* take; an answer says, for every row, which query it is of, over which   *)
(* keys with which values, at which scale.                                 *)
(***************************************************************************)
EXTENDS Integers, Sequences

CONSTANTS
    Sizes,     \* [b, h, q, kv]: sizes of the calls
    MaxCalls   \* calls of one op

OpsAssumption ==
    /\ Sizes \subseteq [b : Nat \ {0}, h : Nat \ {0}, q : Nat \ {0}, kv : Nat \ {0}]
    /\ MaxCalls \in Nat

VARIABLES
    wheel,    \* the versions of what is installed: [fa3, bhsd]
    modules,  \* TransformerEngineAttention._cache: keys that have a module, and its mask
    asked,    \* the call that was made last: [op, size, causal, scale]; or NoCall
    answer,   \* what came of it
    calls     \* how many have been made

vars == <<wheel, modules, asked, answer, calls>>

NoCall == [op |-> "none"]
Raises == <<>>

-----------------------------------------------------------------------------
(* Tensors *)

Box(dims) == (1..dims[1]) \X (1..dims[2]) \X (1..dims[3])

Tensor(name, dims) == [dims |-> dims, at |-> [i \in Box(dims) |-> <<name, i>>]]

(* permute(p): axis k of the result is axis p[k] of the tensor.            *)
Permute(t, p) ==
    LET dims == [k \in 1..3 |-> t.dims[p[k]]]
        Axis(j) == CHOOSE k \in 1..3 : p[k] = j
    IN  [dims |-> dims, at |-> [i \in Box(dims) |-> t.at[[j \in 1..3 |-> i[Axis(j)]]]]]

Transpose(t) == Permute(t, <<1, 3, 2>>)

(* Attention on tensors whose axes are named by layout.  A causal mask     *)
(* counts from the first key, or, shifted, so that it ends with the last.  *)
Axes == [bhsd |-> [b |-> 1, h |-> 2, s |-> 3],
         bshd |-> [b |-> 1, h |-> 3, s |-> 2],
         sbhd |-> [b |-> 2, h |-> 3, s |-> 1]]

Attend(q, k, v, layout, mask, scale) ==
    LET x == Axes[layout]
        shift == IF mask = "bottom" THEN k.dims[x.s] - q.dims[x.s] ELSE 0
        Sees(i, j) == mask = "none" \/ j[x.s] <= i[x.s] + shift
        Keys(i) == {j \in Box(k.dims) : j[x.b] = i[x.b] /\ j[x.h] = i[x.h] /\ Sees(i, j)}
    IN  [dims |-> q.dims,
         at |-> [i \in Box(q.dims) |->
                    [of |-> q.at[i], over |-> {<<k.at[j], v.at[j]>> : j \in Keys(i)},
                     scale |-> scale]]]

(* None stands for 1 / sqrt(head_dim), in every kernel and every wrapper.  *)
Scale(scale) == IF scale = "none" THEN "default" ELSE scale

TopLeft(causal) == IF causal THEN "top" ELSE "none"

Sdpa(q, k, v, causal, scale) == Attend(q, k, v, "bhsd", TopLeft(causal), Scale(scale))

-----------------------------------------------------------------------------
(* The ops: (batch, heads, seq, head_dim) in and out. *)

Naive(q, k, v, causal, scale) == Sdpa(q, k, v, causal, scale)

(* flash_attn wants (B, S, H, D), masks from the last key, and its third   *)
(* version answers with a pair.                                            *)
FlashAttn(q, k, v, causal, scale) ==
    LET out == Attend(q, k, v, "bshd", IF causal THEN "bottom" ELSE "none", Scale(scale))
    IN  IF wheel.fa3 THEN <<out, "lse">> ELSE <<out>>

ROCmFlash(q, k, v, causal, scale) ==
    Transpose(FlashAttn(Transpose(q), Transpose(k), Transpose(v), causal, scale)[1])

HopperFlash(q, k, v, causal, scale) ==
    LET out == FlashAttn(Transpose(q), Transpose(k), Transpose(v), causal, scale)
    IN  Transpose(out[1])

(* The kernels of this repository take the layout they are given.          *)
Fused(q, k, v, causal, scale) == Attend(q, k, v, "bhsd", TopLeft(causal), Scale(scale))

FP8Triton(q, k, v, causal, scale) == Fused(q, k, v, causal, scale)
AMXFlash(q, k, v, causal, scale)  == Fused(q, k, v, causal, Scale(scale))
IPEXFlash(q, k, v, causal, scale) == Sdpa(q, k, v, causal, scale)
AMXSDPA(q, k, v, causal, scale)   == Sdpa(q, k, v, causal, scale)

(* Two matrix products in FP8, batch and heads collapsed into one axis.    *)
(* Each operand is quantised along its last axis, so that axis has to be   *)
(* the one that the product sums over: the values are turned for it.       *)
Collapsed(t) ==
    [dims |-> <<t.dims[1] * t.dims[2], t.dims[3]>>,
     at |-> [g \in (1..t.dims[1] * t.dims[2]) \X (1..t.dims[3]) |->
                t.at[<<((g[1] - 1) \div t.dims[2]) + 1, ((g[1] - 1) % t.dims[2]) + 1, g[2]>>]]]

RowwiseQuantize(axes) == axes[Len(axes)]

Reordered == <<"d", "kv">>

Exact == /\ RowwiseQuantize(<<"q", "d">>) = "d" /\ RowwiseQuantize(<<"kv", "d">>) = "d"
         /\ RowwiseQuantize(<<"q", "kv">>) = "kv" /\ RowwiseQuantize(Reordered) = "kv"

FP8ScaledMM(q, k, v, causal, scale) ==
    LET cq == Collapsed(q)  ck == Collapsed(k)  cv == Collapsed(v)
        Group(i) == (i[1] - 1) * q.dims[2] + i[2]
        Keys(i) == {j \in 1..ck.dims[2] : causal => j <= i[3]}
    IN  [dims |-> q.dims,
         at |-> [i \in Box(q.dims) |->
                    [of |-> cq.at[Group(i), i[3]],
                     over |-> {<<ck.at[Group(i), j], cv.at[Group(i), j]>> : j \in Keys(i)},
                     scale |-> IF Exact THEN Scale(scale) ELSE "garbled"]]]

(* Mutant: one module for all masks.                                       *)
ModuleKeyUnmasked(heads, causal) == <<heads>>

(* _get_module: the key is the heads, the head dimension and the mask.     *)
ModuleKey(heads, causal) == <<heads, TopLeft(causal)>>

ModuleMask(heads, causal) ==
    LET key == ModuleKey(heads, causal)
    IN  IF key \in DOMAIN modules THEN modules[key] ELSE TopLeft(causal)

(* DotProductAttention takes the layout by name, or wants (S, B, H, D) and *)
(* raises TypeError at the name.                                           *)
TransformerEngine(q, k, v, causal, scale) ==
    LET mask == ModuleMask(q.dims[2], causal)
        Sbhd(t) == Permute(t, <<3, 1, 2>>)
    IN  IF wheel.bhsd THEN Attend(q, k, v, "bhsd", mask, Scale(scale))
        ELSE Permute(Attend(Sbhd(q), Sbhd(k), Sbhd(v), "sbhd", mask, Scale(scale)), <<2, 3, 1>>)

Run(op, q, k, v, causal, scale) ==
    CASE op = "naive-sdpa" -> Naive(q, k, v, causal, scale)
      [] op = "rocm-ck-flash" -> ROCmFlash(q, k, v, causal, scale)
      [] op = "nvidia-flash" -> HopperFlash(q, k, v, causal, scale)
      [] op = "transformer-engine-fp8" -> TransformerEngine(q, k, v, causal, scale)
      [] op = "fp8-scaled-mm" -> FP8ScaledMM(q, k, v, causal, scale)
      [] op = "fp8-triton-flash" -> FP8Triton(q, k, v, causal, scale)
      [] op = "amx-bf16-flash" -> AMXFlash(q, k, v, causal, scale)
      [] op = "ipex-flash" -> IPEXFlash(q, k, v, causal, scale)
      [] op = "amx-sdpa" -> AMXSDPA(q, k, v, causal, scale)

Ops == {"naive-sdpa", "rocm-ck-flash", "nvidia-flash", "transformer-engine-fp8",
        "fp8-scaled-mm", "fp8-triton-flash", "amx-bf16-flash", "ipex-flash", "amx-sdpa"}

SelfOnly == {"transformer-engine-fp8", "fp8-triton-flash", "amx-bf16-flash"}

-----------------------------------------------------------------------------
(* The functions registered with diffusers: (B, S, H, D) in and out.       *)

Permuted(op, q, k, v, causal, scale) ==
    Transpose(Run(op, Transpose(q), Transpose(k), Transpose(v), causal, scale))

(* _native_fallback: a flash wheel where the call allows it, else torch.   *)
NativeFallback(flash, q, k, v, causal, scale) ==
    Permuted(IF flash THEN "nvidia-flash" ELSE "amx-sdpa", q, k, v, causal, scale)

(* The kernel's answer, unless it is not finite.                           *)
BridgeAnswer(op, finite, flash, q, k, v, causal, scale) ==
    IF finite THEN Permuted(op, q, k, v, causal, scale)
    ELSE NativeFallback(flash, q, k, v, causal, scale)

-----------------------------------------------------------------------------
SelfCall(size) == size.q = size.kv

Remember(op, size, causal) ==
    LET key == ModuleKey(size.h, causal)
    IN  modules' = IF op # "transformer-engine-fp8" \/ key \in DOMAIN modules THEN modules
                   ELSE [x \in DOMAIN modules \cup {key} |->
                           IF x = key THEN TopLeft(causal) ELSE modules[x]]

(* An op is called with what it supports.                                  *)
CallOp(op, size, causal, scale) ==
    /\ calls < MaxCalls
    /\ op \in SelfOnly => SelfCall(size)
    /\ asked' = [op |-> op, size |-> size, causal |-> causal, scale |-> scale, bridged |-> FALSE]
    /\ answer' = Run(op, Tensor("q", <<size.b, size.h, size.q>>),
                         Tensor("k", <<size.b, size.h, size.kv>>),
                         Tensor("v", <<size.b, size.h, size.kv>>), causal, scale)
    /\ Remember(op, size, causal)
    /\ calls' = calls + 1
    /\ UNCHANGED wheel

(* diffusers calls a bridge, which may or may not run its kernel.          *)
CallBridge(op, finite, flash, size, causal, scale) ==
    /\ calls < MaxCalls
    /\ finite => SelfCall(size)
    /\ asked' = [op |-> IF finite THEN op ELSE IF flash THEN "nvidia-flash" ELSE "amx-sdpa",
                 size |-> size, causal |-> causal, scale |-> scale, bridged |-> TRUE]
    /\ answer' = BridgeAnswer(op, finite, flash, Tensor("q", <<size.b, size.q, size.h>>),
                              Tensor("k", <<size.b, size.kv, size.h>>),
                              Tensor("v", <<size.b, size.kv, size.h>>), causal, scale)
    /\ calls' = calls + 1
    /\ UNCHANGED <<wheel, modules>>

Init ==
    /\ wheel \in [fa3 : BOOLEAN, bhsd : BOOLEAN]
    /\ modules = [x \in {} |-> "none"]
    /\ asked = NoCall /\ answer = Raises /\ calls = 0

Next ==
    \E size \in Sizes, causal \in BOOLEAN, scale \in {"none", "given"} :
        \/ \E op \in Ops : CallOp(op, size, causal, scale)
        \/ \E op \in {"fp8-triton-flash", "amx-bf16-flash"}, finite, flash \in BOOLEAN :
              CallBridge(op, finite, flash, size, causal, scale)

-----------------------------------------------------------------------------
(* Properties *)

\* The place that a row of the call has in an answer.
Place(c, b, h, s) == IF c.bridged THEN <<b, s, h>> ELSE <<b, h, s>>

(* AttentionOp: "Compute attention ... Returns (batch, heads, seq_len_q,   *)
(* head_dim)".  Whatever op answers, in whatever layout, and whatever it   *)
(* was asked before, each row of the answer is that of its own query, over *)
(* all keys of its batch and head, up to its own when the call is causal,  *)
(* each with its own value, at the scale that was asked for.  (Of a causal *)
(* call whose queries and keys differ in number, the ops disagree about    *)
(* which key is a query's own.)                                            *)
SameAnswer ==
    asked # NoCall /\ (asked.causal => SelfCall(asked.size)) =>
        \A b \in 1..asked.size.b, h \in 1..asked.size.h, s \in 1..asked.size.q :
            answer.at[Place(asked, b, h, s)] =
                [of |-> <<"q", Place(asked, b, h, s)>>,
                 over |-> {<< <<"k", Place(asked, b, h, j)>>, <<"v", Place(asked, b, h, j)>> >> :
                             j \in {j \in 1..asked.size.kv : asked.causal => j <= s}},
                 scale |-> IF asked.scale = "none" THEN "default" ELSE asked.scale]

=============================================================================
