--------------------------- MODULE MCFlashKernel ---------------------------
(***************************************************************************)
(* Instances of FlashKernel for TLC: tiles of two and three against four   *)
(* and five keys, so that first, full and partial tiles all occur, with    *)
(* and without a mask, and scores that rise, and that peak at one key.     *)
(* The choices of AttentionDispatch and what Backends tells of a machine   *)
(* are checked in the same run: each problem and each machine is an        *)
(* initial state without a successor, the kernel idle in it.  The ops of   *)
(* AttentionOps are called in behaviours of their own.                     *)
(***************************************************************************)
EXTENDS FlashTuner, Backends, TLC

CONSTANTS t1, t2, t3, Sizes, MaxOpCalls

VARIABLES
    part,  \* what runs: "kernel" or "ops"; "none" when an input is computed
    wheel, modules, asked, answer, made

opsVars == <<wheel, modules, asked, answer, made>>

O == INSTANCE AttentionOps WITH calls <- made, MaxCalls <- MaxOpCalls

ASSUME MCOpsAssumption == O!OpsAssumption

\* The script, or a process, and a process with two threads.
MCHost == (t1 :> "p") @@ (t2 :> "q") @@ (t3 :> "q")

MCShapes ==
    {[b |-> 2, h |-> 1, s |-> 5, d |-> 64, causal |-> TRUE],
     [b |-> 2, h |-> 1, s |-> 5, d |-> 64, causal |-> FALSE]}
\* Two of the grids' tiles: neither divides the sequence, in queries or in keys.
MCCompiles == {Tile(2, 1, 8, 2), Tile(4, 2, 8, 2)}

\* Below, at and between the limits of the ops and of the bridge.
MCDims == {32, 64, 96}
MCLengths == {<<40, 40>>, <<128, 128>>, <<4096, 4096>>, <<4100, 4100>>, <<4096, 128>>}

MCSettings == {{}, {"q"}}

MCScores ==
    {[j \in 0..4 |-> j], [j \in 0..4 |-> IF j = 1 THEN 4 ELSE 4 - j]}

MCShape == CHOOSE sh \in MCShapes : ~sh.causal
MCFound == (CHOOSE sh \in MCShapes : sh.causal) :> Tile(2, 1, 8, 2)

MCGpus ==
    {[target |-> "sm_90", gib |-> 141], [target |-> "sm_86", gib |-> 24],
     [target |-> "gfx942", gib |-> 192]}

\* More than one batch and head, of one size and of two.
MCSizes ==
    {[b |-> 2, h |-> 2, q |-> 2, kv |-> 2], [b |-> 1, h |-> 2, q |-> 3, kv |-> 3],
     [b |-> 2, h |-> 1, q |-> 2, kv |-> 3]}

MCInit ==
    /\ TunerInit
    /\ \/ /\ part \in {"kernel", "ops"} /\ problem = NoProblem /\ machine = NoMachine
       \/ /\ part = "none" /\ target = "cdna3" /\ disabled = {}
          /\ \/ machine = NoMachine /\ \E host \in Hosts : problem \in Problems(host)
             \/ problem = NoProblem /\ machine \in Machines
    /\ part = "ops" => target = "cdna3" /\ disabled = {}
    /\ IF part = "ops" THEN O!Init
       ELSE /\ wheel = [fa3 |-> FALSE, bhsd |-> FALSE] /\ O!Init

\* The siblings run the same steps, with one call of each thread and no deaths;
\* beside the script a process makes one call.  A second thread of a process
\* calls once, where nobody dies, nothing is tuned and the others call once.
Bounded ==
    /\ calls'[t3] > 0 =>
          target = "cdna3" /\ mode' = "off" /\ crashes' = 0 /\ \A t \in Threads : calls'[t] <= 1
    /\ target # "cdna3" => crashes' = 0 /\ \A t \in Threads : calls'[t] <= 1
    /\ mode # "off" => \A t \in Threads \ {Tuner} : calls'[t] <= 1

MCNext ==
    \/ part = "kernel" /\ TunerNext /\ Bounded /\ UNCHANGED <<part, problem, machine, opsVars>>
    \/ part = "ops" /\ O!Next /\ UNCHANGED <<part, problem, machine, vars, tunerVars>>
MCSpec == MCInit /\ [][MCNext]_<<part, vars, tunerVars, problem, machine, opsVars>>

(* Whatever op answers, a call gets the same attention.                    *)
SameAnswer == O!SameAnswer

=============================================================================
