--------------------------- MODULE MCWorldSessions ---------------------------
(***************************************************************************)
(* Instances of WorldSessions for TLC.  LingBot-VA and DreamZero serve two *)
(* clients at a time.  With a limit of 0 nobody is served, and the script  *)
(* of BenchLoop drives the engine.                                         *)
(***************************************************************************)
EXTENDS BenchLoop

CONSTANTS
    c1, c2,
    SwapSteps   \* bound: actions that a client sends when it shares DreamZero

MCSetups ==
    {[engine |-> "none", limit |-> 1], [engine |-> "lingbot", limit |-> 2],
     [engine |-> "dreamzero", limit |-> 1], [engine |-> "dreamzero", limit |-> 2],
     [engine |-> "vla", limit |-> 1], [engine |-> "cosmos3", limit |-> 1],
     [engine |-> "lingbot", limit |-> 0], [engine |-> "dreamzero", limit |-> 0]}

CrossTalkSetups == {[engine |-> "dreamzero", limit |-> 2]}

MCOrder == <<c1, c2>>

MCInit == BenchInit \/ (Init /\ setup.limit > 0 /\ script = Off)

Bounded ==
    setup.engine = "dreamzero" /\ setup.limit > 1 => \A c \in Clients : steps'[c] <= SwapSteps

MCNext ==
    \/ script = Off /\ Next /\ Bounded /\ UNCHANGED script
    \/ script # Off /\ BenchNext

MCSpec == MCInit /\ [][MCNext]_<<vars, script>> /\ Fairness

=============================================================================
