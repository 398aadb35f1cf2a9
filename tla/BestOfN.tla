------------------------------- MODULE BestOfN -------------------------------
(***************************************************************************)
(* scripts/bench_llm_bestofn.py: one point of its sweep.  A client asks an *)
(* OpenAI server for N candidates, for several decisions at once, in three *)
(* ways (rungs): R0, N requests that the prefix cache cannot help; R1, N   *)
(* requests; R2, one request with n = N.  The lever is R1 over R2, and it  *)
(* means something if the two did the same work.                           *)
(*                                                                         *)
(* The server, external, answers the requests in flight in any order, and  *)
(* with as many candidates as it likes up to those asked for.  It has a    *)
(* cache of prefixes, as large as is needed; a draw is told by what fixes  *)
(* it: the prompt, the seed and the place in its request.  An answer that  *)
(* is an error ends the script, which then reports nothing: left out.      *)
(***************************************************************************)
EXTENDS Integers, FiniteSets, FiniteSetsExt

CONSTANTS
    Points,   \* [n, concurrency, fresh, gate]: --candidates, --concurrency,
              \* --fresh-prefix, and whether the point is the gate point
    Repeats,  \* --repeats
    Decoded,  \* tokens a candidate may have when it stops
    Walls     \* medians that a rung may take, in tenths of a millisecond

ASSUME BestOfNAssumption ==
    /\ Points \subseteq
          [n : Nat \ {0}, concurrency : Nat \ {0}, fresh : BOOLEAN, gate : BOOLEAN]
    /\ Repeats \in Nat \ {0} /\ Decoded \subseteq Nat /\ Walls \subseteq Nat

VARIABLES
    point,   \* the point of the sweep
    stage,   \* [rung, round]: round 0 is the warm-up; rung "done" in the end
    flight,  \* requests that are not answered yet
    answers, \* what the first decision of the gather has got so far
    cache,   \* prompts whose prefix the server has
    salts,   \* salts drawn
    result,  \* [rung -> what is reported of it, and, history, its draws]
    greedy_shape_ok,
    misses   \* history: rungs with a timed request whose prefix was cold

sweepVars == <<point, stage, flight, answers, cache, salts, result, greedy_shape_ok, misses>>

Rungs == {"R0", "R1", "R2"}
After == [R0 |-> "R1", R1 |-> "R2", R2 |-> "done"]
Nothing == [tokens |-> 0, texts |-> 0, draws |-> 0, wall |-> 0]

Stable == 0  \* the shared prefix, from a generator seeded with --seed alone

Request(decision, i, prompt, n, seed) ==
    [decision |-> decision, i |-> i, prompt |-> prompt, n |-> n, seed |-> seed]

(* Mutant: every request of a decision has the seed of the run.            *)
SameSeed(i) == 0

\* seed + i, counted from the seed.
Seed(i) == i

(* N requests with a seed each, or one for all N.                          *)
RunLoop(d, prompt, n) == {Request(d, i, prompt, 1, Seed(i)) : i \in 0..n - 1}
RunR2(d, prompt, n)   == {Request(d, 0, prompt, n, 0)}

(* The prompt of a decision: R0 salts its own, unless the server is told   *)
(* not to cache.                                                           *)
Prompt(rung, d) == IF point.fresh /\ rung = "R0" THEN salts + d ELSE Stable

Gather(rung) ==
    UNION {IF rung = "R2" THEN RunR2(d, Prompt(rung, d), point.n)
                          ELSE RunLoop(d, Prompt(rung, d), point.n) :
              d \in 1..point.concurrency}

Salted(rung) == IF point.fresh /\ rung = "R0" THEN point.concurrency ELSE 0

\* Every rung has a warm-up of its own.
FirstRound(rung) == 0

Issue ==
    /\ stage.rung # "done" /\ flight = {} /\ ~stage.issued
    /\ flight' = Gather(stage.rung)
    /\ salts' = salts + Salted(stage.rung)
    /\ stage' = [stage EXCEPT !.issued = TRUE]
    /\ answers' = {}
    /\ UNCHANGED <<point, cache, result, greedy_shape_ok, misses>>

(* One answer: the first m of the n candidates, each stopping where it     *)
(* does; the server's usage counts those.  A short answer is taken as it   *)
(* is.                                                                     *)
Complete(r) ==
    /\ flight' = flight \ {r}
    /\ cache' = cache \cup {r.prompt}
    /\ misses' = IF stage.round > 0 /\ r.prompt \notin cache THEN misses \cup {stage.rung} ELSE misses
    /\ IF r.decision # 1 \/ stage.round = 0 THEN UNCHANGED answers
       ELSE \E m \in 0..r.n : \E tokens \in [0..m - 1 -> Decoded] :
               answers' = answers \cup
                   {[of |-> r.i, draw |-> <<r.prompt, r.seed, k>>, tokens |-> tokens[k]] :
                       k \in 0..m - 1}
    /\ UNCHANGED <<point, stage, salts, result, greedy_shape_ok>>

Draws == {a.draw : a \in answers}

(* At n = 1 and temperature 0 the seed is of no account: a server gives    *)
(* one text to requests that are alike in the rest, or gives none.  What   *)
(* is compared is a digest of the texts.                                   *)
Greedy(requests) == {<<r.prompt, r.n>> : r \in requests}

EquivalenceCheck(looped, single) ==
    (IF looped THEN Greedy(RunLoop(1, Stable, 1)) ELSE {})
        = (IF single THEN Greedy(RunR2(1, Stable, 1)) ELSE {})

(* The gather is back.  The last round of a rung is the one whose tokens   *)
(* and candidates are reported, of its first decision.  After R2 come the  *)
(* two greedy requests.                                                    *)
TimeRung ==
    /\ stage.rung \in Rungs /\ stage.issued /\ flight = {}
    /\ IF stage.round < Repeats
       THEN /\ stage' = [stage EXCEPT !.round = @ + 1, !.issued = FALSE]
            /\ UNCHANGED <<result, greedy_shape_ok>>
       ELSE /\ stage' = [rung |-> After[stage.rung], issued |-> FALSE,
                         round |-> IF stage.rung = "R2" THEN 0 ELSE FirstRound(After[stage.rung])]
            /\ \E w \in Walls :
                  result' = [result EXCEPT ![stage.rung] =
                      [tokens |-> MapThenSumSet(LAMBDA a : a.tokens, answers),
                       texts |-> Cardinality(answers), draws |-> Cardinality(Draws), wall |-> w]]
            /\ IF stage.rung # "R2" THEN UNCHANGED greedy_shape_ok
               ELSE \E looped, single \in BOOLEAN :
                       greedy_shape_ok' = EquivalenceCheck(looped, single)
    /\ UNCHANGED <<point, flight, answers, cache, salts, misses>>

(* The mark on a rung that came back with other than N candidates: the     *)
(* sweep goes on with what it has.                                         *)
Warn(rung) == result[rung].texts # point.n

Larger(a, b) == IF a > b THEN a ELSE b
Distance(a, b) == IF a > b THEN a - b ELSE b - a

(* Equal decode work, to two in a hundred.                                 *)
TokensOk ==
    LET t1 == result["R1"].tokens  t2 == result["R2"].tokens
    IN  t1 > 0 /\ t2 > 0 /\ 100 * Distance(t1, t2) <= 2 * Larger(t1, t2)

ParityOk == greedy_shape_ok /\ TokensOk

(* In hundredths, to the nearest; 0 when R2 rounds to nothing.             *)
Lever ==
    LET r1 == result["R1"].wall  r2 == result["R2"].wall
    IN  IF r2 = 0 THEN 0 ELSE (200 * r1 + r2) \div (2 * r2)

(* The decision rule, for the gate point only.                             *)
Verdict ==
    CASE ~point.gate   -> "not measured"
      [] point.gate /\ Lever >= 300 -> "stands"
      [] point.gate /\ Lever \in 150..299 -> "rebuild"
      [] OTHER         -> "delete"

(* What main returns, and what it prints, whatever it returns.             *)
Report == [exit |-> IF ParityOk THEN 0 ELSE 1, verdict |-> Verdict]

SweepInit ==
    /\ point \in Points
    /\ stage = [rung |-> "R0", round |-> 0, issued |-> FALSE]
    /\ flight = {} /\ answers = {} /\ cache = {} /\ salts = 0
    /\ result = [r \in Rungs |-> Nothing] /\ greedy_shape_ok = FALSE
    /\ misses = {}

SweepNext == Issue \/ TimeRung \/ \E r \in flight : Complete(r)

SweepSpec == SweepInit /\ [][SweepNext]_sweepVars

-----------------------------------------------------------------------------
(* Properties *)

(* The lever compares like with like, in whatever order the server answers *)
(* and however short: no timed request of R1 or R2 pays for a cold prefix; *)
(* every text that is counted is a draw of its own; and a run that returns *)
(* 0 has N draws behind each of its two numbers, unless the rung bears the *)
(* mark, and equal work behind both.                                       *)
LikeForLike ==
    /\ misses \subseteq {"R0"}
    /\ \A rung \in Rungs : result[rung].draws = result[rung].texts
    /\ stage.rung = "done" /\ Report.exit = 0 =>
          /\ \A rung \in {"R1", "R2"} : result[rung].draws = point.n \/ Warn(rung)
          /\ 50 * Distance(result["R1"].tokens, result["R2"].tokens)
                <= Larger(result["R1"].tokens, result["R2"].tokens)

=============================================================================
