# TLA+ models of Repercep

Repercep is an inference runtime for video and world models.  What is hard to get
right in it, and hard to test, lies around the tensors: a scheduler, a router, a
driver thread and an event loop that share requests; sessions whose engines keep
caches and clocks; a metered gateway; kernels with an on-disk tuning cache that
several processes write; loops that decide when a prediction may be reused.
These modules specify those parts, TLC checks them on small instances, and TLAPS
proves for every instance what matters most of the schedulers, the routers, the
serving path, the sessions, the gateway, the planner and the batch engines, the
latent cache, the tuning file, the choice of attention ops and the two benchmarks.

Paths are relative to the repository (`crates/...`, `src/repercep/...`,
`kernels/...`, `scripts/...`); `models/...`, `serving/...`, `runtime/...`,
`attention/...` and `backend/...` are under `src/repercep/`.

## 1. Inventory

| component | state it keeps | operations | modules |
|---|---|---|---|
| Rust scheduler, `crates/repercep-scheduler` | three buckets, skip-set `cancelled`, `known_ids`, shutdown flag, a tokio `Notify` | `submit`, `next` / `next_blocking`, `cancel`, `shutdown` | `Scheduler` |
| Python fallback scheduler, `runtime/scheduler.py` | three deques, `_ids`, shutdown flag, a `Condition` | the same | `SchedulerFallback` |
| Rust router, `crates/repercep-router` | a map of entries (state, last index, sender, receiver), a bounded channel each, shutdown flag | `accept`, `push_frame`, `subscribe`, `cancel`, `shutdown`, `FrameStream.__anext__` | `Router` |
| Python fallback router, `runtime/router.py` | entries with an `asyncio.Queue` and a `closed` flag each, shutdown flag | the same | `RouterFallback` |
| v2 serving path, `serving/app.py`, `serving/driver.py` | staged payloads, the driver's stop flag, its thread, coroutines handed to the loop | generate, cancel, lifespan; the driver's loop | `Serving` |
| interactive sessions, `serving/app.py` `world_session` | `active_sessions`, one handler per connection, its last `WorldState` | open, reset, step, idle timeout, disconnect, release | `WorldSessions` |
| chunked engines, `models/lingbot_va*.py`, `dreamzero*.py`, `vla*.py`, `cosmos3.py` | session tables, frame clocks, per-session caches, parked proposals, state swapped into one action head | `load`, `reset`, `step`, `plan`, `release` | `WorldSessions`, `ActionSpace` |
| latent planner, `models/vjepa2_ac.py` | a key/value cache and a plan mean per session; the world states its callers hold | `reset`, `step`, `plan`, `release` | `LatentPlanner` |
| metered gateway, `serving/llm_proxy.py`, `metering.py`, `usage.py`, `tenancy.py`, the `keys` and `usage` commands | the key table, the ledger, one `ResponseMeter` per call | authenticate, check the quota, proxy, meter, record; create, revoke, list; summary, invoice | `Gateway`, `Metering`, `Tenancy`, `Usage` |
| paged latent cache, `crates/repercep-cache`, `runtime/latent_cache.py` | pages, pins, the next id | `allocate`, `touch`, `unpin`, `release_request` | `LatentCache` |
| batch engines, `models/cosmos.py`, `models/wan.py`, `runtime/denoise.py` | the loaded pipeline, its transformer (compiled or not), the scheduler's step index; per clip the last prediction and a drift | `load`, `generate`; one decision per step | `BatchEngine` |
| registries, `attention/registry.py`, `backend/*`, the diffusers bridges | the active bridge | pick a backend, pick an op, activate, route a call, tell what there is | `AttentionDispatch`, `Backends` |
| attention ops, `attention/*.py` | TransformerEngine's module cache | one call each | `AttentionOps` |
| FP8 kernels, `kernels/triton_kernels`, `scripts/autotune_fp8.py` | the JSON file of tiles and its temporary twin; Triton's per-process memo and `best_config` | launch, tune, record; the script's trials | `FlashKernel`, `FlashTuner` |
| quantisation, `runtime/quantize.py` | none | quantise a row, list and replace the linears of a module | `Quantize` |
| benchmarks, `scripts/bench_control_loop.py`, `scripts/bench_llm_bestofn.py` | a phase and its counts; answers of a rung | drive an engine, drive a server | `BenchLoop`, `BestOfN` |
| AMX and HIP kernels, Wan attention processor, CLI, configuration, profiling, other scripts | numeric, or none | | not modelled |

### How the parts interact

*Batch requests.*  `POST /v2/generate/stream`: the handler, a task of the event
loop, stages the payload in the scheduler adapter and calls `router.accept`, which
inserts an entry and calls the adapter's `submit`, which calls the scheduler.  Then
it subscribes and returns a response whose body reads the frame stream.  The
driver thread takes requests from `next_blocking`, runs the engine's generator, and
hands every frame to the loop as a `push_frame` coroutine
(`run_coroutine_threadsafe`), waiting at most thirty seconds for its answer.  The
push itself is a future on a tokio worker: it validates under the router's lock,
sends with the lock released and takes it again to complete the request.  A
cancellation goes to the router first and then to the scheduler.  The lifespan
stops the driver (a join of at most five seconds, *on the loop*) and then shuts
the router down.

*Sessions.*  `WS /v2/world/session`: the handler awaits messages on the loop and
runs `engine.reset`, `step` and `release` on threads of a pool, any number at a
time; the engines call pipelines that keep a second table per session.
`bench_control_loop.py` calls the same engines without the server, and writes into
their session table.

*The gateway.*  A call is authenticated and checked against its quota on a pool
thread, proxied on the loop, metered chunk by chunk, and written to the ledger when
its stream ends, however it ends.  Keys are minted and revoked by a command in
another process; invoices read the ledger.

*Attention.*  An engine gets its op from the backend's `attention_op`, or diffusers
calls a bridge that was activated from an environment variable.  FP8 ops launch a
kernel whose tile comes from the JSON file, which every process of the host and
the tuning script share.

### What is hard, and what makes each part correct

* **Schedulers.**  Cancelled items stay in their bucket and are skipped later, so
  two id sets must agree with the queue at all times; `next` looks at the queue
  and awaits with the lock released in between, so a wake-up may fall into the
  gap, or to a consumer that has just timed out.  *Correct*: no accepted request
  is lost or handed out twice or after its cancellation, the oldest request of
  the highest priority comes first, no wake-up is lost, and a shutdown drains.
* **Routers.**  `push_frame` has three phases; a cancellation, a subscriber that
  leaves or another push may come between any two.  The channel closes when the
  *last* sender is gone.  In the fallback the end is a sentinel in a queue that may
  be full, so a flag has to stand in for it.  *Correct*: frames arrive in order,
  nothing follows the final frame, the end of the stream comes after the last
  frame and always comes once the request is over.
* **Serving path.**  Two threads, a pool of workers, two timeouts, and an engine
  that may yield fewer frames than asked, more, or raise.  *Correct*: no live
  request is without somebody in charge of it, a client that saw a completed
  stream has the whole clip, every stream ends, and a push that timed out is
  never doubled.
* **Sessions and their engines.**  Every exit of the handler has to release what
  was opened; `plan` parks a proposal and appends to the cache, `step` replaces the
  predicted entries by executed ones; two pool threads may be inside one model.
  *Correct*: nothing leaks, a session is conditioned on its own history, every
  frame once, and a silent client is let go.
* **Latent planner.**  A cache is kept per session while callers hold world states
  and may step any of them again.  *Correct*: a cache never changes an answer.
* **Gateway.**  The quota is compared with what is billed while calls are in
  flight; a row is written in the `finally` of a generator that may be cancelled;
  the usage chunk must be cut out however the bytes are cut.  *Correct*: the
  overshoot is bounded, every call is billed once and to its owner, the client
  sees what it would have seen without the meter, and all sums agree.
* **Denoising.**  *Correct*: a reused prediction is as fresh as configured, each
  step is taken at its own noise level, nothing is compiled above the ceiling.
* **Kernels and dispatch.**  Partial tiles, masks, a running maximum; a tuning file
  with one temporary name for all writers; limits that are written out in three
  places.  *Correct*: a launch computes attention, with a tile tuned for its
  shape; no call reaches a kernel that cannot take it, or loses its mask; every op
  gives the same answer.
* **Cache.**  *Correct*: a pinned page stays, and an id never names another's page.

`PROJECT.json` lists these hazards at the lines where they bite, with the
properties that would catch them.

## 2. Modules

```
Requests ──── PriorityQueue (abstract) ◄── Scheduler ── SchedulerProofs
                     ▲    ▲                      └ MCScheduler
                     │    └── SchedulerFallback, LatentCache ── RuntimeProofs, MCRuntime
                     │
Streams (abstract) ◄─┼─ Router ── RouterProofs, MCRouter
        ▲            │     ▲
        │            └─────┴── Serving ── ServingProofs, MCServing
        └── RouterFallback ── RouterFallbackProofs, MCRuntime

WorldSessions ── BenchLoop ── SessionsProofs, MCWorldSessions
Gateway, Metering, Tenancy, Usage, BestOfN ── MCGateway ── GatewayProofs
LatentPlanner, BatchEngine ── RuntimeProofs, MCRuntime
ActionSpace, Quantize ── MCRuntime
FlashKernel ── FlashTuner ──────────────────────┐
AttentionDispatch, Backends, AttentionOps ── MCFlashKernel ── FlashTunerProofs
```

`◄` is a refinement, shown by `INSTANCE ... WITH` and the abstract specification as
a property.

**`Requests`, `PriorityQueue`.**  The vocabulary and the abstract scheduler: a log
of accepted requests, each queued, delivered or cancelled; `Take` hands out the
oldest of the highest priority; `Put` respects the capacity and is over once a
consumer has been told that the queue is drained.  Both schedulers implement it,
and `Serving` uses it in place of either.

**`Scheduler`.**  One action per critical section of the mutex and per step outside
it.  `submit` is `SubmitBegin` (the flag is read without the lock),
`SubmitQueueFull` or `SubmitPush`, `SubmitNotify`; `cancel` is `CancelBegin` and
`CancelMark`; `shutdown` is `ShutdownBegin` and `ShutdownWake`; `next` goes round
`armed` (the `Notified` exists), `NextItem` or `NextEmpty`, `AwaitPermit`,
`AwaitSignalled` or `AwaitRegister`, `Wake`; `Timeout` is `next_blocking` dropping
the future.  A bucket is a sequence of tickets, positions in the history `log`.
`pop_next`, with the items it skips, is the pair of operators `IsNext` and
`Popped`.  tokio's `Notify` is external and modelled from its use: one stored
permit, a list of waiters, `notify_one` that wakes the first or stores the permit,
`notify_waiters` that signals every future that exists, and a dropped future that
passes on a `notify_one` it had received.  `UsesGil` says whether the callers are
serialised by the GIL (the PyO3 wrapper) or are Rust threads; `MayReuse` whether an
id may be submitted again.

**`SchedulerFallback`.**  Each method under the `Condition` is one action;
`next_blocking` is one action per turn of its loop.

**`Streams`.**  The abstract router: per request the frames that entered the
stream, how many the subscriber has, an outcome and the state of the reader.
Indices increase, nothing enters behind the final frame or a completion, at most
`Depth` frames are buffered, and the reader sees the end only after the request
is over and everything was handed out.

**`Router`.**  `accept` is `AcceptInsert` and then `AcceptSubmit` or
`AcceptRollBack` (the scheduler it calls is Python code, and other threads may run
there); `push_frame` is `PushBegin`, `PushRefused` or `PushValidate`, `PushFails` or
`PushSend`, and `PushComplete` for a final frame; `subscribe`, `cancel` and
`shutdown` are one action each, under the GIL; the stream is `Receive`,
`ReceiveEnd`, `DropReceiver`.  `push[p]` is a push under way, which holds a clone of
the sender from its validation on, and `Disconnected` is "no sender is left".

**`RouterFallback`.**  Every call is a step of the event loop, `push_frame` two
(`PushCheck`, `PushPut`); the driver's `cancel` comes from another thread.  A
reader is idle, waiting in `get()`, woken, ended or gone.  A frame that is put
behind a sentinel reaches nobody and does not count as sent.  With `Preempts` the
cancel also falls into a step of the loop that is half done (`loop`): between the
check and the put of a push, and between the reader's look at the queue and its
entry among those who wait (`ReadEmpty`, `Register`), which `torn` remembers.

**`Serving`.**  Composes `Router` and `PriorityQueue` (by `INSTANCE`) with the
handlers, the adapter, the driver, the loop and the lifespan.  The loop runs one
task at a time: `loop` says what it is in the middle of, `joining` being
`driver.stop()`, which blocks it.  `driver.at` is the driver's place in `_run` and
`_run_one`; `pending` are coroutines the loop has not started, `answers` results
it has not passed on.

**`WorldSessions`.**  `conn[c]` is the place of a connection's handler, `call[c]` the
engine call that runs for it on a pool thread and its place there: `load` and
`Build`, the pipeline's `Open` and `Encode`, `Register` in the engine's table,
`Recondition` and `Infer`, DreamZero's `SwapIn`, `RunModel`, `SwapOut`, and `Forget`
and `Close` of a release.  `Fails` is a call that raises.  `sessions` is the
engine's table, `pipes` the session tables of the pipelines that were built (a
second first-reset may build another), `clock`, `proposed` and `kv` a session's
frame clock, parked proposal and cache, `head` what is in the shared action head,
and `crossed`, a history, the sessions that were in the model beside another.
Cosmos 3 keeps nothing.  **`BenchLoop`** is the script that calls the same engine
through warm-up, timed steps, a goal and timed plans, clearing the parked proposal
between them, or in rounds over several sessions.

**`LatentPlanner`.**  The predictor is a free term of the frames and actions it sees,
so two results are equal exactly when they were computed from the same things.
World states are values that callers keep; any of them may be stepped again.
`Step` takes the cached path when the entry is `InSync` with the state's context,
and `Synced` appends, evicts (`slide`) or drops (`reinit`).  `Plan` scores candidates
looped, batched, or batched over a shared prefix.

**`BatchEngine`.**  A clip walks through `Load`, the guardrail's `CheckText`, the
compile `Gate`, the native loop (`Start`, then per step `Forward`, which runs or skips,
and `SchedulerStep` with the scheduler's two calls per step) or the `Pipeline` of
diffusers, `CheckVideo` and `Yield`.  The drift that the adaptive mode adds up is
chosen at every step.  Threads enter the engine as they like, without a lock:
`overlapped`, a history, has the calls that were not alone in it while they made
their clip; such a call may find the scheduler's index used up (`SchedulerRaises`).

**`Gateway`.**  A call is at the quota check, sending, streaming or closing; the
operator's `Create` and `Revoke`, and the turn of a month, come at any time.
`Emit` writes the row; `EmitCancelled` and `SinkRaises` lose it, which `lost`
remembers.  **`Metering`** cuts streams of lines into chunks in every way and feeds
them to the meter; **`Tenancy`** has keys as sequences of tokens, so that a secret
may hold the separator, and resolves a credential for HTTP and for the WebSocket;
**`Usage`** computes summary, quota and invoice over every small ledger, by the SQL's
own grouping, order and sums.
**`BestOfN`** is one point of the best-of-N sweep against a server that answers in any
order, with as many candidates as it likes up to those asked for, and has a prefix
cache.  A short answer goes into the sums as it is; `Warn` is the mark on a rung
that came back with other than N candidates.

**`LatentCache`**, **`ActionSpace`**, **`Quantize`**. The cache with its eviction
policy, each call one action, as under the lock of the native build (the fallback has
none and is as the model says while one thread at a time uses it); the images that make
up a model's input and the actions that come out of it, decoded, executed and encoded
back; INT8 rows, and the two walks over a module given as a graph in which a block may
have two names.

**`FlashKernel`.**  The launcher (`CallKnown`, `CallMiss`, `Autotune`, `ReadBest`) and
the save (`RecordLoad`, `SaveOpen`, `SaveWrite`, `SaveReplace`) on inodes with two
names, with `Crash` of a process between any two; `Row` is the kernel's walk over
key tiles with its running maximum, in exact fixed point.  CDNA3, Hopper and Ada
differ in grid, fallback, range and file.  Threads of one process share the kernel
object: `best` is its `best_config`, and `raced`, a history, has the keys whose winner was not read
yet when another thread of the process launched.  **`FlashTuner`** is the script beside such
processes.  **`AttentionDispatch`** computes which op a problem gets and what of the
call it heeds, and says apart from that what each kernel takes (`KernelTakes`),
**`Backends`** what a machine is told to have, **`AttentionOps`** what
each op does with the layout of a call before and after its kernel.

**`MC...`** modules give the instances.  Where one of them holds several components,
they share nothing: a variable says which one runs, the others rest, so the run
checks each of them alone.  Pure computations are initial states without a
successor, one for every input within the bounds.  Definitions marked *Mutant* are
plausible bugs; putting one in place of the definition that follows it must break
the property it is paired with in `PROJECT.json`, which shows that the property
depends on that line of the code.

## 3. Runs

Passing runs:

| run | instance | distinct states | shows |
|---|---|---|---|
| `scheduler_pyo3` | 2 ids, 2 callers, 2 consumers, capacity 2, 2 submits, GIL, fair | 117 157 | `ImplementsQueue`, `EventuallyServed`, `ShutdownWakesAll` |
| `scheduler_rust` | 3 ids, 2 callers, 1 consumer, capacity 2, 3 submits, no GIL | 237 531 | `NothingLost`, `SetsMatchQueue`, `NoLostWakeup`, `CancelIsFinal`, `ImplementsOpenQueue` |
| `runtime` | fallback scheduler: 3 ids, 2 consumers, capacity 2; cache: 2 requests, 2 pages, 3 frames, 4 allocations; fallback router: 2 ids, depth 2, indices 0..1, a cancel at any bytecode, fair; batch engine: 2 threads, 3 calls of 4 steps, every caching mode; planner: windows of 2 and 3 frames, 2 world states kept, 3 steps; tasks, blocks, bins and cameras; modules of 2 blocks | 638 967 | `ImplementsQueue`, `PinnedPagesStay`, `ImplementsStreams`, `StreamEnds`, `MadeAsConfigured`, `RolloutIsExact`, `ArrivesAsMeant`, `QuantisedAlike` |
| `router` | 2 ids, 2 pushes, one at a time of a request, depth 1, indices 0..1, fair | 618 016 | `ImplementsStreams`, `SenderMatchesState`, `EndIsLast`, `CompleteIsFinal`, `StreamEnds` |
| `serving_live` | 2 requests, depth 1, 2 frames, fair | 103 780 | `StreamsEnd`, `HangUpSettles` |
| `serving_stop` | 2 requests, 2 pushes, depth 2, 2 frames asked, 1 or 3 yielded, the application stopped | 1 130 607 | `NobodyForgotten`, `WholeClip`, `UsesRouter` |
| `sessions` | 2 clients, every engine, limits 1 and 2, 2 steps (1 where two DreamZero sessions may cross), chunks of 2 frames; the script with LingBot-VA and DreamZero; fair | 382 400 | `NothingLeaks`, `OwnHistory`, `SilentIsReleased`, `TimedPlanIsReal` |
| `gateway` | 2 connections of 2 calls, a limited key and the shared token, 2 months; 3 keys for 3 customers; streams of 2 lines cut everywhere; ledgers of 3 rows; rungs of 2 and 3 candidates, answers of any length | 1 272 779 | `OvershootBounded`, `BillsBalance`, `MeterOnlyListens`, `InvoicedToOwner`, `LikeForLike` |
| `flash_kernel` | 2 processes, one of them with 2 threads, 2 calls, 1 crash, 5 keys, tiles of 2 and 4; every problem and machine of the bounds; 2 op calls of 3 sizes | 511 512 | `LaunchIsAttention`, `LaunchedWasTuned`, `DispatchFits`, `InfoTellsTruth`, `SameAnswer` |

Three runs refute what a comment, a docstring or a test says:

| run | property | what happens |
|---|---|---|
| `serving_stop_ends` | `StopEndsStreams` | `router.shutdown()` closes no channel, and after it the driver's own cancel is refused: the stream of a request that is queued, or whose push waits for the loop, stays open (`app.py:360`, against the comment at 356). |
| `router_fallback_cancel` | `CancelEndsStream` | the driver's thread calls the fallback router's `cancel` between the reader's look at the empty queue and its entry among the getters: the sentinel is put, nobody is woken, and the reader sleeps on a closed stream (`router.py:133`, against `tests/test_router.py:183`, "Stream should now end.", and the iterator it stands in for, router `lib.rs:665`). |
| `cross_talk` | `NoCrossTalk` | two DreamZero sessions step on two threads of the pool: the second `_swap_in` replaces the state the first call is working on, and a cache gets the other's entries (`dreamzero_pipeline.py:300`, against its docstring at 21: "one resident model serves N sessions without cross-talk"; `app.py:88` admits 16). |

**What the properties say.**

*Requests.*  `ImplementsQueue`: order, capacity and drain as the abstract queue has
them; `ImplementsOpenQueue`: the same without the promise that nothing is accepted
after a drain, which Rust threads can break.  `NoLostWakeup`: no consumer sleeps
while there is a live request and nobody about to wake it.  `ImplementsStreams`:
the abstract stream.  `StreamEnds` of the fallback: a closed stream ends for its
reader, whatever step of the loop the cancel fell into, but for the one that
`router_fallback_cancel` shows.  `NobodyForgotten`: every live request is queued, in the
driver's hands, or in those of a handler or a push.  `WholeClip`: who saw a completed
stream was sent all frames.  `UsesRouter`: the serving path never has two pushes of
one request under way, which is what the router's ordering rests on.

*Sessions.*  `NothingLeaks`: a closed connection has nothing left in the engine or
its current pipeline of a session that `reset` opened, and the counter of sessions
is the number of connections held.  `OwnHistory`: between calls a session's cache
is its own entries, one per frame; DreamZero's sessions that were in the shared
model together (`crossed`) are excepted, and only those.  `TimedPlanIsReal`: no timed plan returns a parked proposal.

*Gateway.*  `OvershootBounded`: a key is billed less than its quota and one call for
every open connection.  `BillsBalance`: rows, calls about to be billed and rows that a
cancellation lost add up to what was used.  `MeterOnlyListens` joins two facts about
every stream and every cutting: the client gets the bytes it would have got without
the meter, and the billed counts are the last ones said, or the words counted.
`InvoicedToOwner` joins two: a credential resolves to whoever it was handed to, and
quota, summary and invoice agree about every ledger.  `LikeForLike`: the lever of the
benchmark compares warm with warm; no draw is counted twice; and an exit of 0
means equal work behind both numbers, and N draws behind each that bears no WARN.
(A run may exit with 0 and a WARN: two rungs that are short alike.)

*Engines.*  `MadeAsConfigured` joins the freshness of reused predictions, for every
call, and the compile ceiling and the noise level of every step, for the calls
that overlapped no other, whatever those before them left.  `RolloutIsExact`: under `reinit`
every world state is what replaying its actions through the full predictor gives,
and the three ways to score a candidate agree.  (Under `slide` the code promises
less, and only the shape of the cache is checked.)  `ArrivesAsMeant` joins decoding
and encoding of actions, their ranges, and the wholeness of the canvas.
`QuantisedAlike`: what is listed is what is replaced, once where every linear has one
name, and a row comes back within half a step.

*Kernels.*  `LaunchIsAttention`: every row of a launch is the softmax over exactly
the keys it may attend to.  `LaunchedWasTuned` joins: no tile for a shape it was not
measured for, unless the winner of its key was open to another thread (`raced`),
and a tuner's trials leave the other entries alone.  `DispatchFits` joins three, on
GPUs and on the CPU: the kernel that is reached takes the problem exactly when it
is not one of four misfits (`Misfit`, section 4); the bridges repeat the registry;
and a bridge drops nothing of a call but its parallel configuration.
`InfoTellsTruth`: what `repercep info` lists is picked for something it can do, what
is picked is listed, and the list has the order in which ops are tried, except where
`Useless`, `Unlisted` and `Transposed` say otherwise; there it always fails, so the
exceptions are no wider than the code's.  `SameAnswer`: all ops give a call the same
rows.

**Bounds.**  `MaxSubmits` bounds the submissions, `MaxIndex` the frame indices,
`Pushers` the pushes under way; `Totals` is how many frames an engine turns out to
yield.  Three requests with three priorities and a capacity of two reach a full
queue, a cancelled item in front of and behind a live one, and a skip followed by a
pop.  Two callers and one or two consumers are the numbers that the races on the
`Notify` need.  Depth 1 fills a channel with the first frame, depth 2 lets a frame,
or a sentinel, sit behind another.  Two frames asked with one to three yielded give
a clip that is exact, short (a marker is pushed) and long.  Two clients are what a
session table, a limit and a second load need; two steps and a chunk of two let
a plan come before, between and after steps.  Two calls of two connections, a quota
of two and costs up to two reach the largest overshoot in one month and begin the
next.  Four steps hold a warm-up, a period of each cadence and the last step; three
calls of two threads let a call alone follow two that overlapped.  Windows of two and three grow
into their cap and slide.  Tiles of two and four against five keys give full,
partial and single tiles and a mask through the middle of one; two calls of two
processes and one crash give torn saves, saves that overtake and a second reader; a
second thread of one process, with one call, is what a race on the kernel object
needs.
Four allocations of two pages give every eviction and an id that outlives its page.

**Deadlock** is checked in the scheduler's runs and in
`serving_live`.  It is switched off where ids, calls or inputs are used up, where the
application stops, and where computed inputs are states without a successor.

**Fairness.**  *Scheduler*: a call that has begun ends and a consumer that is
awake goes on (threads are scheduled), and a consumer calls `next` again, which the
driver's loop does.  *Routers*: a push that has begun runs to its end, and a
subscriber asks for the next frame.  *Serving*: the loop and the driver run, the
engine yields, ends or raises, the workers run, and a client reads on until it
hangs up.  *Sessions*: the handler runs, its idle timeout fires, and pool threads
end or raise.  Nobody is obliged to submit, cancel, hang up, step or stop the
application.  All of it is weak, and none is assumed of a choice (which answer the
loop passes on, whether an engine raises).

## 4. Limits of the code that the instances respect

What follows was met while modelling.  The runs assume the first group; each is easy
to see fail by changing a constant, as said in parentheses.

* *One consumer, or consumers that come back.*  Two `notify_one` calls that find
  no registered future store one permit, so with two consumers one may sleep while
  a live request waits until the other calls `next` again (`SchedulerRust.cfg` with
  two consumers: `NoLostWakeup`).  The comment at scheduler `lib.rs:184` says "one
  consumer".
* *Callers serialised by the GIL.*  `submit` reads the shutdown flag before the
  lock, so from Rust threads it may queue a request after `next` returned `None`
  (`SchedulerPyO3.cfg` with `UsesGil = FALSE`: `ImplementsQueue`).
* *Unique ids.*  The skip-set names ids, not items: an id submitted again while
  its cancelled item is queued, at a higher priority, is skipped in its place, and
  the cancelled item is handed out (`SchedulerRust.cfg` with `MayReuse = TRUE`: `SetsMatchQueue`, `CancelIsFinal`).
* *One push per request.*  The lock is released between the check of the index and
  the send, so two pushes of one request may send in the opposite order
  (`Router.cfg` with `Concurrent = TRUE`: `ImplementsStreams`).
* *A clip that is not empty.*  The final marker is pushed only after at least one
  frame (`driver.py:289`, against the comment at 285), so an engine that yields
  nothing leaves its stream open (`ServingLive.cfg` with `Totals = {0}`: `StreamsEnd`).
Where the code falls short of its own words, or of what one would expect, in a case
the properties name, the runs include the case and the property excepts it alone:

* *A cancel in the reader's `get()`.*  The fallback router's `cancel` runs on the
  driver's thread; between the loop's look at the queue and its registration it is
  not noticed (`StreamEnds` excepts `torn`; the run `router_fallback_cancel`).
* *DreamZero sessions that cross.*  The state is swapped into one action head without
  a lock (`OwnHistory` excepts `crossed`; the run `cross_talk`).
* *Calls that overlap in a batch engine.*  The v1 route and the driver share
  transformer and scheduler without a lock: a clip may be made at another's noise
  levels, or by a transformer another call compiled, or end in an error
  (`MadeAsConfigured` excepts `overlapped` from all but the freshness).
* *Threads that race in the FP8 launcher.*  `best_config` belongs to the kernel
  object, so a second thread of the process may record its tile for another shape
  (`LaunchedWasTuned` excepts `raced`).
* *Misfits.*  `supports()` says "True if this op can correctly run the given problem"
  (`protocol.py:32`), but the AMX ops accept unequal lengths and lengths their kernels
  refuse (not divisible by 32); `naive-sdpa` accepts a neighborhood, for which it
  computes full attention, and FP8 tensors; and the Hopper FP8 kernel accepts any
  GPU, although the docstring at `cuda.py:75` has it disqualify itself on Ampere.
* *A parallel configuration.*  "Fall back so we never silently break the multi-GPU
  path" (`diffusers_backend.py:200`): `_native_fallback` is not given the configuration
  in either bridge, and computes without it.
* *The lists of the backends.*  "Ordered by preference (fastest first)"
  (`hardware.py:85`).  TransformerEngine comes before the Hopper kernel, which is
  tried first (the comment at `cuda.py:131` has TE go last), and the CPU's bf16 ops
  before fp16, which is tried before them.  The Hopper kernel is listed on Ampere,
  `naive-sdpa` on the CPU, which is left with what nothing can do.  ROCm's FP8 ops are
  not listed, nor is IPEX on a CPU without `amx_bf16`; both are picked.

Described, not assumed:

* *Router and driver.*  A cancel between the send of a final frame and the third phase of
  `push_frame` is overwritten (router `lib.rs:412`, against "Terminal states do not
  transition further" at 87); `CompleteIsFinal` holds instead.  A disconnect is
  `CancelledError` or `GeneratorExit`, which `except Exception` does not catch, so a
  queued request is run for nobody (`app.py:481`, against 482); `HangUpSettles`
  holds instead.  Buckets may hold more than the capacity, since cancelled items are
  not counted.  The index of a frame refused for backpressure stays recorded.
  Entries of terminal requests are never removed.
* *Sessions.*  `load` checks and acts without a lock: two first resets may build two
  pipelines.  A reset that fails after `pipeline.reset` leaves its session in the
  pipeline.  The counter goes down before the release, so more than
  `max_sessions` sessions may be held by the engine for a while.
* *Chunked engines.*  LingBot-VA's first-frame actions are zeroed in a `plan` right
  after `reset`, so the first proposed action is the midpoint of the quantiles, and
  executing that single action first makes a reshape fail.  DreamZero stores
  `pending_actions` that nothing reads.  A recondition with a real observation may
  append more frames than the clock moves.  `_latent_geom` is shared by all sessions.
  The default prompt of LingBot-VA is `None`, with which inference fails.  The VLA
  engine with `plan_batched = False` decodes the same greedy candidate n times
  with the OpenVLA script.  Cosmos 3 denormalises in `plan` and not in `step`.  A
  canvas of odd width keeps a black column.
* *Latent planner.*  The warm start shifts when `plan` is called twice without a
  step.  A step after `release` adds an entry again.  With `sink_frames` not below the
  window every saturated step raises.  The horizon check is one frame conservative.
* *Batch engines.*  "A full forward at least every N steps" is N skips and then a
  full one; the last step may be skipped in the fixed mode.
* *Gateway.*  "Overshoot its quota by at most one call" (`app.py:304`) is one call for
  every connection.  A generator that was never started writes no row, and a second
  cancellation loses one.  A sink that raises keeps those behind it from running;
  `create_app` twice with one proxy bills twice.  WebSocket sessions are neither
  metered nor checked against a quota.  `?token=` hides the header.  A customer
  named "legacy" would share the rows of the shared token.
* *Tuning.*  Entries may be lost between processes that save at once.
  `_bench_one_config` "isolates" its trials (`autotune_fp8.py:116`) by forcing the
  *shared* file, so while other processes run, entries are overwritten, a process
  that dies leaves a forced tile, and a process may persist one; the property about
  trials is stated for a script that runs alone.  The comments give the grids about
  60 (Hopper) and 16 (Ada) tiles; they have 31 and 26.
* *Dispatch.*  The AMX bridge's activation from the environment and
  `select_attention_op` are called by no engine.  ROCm always passes the name of the
  MI300X.  The variable for FP8 activates its bridge on a GPU host whose backend was
  pinned to the CPU.  The registry takes "te" for true, the bridge does not.
  `scaled_mm` asks for `_scaled_mm` and calls `_scaled_grouped_mm`.  `FP8Ada` is
  registered nowhere.  A causal call with unequal lengths is masked from the top left
  by some ops and from the bottom right by others; `SameAnswer` excludes it.
* *Quantisation.*  The list names a shared module once and may hold the root; the
  replacement walks names and cannot replace the root.
* *Latent cache.*  No engine uses it.  The native build ignores a policy that the
  fallback honours, and has a lock that the fallback has not.
* *Best-of-N.*  R0's salt is per decision, so its own N requests may hit the cache.  The
  independent decisions of R1 and R2 are identical requests.  A missing candidate
  only warns, and the run goes on to its verdict.  A lever is rounded before it is compared with the threshold.

## 5. Proofs

Eight modules hold theorems, proved by TLAPS for every value of the constants that
satisfies the assumptions of the modules (`Capacity` a natural number, `Depth` a
positive one, finitely many callers, connections or threads, and so on; TLC
evaluates each of them in a run).  A hypothesis beyond those is in the theorem's
`ASSUME`, and is one of the limits of section 4: without it TLC refutes the
property.  Each module begins with lemmas about its data, then has one lemma
for each action and part of the invariant, and the theorems at the end.

| theorem | states | hypothesis |
|---|---|---|
| `SchedulerProofs` `TypeCorrect` | `TypeOK`, reuse of ids included | |
| `NoRequestLost`, `SetsAgree`, `CancellationIsFinal` | `NothingLost`, `SetsMatchQueue`, `CancelIsFinal` | unique ids |
| `LengthIsLive` | what `submit` compares with the capacity is the number of live requests | unique ids |
| `RefinesOpenQueue`; `RefinesQueue` | `ImplementsOpenQueue`; `ImplementsQueue` | unique ids; and the GIL |
| `WakeupsKept` | `NoLostWakeup` | unique ids, one consumer |
| `RuntimeProofs` `RefinesQueue`, `TypeCorrect`, `WakeupsKept` | `ImplementsQueue`, `TypeOK`, `NoLostWakeup` of the fallback | none: any number of consumers |
| `PinnedStay` | `PinnedPagesStay` and the cache's types | |
| `RolloutsAreExact`, `PlannerTypes` | `RolloutIsExact`; the planner's types | |
| `PredictionsStayFresh` | the second part of `MadeAsConfigured`: how old a reused prediction may be | none: any number of threads in one engine |
| `ClipsAreAsConfigured` | `MadeAsConfigured` | none: any number of threads; what overlapped is excepted by the property |
| `RouterProofs` `TypeCorrect`, `SendersAgree`, `EndsTellTheTruth`, `CompletionIsFinal` | `TypeOK`, `SenderMatchesState`, `EndIsLast`, `CompleteIsFinal` | none: any concurrent pushes |
| `RefinesStreams` | `ImplementsStreams` | one push of a request at a time |
| `RouterFallbackProofs` `TypeCorrect`, `RefinesStreams` | `RouterTypeOK`, `ImplementsStreams` | none: the driver's cancel may fall anywhere |
| `ServingProofs` `RouterIsUsedWell` | `UsesRouter`: the hypothesis of the router's refinement | |
| `StreamsAreKept` | so the router inside the application implements `Streams` | |
| `NobodyIsForgotten` | `NobodyForgotten` | no engine yields an empty clip |
| `ClipsAreWhole`, `TypeCorrect` | `WholeClip`, `TypeOK` | |
| `SessionsProofs` `NothingLeaked`, `TypeCorrect` | `NothingLeaks`, `TypeOK` | |
| `OwnHistories` | `OwnHistory` | none: any number of sessions; DreamZero's that crossed are excepted by the property |
| `TimedPlansAreReal` | `TimedPlanIsReal` | |
| `GatewayProofs` `QuotaKept`, `BilledOnce`, `TypeCorrect` | `OvershootBounded`, `BillsBalance`, `TypeOK` | |
| `InvoicesAreRight` | `InvoicedToOwner` | keys of the ledger are finitely many and no customer has the empty name (`UsageAssumption`) |
| `KeysAreAttributed` | its first half, of `Tenancy` alone | no id has a separator in it (`TenancyAssumption`) |
| `LeverIsLikeForLike` | `LikeForLike` | |
| `FlashTunerProofs` `TilesAreTuned` | `LaunchedWasTuned` | none: any threads in the other processes; raced launches are excepted by the property |
| `TrialsAreClean`, `TypeCorrect` | the second half of it, `TypeOK` | |
| `WhatIsChosenFits` | `DispatchFits` | |
| `InfoIsTrue` | `InfoTellsTruth` | the problems include one with heads of 64 and one square of at least 128 (`Exercised`) |
| `EveryOpAnswersAlike` | `SameAnswer` | |

**Scheduler.**  `NothingLost` and `SetsMatchQueue` are not inductive: a pop that
skips items could reach items of another request, or out of order.  `IndInv` adds
`UniqueIds` (an id names one accepted request and no submission under way), `Filed`
(a bucket holds accepted requests of its priority, none of them handed out) and
`Ordered` (oldest first).  The central lemma says what a pop does to the set of
slots: it removes the chosen one and exactly the cancelled ones before it.  The
refinements map each critical section to one step of the abstract queue and
everything else to a stutter; that a `next` takes the oldest request of the highest
priority is `Filed` and `Ordered`, and that an acceptance respects the capacity is
`LengthIsLive`, for which the number of slots is split into live and dead ones.
Behind a drain nothing is accepted because a caller inside `submit` holds the
GIL (`ClosedIsQuiet`).  `WakeupInv` follows the one consumer round its loop: beside a
live request it is awake, or it holds a signal, or there is a permit, or a submitter
has its `notify_one` still to make.

**Fallback scheduler.**  The id set is exactly the ids in the deques (`QueueInv`).
For the wake-ups the invariant counts: while somebody waits there are at least as
many consumers awake as requests queued, so one that leaves with a request, or times
out, never leaves another behind with nobody awake.

**Routers.**  `EndIsLast` is not inductive: that an ended stream stays complete rests
on nobody holding a sender afterwards, that on the sender's being taken from live
entries only (`SenderMatchesState`), and that on only submitted requests being pushed
to (`OnlySubmitted`).  `IndInv` adds `FinalAnnounced`, `Conserved` (received plus
buffered is what was sent) and `NothingBehindEnd`.  For the refinement `InOrder` adds
that the index a push has validated is above everything that was sent, which is false
once two pushes of one request overlap.  In the fallback the queue holds items behind
the sentinel that nobody will read, so the part of it that counts (`Pending`) is
what was sent and not yet read, and `QueueIsPending` says that this part holds no
sentinel and that one follows it if anything does; `LoopInv` keeps a half-done step
of the loop true while the driver's thread cancels.

**Serving.**  The argument has three layers.  `Discipline` says who holds a request:
its push waits for the loop, or is under way, or has its answer there, one at most of
the three, and only while the driver has handed it over or has given up on it; hence
the router never sees two pushes of one request, and every step of the application
is a step of the router with `Concurrent = FALSE` or leaves it alone
(`RouterIsUsedWell`), whose theorem then applies (`StreamsAreKept`).  `Course` follows
a request from the queue to its end, and with `Attended` gives `NobodyForgotten`.
`ClipInv` says what may still be sent: the frames sent are a prefix of what the
engine made, a late push fits behind it or is refused because the request is over.

**Sessions.**  `CallsFit` ties a handler's place to that of the call that runs for it,
`CounterInv` makes the count the number of held connections, `LeakOf` says for each
place what the engine and its pipelines may still hold.  `HistoryOf` says for each place
of a call what the session's cache, clock and parked proposal are: between calls the
entries are one for every frame; inside `plan` they run ahead by the proposal, inside
`step` they lack what is about to be executed.  A call touches nobody else's state
(`Alone`), except for DreamZero's shared head: `Apart` says that two sessions in the
model together have crossed, so the head of one that has not is its own.

**Gateway.**  The overshoot is bounded by `Headroom`: what a key was billed in the
month, and one full call for every connection that has passed the check and not
written its row, is below the ceiling; `OtherMonths` says that a month to come has
no rows and that one gone by ended within the bound.  `BillsBalance` is inductive once each place of a call says whether its
use is in no row, about to be in one, or lost.

**Keys and invoices.**  A key gives back its id whatever its secret holds, because the
first two separators are at the second and the fourth place (`KeyGivesId`); so each row
of the table is filed under the id of its own key and was handed out (`RowsFit`), and
only a revoked one keeps a key from its owner.  For the ledger every sum is one over its
cells, a row and a column each (`SumOfIs`).  A sum does not depend on the order in which
it is taken (`SumRules`), adds up over parts (`SumOfParts`) and over the groups of a
partition (`SumOfGroups`).  Lines are ordered totally, as no two are of one key, so a
summary lists each key once (`SummaryIs`), and folding its lines from the left adds up
their columns (`FoldIs`).  The total of an invoice is then the sum over the customer's
rows by way of its lines (`LinesAddUp`) and by way of its keys (`KeysAddUp`).

**Planner.**  `PlannerInv` says of every cache entry that it has one key and value for
each frame it has seen, and of one that was kept under `reinit` that it is what
`Prefix` computes for the context it is filed under (`EntryFits`).  A step then
predicts what the full predictor does (`CacheIs`) and leaves a cache of the longer
context (`CacheAdvances`); one that slides under `reinit` is dropped.  The rollouts of
a plan are computations that go through its actions, five of one form (`Through`);
looped and shared-prefix ones agree with the batched one because each pass has the
context that the batched one rebuilds.  `StatesAreExact` follows each state from the
clip it was reset on.

**Batch engines.**  `Spaced` says how old a prediction may be by the caching mode: in
the fixed mode the number of steps since the warm-up, modulo the cadence; in the
others the steps since the last forward.  All of it is a call's own, so it holds
for any number of threads.  What is shared, the transformer and the scheduler's index,
stays as a call left it only while that call is alone: for one that is not in
`overlapped`, `Alone` ties the index to its step and the transformer to what its gate
decided, and `SharedInv` adds that it is the only one busy, and that a transformer
that was compiled can be put back.

**Benchmark of the control loop.**  Beside the invariants of the sessions: one call is
under way at most, that of the session whose turn it is, and none while the script
writes into the table (`OneCallAtATime`); and a timed plan finds nothing parked when
it looks (`Unparked`), which the clearing before it and the absence of others make.

**Best-of-N.**  `InFlight` says what is out, `Answered` that the draws the first
decision has belong to places of those of its requests that are back, as many as the
server cared to fill; places are told apart by seed or by position, so no two answers
are one draw (`Reported`).
`Warm` puts the shared prefix into the cache by the warm-up of a rung.

**Dispatch.**  The list of candidates of a backend is computed for each environment
(`TriedOnROCm`, `TriedOnCUDA`, `TriedOnCPU`); the op taken is the first of it that
supports the problem (`FirstFits`), one always does, and what an op looked at when it
said so (`SupportsMeans`) is compared with what its kernel asks: the difference is
the misfits, case by case.  A bridge that runs has asked the same first candidate.  For `InfoIsTrue` the list of what is told is compared with it, op by
op and backend by backend, and so is their order; that an op which is listed is ever picked needs a problem
that it takes, hence the hypothesis.

**Attention ops.**  A tensor is told by where each entry of the call's tensor is
(`Holds`).  Each rearrangement, `transpose`, `permute` and the folding of batch and
heads into one axis, moves it from one layout to another (`Relaid`, `CollapsedAt`), and
a kernel given the call's tensors in the layout it takes answers the call in that
layout (`AttendAnswers`).  `OwnMasks` says that a TransformerEngine module, cached by
shape and mask, has the mask of its key.

**Tuning file.**  `Fits` says of a table that each of its tiles was found or tried for
the key of its entry; it holds of every inode, whole or torn, of every thread's copy
and of the script's snapshot, because reading, recording and restoring use one key.
A thread's own tile stays with its key from the search to the file (`FrameFits`)
unless another thread of its process searched in between, in which case the key is
in `raced`.  `Dawn` and `Unborn` say that nothing was done
before the first call, which is where the script may start.  `NoTrace` follows the
script through a trial: what the file holds, or will hold once the save under way is
done (`Held`), and that the temporary file is empty when it is written and still there
to be renamed (`Saving`).  That there is always an inode to open is a count: more
inodes than threads and names (`Unused`).

**Sums and least elements.**  The library's induction theorems take an operator and
cannot be used here.  Where a claim about every number or every finite set is needed
(sums over the ledgers, `Cardinality`, the least free page, inode or trial) it is
proved at a least counterexample, from `WFMin` and `FS_...` facts.

*Model-checked only.*  Liveness (`EventuallyServed`, `ShutdownWakesAll`, `StreamEnds`,
`StreamsEnd`, `StopEndsStreams`, `HangUpSettles`, `SilentIsReleased`): the prover has no
rule for fairness, whose meaning is `ENABLED`.  `MeterOnlyListens`: a claim about every
cutting of a stream into chunks, each a fold over its bytes.  `LaunchIsAttention`: the
running softmax over tiles against the softmax over keys, products and quotients of
what two recursive functions compute.  `ArrivesAsMeant` and `QuantisedAlike`: rounded
division, which the solver does not decide, and walks over graphs.

## 6. Not modelled

* *Of the modelled components:* payloads and their encoding, metrics and logging,
  reads (`len`, `is_empty`, `capacity`, `state`), the spelling of priorities, the v1
  endpoint (a generator with no shared state but the engine's, for which
  `BatchEngine` has its threads), loading of checkpoints, tokenisers, prompts.
* *Numbers:* what float32, bfloat16, FP8 and INT8 round off; convolution, attention and
  embedding as functions of tensors.  Where an arithmetic is modelled (quantiles,
  bins, scales, the running softmax) the instances are chosen so that it is exact.
* *AMX and HIP kernels:* tile registers, intrinsics and OpenMP loops over disjoint
  rows, without a protocol; what their binding refuses is in `AttentionDispatch`.
* *Time:* a timeout is a step that may happen whenever its wait is on.
* *Crashes:* what is persisted is the tuning file, whose writers may die, and the key
  table and ledger, which SQLite changes by one statement at a time.  For the rest
  a restart is `Init`.
* *Wan's attention processor, the stub engine, request types, configuration, profiling,
  the other scripts:* argument parsing, timing, and straight-line tensor code.

## 7. Plan

What would still be worth proving, and what it takes:

1. `MeterOnlyListens`: that the meter's state after a chunk is that after its bytes, one
   by one, which reduces every cutting to one.
2. The bins of an action and the scale of a row (`ArrivesAsMeant`, `QuantisedAlike`),
   from the bounds of a rounded quotient.
