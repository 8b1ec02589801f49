# HelixRouter: a TLA+ verification project

This directory holds TLA+ models of HelixRouter (`src/` of this repository), the
TLC configurations that check them on small instances, and TLAPS proofs of
their main invariants for every instance. File and line references are to
`src/src/`.

## The system

HelixRouter decides for each job how it should run: inline on the caller's task,
as a task of its own, on a bounded CPU pool, in a batch, or not at all.

| Component | State | Operations | Talks to |
|---|---|---|---|
| Execution core (`router.rs`) | the bounded CPU channel, the semaphore, a buffer per job kind, gauges and counters, reply channels | `submit`, `run`, the dispatch loop, the batch flusher, `shutdown` | live configuration, result cache, neural router, metrics |
| Live configuration (`router.rs`, `config.rs`) | `cfg`, its snapshot `cfg_arc`, `adaptive_spawn_threshold`, `consecutive_raises` | `set_config`, `patch_config`, `update_config_field`, `autoscale_tick`, `maybe_adapt_threshold` | read by the core; written by the HTTP interface, the file watcher and the binary's timers |
| Result cache (`result_cache.rs`) | map from content hash to output, LRU order | `get`, `insert`, `evict_expired` | locked by `submit` |
| Neural router, autoscaler, metrics | weights, load observations, latency windows | `choose`, `update`, `recommend`, `record_latency` | locked by the core |
| Wrappers (`admission`, `canary`, `cost_router`, `dag`, `deadline`, `distributed_router`, `streaming`, `chaos`) | slots, cohorts, budgets, graphs, queues, streams | their own `submit`-like calls | call `Router::submit` |
| Library components (`bulkhead`, `dedup`, `connection_pool`, breakers, limiters, queues, retries, failover, ...) | their own tables behind a lock, a semaphore or atomics | see the table of components in `PROJECT.json` | used by an embedding program; the router holds a few of them and calls none on its hot path |
| HTTP interface (`web.rs`), binary (`main.rs`) | none of their own | handlers, start-up and shutdown | the core and the configuration |

`PROJECT.json` lists every part with what is modelled of it.

### What is hard here

* Interleaving: the submitter, the dispatcher, blocking workers, two kinds of
  batch flusher and configuration writers share channels, locks and atomics,
  and an async task may be interleaved with others at every await.
* Dropped futures: a caller that drops its future stops it at any await, with
  everything the future owned, which includes other callers' reply senders when
  it was flushing a batch.
* Failure: closures may panic on a caller's task, on a spawned task or on a
  pool thread; shutdown drops queued work.
* Staleness: the strategy is decided from permits read before an await, the
  configuration is cloned before it is acted upon, the capacity that autoscaling
  recommends is computed from an earlier read.
* Numbers: a u64 gauge that wraps, thresholds that are rounded products, seeds
  that overflow, priorities that are rounded quotients.
* Check and act: limiters, caches, the proxy and the stores look at a table, let go
  of it and act on what they saw; clocks are read before a lock is waited for.
* Faults: refresh tasks that are late, nodes that crash, messages that are lost,
  endpoints that fail and come back, streams whose readers lag.

### What makes each part correct

* Core: never more than `cpu_parallelism` pool workers and no permit lost; every
  queued or batched call is in exactly one place, or its caller is told; work
  runs at most once and never after a refusal; an answer is the output for the
  caller's own content; each ended call is counted once; every call ends.
* Configuration: what `submit` reads has validated as a whole and equals `cfg`
  when nothing is being written; the adaptive threshold stays within its bounds
  and decays.
* Bulkheads and connection pools: limits hold, nothing is lost or shared, and counts
  drift by dropped callers only.
  Deduplication: one execution and a result, or an error, for every waiter.
  Breakers: at most the configured probes while half open, and who is turned away then
  owes it to a probe that is out, was dropped or was not enough to close the route.
  Limiters: in no stretch of time more calls than were paid for, and what racing
  callers, evictions and sweeps add to that is bounded. Queues: order within a class,
  credit, rotation, the most urgent first.
* Wrappers and services: every job that is pushed, streamed or put in a graph is
  reported once; retries stay within their policy; caches and the proxy overfill
  only by those who raced; who takes itself for the primary holds the key, until a
  refresh is late; no endpoint is out for good; a release that has ended stays off.

## The modules

| Module | What it is |
|---|---|
| `RouterCore` | the execution core, with `choose_strategy` and what `submit` makes of it |
| `JobService` | the abstract service a caller of `submit` or `run` relies on; `RouterCore` implements it |
| `MCRouterCore` | the calls and the configuration TLC uses for `RouterCore` |
| `RouterCoreProofs` | theorems about `RouterCore`: types, permits, the gauge, the places of work, runs, answers, counters, the refinement of `JobService` |
| `LiveConfig` | the writers and readers of the live configuration |
| `MCLiveConfig` | requests TLC uses for `LiveConfig` |
| `LiveConfigProofs` | theorems about `LiveConfig` |
| `RequestCoalescer` | `request_coalescer.rs`: a fetch shared over a broadcast channel |
| `RequestCoalescing` | `request_coalescing.rs`: leaders, joiners and pruning |
| `Dedup` | `dedup.rs`: jobs executed once, with expiry |
| `RequestDeduplicator` | `request_deduplicator.rs`: a computation that others poll |
| `MCSharing` | the last four side by side, for any callers and keys, theorems about the whole, and the requests TLC uses |
| `Bulkhead`, `ServiceBulkhead` | `bulkhead.rs`: the two ways to run at most so many calls at a time |
| `ConnectionPool` | `connection_pool.rs`: connections taken, released and evicted |
| `RateLimiter`, `RateLimiterV2`, `SlidingRateLimiter`, `SlidingWindowCounter`, `FlowControl`, `TrafficShaper`, `LoadShed`, `Admission` | one limiter each, of the file of that name |
| `Admissions` | what the limiters are judged by: the times at which calls were let through |
| `Reservation` | `reservation.rs`: shares of the capacity held for a time |
| `SlaQueue`, `Wfq`, `RequestPrioritizer` | one queue each, of the file of that name |
| `DynamicConfig` | `dynamic_config.rs`: the store, and its pattern matcher |
| `MCLimits` | the last seventeen components side by side, from `Bulkhead` on, with theorems about bulkheads, pool, limiters, SLA queue and store |
| `CircuitMesh`, `BreakerRegistry`, `AdaptiveBreaker` | `circuit_mesh.rs`, `circuit_breaker_registry.rs`, `adaptive_circuit_breaker.rs` |
| `Failover`, `HealthChecks` | `failover.rs`, `health_check_runner.rs` |
| `CanaryController`, `CanaryDeployer` | `canary_controller.rs`, `canary_deployer.rs` |
| `Streaming`, `Dag`, `Deadline`, `DistributedRouter` | wrappers of the router, of the files of those names |
| `Retrying` | `retry.rs`, `retry_policy.rs`, `retry_middleware.rs` |
| `ResponseCache`, `WsProxy` | `response_cache.rs`, `websocket_proxy.rs` |
| `MCFaults` | the components from `CircuitMesh` on side by side |
| `FaultsProofs` | theorems about `MCFaults` |

`RequestCoalescer`, `RequestCoalescing` and `Dedup` end with the proofs of their
theorems, after a rule, and so do `MCSharing` and `MCLimits`; a module of the other
components ends with its assumption and its inductive invariant. `MCLimits` extends
`Bulkhead` and `MCFaults` extends `CircuitMesh`; the other components are instances.
What a proved component takes as a parameter is a CONSTANT of `MCLimits` or
`MCFaults`, given its value in the `.cfg`: the runs check the very definitions the
theorems state for every value.

### RouterCore and router.rs

A job is one call of `submit` or `run`; `JobSpec` gives its entry point, kind,
content, cost, scaling potential (in hundredths), whether its deadline may have
passed and whether its closure may panic. One action is the code between two
points at which another task can run: an await, or the gap between two atomic
operations that another thread can see.

| State | Code |
|---|---|
| `pc`, `strategy`, `res` | the position, the decision and the result of a call's future |
| `cpu_tx`, `held` | the `mpsc` channel of `CpuWork`, and the item `cpu_dispatch_loop` holds while it acquires a permit |
| `cpu_slots` | permits of the semaphore; `Holders` are the workers that own one |
| `cpu_queue_depth` | the `AtomicU64` gauge, modulo `DepthMod` |
| `worker` | the task and blocking closure of a pool call: running, replied, finished, unwound |
| `reply` | the oneshot of a `CpuPool` or `Batch` call: open, sent, closed (sender dropped) |
| `batches`, `batch_seq`, `seq` | the buffers and the sequence numbers |
| `flushing` | the entries a `flush_batch_kind` call has popped and not yet run |
| `flusher`, `flush_idx` | the background task and its round-robin index |
| `result_cache`, `completed`, `dropped`, `routed`, `shutdown` | the fields of those names |
| `runs` | ghost: how often the work of a call was executed |

`submit` is `DeadlineExceeded`, `ZeroCost`, `CacheHit` or `Decide`, followed by
the actions of the strategy decided. `Cancel` drops the future of a call at any
await. `Shutdown` is the broadcast; `DispatchExit` and `FlusherExit` are its two
receivers, which notice it only in their `select!`. Mutants (operators with a
suffix and the comment "Mutant") are wrong versions of an action that
`PROJECT.json` uses to show that a property can fail; `Next` uses none of them.

Abstractions: outputs are uninterpreted; latencies, percentiles, the pressure
score and the decision broadcast are left out; a warmed-up neural router chooses
freely; a cache entry may vanish at any time (TTL and LRU); time is not
modelled, so the flusher's sleep may end whenever it likes.

### LiveConfig and router.rs

A task is one call; `call` says which. `cfg_lock` is held only by
`patch_config`, the one call that keeps the write lock of `cfg` across an await
(router.rs:594-655); the other writers take and release it within one action.
`SetCfg`/`FieldCfg` then `Publish` are the two lock holds of `set_config` and
`update_config_field`. `ScaleRead`/`ScaleApply` are `autoscale_tick` before and
after its awaits; which direction it recommends is free. `AdaptRead`,
`AdaptObserve` and `AdaptRaise`/`AdaptDecay` are `maybe_adapt_threshold`, which
clones `cfg`, looks at the p95 (free) and moves the threshold under its own
lock; products of floats are taken as exact before they are truncated. A patch that
is dropped while it waits for `cfg_arc` (router.rs:653) has written `cfg` (651) and
lets go of its lock: `PatchDrop`.
`SubmitRead` and `SubmitOverride` are the first lines of `submit`.

### The four components that share executions

Each lets requests of one content that overlap in time be answered by one
execution. A caller is one request; its `pc` is where its call is.

* `RequestCoalescer`: `in_flight` is the `DashMap` from a key to the channel of
  its leader. `Lookup` is the first `get`, `Enter` the `entry` call that decides a
  race (request_coalescer.rs:141), `Publish` the removal and then the send
  (171, 174), which are two steps because another thread can run between them.
* `RequestCoalescing`: one mutex, so one action per method. `waiters` are the
  oneshot senders in a `PendingRequest`, the leader's own included. `prune_stale`
  may find any entry old; a leader whose entry was pruned still calls `complete`.
* `Dedup`: `&mut self`, one action per method; `submit` begins with
  `evict_expired`. `id_to_key` is reduced to its domain, ids naming one content.
* `RequestDeduplicator`: the lookup and the insertion are two steps with nothing in
  between that stops a second caller, so two may compute one key (the comment at
  request_deduplicator.rs:156 says that the first wins; the insertion replaces it).
  `cleanup_completed` collects keys and then removes them.

A dropped future is `Cancel` or `Vanish`: what it had put in the map stays there.

### Bulkheads and the connection pool

In `Bulkhead` and `ServiceBulkhead` each atomic read or write that another caller
can come between is an action, and the outcome of a call is counted together with the
last of them. A wait or a run may time out whenever it is pending. `Cancel` stands for
a dropped future and for a panic of the work: the permit comes back, the counts do
not. `ConnectionPool` has one action per method; `state` is the vector, `held` is what
callers have, and which connections are too old is a free choice.

### Limiters, queues and reservations

Each limiter is one action per method, with the instant a call read earlier as an
input where the code reads the clock before it takes the lock, and a ghost `log` of
the admissions no limiter reads. `Admissions` states what a log must satisfy: no
window holds more than the limit, and every stretch of calls was paid for by the
burst and the refill. Tokens are integers in a unit small enough for the rates used.
Of capacities, rates, windows and times to live nothing is assumed but that they are
natural numbers (and, in `SlidingRateLimiter`, that a window admits a request at
all). Where the code forgets what still counts, the property says what that costs: a
bucket of `Admission` that is dropped before it is full gives its caller what it
lacked (`given`), and the account starts again there, as it does after a sweep of
`SlidingRateLimiter` that goes by a late last time. `TrafficShaper` has two logs: the
tokens that were spent, and those that the requests let through had asked for. In
`FlowControl` a new configuration replaces the kinds' limits too, and a kind's bucket
waits with what it gathered until its next call under a limit.
In the queues a job is a record of class, size and arrival; `SlaQueue` and
`RequestPrioritizer` age by a clock of ticks. `Wfq` keeps deficits and the rotation
of classes, and `next_job` is the whole of the code's: a round is drained, one job
handed out and the others put back.

### DynamicConfig

`set` and `reload` validate before any lock is taken; `set_Write` and `reload_Write`
change the values, `bump_version` follows under another lock. A reader is told a
version and reads the values later. `simple_regex_match` is translated as it is;
`Meant` says what a pattern means, for patterns of up to three segments over two
letters, and `MeantApart` what it means to match the last segment of an anchored
pattern by itself (dynamic_config.rs:398). The matcher is shown equal to the second for
patterns of several segments that end in `$`, and to the first for all others.

### Breakers, failover, checks and releases

Each atomic read or write of `circuit_mesh.rs` and of `health_check_runner.rs` that
another caller can come between is an action, and a caller of the mesh may be dropped
during its call (`Leave`). The registry and the adaptive breaker keep one lock per
call; calls that passed report whenever they like, or never if their caller goes
away. `Failover` has callers that look at the primary, call, and report later, and
the maintenance loop, which sleeps, collects and tries. `CanaryController` and
`CanaryDeployer` keep the read lock and the write lock of an automatic step apart.

### Wrappers of the router

* `Streaming`: a task per job runs `submit`, sends chunks and `Done`, and removes the
  registry's entry by id. A reader is where it is in its channel; the sender of a job
  lives in its task and in the registry, and the channel closes with the last of them.
* `Dag`: `add_edge` pushes, searches (`dfs_has_cycle` with its two sets) and takes
  back; `execute` checks the order by in-degrees and submits wave after wave.
* `Deadline`: a drain reads the clock, takes the whole heap under its lock and submits
  one job after the other; several drains overlap, and one may be dropped.
* `DistributedRouter`: the election is a key with a time to live that is created once
  and put again by a refresh task; `Second` is a second of time. Any node may stand
  for election at any time, one that is primary too, and has as many refresh tasks as
  it has won elections and not lost since; a refresh may fail or be late by any time.
  Overrides are messages, in order for each node, that may be lost, and a caller
  writes its own after others may have been published.
* `Retrying`: one job at a time in one of the three loops; delays are integers and
  `rand` is a choice of three factors.
* `ResponseCache`, `WsProxy`: sharded maps, so that every look, scan and removal is a
  step, removals go by key and hashes may be equal.

## The runs

| Run | Instance | Question |
|---|---|---|
| `core_pool` | two pooled `submit`s, a pooled and a spawned closure that may panic; one permit, a queue of one; shutdown; two cancellable calls | permits, counters, gauge and reply ownership; refinement of `JobService` |
| `core_batch` | three calls of one kind, two of them of one content, that a warm neural router sends anywhere, one with a deadline, and a zero-cost call; batches of two; result cache; a cancellable flusher | no entry lost or run twice; answers belong to the caller's content; refinement; no deadlock |
| `core_live` | a call a warm neural router sends anywhere, a pooled and an inline closure that may panic, under fairness, with shutdown | every call ends; permits return |
| `config` | any three of: a set, four patches, a field update, autoscale, adaptation, submit | the four configuration properties |
| `sharing` | for each of the four components, three requests of one content and one of another; one or two callers that may vanish; two expiries or prunes of a content | no joiner misses its answer, unless the caller that executes for it vanished; how many executions of one content overlap |
| `limits` | four callers of each bulkhead, three callers of a pool of two; each limiter and queue with two or three clients, classes or calls and a clock of a few ticks; two writers and a reader of two settings; every pattern and text of the bounded sizes | `BulkheadExact`, `RefusedForOthers`, `PoolExact`: nothing lost or shared, and who is refused owes it to others; `RatesHeld`: what was let through is accounted for by limits, racing callers and what was forgotten; `SequencesHeld`: order, credit and rotation of two queues, and what patterns match; `DeadlinesFirst`: urgency; `SettingsHeld`: valid values, announced after they can be read |
| `faults` | each component of `MCFaults` with two or three callers, nodes, endpoints, jobs or readers | `BlockedForCause`, `BreakersSound`, `StreaksExclusive`: the mesh, the registry and the checks; `StreamsWhole`: streams; `WrappersSound`: drains, overrides and the primary's role; `RoomHeld`: cache and proxy; `RetriesHeld`: retry loops, the adaptive breaker's ramp, the waves of a graph and the proxy's routes; `NeverLost`: an endpoint is tried again; `AnswersCome`: readers end, pushed jobs are reported; `ReleasesEnd` |
| `v_gauge` | as `core_pool`, with overflow checks | `submit` may panic: dispatcher decrements before submitter increments (router.rs:1365, 1848) |
| `v_flush_cancel` | three batched calls of one content, batches of two | a dropped flusher loses other callers' entries (router.rs:1436, 1945) |
| `v_config_pair` | overlapping `set_config` calls | `cfg` and `cfg_arc` differ for good (router.rs:579) |
| `v_probe` | two callers of the mesh, nobody dropped, the default `success_threshold` | a probe that succeeds blocks its route (circuit_mesh.rs:196) |
| `v_primary` | three nodes whose refresh tasks may be late | two primaries for good (distributed_router.rs:470) |

The `v_` runs find a behaviour of the code that contradicts a sentence of its
documentation; `PROJECT.json` quotes each.

Bounds and why they suffice. One permit and a queue of one make both limits bind
with two pooled calls; a third competitor for the permit is the closure of
`run`. Batches of two and three batched calls give a full batch, a remainder,
and a second flusher. Two cancellable calls cover a caller that waits and one
that flushes or holds a permit. `DepthMod = 8` stands for 2^64: it exceeds the
number of calls, so that a gauge below zero is still told from a true depth.
`KindOrder` lists only the kinds the calls have, plus an empty one where the
round robin matters. For `LiveConfig`, caps of 2 and 6 stand for 16 and 4096, a
step of 50 % reaches ten times the base quickly, `consecutive_raises` saturates
at 5 because the code only compares it with 5, and three calls give each pair of
writers a third call that sees the result. An `adapt` call repeats without bound;
the others are made once. For
`sharing`, three requests of one content are the leader, a joiner and a third that
arrives between two steps of the other two, or after an expiry; two expiries make a
leader complete an entry of the second next leader; the request of another content
would show an answer given to the wrong one. For `limits`, four callers fill the
running and the waiting places with one or two more to be refused, and five
connections let both places of the pool be evicted in use and filled again. The
clocks of the limiters run for two windows and a little, so that a window can be
spent, expire and be spent again; limits and bursts of one to three make both the
limit and the burst bind. In `faults`, thresholds of two and three tell one failure
from a streak; a time to live of five against a refresh of two keeps the proportion
of ten to four seconds; the channel holds two chunks and a job sends up to three, so
that readers lag; graphs have four nodes and four edges, which gives diamonds, edges
added twice and every cycle of up to four. `MCFaults` and `MCLimits` explore their
parts one after the other (`part` never changes), so that a property speaks of the
part it names. The success threshold of the mesh is its default, two.

Deadlock is checked in `core_batch`, where nothing may stop before every call
has ended and the background flusher runs for ever. The other runs end: after a
shutdown the dispatcher and the flusher exit, and configuration calls return.

Fairness (`core_live`): every task that can take a step eventually takes one
(Tokio polls ready tasks; blocking threads run; timers fire), which is weak
fairness of each call, worker, the dispatcher and the flusher. The semaphore
serves waiters in order, so a waiter that finds a permit free again and again
gets one: strong fairness of the two acquisitions. Nothing is assumed of
`Cancel`, `Shutdown`, or the decision to panic. In `sharing`, weak fairness of
each caller of the two components that wait or poll: fetches and computations are
taken to end. `WaitersAnswered` and `PollersReturn` except those that wait for a
caller that was dropped, which the code leaves waiting for good. In `faults`: the
maintenance loop of a failover group sleeps and runs, streaming tasks go on (the
router's calls end, `CallsEnd`) and readers poll, drains go on unless they are
dropped, refresh tasks go on and seconds pass. `v_primary` uses the same fairness of
the election; no property asks that some node is primary, see the observations.

## The proofs

Every theorem below holds for all values of the constants its assumption allows. The
argument is the same each time: an invariant that is inductive (`IInv`, `WorkInv`)
holds initially, every action preserves it, and it implies the property. The runs'
instances satisfy the assumptions, and TLC evaluates them there (`CoreAssumption`;
`SharingAssumption`, `LimitsAssumption` and `FaultsAssumption` of the MC modules).
`WorkInv` and each `IInv` were also checked by TLC before they were proved. Where a
number counts things, the model has it as the cardinality of their set (`sum_counts` of
the windows, the tenths that are reserved), so that a step changes it by what it adds
to or takes from the set; the sums are the code's.

### The execution core

`CoreAssumption`: any finite set of calls, any validated configuration, any gauge width.

`RouterCoreProofs` holds all of them, section by section.

`TypeCorrect`, `PermitsConserved`, `PoolBounded`. Type correctness and permit
conservation are not inductive alone: a permit is taken on behalf of the item the dispatcher holds, so
one must know that this item has no worker yet, that calls in the channel have
none either and are distinct, and that a call of `run` owns a worker only
where its `pc` says so. `IInv` adds these facts (`PoolInv`); the proof that a step
preserves it has a lemma per group of actions, and the cardinality of `Holders` changes
by the one element each action adds or removes.

`GaugeIsExact`: the gauge is a remainder, and it is wrong by the number of submits
that have sent and not counted. `Quotient`, `ModShift` and `Remainders` are what is
needed of `%`: every number is its remainder plus a multiple of the modulus, a
multiple makes no difference, and equal remainders stay equal under the same addition.
`GaugeWraps` applies them to `fetch_add` and `fetch_sub`. Each step then moves the
backlog, the senders and the gauge by amounts that cancel. The equation holds even
while the gauge itself reads as nearly 2^64 (`v_gauge`).

`WorkInvariant`. `OneOwner` counts places, and no step can be taken from a count
alone. `WorkInv` says what is known of a call in each place:

* `CallInv` relates where a call is, its reply, its worker and how often its work
  ran: a reply that is open means work that has not run, one that was sent means work
  that ran once, and a worker about to run has an open reply, or a caller of `run`.
* `PlaceInv` relates places and replies: what is in the channel, in the dispatcher's
  hands, in a buffer or in a flusher's hands is due a reply, was decided so, is there
  once and nowhere else; only who flushes has entries in hand; and work whose reply is
  due is found in one of these places or in a worker (`FoundInv`).
* `AnswerInv`: a call that has an answer ran or found it in the cache, one that was
  refused has not run, and what the cache holds is the output of a call with that key
  that ran.

`WorkActions` and `CallSteps` classify the actions: the first names the few that move
work, the second says that a step, as far as calls are concerned, is silent, answers a
call, refuses one, unwinds one, or is one of `CacheHit`, `Return` and `Cancel`. Each
property is then argued over those few cases. `TakeBatchKeeps` is the one argument
about sequences: what a flush takes off a buffer is in the flusher's hands, the rest
moves up. From `WorkInv` follow `WorkHasOneOwner`, `RunsAtMostOnce`, `AnswersAreOwn`
and `CallsCounted`; the last is inductive itself and tracks the cardinalities of the
answered, the refused and the counted calls.

`ImplementsService`: the refinement maps the phase, the answer and the work that
ran. A silent step in which nothing runs is a stutter; the others are a `Run`, an `Answer`, a
`Refuse` or an `Abandon` of the service. That its guards hold is what `WorkInv`
is for: an answer needs work of the same content that ran, a refusal needs work that
did not.

### The live configuration

`LiveConfigProofs` proves all four properties of the `config` run for any set of
tasks and requests. `PairInSync` needs to know, for each open patch, that its task
holds the lock and has in hand what `cfg` is, that `cfg` is what the last dropped patch
wrote as long as the pair is apart for it, and that a lone writer has written what it
will publish. `SnapshotValid` needs every configuration a call is about to
publish to validate. `ThresholdBounded` needs every clone of `cfg`, and `cfg`
itself, to have a base among the requested ones; two lemmas about the rounded
products bound a raise and a decay, and the second also gives `DecayMakesProgress`.

### Shared executions

| Theorem | Assumption | What the invariant adds |
|---|---|---|
| `RequestCoalescer!OneFlight` | `Nobody` is no caller | a key in flight belongs to a leader of that key that fetches, has fetched or is gone; one that waits without an answer has a leader that will still send, or that is gone and still in the map, so that its channel stays open |
| `RequestCoalescing!NobodyForgotten`, `FlightsPaidFor` | finitely many callers | a new call's channel is open; who leads a key changes by one caller a step, or by none when a prune makes room for another |
| `Dedup!DuplicatesAlwaysHeld` | finitely many callers | the same, for executions and expiries |

The cardinalities move as in the core. `MCSharing` is the composition of the three with
`RequestDeduplicator`; `PartsBehave` shows that a behaviour of the whole is one of each
component, and `FetchedOnce`, `AllWaitersHeld`, `AllFlightsBounded` and
`AllDuplicatesHeld` carry the theorems over.

### Bulkheads, pools, limiters, the SLA queue and the store

The theorems are about `LimitsSpec`: `OneLimitMoves` says that a step of the whole is one
of the part that was chosen at the start, or nothing, so that an invariant of a part is
kept by the steps of that part alone.

| Theorem of `MCLimits` | Assumption | What the invariant adds |
|---|---|---|
| `CountsExact`, `RefusalsJust` | finitely many callers, natural limits | what a caller has read of the gauges was at most the number of callers that had come by then (`SeenPast`), and who was let into the queue needed it |
| `PoolsStayExact` | the same, for the service bulkhead and the pool | who was refused a permit came after enough others to have taken them all (`TakenBefore`); ids that have not been given are nobody's (`Unused`) |
| `SettingsStayCovered` | none | what a writer has in hand was validated; nobody was told a version there has not been |
| `RatesStayHeld` | see below | see below |
| `DeadlinesStayFirst` | positive boost and times, every class known | a job that is in the heap has not been taken, and was pushed at a time that has passed |

`RatesStayHeld` is `RatesHeld` for any rules, capacities, windows, clocks and callers. Each
limiter needs to relate the little it keeps to the whole log:

* Token buckets (`Admission`, `TrafficShaper`, `FlowControl`, the bucket of
  `RateLimiterV2`): `PaidFor` speaks of every stretch of the log, and the code looks at
  none of it. `Funded` is what makes it inductive: what is left of the bucket could be
  spent now and every stretch that ends now would still be paid for. Refilling (`Refills`),
  spending (`Spends`, with calls that are late) and a changed configuration keep it.
  `Admission` also drops buckets. One that had gathered its capacity changes nothing; one
  that had not is where its account starts again, and `Gathered` bounds what its caller
  was given: it had refilled for longer than the time to live since its last call, so
  that it lacked no more than `bucket_capacity - refill_rate * (bucket_ttl + 1)`, which
  is nothing for the defaults. `TrafficShaper` keeps two accounts with one bucket, of
  which the tokens asked for need one that is larger by the most a request asks for.
  `FlowControl` is judged by the loosest of its configurations, each kind by the loosest
  limit any of them gives it: a kind's bucket stays funded while it has no limit,
  because nothing is charged to it then.
* Windows (`RateLimiter`, `SlidingRateLimiter`): `Recent` says that the window kept the
  end of the log and that what it forgot is out of every span that is still to be
  counted. In `RateLimiter` the burst that was used covers what the window holds above the
  limit. In `SlidingRateLimiter` checking and recording are two calls, with any time
  between them: who is about to record counts as recorded, in the window its time falls
  in (`Entering`), and the bound on what `check` goes up to (`most`) grows by one for
  every caller but the first.
* Counters of units (`SlidingWindowCounter`, the window of `RateLimiterV2`): for every time
  in the last window, the units the entries count after it are no fewer than the calls the
  log has after it. A bucket that starts at zero is dropped by the next call
  (sliding_window_counter.rs:121-124), so that calls of the clock's first bucket are
  counted for nothing and left out of the log.
* `LoadShed` and `Reservation` bound what is held now; their invariants also say where
  callers may be, and that fractions are numbers.

`DeadlinesStayFirst` is about the rounding of `effective_priority`: the boost times the part
of the SLA that has passed, an integer quotient. `QuotientBounds`, `BoostWithin` and
`StepCounts` say how far off it is.

### Breakers, checks, streams, caches and releases

`FaultsProofs` is about `FaultsSpec`, by `OnePartMoves` in the same way.

| Theorem | Assumption | What the invariant adds |
|---|---|---|
| `RoutesBlockForCause` | there is a route, natural thresholds | none: each step that takes a probe has its caller on the way, and each that ends a call either moves the route or counts it among the `lost` |
| `TestsAlwaysBounded` | finitely many callers, positive thresholds, `success_threshold` at most `half_open_max_calls` | test calls are of this half-open period and not back (`TestsOut`); `test_count` is no less than those that are out, and no more than they and the successes that are in (`TestsCounted`) |
| `StreaksAlwaysExclusive` | positive thresholds | both streaks last only while a record that has counted is to end one (`OneEnds`); as long as none have overlapped a record is alone, and what it has read is still so (`Sure`) |
| `StreamsAlwaysWhole` | late readers are not jobs; outcomes are chunk counts or drops | how much of its stream a task has sent (`TaskInv`); a reader that goes on has not had the `Done` of its channel (`ReaderInv`) |
| `WrappersAlwaysSound` | finitely many jobs; refreshing is quicker than the time to live | what a drain has in hand is what it took and has not answered for, once each and in order (`InHands`, `Counted`); until a refresh is too late every refresh task is the key holder's and writes the key before it is too old, and a primary has one (`ElectionInv`); the last message on its way to a node, or what it holds if there is none, is the last override, but for the nodes that are `stale` (`OverrideInv`) |
| `RoomAlwaysHeld` | finitely many callers, connections and places | who is about to insert is counted among those who race (`RoomInv`), which are none again once the map is within its room; a connection the proxy holds is active or in the hands of who closed it (`UsableInv`, `LoopInv`); an invalidation has yet to remove what was tagged when it began (`SweepInv`) |
| `ReleasesStayEnded` | percentages up to 100 | a deployment's percentage stays one; the rest is what each step does |

That `success_threshold` is at most `half_open_max_calls` is not checked by the
registry: with more, a half-open breaker runs out of tests before it can close. Nothing
is assumed of the mesh's `success_threshold`, of late refreshes or of overlapping
overrides: `RoutesBlockForCause` and `WrappersAlwaysSound` name what they cost, and
`v_probe` and `v_primary` show it.

### Only model-checked

* Liveness (`CallsEnd`, `PermitsReturn`, `WaitersAnswered`, `PollersReturn`,
  `NeverLost`, `AnswersCome`): the prover has no rules for fairness and ENABLED.
* `SequencesHeld`: the credit and the rotation of `Wfq`, the ageing of
  `RequestPrioritizer` and the pattern matcher are computed by loops over sequences of any
  length; what a recursive definition computes for every input needs induction over data,
  and the prover cannot instantiate the induction theorems.
* `RetriesHeld`: the delays of the retry loops, the ramp of the adaptive breaker, the cycle
  search and the waves of `Dag` and the totals of the proxy's routes, for the same reason.

## Observations without a run

Reading the code for the models showed more than the five `v_` runs say. Each is
either visible in a model as it stands or outside it. Where a model has it, the property
next to it states what the code keeps, which is less than the doc quoted.

* `router.rs:653`: a patch that is dropped while it waits for `cfg_arc` leaves `cfg`
  changed (651) and the snapshot as it was, until the next patch, against "always kept in
  sync with `cfg`"; `PairInSync` excepts it by name.
* `result_cache.rs:33`: the key leaves out the id that seeds `MonteCarloRisk`.
* `router.rs:1168`: with adaptation off a patched `spawn_threshold` is never used.
* `circuit_mesh.rs:197`: a probe whose caller is dropped blocks its route as well; only
  an operator's `force_close`, a cascade or the late outcome of an earlier call ends it.
* `distributed_router.rs:303`: a primary that calls `elect_primary` again finds its own
  key, stops taking itself for the primary, and its refresh task keeps the key, so that
  nobody is primary as long as it runs, though a false result means that "another node
  already holds the key" (267-268). An override published
  by one node is overwritten on another that has yet to write its own older one (336), and
  a node that lost the last message keeps the one before.
* `dag.rs:283`: an edge that is added twice makes `execute` report a cycle in an
  acyclic graph. `JobDropped`, which the docs name (344-346, 371), is never returned: a
  job that was dropped counts as completed, with an empty output (448-454), and what
  depends on it runs, against "has completed successfully" (9-10).
* `deadline.rs:300`: a drain reads the clock before it locks the queue, takes all of it
  and submits one job after the other. A nearer job that was pushed since waits for the
  batch, against 9-10 (the nearest deadline is always next), and a job that passed its
  deadline while the lock was waited for is submitted, against 12-13 and 88 (expiry is
  judged when it leaves the queue). Line 366 counts late completions as completed, which
  the help text calls "completed before deadline" (463).
* `retry.rs:99`: the first wait is already multiplied. `retry_policy.rs:145` adds jitter
  after the clamp, so that delays exceed the maximum of 40 and 122 by up to a half.
  `retry_middleware.rs:183` overflows from the third attempt on, which panics in a build
  with overflow checks.
* `adaptive_circuit_breaker.rs:372`: a failed probe multiplies a timeout computed from
  the history of recoveries by 1.5, where line 23 multiplies the last cooldown.
* `dynamic_config.rs:398`: the last segment of an anchored pattern is looked for at
  the end of the text wherever the one before ended, so that `^a.*a$` matches `a`,
  which no regular expression does (102) and which is not "each segment appears in
  order" (386). `dynamic_config.rs:280`: a reload that changes nothing does not raise
  the version and wakes no subscriber, while 14-15, 237-238 and 286-288 say that
  every successful reload does.
* `sliding_rate_limiter.rs:217`: with a burst multiplier above one `max_requests` is
  never what limits, and a window holds up to the burst limit and one more for each caller
  that raced; the doc of `max_requests` (37) says it is the most a window holds. The sweep
  (300) goes by the last time recorded, which a late caller makes an old one, and then
  forgets calls that still count.
* `sliding_window_counter.rs:123`: calls of the clock's first bucket are dropped by the
  next call, inside the window or not; and a whole window (31) may hold more than
  `max_requests` by what the rounding to buckets hides.
* `traffic_shaper.rs:223`: a queued request is let through for one token whatever it
  asked for, while 203-206 have each one evaluated against the bucket again.
* `admission.rs:356`: nothing relates the time to live to the refill: with a slow refill
  a dropped bucket comes back with more than its caller could have gathered.
* `rate_limiter.rs:198` removes no window. `flow_control.rs:201` tells every throttled
  caller that has a token to come back in a millisecond. `sla_queue.rs:117` reads the
  clock once for each job it rescores.
* `wfq.rs:245`: the deficit of jobs that are put back stays charged.
* `failover.rs:161`: an endpoint is tried again by being taken for healthy, without a
  probe.
* `canary_controller.rs:336`: the decision is made under one lock and applied under the
  next, though 327 says "atomically": a second decision turns a rolled back canary into a
  promoted one, for which the diagram (25-28) has no arrow. `canary_deployer.rs:341`
  does the same by a pass that is late, and what is `Complete` is sent nothing by
  `route_request` (148-151), where 30, 240 and 259 say 100 % of the traffic.
* `connection_pool.rs:294`: what `acquire_from` hands out cannot be given back, since
  the pools of the manager are private and it has neither release nor eviction.
* `response_cache.rs:230`: racing callers overfill the cache, which "holds at most
  `max_size` entries" (183); `invalidate` passes over entries without the path's header
  (262-272), though its doc says all entries of the path (250). `websocket_proxy.rs:410`,
  `response_cache.rs:206`: removals go by key and may take a newer connection or entry.

## Not modelled

Floating-point estimators (neural weights, regressions, percentiles, scores of load
balancers and of `cost_router`), text and wire formats, HTTP handlers, logging and
metrics export: they keep no control state that a property here could be about.
Registries that are one table behind one lock (services, peers, endpoints, keys,
priority inversions) have no step another can come between. `RouterCore` runs with one
configuration; that a patched `cpu_parallelism` does not resize the semaphore
(router.rs:1171) is seen only by reading. 64-bit hash collisions are excluded from the
result cache by construction, not from the response cache. `PROJECT.json` lists every
component with its reason.

## Plan

1. Core and configuration, bulkheads, pools, sharing, limiters, queues, breakers,
   releases, failover, wrappers, stores and caches: done, as above.
2. Proofs: the core, the configuration, shared executions, bulkheads and pools,
   limiters, the SLA queue, the store, and of `MCFaults` all but the liveness and
   `RetriesHeld`: done. What is left needs induction over data.
3. One abstract specification for the four components that share executions.
4. Composition of `RouterCore` with `LiveConfig`, and of `Deadline` or `Streaming` with
   `JobService` in place of the free answers they take now.
5. `dependency_graph`, `IdempotencyDeduplicator`, `DynamicAutoscaler`.
