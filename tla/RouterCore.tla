----------------------------- MODULE RouterCore -----------------------------
(***************************************************************************)
(* The execution core of router.rs: Router::submit and Router::run, the    *)
(* bounded CPU queue with its dispatch loop and semaphore, the per-kind    *)
(* batch buffers with their two kinds of flusher (the submitter that fills *)
(* a batch, and the round-robin background task), the result cache, the    *)
(* counters, shutdown, and a client that drops its future at an await.     *)
(*                                                                         *)
(* A job is one call of submit or run.  Every action is the code between   *)
(* two points where another task can run.                                  *)
(***************************************************************************)
EXTENDS Integers, Sequences, FiniteSets

CONSTANTS
  Jobs,            \* the calls of submit and run
  JobSpec,         \* what each call asks for (see JobSpecs)
  Cfg,             \* the RouterConfig the router runs with
  NeuralWarm,      \* NeuralRouter::is_warmed_up()
  KindOrder,       \* the order in which the background flusher visits kinds
  DepthMod,        \* 2^64 in the code: the width of cpu_queue_depth
  OverflowChecks,  \* TRUE in a debug build: u64 + 1 panics when it overflows
  Cancellable,     \* the calls whose caller may drop the future
  MayShutdown,     \* whether Router::shutdown() is called
  Flusher,         \* the background flusher, as opposed to a submitting job
  Nobody           \* no job

Kinds == {"HashMix", "PrimeCount", "MonteCarloRisk"}

(* The fields of RouterConfig the execution core reads, as validate() leaves *)
(* them.                                                                     *)
Configs ==
  {c \in [inline_threshold : Nat \ {0}, spawn_threshold : Nat,
          cpu_parallelism : Nat \ {0}, cpu_queue_cap : Nat \ {0},
          backpressure_busy_threshold : Nat, batch_max_size : Nat \ {0, 1}] :
     c.inline_threshold < c.spawn_threshold /\ c.cpu_queue_cap >= c.cpu_parallelism}

(* api: the entry point; payload: inputs and compute_cost as the cache key  *)
(* and the kernels see them; deadline: a deadline_ms that may have passed;  *)
(* panics: a closure given to run that may panic (kernels never do).        *)
JobSpecs == [api : {"submit", "run"}, kind : Kinds, payload : Nat,
             cost : Nat, scaling : Nat, deadline : BOOLEAN, panics : BOOLEAN]

ASSUME CoreAssumption ==
  /\ IsFiniteSet(Jobs)
  /\ JobSpec \in [Jobs -> JobSpecs]
  /\ Cfg \in Configs
  /\ NeuralWarm \in BOOLEAN
  /\ KindOrder \in Seq(Kinds) /\ KindOrder # <<>>
  /\ DepthMod \in Nat \ {0}
  /\ OverflowChecks \in BOOLEAN
  /\ Cancellable \subseteq Jobs
  /\ MayShutdown \in BOOLEAN
  /\ Flusher \notin Jobs
  /\ Nobody \notin Jobs

VARIABLES
  pc,               \* where each call is
  strategy,         \* the strategy decided for each call
  res,              \* what each call returned
  reply,            \* the oneshot channel of a CpuPool or Batch call
  cpu_tx,           \* the bounded channel of CpuWork
  cpu_slots,        \* free permits of the semaphore
  worker,           \* the blocking task that runs a call on the pool
  cpu_queue_depth,  \* the gauge, modulo DepthMod
  dispatcher,       \* cpu_dispatch_loop: "recv", "acquire" or "exited"
  held,             \* the CpuWork the dispatcher holds while it acquires
  batches,          \* the buffer of each kind
  batch_seq, seq,   \* the sequence counter and the number each call drew
  flushing,         \* the popped entries each flusher still has to run
  flusher,          \* the background flusher: "sleep", "flush" or "exited"
  flush_idx,        \* its round-robin index
  result_cache,     \* content key -> output
  completed, dropped, routed,
  shutdown,         \* shutdown() was called
  runs              \* how often the work of each call was executed

poolVars  == <<cpu_tx, cpu_slots, worker, cpu_queue_depth, dispatcher, held>>
batchVars == <<batches, batch_seq, seq, flushing, flusher, flush_idx>>
statVars  == <<completed, dropped, routed>>
vars == <<pc, strategy, res, reply, poolVars, batchVars, result_cache,
          statVars, shutdown, runs>>

-----------------------------------------------------------------------------
(* Data *)

Strategies == {"Inline", "Spawn", "CpuPool", "Batch", "Drop"}

(* execute_job: the output is a function of the kind and the payload, and   *)
(* for MonteCarloRisk also of the job id, which seeds its generator.        *)
execute_job(j) ==
  [kind |-> JobSpec[j].kind, payload |-> JobSpec[j].payload,
   seed |-> IF JobSpec[j].kind = "MonteCarloRisk" THEN j ELSE Nobody]

(* Mutant: the key forgets the inputs. *)
job_key_KindOnly(j) == <<JobSpec[j].kind, 0>>

(* ResultCache: job_key covers kind, inputs and compute_cost, not the id. *)
job_key(j) == <<JobSpec[j].kind, JobSpec[j].payload>>

None == [kind |-> "None", payload |-> 0, seed |-> Nobody]

Outputs == [kind : Kinds, payload : Nat, seed : Jobs \cup {Nobody}]

PCs == {"new", "decided", "executed", "spawned", "sent", "awaitReply", "seqDrawn",
        "flushDue", "taken", "flushing", "awaitPermit", "awaitPool", "recording",
        "done", "cancelled", "panicked"}

(* The points where the future of a call is suspended at an await. *)
AwaitPCs == PCs \ {"new", "sent", "taken", "done", "cancelled", "panicked"}

Ended(j) == pc[j] \in {"done", "cancelled", "panicked"}

Holders == {j \in Jobs : worker[j] \in {"exec", "replied"}}

(* cfg.cpu_parallelism.saturating_sub(cpu_slots.available_permits()) *)
cpu_busy == Cfg.cpu_parallelism - cpu_slots

-----------------------------------------------------------------------------
(* The routing decision.  scaling is scaling_potential in hundredths: 65 is  *)
(* 0.65.                                                                     *)

choose_strategy(cfg, job, busy) ==
  IF busy >= cfg.backpressure_busy_threshold
  THEN IF job.scaling >= 65 THEN "Batch" ELSE "Drop"
  ELSE IF job.cost <= cfg.inline_threshold THEN "Inline"
  ELSE IF job.cost < cfg.spawn_threshold THEN "Spawn"
  ELSE IF job.scaling >= 70 THEN "Batch" ELSE "CpuPool"

(* The strategies submit may end up with.  A Drop of the heuristic stands;   *)
(* otherwise a warmed-up neural router may pick any strategy, and a Drop of  *)
(* its own falls back to the heuristic's choice.  Its weights are abstracted *)
(* to a free choice.                                                         *)
SubmitChoices(cfg, job, busy, warm) ==
  LET heuristic == choose_strategy(cfg, job, busy)
  IN IF heuristic # "Drop" /\ warm
     THEN {"Inline", "Spawn", "CpuPool", "Batch"}
     ELSE {heuristic}

-----------------------------------------------------------------------------
(* How a call ends: it is counted, and where metrics, the neural router or   *)
(* the result cache are then locked ("recording"), it can still be cancelled.*)

bump_route(s) == routed' = [routed EXCEPT ![s] = @ + 1]

Goto(j, label) == pc' = [pc EXCEPT ![j] = label]

Complete(j, out, next) ==
  /\ completed' = completed + 1
  /\ res' = [res EXCEPT ![j] = out]
  /\ Goto(j, next)
  /\ UNCHANGED dropped

CountDropped(j, next) ==
  /\ dropped' = dropped + 1
  /\ Goto(j, next)
  /\ UNCHANGED <<completed, res>>

Execute(j) == runs' = [runs EXCEPT ![j] = @ + 1]

(* The call returns; an Inline submit stores its output in the cache first. *)
Return(j) ==
  /\ pc[j] = "recording"
  /\ Goto(j, "done")
  /\ result_cache' =
       IF strategy[j] = "Inline" /\ JobSpec[j].api = "submit"
       THEN [k \in DOMAIN result_cache \cup {job_key(j)} |->
               IF k = job_key(j) THEN execute_job(j) ELSE result_cache[k]]
       ELSE result_cache
  /\ UNCHANGED <<strategy, res, reply, poolVars, batchVars, statVars, shutdown, runs>>

-----------------------------------------------------------------------------
(* submit and run: the paths that end before a strategy is chosen *)

(* The deadline had passed: dropped and the Drop route are counted. *)
DeadlineExceeded(j) ==
  /\ pc[j] = "new"
  /\ JobSpec[j].deadline
  /\ CountDropped(j, "recording")
  /\ bump_route("Drop")
  /\ UNCHANGED <<strategy, reply, poolVars, batchVars, result_cache, shutdown, runs>>

(* submit runs a zero-cost job inline before the cache and the router see it. *)
ZeroCost(j) ==
  /\ pc[j] = "new"
  /\ JobSpec[j].api = "submit" /\ JobSpec[j].cost = 0
  /\ Execute(j)
  /\ Goto(j, "executed")
  /\ bump_route("Inline")
  /\ UNCHANGED <<strategy, res, reply, poolVars, batchVars, result_cache, completed,
                 dropped, shutdown>>

(* A live cache entry answers submit; no route is counted. *)
CacheHit(j) ==
  /\ pc[j] = "new"
  /\ JobSpec[j].api = "submit" /\ JobSpec[j].cost > 0
  /\ job_key(j) \in DOMAIN result_cache
  /\ Complete(j, result_cache[job_key(j)], "done")
  /\ UNCHANGED <<strategy, reply, poolVars, batchVars, result_cache, routed,
                 shutdown, runs>>

(* TTL expiry and LRU eviction: an entry may be gone at the next lookup. *)
CacheEvict ==
  \E k \in DOMAIN result_cache :
    /\ result_cache' = [x \in DOMAIN result_cache \ {k} |-> result_cache[x]]
    /\ UNCHANGED <<pc, strategy, res, reply, poolVars, batchVars, statVars,
                   shutdown, runs>>

-----------------------------------------------------------------------------
(* The decision, taken from the permits free now and used after an await *)

Decide(j) ==
  /\ pc[j] = "new"
  /\ IF JobSpec[j].api = "submit"
     THEN /\ JobSpec[j].cost > 0
          /\ job_key(j) \notin DOMAIN result_cache
          /\ strategy' \in {[strategy EXCEPT ![j] = s] :
                              s \in SubmitChoices(Cfg, JobSpec[j], cpu_busy, NeuralWarm)}
     ELSE strategy' = [strategy EXCEPT ![j] = choose_strategy(Cfg, JobSpec[j], cpu_busy)]
  /\ Goto(j, "decided")
  /\ UNCHANGED <<res, reply, poolVars, batchVars, result_cache, statVars,
                 shutdown, runs>>

DropJob(j) ==
  /\ pc[j] = "decided" /\ strategy[j] = "Drop"
  /\ CountDropped(j, "recording")
  /\ bump_route("Drop")
  /\ UNCHANGED <<strategy, reply, poolVars, batchVars, result_cache, shutdown, runs>>

(* Inline: submit can be cancelled between the kernel and the counter. *)
RunInline(j) ==
  /\ pc[j] = "decided" /\ strategy[j] = "Inline" /\ JobSpec[j].api = "submit"
  /\ Execute(j)
  /\ Goto(j, "executed")
  /\ bump_route("Inline")
  /\ UNCHANGED <<strategy, res, reply, poolVars, batchVars, result_cache, completed,
                 dropped, shutdown>>

CountInline(j) ==
  /\ pc[j] = "executed"
  /\ Complete(j, execute_job(j), IF JobSpec[j].cost = 0 THEN "done" ELSE "recording")
  /\ UNCHANGED <<strategy, reply, poolVars, batchVars, result_cache, routed, shutdown,
                 runs>>

(* run calls the closure on the caller's task: a panic unwinds the caller. *)
RunInlineWork(j) ==
  /\ pc[j] = "decided" /\ strategy[j] = "Inline" /\ JobSpec[j].api = "run"
  /\ Execute(j)
  /\ bump_route("Inline")
  /\ \/ Complete(j, execute_job(j), "recording")
     \/ /\ JobSpec[j].panics
        /\ Goto(j, "panicked")
        /\ UNCHANGED <<completed, dropped, res>>
  /\ UNCHANGED <<strategy, reply, poolVars, batchVars, result_cache, shutdown>>

(* Spawn: the work runs on a task of its own, which outlives the caller. *)
SpawnTask(j) ==
  /\ pc[j] = "decided" /\ strategy[j] = "Spawn"
  /\ Execute(j)
  /\ bump_route("Spawn")
  /\ Goto(j, "spawned")
  /\ UNCHANGED <<strategy, res, reply, poolVars, batchVars, result_cache,
                 completed, dropped, shutdown>>

(* Mutant: a panic of the spawned work is returned but not counted. *)
SpawnJoin_Uncounted(j) ==
  /\ pc[j] = "spawned"
  /\ \/ Complete(j, execute_job(j), "recording")
     \/ JobSpec[j].panics /\ Goto(j, "done") /\ UNCHANGED <<completed, dropped, res>>
  /\ UNCHANGED <<strategy, reply, poolVars, batchVars, result_cache, routed,
                 shutdown, runs>>

(* A panic of the spawned work is counted as a drop. *)
SpawnJoin(j) ==
  /\ pc[j] = "spawned"
  /\ \/ Complete(j, execute_job(j), "recording")
     \/ JobSpec[j].panics /\ CountDropped(j, "done")
  /\ UNCHANGED <<strategy, reply, poolVars, batchVars, result_cache, routed,
                 shutdown, runs>>

-----------------------------------------------------------------------------
(* CpuPool through submit: try_send, then the gauge, then the reply *)

CpuSend(j) ==
  /\ pc[j] = "decided" /\ strategy[j] = "CpuPool" /\ JobSpec[j].api = "submit"
  /\ bump_route("CpuPool")
  /\ IF dispatcher # "exited" /\ Len(cpu_tx) < Cfg.cpu_queue_cap
     THEN /\ cpu_tx' = Append(cpu_tx, j)
          /\ reply' = [reply EXCEPT ![j] = "open"]
          /\ Goto(j, "sent")
          /\ UNCHANGED <<completed, dropped, res>>
     ELSE /\ CountDropped(j, "recording")
          /\ UNCHANGED <<cpu_tx, reply>>
  /\ UNCHANGED <<strategy, cpu_slots, worker, cpu_queue_depth, dispatcher, held,
                 batchVars, result_cache, shutdown, runs>>

(* cpu_queue_depth.fetch_add(1) + 1: the fetch_add wraps, the + 1 does not   *)
(* in a build with overflow checks.                                          *)
CpuCount(j) ==
  /\ pc[j] = "sent"
  /\ cpu_queue_depth' = (cpu_queue_depth + 1) % DepthMod
  /\ Goto(j, IF OverflowChecks /\ cpu_queue_depth = DepthMod - 1
             THEN "panicked" ELSE "awaitReply")
  /\ UNCHANGED <<strategy, res, reply, cpu_tx, cpu_slots, worker, dispatcher, held,
                 batchVars, result_cache, statVars, shutdown, runs>>

(* Mutant: the caller gives up while its work is still queued. *)
ReplyReceived_TimesOut(j) ==
  /\ pc[j] = "awaitReply"
  /\ \/ reply[j] = "sent" /\ Complete(j, execute_job(j), "recording")
     \/ reply[j] # "sent" /\ CountDropped(j, "recording")
  /\ UNCHANGED <<strategy, reply, poolVars, batchVars, result_cache, routed,
                 shutdown, runs>>

(* rx.await of CpuPool and Batch: the reply, or the sender was dropped. *)
ReplyReceived(j) ==
  /\ pc[j] = "awaitReply"
  /\ \/ reply[j] = "sent" /\ Complete(j, execute_job(j), "recording")
     \/ reply[j] = "closed" /\ CountDropped(j, "recording")
  /\ UNCHANGED <<strategy, reply, poolVars, batchVars, result_cache, routed,
                 shutdown, runs>>

-----------------------------------------------------------------------------
(* cpu_dispatch_loop and its blocking workers *)

DispatchRecv ==
  /\ dispatcher = "recv" /\ cpu_tx # <<>>
  /\ held' = Head(cpu_tx)
  /\ cpu_tx' = Tail(cpu_tx)
  /\ dispatcher' = "acquire"
  /\ UNCHANGED <<pc, strategy, res, reply, cpu_slots, worker, cpu_queue_depth,
                 batchVars, result_cache, statVars, shutdown, runs>>

(* Mutant: a worker starts without waiting for a permit. *)
DispatchAcquire_NoWait ==
  /\ dispatcher = "acquire"
  /\ cpu_slots' = cpu_slots - 1
  /\ cpu_queue_depth' = (cpu_queue_depth + DepthMod - 1) % DepthMod
  /\ worker' = [worker EXCEPT ![held] = "exec"]
  /\ held' = Nobody
  /\ dispatcher' = "recv"
  /\ UNCHANGED <<pc, strategy, res, reply, cpu_tx, batchVars, result_cache,
                 statVars, shutdown, runs>>

(* Mutant: the gauge is not decremented. *)
DispatchAcquire_Uncounted ==
  /\ dispatcher = "acquire" /\ cpu_slots > 0
  /\ cpu_slots' = cpu_slots - 1
  /\ worker' = [worker EXCEPT ![held] = "exec"]
  /\ held' = Nobody
  /\ dispatcher' = "recv"
  /\ UNCHANGED <<pc, strategy, res, reply, cpu_tx, cpu_queue_depth, batchVars,
                 result_cache, statVars, shutdown, runs>>

DispatchAcquire ==
  /\ dispatcher = "acquire" /\ cpu_slots > 0
  /\ cpu_slots' = cpu_slots - 1
  /\ cpu_queue_depth' = (cpu_queue_depth + DepthMod - 1) % DepthMod
  /\ worker' = [worker EXCEPT ![held] = "exec"]
  /\ held' = Nobody
  /\ dispatcher' = "recv"
  /\ UNCHANGED <<pc, strategy, res, reply, cpu_tx, batchVars, result_cache,
                 statVars, shutdown, runs>>

(* Mutant: the queued work is dropped but its callers are not told. *)
DispatchExit_Silent ==
  /\ dispatcher = "recv" /\ shutdown
  /\ dispatcher' = "exited"
  /\ cpu_tx' = <<>>
  /\ UNCHANGED <<pc, strategy, res, reply, cpu_slots, worker, cpu_queue_depth, held,
                 batchVars, result_cache, statVars, shutdown, runs>>

(* The shutdown branch of the select: the receiver and all queued CpuWork,  *)
(* with their reply senders, are dropped.                                   *)
DispatchExit ==
  /\ dispatcher = "recv" /\ shutdown
  /\ dispatcher' = "exited"
  /\ reply' = [j \in Jobs |-> IF \E i \in DOMAIN cpu_tx : cpu_tx[i] = j
                              THEN "closed" ELSE reply[j]]
  /\ cpu_tx' = <<>>
  /\ UNCHANGED <<pc, strategy, res, cpu_slots, worker, cpu_queue_depth, held,
                 batchVars, result_cache, statVars, shutdown, runs>>

(* The worker runs the kernel and replies; the cancelled flag it tests is    *)
(* only ever set by a submit whose sender is already gone.                   *)
WorkerReply(j) ==
  /\ worker[j] = "exec" /\ JobSpec[j].api = "submit"
  /\ Execute(j)
  /\ reply' = [reply EXCEPT ![j] = "sent"]
  /\ worker' = [worker EXCEPT ![j] = "replied"]
  /\ UNCHANGED <<pc, strategy, res, cpu_tx, cpu_slots, cpu_queue_depth, dispatcher,
                 held, batchVars, result_cache, statVars, shutdown>>

(* record_latency under the metrics lock, then drop(permit). *)
WorkerRelease(j) ==
  /\ worker[j] = "replied"
  /\ worker' = [worker EXCEPT ![j] = "finished"]
  /\ cpu_slots' = cpu_slots + 1
  /\ UNCHANGED <<pc, strategy, res, reply, cpu_tx, cpu_queue_depth, dispatcher,
                 held, batchVars, result_cache, statVars, shutdown, runs>>

-----------------------------------------------------------------------------
(* CpuPool and Batch through run: the caller takes the permit itself *)

RunAwaitPermit(j) ==
  /\ pc[j] = "decided" /\ strategy[j] \in {"CpuPool", "Batch"}
  /\ JobSpec[j].api = "run"
  /\ bump_route(strategy[j])
  /\ Goto(j, "awaitPermit")
  /\ UNCHANGED <<strategy, res, reply, poolVars, batchVars, result_cache,
                 completed, dropped, shutdown, runs>>

RunAcquire(j) ==
  /\ pc[j] = "awaitPermit" /\ cpu_slots > 0
  /\ cpu_slots' = cpu_slots - 1
  /\ worker' = [worker EXCEPT ![j] = "exec"]
  /\ Goto(j, "awaitPool")
  /\ UNCHANGED <<strategy, res, reply, cpu_tx, cpu_queue_depth, dispatcher, held,
                 batchVars, result_cache, statVars, shutdown, runs>>

(* Mutant: a panic leaks the permit. *)
RunWork_Leaks(j) ==
  /\ worker[j] = "exec" /\ JobSpec[j].api = "run"
  /\ Execute(j)
  /\ \/ worker' = [worker EXCEPT ![j] = "finished"] /\ cpu_slots' = cpu_slots + 1
     \/ /\ JobSpec[j].panics
        /\ worker' = [worker EXCEPT ![j] = "unwound"]
        /\ UNCHANGED cpu_slots
  /\ UNCHANGED <<pc, strategy, res, reply, cpu_tx, cpu_queue_depth, dispatcher,
                 held, batchVars, result_cache, statVars, shutdown>>

(* The closure owns the permit: returning or unwinding releases it. *)
RunWork(j) ==
  /\ worker[j] = "exec" /\ JobSpec[j].api = "run"
  /\ Execute(j)
  /\ \/ worker' = [worker EXCEPT ![j] = "finished"]
     \/ JobSpec[j].panics /\ worker' = [worker EXCEPT ![j] = "unwound"]
  /\ cpu_slots' = cpu_slots + 1
  /\ UNCHANGED <<pc, strategy, res, reply, cpu_tx, cpu_queue_depth, dispatcher,
                 held, batchVars, result_cache, statVars, shutdown>>

RunJoin(j) ==
  /\ pc[j] = "awaitPool"
  /\ \/ worker[j] = "finished" /\ Complete(j, execute_job(j), "recording")
     \/ worker[j] = "unwound" /\ CountDropped(j, "done")
  /\ UNCHANGED <<strategy, reply, poolVars, batchVars, result_cache, routed,
                 shutdown, runs>>

-----------------------------------------------------------------------------
(* Batch through submit, and flush_batch_kind *)

(* The sequence number is drawn before the buffer lock is taken. *)
BatchDraw(j) ==
  /\ pc[j] = "decided" /\ strategy[j] = "Batch" /\ JobSpec[j].api = "submit"
  /\ bump_route("Batch")
  /\ seq' = [seq EXCEPT ![j] = batch_seq]
  /\ batch_seq' = batch_seq + 1
  /\ Goto(j, "seqDrawn")
  /\ UNCHANGED <<strategy, res, reply, poolVars, batches, flushing, flusher,
                 flush_idx, result_cache, completed, dropped, shutdown, runs>>

BatchPush(j) ==
  LET k == JobSpec[j].kind
  IN /\ pc[j] = "seqDrawn"
     /\ batches' = [batches EXCEPT ![k] = Append(@, j)]
     /\ reply' = [reply EXCEPT ![j] = "open"]
     /\ Goto(j, IF Len(batches'[k]) >= Cfg.batch_max_size
                THEN "flushDue" ELSE "awaitReply")
     /\ UNCHANGED <<strategy, res, poolVars, batch_seq, seq, flushing, flusher,
                    flush_idx, result_cache, statVars, shutdown, runs>>

(* Mutant: the last entry taken stays in the buffer. *)
TakeBatch_OffByOne(f, k) ==
  LET n == IF Len(batches[k]) < Cfg.batch_max_size
           THEN Len(batches[k]) ELSE Cfg.batch_max_size
  IN /\ flushing' = [flushing EXCEPT ![f] = {batches[k][i] : i \in 1 .. n}]
     /\ batches' = [batches EXCEPT ![k] =
                      IF n = 0 THEN @ ELSE SubSeq(@, n, Len(@))]

(* Pop up to batch_max_size entries of kind k into the hands of f. *)
TakeBatch(f, k) ==
  LET n == IF Len(batches[k]) < Cfg.batch_max_size
           THEN Len(batches[k]) ELSE Cfg.batch_max_size
  IN /\ flushing' = [flushing EXCEPT ![f] = {batches[k][i] : i \in 1 .. n}]
     /\ batches' = [batches EXCEPT ![k] = SubSeq(@, n + 1, Len(@))]

(* Run the entry with the lowest sequence number and send its reply. *)
FlushOne(f, j) ==
  /\ j \in flushing[f]
  /\ \A o \in flushing[f] : seq[j] <= seq[o]
  /\ flushing' = [flushing EXCEPT ![f] = @ \ {j}]
  /\ reply' = [reply EXCEPT ![j] = "sent"]
  /\ Execute(j)

(* The submitter that filled the batch flushes it on its own task: it runs    *)
(* the first entry at once, and may be cancelled after each.                  *)
SubmitterTake(j) ==
  /\ pc[j] = "flushDue"
  /\ TakeBatch(j, JobSpec[j].kind)
  /\ Goto(j, "taken")
  /\ UNCHANGED <<strategy, res, reply, poolVars, batch_seq, seq, flusher, flush_idx,
                 result_cache, statVars, shutdown, runs>>

SubmitterFlush(j) ==
  /\ pc[j] \in {"taken", "flushing"}
  /\ \E o \in Jobs : FlushOne(j, o)
  /\ Goto(j, "flushing")
  /\ UNCHANGED <<strategy, res, poolVars, batches, batch_seq, seq, flusher,
                 flush_idx, result_cache, statVars, shutdown>>

SubmitterFlushed(j) ==
  /\ pc[j] \in {"taken", "flushing"} /\ flushing[j] = {}
  /\ Goto(j, "awaitReply")
  /\ UNCHANGED <<strategy, res, reply, poolVars, batchVars, result_cache,
                 statVars, shutdown, runs>>

(* Mutant: the round-robin index does not move on. *)
FlusherWake_NoAdvance ==
  /\ flusher = "sleep"
  /\ TakeBatch(Flusher, KindOrder[flush_idx])
  /\ flusher' = "flush"
  /\ UNCHANGED <<pc, strategy, res, reply, poolVars, batch_seq, seq, flush_idx,
                 result_cache, statVars, shutdown, runs>>

(* The background task: sleep, take the next kind's batch, advance. *)
FlusherWake ==
  /\ flusher = "sleep"
  /\ TakeBatch(Flusher, KindOrder[flush_idx])
  /\ flush_idx' = (flush_idx % Len(KindOrder)) + 1
  /\ flusher' = "flush"
  /\ UNCHANGED <<pc, strategy, res, reply, poolVars, batch_seq, seq, result_cache,
                 statVars, shutdown, runs>>

FlusherFlush ==
  /\ flusher = "flush"
  /\ \E o \in Jobs : FlushOne(Flusher, o)
  /\ UNCHANGED <<pc, strategy, res, poolVars, batches, batch_seq, seq, flusher,
                 flush_idx, result_cache, statVars, shutdown>>

FlusherSleep ==
  /\ flusher = "flush" /\ flushing[Flusher] = {}
  /\ flusher' = "sleep"
  /\ UNCHANGED <<pc, strategy, res, reply, poolVars, batches, batch_seq, seq,
                 flushing, flush_idx, result_cache, statVars, shutdown, runs>>

FlusherExit ==
  /\ flusher = "sleep" /\ shutdown
  /\ flusher' = "exited"
  /\ UNCHANGED <<pc, strategy, res, reply, poolVars, batches, batch_seq, seq,
                 flushing, flush_idx, result_cache, statVars, shutdown, runs>>

-----------------------------------------------------------------------------
(* The environment *)

Shutdown ==
  /\ MayShutdown /\ ~shutdown
  /\ shutdown' = TRUE
  /\ UNCHANGED <<pc, strategy, res, reply, poolVars, batchVars, result_cache,
                 statVars, runs>>

(* Mutant: a cancelled flusher hands its batch back after its callers were    *)
(* told that it is gone.                                                      *)
Cancel_HandsBack(j) ==
  LET k == JobSpec[j].kind
  IN /\ j \in Cancellable /\ pc[j] \in AwaitPCs
     /\ Goto(j, "cancelled")
     /\ reply' = [o \in Jobs |-> IF o \in flushing[j] THEN "closed" ELSE reply[o]]
     /\ \E s \in [1 .. Cardinality(flushing[j]) -> flushing[j]] :
          /\ {s[i] : i \in DOMAIN s} = flushing[j]
          /\ batches' = [batches EXCEPT ![k] = s \o @]
     /\ flushing' = [flushing EXCEPT ![j] = {}]
     /\ UNCHANGED <<strategy, res, poolVars, batch_seq, seq, flusher, flush_idx,
                    result_cache, statVars, shutdown, runs>>

(* The caller drops the future: what it owned goes with it, including the   *)
(* reply senders of the batch it was flushing.                              *)
Cancel(j) ==
  /\ j \in Cancellable /\ pc[j] \in AwaitPCs
  /\ Goto(j, "cancelled")
  /\ reply' = [o \in Jobs |-> IF o \in flushing[j] THEN "closed" ELSE reply[o]]
  /\ flushing' = [flushing EXCEPT ![j] = {}]
  /\ UNCHANGED <<strategy, res, poolVars, batches, batch_seq, seq, flusher, flush_idx,
                 result_cache, statVars, shutdown, runs>>

-----------------------------------------------------------------------------
Init ==
  /\ pc = [j \in Jobs |-> "new"]
  /\ strategy = [j \in Jobs |-> "none"]
  /\ res = [j \in Jobs |-> None]
  /\ reply = [j \in Jobs |-> "none"]
  /\ cpu_tx = <<>>
  /\ cpu_slots = Cfg.cpu_parallelism
  /\ worker = [j \in Jobs |-> "none"]
  /\ cpu_queue_depth = 0
  /\ dispatcher = "recv"
  /\ held = Nobody
  /\ batches = [k \in Kinds |-> <<>>]
  /\ batch_seq = 0
  /\ seq = [j \in Jobs |-> 0]
  /\ flushing = [f \in Jobs \cup {Flusher} |-> {}]
  /\ flusher = "sleep"
  /\ flush_idx = 1
  /\ result_cache = [k \in {} |-> None]
  /\ completed = 0 /\ dropped = 0
  /\ routed = [s \in Strategies |-> 0]
  /\ shutdown = FALSE
  /\ runs = [j \in Jobs |-> 0]

(* What the task of call j does. *)
JobStep(j) ==
  \/ DeadlineExceeded(j) \/ ZeroCost(j) \/ CacheHit(j) \/ Decide(j)
  \/ DropJob(j) \/ RunInline(j) \/ CountInline(j) \/ RunInlineWork(j) \/ Return(j)
  \/ SpawnTask(j) \/ SpawnJoin(j)
  \/ CpuSend(j) \/ CpuCount(j) \/ ReplyReceived(j)
  \/ RunAwaitPermit(j) \/ RunAcquire(j) \/ RunJoin(j)
  \/ BatchDraw(j) \/ BatchPush(j)
  \/ SubmitterTake(j) \/ SubmitterFlush(j) \/ SubmitterFlushed(j)

WorkerStep(j) == WorkerReply(j) \/ WorkerRelease(j) \/ RunWork(j)

DispatcherStep == DispatchRecv \/ DispatchAcquire \/ DispatchExit

FlusherStep == FlusherWake \/ FlusherFlush \/ FlusherSleep \/ FlusherExit

Next ==
  \/ \E j \in Jobs : JobStep(j) \/ WorkerStep(j) \/ Cancel(j)
  \/ DispatcherStep
  \/ FlusherStep
  \/ CacheEvict
  \/ Shutdown

Spec == Init /\ [][Next]_vars

(* Tokio polls every ready task; its semaphore queues waiters first in,     *)
(* first out, so a waiter that finds a permit free again and again gets one.*)
Fairness ==
  /\ \A j \in Jobs : WF_vars(JobStep(j)) /\ SF_vars(RunAcquire(j)) /\ WF_vars(WorkerStep(j))
  /\ WF_vars(DispatcherStep) /\ SF_vars(DispatchAcquire)
  /\ WF_vars(FlusherStep)

FairSpec == Spec /\ Fairness

-----------------------------------------------------------------------------
(* Properties *)

CallTypes ==
  /\ pc \in [Jobs -> PCs]
  /\ strategy \in [Jobs -> Strategies \cup {"none"}]
  /\ res \in [Jobs -> Outputs \cup {None}]
  /\ reply \in [Jobs -> {"none", "open", "sent", "closed"}]
  /\ runs \in [Jobs -> Nat]

PoolTypes ==
  /\ cpu_tx \in Seq(Jobs)
  /\ cpu_slots \in Int
  /\ worker \in [Jobs -> {"none", "exec", "replied", "finished", "unwound"}]
  /\ cpu_queue_depth \in 0 .. DepthMod - 1
  /\ dispatcher \in {"recv", "acquire", "exited"}
  /\ held \in Jobs \cup {Nobody}

BatchTypes ==
  /\ batches \in [Kinds -> Seq(Jobs)]
  /\ batch_seq \in Nat /\ seq \in [Jobs -> Nat]
  /\ flushing \in [Jobs \cup {Flusher} -> SUBSET Jobs]
  /\ flusher \in {"sleep", "flush", "exited"}
  /\ flush_idx \in 1 .. Len(KindOrder)

StoreTypes ==
  /\ DOMAIN result_cache \subseteq (Kinds \X Nat)
  /\ \A k \in DOMAIN result_cache : result_cache[k] \in Outputs
  /\ completed \in Nat /\ dropped \in Nat
  /\ routed \in [Strategies -> Nat]
  /\ shutdown \in BOOLEAN

(* Every variable has its type: the gauge stays a u64, the permits stay      *)
(* between none and cpu_parallelism.                                         *)
TypeOK ==
  /\ CallTypes /\ PoolTypes /\ BatchTypes /\ StoreTypes
  /\ cpu_slots \in 0 .. Cfg.cpu_parallelism

(* README.md: "The pool never ran more than cpu_parallelism jobs at once".   *)
(* The dispatcher's workers and the callers of run share one semaphore; no   *)
(* panic, cancelled caller or shutdown leaks a permit or frees one twice.    *)
PermitConservation == cpu_slots + Cardinality(Holders) = Cfg.cpu_parallelism

(* completed and dropped, which feed the autoscaler and the dashboard, count *)
(* every call that returns exactly once, as what it returned; a call whose   *)
(* caller went away is counted at most once.                                 *)
Accounting ==
  LET Returned == {j \in Jobs : pc[j] \in {"recording", "done"}}
      Answered == {j \in Returned : res[j] # None}
      Gone == {j \in Jobs : pc[j] = "cancelled"}
  IN /\ completed >= Cardinality(Answered)
     /\ dropped >= Cardinality(Returned \ Answered)
     /\ completed + dropped <= Cardinality(Returned \cup Gone)

(* How many places hold the reply sender of a submitted call. *)
Occurrences(s, j) == Cardinality({i \in DOMAIN s : s[i] = j})

Places(j) ==
  Occurrences(cpu_tx, j) + Occurrences(batches[JobSpec[j].kind], j)
  + Cardinality({f \in Jobs \cup {Flusher} : j \in flushing[f]})
  + (IF held = j THEN 1 ELSE 0)
  + (IF worker[j] = "exec" /\ JobSpec[j].api = "submit" THEN 1 ELSE 0)

(* While a reply is due its work is in exactly one place: the channel, the   *)
(* dispatcher's hands, a worker, its batch buffer or one flusher's hands. It *)
(* is never lost with the caller left waiting, nor handed out twice.         *)
OneOwner == \A j \in Jobs : Places(j) = IF reply[j] = "open" THEN 1 ELSE 0

(* The cpu_queue_depth gauge is the backlog, modulo its width, less the      *)
(* calls between their try_send and their fetch_add: until the dispatcher    *)
(* exits, no order of those two and of the fetch_sub makes it drift.         *)
GaugeExact ==
  dispatcher # "exited" =>
    (cpu_queue_depth + Cardinality({j \in Jobs : pc[j] = "sent"})) % DepthMod
      = (Len(cpu_tx) + IF held = Nobody THEN 0 ELSE 1) % DepthMod

(* The batch a flusher takes of one kind is of that kind, and an answer is   *)
(* the kernel's output for the caller's own content, whatever path or cache  *)
(* entry it came from; it is the caller's own unless the kernel is seeded.   *)
OwnContent ==
  \A j \in Jobs : res[j] # None =>
    /\ res[j].kind = JobSpec[j].kind /\ res[j].payload = JobSpec[j].payload
    /\ JobSpec[j].kind # "MonteCarloRisk" => res[j] = execute_job(j)

(* The router implements the service its callers rely on. *)
Phase(j) ==
  IF pc[j] = "done" THEN IF res[j] = None THEN "refused" ELSE "answered"
  ELSE IF pc[j] \in {"cancelled", "panicked"} THEN "gone"
  ELSE "pending"

JobMayPanic(j) == JobSpec[j].panics

Service == INSTANCE JobService WITH
  Key <- job_key, Output <- execute_job, MayPanic <- JobMayPanic, NoAnswer <- None,
  phase <- [j \in Jobs |-> Phase(j)],
  answer <- [j \in Jobs |-> IF pc[j] = "done" THEN res[j] ELSE None],
  ran <- {j \in Jobs : runs[j] > 0}

(* At most once, answered only by work that ran, never run once refused: see *)
(* JobService.  Panics, cancelled callers, shutdown and cache hits included. *)
ServiceSpec == Service!Spec

(* Nothing runs twice, which the abstract state alone would not show. *)
RunsOnce == \A j \in Jobs : runs[j] <= 1

(* Every call ends, except one left in a batch buffer by a shutdown. *)
CallsEnd ==
  \A j \in Jobs :
    <>(Ended(j) \/ (shutdown /\ Occurrences(batches[JobSpec[j].kind], j) > 0))

(* Every permit comes back for good, whatever panicked or was cancelled. *)
PermitsReturn == <>[](cpu_slots = Cfg.cpu_parallelism)

(* submit's doc: "This function never panics." *)
SubmitNeverPanics == \A j \in Jobs : JobSpec[j].api = "submit" => pc[j] # "panicked"

(* submit's doc: None means "dropped due to backpressure or the Drop strategy *)
(* was selected".  A call that was accepted into a batch is neither.          *)
BatchedIsAnswered ==
  \A j \in Jobs : strategy[j] = "Batch" /\ JobSpec[j].api = "submit" /\ pc[j] = "done"
    => res[j] # None
=============================================================================
