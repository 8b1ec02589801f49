-------------------------- MODULE RouterCoreProofs --------------------------
(***************************************************************************)
(* Theorems about RouterCore, for every set of calls and configuration.    *)
(* In this order: its type invariant and the conservation of the pool's    *)
(* permits, which bounds the number of jobs that run on the pool; the      *)
(* depth gauge; the places of work, of which there is one while its reply  *)
(* is due, and its runs, of which there is one at most; the answers, which *)
(* are the caller's own; the counters; the refinement of JobService.       *)
(*                                                                         *)
(* Permits alone are not inductive: a worker starts on the call that the   *)
(* dispatcher holds, and takes a permit that no other worker gives back    *)
(* only if that call had no worker before.  PoolInv says so: work waits in *)
(* the queue or in the dispatcher's hands once, and without a worker.      *)
(***************************************************************************)
EXTENDS RouterCore, FiniteSetTheorems, TLAPS

(* No worker has been started for a call that has not got that far, and only *)
(* callers of run wait for a permit themselves.                              *)
FreshCalls ==
  \A j \in Jobs :
    /\ pc[j] \in {"new", "decided", "awaitPermit"} => worker[j] = "none"
    /\ pc[j] = "awaitPermit" => JobSpec[j].api = "run"

(* Queued work was submitted, is queued once and has no worker yet. *)
QueueInv ==
  \A i \in DOMAIN cpu_tx :
    /\ worker[cpu_tx[i]] = "none"
    /\ JobSpec[cpu_tx[i]].api = "submit"
    /\ pc[cpu_tx[i]] \notin {"new", "decided"}
    /\ cpu_tx[i] # held
    /\ \A k \in DOMAIN cpu_tx : cpu_tx[i] = cpu_tx[k] => i = k

(* So has the work in the dispatcher's hands, which are full exactly while   *)
(* it waits for a permit.                                                    *)
HeldInv ==
  /\ (dispatcher = "acquire") <=> (held # Nobody)
  /\ held # Nobody =>
       /\ worker[held] = "none"
       /\ JobSpec[held].api = "submit"
       /\ pc[held] \notin {"new", "decided"}

PoolInv == FreshCalls /\ QueueInv /\ HeldInv

IInv == TypeOK /\ PermitConservation /\ PoolInv

-----------------------------------------------------------------------------
(* Data *)

(* The two steps of the gauge keep it a u64. *)
LEMMA GaugeStep ==
  ASSUME NEW d \in 0 .. DepthMod - 1
  PROVE  /\ (d + 1) % DepthMod \in 0 .. DepthMod - 1
         /\ (d + DepthMod - 1) % DepthMod \in 0 .. DepthMod - 1
<1>1. DepthMod \in Nat \ {0}
  BY CoreAssumption DEF CoreAssumption
<1>2. ASSUME NEW m \in Nat \ {0}, NEW x \in Int
      PROVE  x % m \in 0 .. m - 1
  OBVIOUS
<1>3. d + 1 \in Int /\ d + DepthMod - 1 \in Int
  BY <1>1
<1> QED
  BY <1>1, <1>2, <1>3

(* What a kernel returns is an output, and is never taken for None. *)
LEMMA OutputTypes ==
  ASSUME NEW j \in Jobs
  PROVE  /\ execute_job(j) \in Outputs
         /\ None \notin Outputs
         /\ job_key(j) \in Kinds \X Nat
         /\ JobSpec[j].kind \in Kinds
  BY CoreAssumption
  DEF CoreAssumption, JobSpecs, execute_job, job_key, Outputs, None, Kinds

(* A strategy is one of the five. *)
LEMMA ChoiceTypes ==
  ASSUME NEW job, NEW busy, NEW cfg
  PROVE  /\ choose_strategy(cfg, job, busy) \in Strategies
         /\ \A warm \in BOOLEAN : SubmitChoices(cfg, job, busy, warm) \subseteq Strategies
  BY DEF choose_strategy, SubmitChoices, Strategies

-----------------------------------------------------------------------------
(* Which actions touch which part of the state *)

(* The pool is touched by these actions alone. *)
LEMMA PoolActions ==
  ASSUME [Next]_vars
  PROVE  \/ UNCHANGED poolVars
         \/ \E j \in Jobs :
              \/ CpuSend(j) \/ CpuCount(j) \/ RunAcquire(j)
              \/ WorkerReply(j) \/ WorkerRelease(j) \/ RunWork(j)
         \/ DispatchRecv
         \/ DispatchAcquire
         \/ DispatchExit
<1>1. ASSUME NEW j \in Jobs,
             DeadlineExceeded(j) \/ ZeroCost(j) \/ CacheHit(j) \/ Decide(j) \/
             DropJob(j) \/ RunInline(j) \/ CountInline(j) \/ RunInlineWork(j) \/
             Return(j) \/ SpawnTask(j) \/ SpawnJoin(j) \/ ReplyReceived(j) \/
             RunAwaitPermit(j) \/ RunJoin(j) \/ BatchDraw(j) \/ BatchPush(j) \/
             SubmitterTake(j) \/ SubmitterFlush(j) \/ SubmitterFlushed(j) \/ Cancel(j)
      PROVE  UNCHANGED poolVars
  BY <1>1
  DEF DeadlineExceeded, ZeroCost, CacheHit, Decide, DropJob, RunInline,
      CountInline, RunInlineWork, Return, SpawnTask, SpawnJoin,
      ReplyReceived, RunAwaitPermit, RunJoin, BatchDraw, BatchPush,
      SubmitterTake, SubmitterFlush, SubmitterFlushed, Cancel, poolVars
<1>2. ASSUME FlusherWake \/ FlusherFlush \/ FlusherSleep \/ FlusherExit \/ CacheEvict \/ Shutdown
      PROVE  UNCHANGED poolVars
  BY <1>2
  DEF FlusherWake, FlusherFlush, FlusherSleep, FlusherExit, CacheEvict,
      Shutdown, poolVars
<1>3. ASSUME UNCHANGED vars
      PROVE  UNCHANGED poolVars
  BY <1>3 DEF vars, poolVars
<1> QED
  BY <1>1, <1>2, <1>3 DEF Next, JobStep, WorkerStep, DispatcherStep, FlusherStep

(* The batch buffers and their flushers are touched by these alone. *)
LEMMA BatchActions ==
  ASSUME [Next]_vars
  PROVE  \/ UNCHANGED batchVars
         \/ \E j \in Jobs :
              \/ BatchDraw(j) \/ BatchPush(j) \/ SubmitterTake(j)
              \/ SubmitterFlush(j) \/ Cancel(j)
         \/ FlusherWake
         \/ FlusherFlush
         \/ FlusherSleep
         \/ FlusherExit
<1>1. ASSUME NEW j \in Jobs,
             DeadlineExceeded(j) \/ ZeroCost(j) \/ CacheHit(j) \/ Decide(j) \/
             DropJob(j) \/ RunInline(j) \/ CountInline(j) \/ RunInlineWork(j) \/
             Return(j) \/ SpawnTask(j) \/ SpawnJoin(j) \/ CpuSend(j) \/
             CpuCount(j) \/ ReplyReceived(j) \/ RunAwaitPermit(j) \/ RunAcquire(j) \/
             RunJoin(j) \/ SubmitterFlushed(j) \/ WorkerReply(j) \/ WorkerRelease(j) \/
             RunWork(j)
      PROVE  UNCHANGED batchVars
  BY <1>1
  DEF DeadlineExceeded, ZeroCost, CacheHit, Decide, DropJob, RunInline,
      CountInline, RunInlineWork, Return, SpawnTask, SpawnJoin,
      CpuSend, CpuCount, ReplyReceived, RunAwaitPermit, RunAcquire,
      RunJoin, SubmitterFlushed, WorkerReply, WorkerRelease, RunWork,
      batchVars
<1>2. ASSUME DispatchRecv \/ DispatchAcquire \/ DispatchExit \/ CacheEvict \/ Shutdown
      PROVE  UNCHANGED batchVars
  BY <1>2
  DEF DispatchRecv, DispatchAcquire, DispatchExit, CacheEvict, Shutdown,
      batchVars
<1>3. ASSUME UNCHANGED vars
      PROVE  UNCHANGED batchVars
  BY <1>3 DEF vars, batchVars
<1> QED
  BY <1>1, <1>2, <1>3 DEF Next, JobStep, WorkerStep, DispatcherStep, FlusherStep

-----------------------------------------------------------------------------
(* Types *)

(* Every step keeps the types of the pool. *)
LEMMA PoolTypesStep ==
  ASSUME PoolTypes, HeldInv, [Next]_vars
  PROVE  PoolTypes'
<1>1. CASE UNCHANGED poolVars
  BY <1>1 DEF PoolTypes, poolVars
<1>2. ASSUME NEW j \in Jobs, CpuSend(j) PROVE PoolTypes'
  <2>1. /\ cpu_tx' = cpu_tx \/ cpu_tx' = Append(cpu_tx, j)
        /\ UNCHANGED <<cpu_slots, worker, cpu_queue_depth, dispatcher, held>>
    BY <1>2 DEF CpuSend, poolVars
  <2>2. cpu_tx' \in Seq(Jobs)
    BY <2>1 DEF PoolTypes
  <2> QED
    BY <2>1, <2>2 DEF PoolTypes
<1>3. ASSUME NEW j \in Jobs, CpuCount(j) PROVE PoolTypes'
  BY <1>3, GaugeStep DEF CpuCount, PoolTypes
<1>4. ASSUME NEW j \in Jobs, RunAcquire(j) PROVE PoolTypes'
  BY <1>4 DEF RunAcquire, PoolTypes
<1>5. ASSUME NEW j \in Jobs, WorkerReply(j) PROVE PoolTypes'
  BY <1>5 DEF WorkerReply, PoolTypes
<1>6. ASSUME NEW j \in Jobs, WorkerRelease(j) PROVE PoolTypes'
  BY <1>6 DEF WorkerRelease, PoolTypes
<1>7. ASSUME NEW j \in Jobs, RunWork(j) PROVE PoolTypes'
  BY <1>7 DEF RunWork, PoolTypes
<1>8. CASE DispatchRecv
  BY <1>8 DEF DispatchRecv, PoolTypes, HeldInv
<1>9. CASE DispatchAcquire
  BY <1>9, GaugeStep DEF DispatchAcquire, PoolTypes, HeldInv
<1>10. CASE DispatchExit
  BY <1>10 DEF DispatchExit, PoolTypes, HeldInv
<1> QED
  BY <1>1, <1>2, <1>3, <1>4, <1>5, <1>6, <1>7, <1>8, <1>9, <1>10, PoolActions

(* A batch is taken from the front of its buffer, and the rest stays. *)
LEMMA TakeBatchTypes ==
  ASSUME BatchTypes, NEW f \in Jobs \cup {Flusher}, NEW k \in Kinds, TakeBatch(f, k)
  PROVE  /\ flushing' \in [Jobs \cup {Flusher} -> SUBSET Jobs]
         /\ batches' \in [Kinds -> Seq(Jobs)]
<1> DEFINE b == batches[k]
           n == IF Len(b) < Cfg.batch_max_size THEN Len(b) ELSE Cfg.batch_max_size
<1>1. b \in Seq(Jobs) /\ Len(b) \in Nat
  BY DEF BatchTypes
<1>2. n \in 0 .. Len(b)
  BY <1>1, CoreAssumption DEF CoreAssumption, Configs
<1>3. {b[i] : i \in 1 .. n} \subseteq Jobs
  BY <1>1, <1>2
<1>4. SubSeq(b, n + 1, Len(b)) \in Seq(Jobs)
  BY <1>1, <1>2
<1> QED
  BY <1>3, <1>4 DEF TakeBatch, BatchTypes

(* The round robin stays within the kinds. *)
LEMMA FlushIdxStep ==
  ASSUME flush_idx \in 1 .. Len(KindOrder)
  PROVE  /\ KindOrder[flush_idx] \in Kinds
         /\ (flush_idx % Len(KindOrder)) + 1 \in 1 .. Len(KindOrder)
<1>1. KindOrder \in Seq(Kinds) /\ Len(KindOrder) \in Nat \ {0}
  BY CoreAssumption DEF CoreAssumption
<1>2. ASSUME NEW m \in Nat \ {0}, NEW x \in Int
      PROVE  (x % m) + 1 \in 1 .. m
  OBVIOUS
<1> QED
  BY <1>1, <1>2

(* Every step keeps the types of the batch buffers. *)
LEMMA BatchTypesStep ==
  ASSUME BatchTypes, [Next]_vars
  PROVE  BatchTypes'
<1>1. CASE UNCHANGED batchVars
  BY <1>1 DEF BatchTypes, batchVars
<1>2. ASSUME NEW j \in Jobs, BatchDraw(j) PROVE BatchTypes'
  BY <1>2 DEF BatchDraw, BatchTypes
<1>3. ASSUME NEW j \in Jobs, BatchPush(j) PROVE BatchTypes'
  BY <1>3, OutputTypes DEF BatchPush, BatchTypes
<1>4. ASSUME NEW j \in Jobs, SubmitterTake(j) PROVE BatchTypes'
  BY <1>4, OutputTypes, TakeBatchTypes DEF SubmitterTake, BatchTypes
<1>5. ASSUME NEW j \in Jobs, SubmitterFlush(j) PROVE BatchTypes'
  BY <1>5 DEF SubmitterFlush, FlushOne, BatchTypes
<1>6. ASSUME NEW j \in Jobs, Cancel(j) PROVE BatchTypes'
  BY <1>6 DEF Cancel, BatchTypes
<1>7. CASE FlusherWake
  BY <1>7, TakeBatchTypes, FlushIdxStep DEF FlusherWake, BatchTypes
<1>8. CASE FlusherFlush
  BY <1>8 DEF FlusherFlush, FlushOne, BatchTypes
<1>9. CASE FlusherSleep
  BY <1>9 DEF FlusherSleep, BatchTypes
<1>10. CASE FlusherExit
  BY <1>10 DEF FlusherExit, BatchTypes
<1> QED
  BY <1>1, <1>2, <1>3, <1>4, <1>5, <1>6, <1>7, <1>8, <1>9, <1>10, BatchActions

(* Every step keeps the types of what is known of each call. *)
LEMMA CallTypesStep ==
  ASSUME CallTypes, BatchTypes, StoreTypes, [Next]_vars
  PROVE  CallTypes'
<1> DEFINE callVars == <<pc, strategy, res, reply, runs>>
<1>1. ASSUME UNCHANGED vars \/ DispatchRecv \/ DispatchAcquire \/ FlusherWake \/
             FlusherSleep \/ FlusherExit \/ CacheEvict \/ Shutdown \/ (\E j \in Jobs : WorkerRelease(j))
      PROVE  CallTypes'
  BY <1>1
  DEF CallTypes, vars, DispatchRecv, DispatchAcquire, FlusherWake,
      FlusherSleep, FlusherExit, CacheEvict, Shutdown, WorkerRelease
<1>2. ASSUME NEW j \in Jobs, DeadlineExceeded(j) PROVE CallTypes'
  BY <1>2
  DEF DeadlineExceeded, CountDropped, Goto, CallTypes, PCs
<1>3. ASSUME NEW j \in Jobs, ZeroCost(j) PROVE CallTypes'
  BY <1>3
  DEF ZeroCost, Goto, Execute, CallTypes, PCs
<1>4. ASSUME NEW j \in Jobs, CacheHit(j) PROVE CallTypes'
  BY <1>4, OutputTypes
  DEF CacheHit, Complete, Goto, CallTypes, PCs, StoreTypes, job_key
<1>5. ASSUME NEW j \in Jobs, Decide(j) PROVE CallTypes'
  <2>1. \E s \in Strategies : strategy' = [strategy EXCEPT ![j] = s]
    <3>1. NeuralWarm \in BOOLEAN
      BY CoreAssumption DEF CoreAssumption
    <3> QED
      BY <1>5, <3>1, ChoiceTypes DEF Decide
  <2> QED
    BY <1>5, <2>1 DEF Decide, Goto, CallTypes, PCs
<1>6. ASSUME NEW j \in Jobs, DropJob(j) PROVE CallTypes'
  BY <1>6
  DEF DropJob, CountDropped, Goto, CallTypes, PCs
<1>7. ASSUME NEW j \in Jobs, RunInline(j) PROVE CallTypes'
  BY <1>7
  DEF RunInline, Goto, Execute, CallTypes, PCs
<1>8. ASSUME NEW j \in Jobs, CountInline(j) PROVE CallTypes'
  <2>1. UNCHANGED <<strategy, reply, runs>> /\ res' = [res EXCEPT ![j] = execute_job(j)]
    BY <1>8 DEF CountInline, Complete
  <2>2. PICK l \in PCs : pc' = [pc EXCEPT ![j] = l]
    BY <1>8 DEF CountInline, Complete, Goto, PCs
  <2> QED
    BY <2>1, <2>2, OutputTypes DEF CallTypes
<1>9. ASSUME NEW j \in Jobs, RunInlineWork(j) PROVE CallTypes'
  <2>1. UNCHANGED <<strategy, reply>> /\ runs' = [runs EXCEPT ![j] = @ + 1]
    BY <1>9 DEF RunInlineWork, Execute
  <2>2. PICK l \in PCs : pc' = [pc EXCEPT ![j] = l]
    <3>1. \/ pc' = [pc EXCEPT ![j] = "recording"]
          \/ pc' = [pc EXCEPT ![j] = "panicked"]
      BY <1>9 DEF RunInlineWork, Complete, Goto
    <3>2. {"recording", "panicked"} \subseteq PCs
      BY DEF PCs
    <3> QED
      BY <3>1, <3>2
  <2>3. res' = res \/ res' = [res EXCEPT ![j] = execute_job(j)]
    BY <1>9 DEF RunInlineWork, Complete
  <2>4. res' \in [Jobs -> Outputs \cup {None}]
    <3>1. execute_job(j) \in Outputs /\ res \in [Jobs -> Outputs \cup {None}]
      BY OutputTypes DEF CallTypes
    <3> QED
      BY <2>3, <3>1
  <2>5. pc' \in [Jobs -> PCs]
    BY <2>2 DEF CallTypes
  <2>6. runs' \in [Jobs -> Nat]
    BY <2>1 DEF CallTypes
  <2> QED
    BY <2>1, <2>4, <2>5, <2>6 DEF CallTypes
<1>10. ASSUME NEW j \in Jobs, Return(j) PROVE CallTypes'
  BY <1>10
  DEF Return, Goto, CallTypes, PCs
<1>11. ASSUME NEW j \in Jobs, SpawnTask(j) PROVE CallTypes'
  BY <1>11
  DEF SpawnTask, Goto, Execute, CallTypes, PCs
<1>12. ASSUME NEW j \in Jobs, SpawnJoin(j) PROVE CallTypes'
  <2>1. UNCHANGED <<strategy, reply, runs>>
    BY <1>12 DEF SpawnJoin
  <2>2. PICK l \in PCs : pc' = [pc EXCEPT ![j] = l]
    BY <1>12 DEF SpawnJoin, Complete, CountDropped, Goto, PCs
  <2>3. res' = res \/ res' = [res EXCEPT ![j] = execute_job(j)]
    BY <1>12 DEF SpawnJoin, Complete, CountDropped
  <2>4. res' \in [Jobs -> Outputs \cup {None}]
    BY <2>3, OutputTypes DEF CallTypes
  <2> QED
    BY <2>1, <2>2, <2>4 DEF CallTypes
<1>13. ASSUME NEW j \in Jobs, CpuSend(j) PROVE CallTypes'
  BY <1>13
  DEF CpuSend, CountDropped, Goto, CallTypes, PCs
<1>14. ASSUME NEW j \in Jobs, CpuCount(j) PROVE CallTypes'
  BY <1>14
  DEF CpuCount, Goto, CallTypes, PCs
<1>15. ASSUME NEW j \in Jobs, ReplyReceived(j) PROVE CallTypes'
  <2>1. UNCHANGED <<strategy, reply, runs>>
    BY <1>15 DEF ReplyReceived
  <2>2. PICK l \in PCs : pc' = [pc EXCEPT ![j] = l]
    BY <1>15 DEF ReplyReceived, Complete, CountDropped, Goto, PCs
  <2>3. res' = res \/ res' = [res EXCEPT ![j] = execute_job(j)]
    BY <1>15 DEF ReplyReceived, Complete, CountDropped
  <2>4. res' \in [Jobs -> Outputs \cup {None}]
    BY <2>3, OutputTypes DEF CallTypes
  <2> QED
    BY <2>1, <2>2, <2>4 DEF CallTypes
<1>16. ASSUME NEW j \in Jobs, RunAwaitPermit(j) PROVE CallTypes'
  BY <1>16
  DEF RunAwaitPermit, Goto, CallTypes, PCs
<1>17. ASSUME NEW j \in Jobs, RunAcquire(j) PROVE CallTypes'
  BY <1>17
  DEF RunAcquire, Goto, CallTypes, PCs
<1>18. ASSUME NEW j \in Jobs, RunJoin(j) PROVE CallTypes'
  <2>1. UNCHANGED <<strategy, reply, runs>>
    BY <1>18 DEF RunJoin
  <2>2. PICK l \in PCs : pc' = [pc EXCEPT ![j] = l]
    BY <1>18 DEF RunJoin, Complete, CountDropped, Goto, PCs
  <2>3. res' = res \/ res' = [res EXCEPT ![j] = execute_job(j)]
    BY <1>18 DEF RunJoin, Complete, CountDropped
  <2>4. res' \in [Jobs -> Outputs \cup {None}]
    BY <2>3, OutputTypes DEF CallTypes
  <2> QED
    BY <2>1, <2>2, <2>4 DEF CallTypes
<1>19. ASSUME NEW j \in Jobs, BatchDraw(j) PROVE CallTypes'
  BY <1>19
  DEF BatchDraw, Goto, CallTypes, PCs
<1>20. ASSUME NEW j \in Jobs, BatchPush(j) PROVE CallTypes'
  BY <1>20
  DEF BatchPush, Goto, CallTypes, PCs
<1>21. ASSUME NEW j \in Jobs, SubmitterTake(j) PROVE CallTypes'
  BY <1>21
  DEF SubmitterTake, Goto, CallTypes, PCs
<1>22. ASSUME NEW j \in Jobs, SubmitterFlush(j) PROVE CallTypes'
  BY <1>22
  DEF SubmitterFlush, FlushOne, Execute, Goto, CallTypes, PCs
<1>23. ASSUME NEW j \in Jobs, SubmitterFlushed(j) PROVE CallTypes'
  BY <1>23
  DEF SubmitterFlushed, Goto, CallTypes, PCs
<1>24. ASSUME NEW j \in Jobs, WorkerReply(j) PROVE CallTypes'
  BY <1>24
  DEF WorkerReply, Execute, CallTypes, PCs
<1>25. ASSUME NEW j \in Jobs, RunWork(j) PROVE CallTypes'
  BY <1>25
  DEF RunWork, Execute, CallTypes, PCs
<1>26. ASSUME NEW j \in Jobs, Cancel(j) PROVE CallTypes'
  BY <1>26
  DEF Cancel, Goto, CallTypes, PCs
<1>27. CASE DispatchExit
  BY <1>27
  DEF DispatchExit, CallTypes, PCs
<1>28. CASE FlusherFlush
  BY <1>28
  DEF FlusherFlush, FlushOne, Execute, CallTypes, PCs
<1> QED
  BY <1>1, <1>2, <1>3, <1>4, <1>5, <1>6, <1>7, <1>8, <1>9, <1>10, <1>11,
     <1>12, <1>13, <1>14, <1>15, <1>16, <1>17, <1>18, <1>19, <1>20,
     <1>21, <1>22, <1>23, <1>24, <1>25, <1>26, <1>27, <1>28
  DEF Next, JobStep, WorkerStep, DispatcherStep, FlusherStep

(* Every step keeps the types of the result cache and of the counters. *)
LEMMA StoreTypesStep ==
  ASSUME StoreTypes, CallTypes, [Next]_vars
  PROVE  StoreTypes'
<1>1. ASSUME NEW j \in Jobs,
             Decide(j) \/ CpuCount(j) \/ RunAcquire(j) \/ BatchPush(j) \/
             SubmitterTake(j) \/ SubmitterFlush(j) \/ SubmitterFlushed(j) \/ WorkerReply(j) \/
             WorkerRelease(j) \/ RunWork(j) \/ Cancel(j)
      PROVE  StoreTypes'
  BY <1>1
  DEF StoreTypes, statVars, Decide, CpuCount, RunAcquire, BatchPush,
      SubmitterTake, SubmitterFlush, SubmitterFlushed, WorkerReply,
      WorkerRelease, RunWork, Cancel
<1>2. ASSUME UNCHANGED vars \/ DispatchRecv \/ DispatchAcquire \/ DispatchExit \/
             FlusherWake \/ FlusherFlush \/ FlusherSleep \/ FlusherExit
      PROVE  StoreTypes'
  BY <1>2
  DEF StoreTypes, statVars, vars, DispatchRecv, DispatchAcquire,
      DispatchExit, FlusherWake, FlusherFlush, FlusherSleep,
      FlusherExit
<1>3. ASSUME NEW j \in Jobs, DeadlineExceeded(j) PROVE StoreTypes'
  BY <1>3
  DEF DeadlineExceeded, CountDropped, bump_route, StoreTypes, Strategies
<1>4. ASSUME NEW j \in Jobs, ZeroCost(j) PROVE StoreTypes'
  BY <1>4
  DEF ZeroCost, bump_route, StoreTypes, Strategies
<1>5. ASSUME NEW j \in Jobs, CacheHit(j) PROVE StoreTypes'
  BY <1>5
  DEF CacheHit, Complete, StoreTypes
<1>6. ASSUME NEW j \in Jobs, DropJob(j) PROVE StoreTypes'
  BY <1>6
  DEF DropJob, CountDropped, bump_route, StoreTypes, Strategies
<1>7. ASSUME NEW j \in Jobs, RunInline(j) PROVE StoreTypes'
  BY <1>7
  DEF RunInline, bump_route, StoreTypes, Strategies
<1>8. ASSUME NEW j \in Jobs, CountInline(j) PROVE StoreTypes'
  BY <1>8
  DEF CountInline, Complete, StoreTypes
<1>9. ASSUME NEW j \in Jobs, RunInlineWork(j) PROVE StoreTypes'
  BY <1>9
  DEF RunInlineWork, Complete, bump_route, StoreTypes, Strategies
<1>10. ASSUME NEW j \in Jobs, Return(j) PROVE StoreTypes'
  <2>1. CASE UNCHANGED result_cache
    BY <1>10, <2>1 DEF Return, StoreTypes, statVars
  <2>2. CASE result_cache' = [k \in DOMAIN result_cache \cup {job_key(j)} |->
               IF k = job_key(j) THEN execute_job(j) ELSE result_cache[k]]
    <3>1. DOMAIN result_cache' \subseteq Kinds \X Nat
      BY <2>2, OutputTypes DEF StoreTypes
    <3>2. \A k \in DOMAIN result_cache' : result_cache'[k] \in Outputs
      BY <2>2, OutputTypes DEF StoreTypes
    <3> QED
      BY <1>10, <3>1, <3>2 DEF Return, StoreTypes, statVars
  <2> QED
    BY <1>10, <2>1, <2>2 DEF Return
<1>11. ASSUME NEW j \in Jobs, SpawnTask(j) PROVE StoreTypes'
  BY <1>11
  DEF SpawnTask, bump_route, StoreTypes, Strategies
<1>12. ASSUME NEW j \in Jobs, SpawnJoin(j) PROVE StoreTypes'
  BY <1>12
  DEF SpawnJoin, Complete, CountDropped, StoreTypes
<1>13. ASSUME NEW j \in Jobs, CpuSend(j) PROVE StoreTypes'
  BY <1>13
  DEF CpuSend, CountDropped, bump_route, StoreTypes, Strategies
<1>14. ASSUME NEW j \in Jobs, ReplyReceived(j) PROVE StoreTypes'
  BY <1>14
  DEF ReplyReceived, Complete, CountDropped, StoreTypes
<1>15. ASSUME NEW j \in Jobs, RunAwaitPermit(j) PROVE StoreTypes'
  BY <1>15
  DEF RunAwaitPermit, bump_route, StoreTypes, Strategies
<1>16. ASSUME NEW j \in Jobs, RunJoin(j) PROVE StoreTypes'
  BY <1>16
  DEF RunJoin, Complete, CountDropped, StoreTypes
<1>17. ASSUME NEW j \in Jobs, BatchDraw(j) PROVE StoreTypes'
  BY <1>17
  DEF BatchDraw, bump_route, StoreTypes, Strategies
<1>18. CASE CacheEvict
  BY <1>18
  DEF CacheEvict, StoreTypes, statVars
<1>19. CASE Shutdown
  BY <1>19
  DEF Shutdown, StoreTypes, statVars
<1> QED
  BY <1>1, <1>2, <1>3, <1>4, <1>5, <1>6, <1>7, <1>8, <1>9, <1>10, <1>11,
     <1>12, <1>13, <1>14, <1>15, <1>16, <1>17, <1>18, <1>19
  DEF Next, JobStep, WorkerStep, DispatcherStep, FlusherStep

-----------------------------------------------------------------------------
(* Permits *)

(* No call returns to a point before its work was handed on. *)
LEMMA NoWayBack ==
  ASSUME CallTypes, [Next]_vars, NEW o \in Jobs
  PROVE  /\ pc'[o] \in {"new", "decided"} => pc[o] \in {"new", "decided"}
         /\ pc'[o] = "awaitPermit" =>
            \/ pc[o] = "awaitPermit"
            \/ pc[o] = "decided" /\ JobSpec[o].api = "run"
<1> DEFINE Kept == /\ pc'[o] \in {"new", "decided"} => pc[o] \in {"new", "decided"}
                   /\ pc'[o] = "awaitPermit" =>
                      \/ pc[o] = "awaitPermit"
                      \/ pc[o] = "decided" /\ JobSpec[o].api = "run"
<1>1. ASSUME NEW j \in Jobs, WorkerReply(j) \/ WorkerRelease(j) \/ RunWork(j)
      PROVE  Kept
  BY <1>1 DEF WorkerReply, WorkerRelease, RunWork
<1>2. ASSUME UNCHANGED vars \/ DispatchRecv \/ DispatchAcquire \/ DispatchExit \/
             FlusherWake \/ FlusherFlush \/ FlusherSleep \/
             FlusherExit \/ CacheEvict \/ Shutdown
      PROVE  Kept
  BY <1>2
  DEF vars, DispatchRecv, DispatchAcquire, DispatchExit, FlusherWake,
      FlusherFlush, FlusherSleep, FlusherExit, CacheEvict, Shutdown
<1>3. ASSUME NEW j \in Jobs, DeadlineExceeded(j) PROVE Kept
  BY <1>3 DEF DeadlineExceeded, CountDropped, Goto, CallTypes
<1>4. ASSUME NEW j \in Jobs, ZeroCost(j) PROVE Kept
  BY <1>4 DEF ZeroCost, Goto, CallTypes
<1>5. ASSUME NEW j \in Jobs, CacheHit(j) PROVE Kept
  BY <1>5 DEF CacheHit, Complete, Goto, CallTypes
<1>6. ASSUME NEW j \in Jobs, Decide(j) PROVE Kept
  BY <1>6 DEF Decide, Goto, CallTypes
<1>7. ASSUME NEW j \in Jobs, DropJob(j) PROVE Kept
  BY <1>7 DEF DropJob, CountDropped, Goto, CallTypes
<1>8. ASSUME NEW j \in Jobs, RunInline(j) PROVE Kept
  BY <1>8 DEF RunInline, Goto, CallTypes
<1>9. ASSUME NEW j \in Jobs, CountInline(j) PROVE Kept
  BY <1>9 DEF CountInline, Complete, Goto, CallTypes
<1>10. ASSUME NEW j \in Jobs, RunInlineWork(j) PROVE Kept
  BY <1>10 DEF RunInlineWork, Complete, Goto, CallTypes
<1>11. ASSUME NEW j \in Jobs, Return(j) PROVE Kept
  BY <1>11 DEF Return, Goto, CallTypes
<1>12. ASSUME NEW j \in Jobs, SpawnTask(j) PROVE Kept
  BY <1>12 DEF SpawnTask, Goto, CallTypes
<1>13. ASSUME NEW j \in Jobs, SpawnJoin(j) PROVE Kept
  BY <1>13 DEF SpawnJoin, Complete, CountDropped, Goto, CallTypes
<1>14. ASSUME NEW j \in Jobs, CpuSend(j) PROVE Kept
  BY <1>14 DEF CpuSend, CountDropped, Goto, CallTypes
<1>15. ASSUME NEW j \in Jobs, CpuCount(j) PROVE Kept
  BY <1>15 DEF CpuCount, Goto, CallTypes
<1>16. ASSUME NEW j \in Jobs, ReplyReceived(j) PROVE Kept
  BY <1>16 DEF ReplyReceived, Complete, CountDropped, Goto, CallTypes
<1>17. ASSUME NEW j \in Jobs, RunAwaitPermit(j) PROVE Kept
  BY <1>17 DEF RunAwaitPermit, Goto, CallTypes
<1>18. ASSUME NEW j \in Jobs, RunAcquire(j) PROVE Kept
  BY <1>18 DEF RunAcquire, Goto, CallTypes
<1>19. ASSUME NEW j \in Jobs, RunJoin(j) PROVE Kept
  BY <1>19 DEF RunJoin, Complete, CountDropped, Goto, CallTypes
<1>20. ASSUME NEW j \in Jobs, BatchDraw(j) PROVE Kept
  BY <1>20 DEF BatchDraw, Goto, CallTypes
<1>21. ASSUME NEW j \in Jobs, BatchPush(j) PROVE Kept
  BY <1>21 DEF BatchPush, Goto, CallTypes
<1>22. ASSUME NEW j \in Jobs, SubmitterTake(j) PROVE Kept
  BY <1>22 DEF SubmitterTake, Goto, CallTypes
<1>23. ASSUME NEW j \in Jobs, SubmitterFlushed(j) PROVE Kept
  BY <1>23 DEF SubmitterFlushed, Goto, CallTypes
<1>24. ASSUME NEW j \in Jobs, Cancel(j) PROVE Kept
  BY <1>24 DEF Cancel, Goto, CallTypes
<1>25. ASSUME NEW j \in Jobs, SubmitterFlush(j) PROVE Kept
  BY <1>25 DEF SubmitterFlush, FlushOne, Goto, CallTypes
<1> QED
  BY <1>1, <1>2, <1>3, <1>4, <1>5, <1>6, <1>7, <1>8, <1>9, <1>10, <1>11,
     <1>12, <1>13, <1>14, <1>15, <1>16, <1>17, <1>18, <1>19, <1>20,
     <1>21, <1>22, <1>23, <1>24, <1>25
  DEF Next, JobStep, WorkerStep, DispatcherStep, FlusherStep

(* Every step keeps work queued once and without a worker. *)
LEMMA PoolInvStep ==
  ASSUME CallTypes, PoolTypes, PoolInv, [Next]_vars
  PROVE  PoolInv'
<1>0. \A o \in Jobs :
        /\ pc'[o] \in {"new", "decided"} => pc[o] \in {"new", "decided"}
        /\ pc'[o] = "awaitPermit" =>
           \/ pc[o] = "awaitPermit"
           \/ pc[o] = "decided" /\ JobSpec[o].api = "run"
  BY NoWayBack
<1> USE <1>0, CoreAssumption DEF CoreAssumption
<1>1. CASE UNCHANGED poolVars
  BY <1>1 DEF PoolInv, FreshCalls, QueueInv, HeldInv, PoolTypes, poolVars
<1>2. ASSUME NEW j \in Jobs, CpuSend(j) PROVE PoolInv'
  <2>1. FreshCalls'
    BY <1>2 DEF CpuSend, CountDropped, Goto, PoolInv, FreshCalls, QueueInv, HeldInv,
        PoolTypes, CallTypes
  <2>2. QueueInv'
    <3>1. CASE UNCHANGED cpu_tx
      BY <1>2, <3>1 DEF CpuSend, PoolInv, QueueInv, PoolTypes
    <3>2. CASE cpu_tx' = Append(cpu_tx, j)
      <4>1. JobSpec[j].api = "submit" /\ worker[j] = "none" /\ j # held
        BY <1>2 DEF CpuSend, PoolInv, FreshCalls, HeldInv, CallTypes
      <4>2. ASSUME NEW i \in DOMAIN cpu_tx
            PROVE  cpu_tx[i] \in Jobs /\ cpu_tx[i] # j
        BY <1>2 DEF CpuSend, PoolInv, QueueInv, PoolTypes
      <4>3. /\ pc'[j] \notin {"new", "decided"}
            /\ worker' = worker /\ held' = held
        BY <1>2, <3>2 DEF CpuSend, CountDropped, Goto, CallTypes
      <4>4. /\ DOMAIN cpu_tx' = 1 .. Len(cpu_tx) + 1
            /\ DOMAIN cpu_tx = 1 .. Len(cpu_tx) /\ Len(cpu_tx) \in Nat
            /\ \A i \in DOMAIN cpu_tx : cpu_tx'[i] = cpu_tx[i]
            /\ cpu_tx'[Len(cpu_tx) + 1] = j
        BY <3>2 DEF PoolTypes
      <4> QED
        BY <4>1, <4>2, <4>3, <4>4 DEF PoolInv, QueueInv
    <3> QED
      BY <1>2, <3>1, <3>2 DEF CpuSend
  <2>3. HeldInv'
    BY <1>2 DEF CpuSend, CountDropped, Goto, PoolInv, FreshCalls, QueueInv, HeldInv,
        PoolTypes, CallTypes
  <2> QED
    BY <2>1, <2>2, <2>3 DEF PoolInv
<1>3. ASSUME NEW j \in Jobs, CpuCount(j) PROVE PoolInv'
  <2>1. FreshCalls'
    BY <1>3 DEF CpuCount, Goto, PoolInv, FreshCalls, QueueInv, HeldInv, PoolTypes,
        CallTypes
  <2>2. QueueInv'
    BY <1>3 DEF CpuCount, Goto, PoolInv, FreshCalls, QueueInv, HeldInv, PoolTypes,
        CallTypes
  <2>3. HeldInv'
    BY <1>3 DEF CpuCount, Goto, PoolInv, FreshCalls, QueueInv, HeldInv, PoolTypes,
        CallTypes
  <2> QED
    BY <2>1, <2>2, <2>3 DEF PoolInv
<1>4. ASSUME NEW j \in Jobs, RunAcquire(j) PROVE PoolInv'
  <2>1. FreshCalls'
    BY <1>4 DEF RunAcquire, Goto, PoolInv, FreshCalls, QueueInv, HeldInv, PoolTypes,
        CallTypes
  <2>2. QueueInv'
    <3>1. ASSUME NEW i \in DOMAIN cpu_tx
          PROVE  /\ cpu_tx[i] \in Jobs /\ cpu_tx[i] # j
                 /\ worker'[cpu_tx[i]] = "none"
      <4>1. JobSpec[j].api = "run"
        BY <1>4 DEF RunAcquire, PoolInv, FreshCalls
      <4> QED
        BY <1>4, <4>1 DEF RunAcquire, PoolInv, QueueInv, PoolTypes
    <3>2. UNCHANGED <<cpu_tx, held>>
      BY <1>4 DEF RunAcquire
    <3>3. \A i \in DOMAIN cpu_tx : pc'[cpu_tx[i]] \notin {"new", "decided"}
      BY <3>1 DEF PoolInv, QueueInv
    <3> QED
      BY <3>1, <3>2, <3>3 DEF PoolInv, QueueInv
  <2>3. HeldInv'
    <3>1. held # j
      BY <1>4 DEF RunAcquire, PoolInv, FreshCalls, HeldInv
    <3> QED
      BY <1>4, <3>1 DEF RunAcquire, PoolInv, HeldInv, PoolTypes
  <2> QED
    BY <2>1, <2>2, <2>3 DEF PoolInv
<1>5. ASSUME NEW j \in Jobs, WorkerReply(j) PROVE PoolInv'
  <2>1. FreshCalls'
    BY <1>5 DEF WorkerReply, PoolInv, FreshCalls, QueueInv, HeldInv, PoolTypes,
        CallTypes
  <2>2. QueueInv'
    BY <1>5 DEF WorkerReply, PoolInv, FreshCalls, QueueInv, HeldInv, PoolTypes,
        CallTypes
  <2>3. HeldInv'
    BY <1>5 DEF WorkerReply, PoolInv, FreshCalls, QueueInv, HeldInv, PoolTypes,
        CallTypes
  <2> QED
    BY <2>1, <2>2, <2>3 DEF PoolInv
<1>6. ASSUME NEW j \in Jobs, WorkerRelease(j) PROVE PoolInv'
  <2>1. FreshCalls'
    BY <1>6 DEF WorkerRelease, PoolInv, FreshCalls, QueueInv, HeldInv, PoolTypes,
        CallTypes
  <2>2. QueueInv'
    BY <1>6 DEF WorkerRelease, PoolInv, FreshCalls, QueueInv, HeldInv, PoolTypes,
        CallTypes
  <2>3. HeldInv'
    BY <1>6 DEF WorkerRelease, PoolInv, FreshCalls, QueueInv, HeldInv, PoolTypes,
        CallTypes
  <2> QED
    BY <2>1, <2>2, <2>3 DEF PoolInv
<1>7. ASSUME NEW j \in Jobs, RunWork(j) PROVE PoolInv'
  <2>1. FreshCalls'
    BY <1>7 DEF RunWork, PoolInv, FreshCalls, QueueInv, HeldInv, PoolTypes, CallTypes
  <2>2. QueueInv'
    BY <1>7 DEF RunWork, PoolInv, FreshCalls, QueueInv, HeldInv, PoolTypes, CallTypes
  <2>3. HeldInv'
    BY <1>7 DEF RunWork, PoolInv, FreshCalls, QueueInv, HeldInv, PoolTypes, CallTypes
  <2> QED
    BY <2>1, <2>2, <2>3 DEF PoolInv
<1>8. CASE DispatchRecv
  <2>1. FreshCalls'
    BY <1>8 DEF DispatchRecv, PoolInv, FreshCalls, QueueInv, HeldInv, PoolTypes,
        CallTypes
  <2>2. QueueInv'
    <3>1. /\ cpu_tx \in Seq(Jobs) /\ cpu_tx # <<>> /\ cpu_tx' = Tail(cpu_tx)
          /\ held' = cpu_tx[1] /\ UNCHANGED <<worker, pc>>
      BY <1>8 DEF DispatchRecv, PoolTypes
    <3>2. ASSUME NEW i \in DOMAIN cpu_tx'
          PROVE  /\ i \in Nat /\ i + 1 \in DOMAIN cpu_tx /\ 1 \in DOMAIN cpu_tx
                 /\ cpu_tx'[i] = cpu_tx[i + 1] /\ i + 1 # 1
      BY <3>1, <3>2
    <3>3. ASSUME NEW i \in DOMAIN cpu_tx', NEW k \in DOMAIN cpu_tx', cpu_tx'[i] = cpu_tx'[k]
          PROVE  i = k
      <4>1. i + 1 = k + 1
        BY <3>2, <3>3 DEF PoolInv, QueueInv
      <4> QED
        BY <3>2, <4>1
    <3>4. ASSUME NEW i \in DOMAIN cpu_tx'
          PROVE  /\ worker[cpu_tx'[i]] = "none" /\ JobSpec[cpu_tx'[i]].api = "submit"
                 /\ pc[cpu_tx'[i]] \notin {"new", "decided"} /\ cpu_tx'[i] # held'
      BY <3>1, <3>2 DEF PoolInv, QueueInv
    <3> QED
      BY <3>1, <3>3, <3>4 DEF QueueInv
  <2>3. HeldInv'
    BY <1>8 DEF DispatchRecv, PoolInv, FreshCalls, QueueInv, HeldInv, PoolTypes,
        CallTypes
  <2> QED
    BY <2>1, <2>2, <2>3 DEF PoolInv
<1>9. CASE DispatchAcquire
  <2>1. FreshCalls'
    BY <1>9 DEF DispatchAcquire, PoolInv, FreshCalls, QueueInv, HeldInv, PoolTypes,
        CallTypes
  <2>2. QueueInv'
    <3>1. ASSUME NEW i \in DOMAIN cpu_tx
          PROVE  /\ cpu_tx[i] \in Jobs /\ cpu_tx[i] # held
                 /\ worker'[cpu_tx[i]] = "none"
      BY <1>9 DEF DispatchAcquire, PoolInv, QueueInv, PoolTypes
    <3> QED
      BY <1>9, <3>1 DEF DispatchAcquire, PoolInv, QueueInv, PoolTypes
  <2>3. HeldInv'
    BY <1>9 DEF DispatchAcquire, PoolInv, FreshCalls, QueueInv, HeldInv, PoolTypes,
        CallTypes
  <2> QED
    BY <2>1, <2>2, <2>3 DEF PoolInv
<1>10. CASE DispatchExit
  <2>1. FreshCalls'
    BY <1>10 DEF DispatchExit, PoolInv, FreshCalls, QueueInv, HeldInv, PoolTypes,
        CallTypes
  <2>2. QueueInv'
    BY <1>10 DEF DispatchExit, PoolInv, FreshCalls, QueueInv, HeldInv, PoolTypes,
        CallTypes
  <2>3. HeldInv'
    BY <1>10 DEF DispatchExit, PoolInv, FreshCalls, QueueInv, HeldInv, PoolTypes,
        CallTypes
  <2> QED
    BY <2>1, <2>2, <2>3 DEF PoolInv
<1> QED
  BY <1>1, <1>2, <1>3, <1>4, <1>5, <1>6, <1>7, <1>8, <1>9, <1>10, PoolActions

(* The calls that hold a permit are finitely many. *)
LEMMA HoldersFinite ==
  /\ IsFiniteSet(Holders) /\ Cardinality(Holders) \in Nat
<1>1. Holders \subseteq Jobs /\ IsFiniteSet(Jobs)
  BY CoreAssumption DEF Holders, CoreAssumption
<1> QED
  BY <1>1, FS_Subset, FS_CardinalityType

(* Every step that takes a permit adds a holder, every step that gives one   *)
(* back removes one.                                                         *)
LEMMA PermitStep ==
  ASSUME PoolTypes, PoolInv, PermitConservation, [Next]_vars
  PROVE  PermitConservation'
<1>1. IsFiniteSet(Holders) /\ Cardinality(Holders) \in Nat
  BY HoldersFinite
<1>2. Cfg.cpu_parallelism \in Nat
  BY CoreAssumption DEF CoreAssumption, Configs
<1>3. ASSUME cpu_slots' = cpu_slots, Holders' = Holders
      PROVE  PermitConservation'
  BY <1>3 DEF PermitConservation
<1>4. ASSUME NEW j, j \notin Holders, Holders' = Holders \cup {j},
             cpu_slots' = cpu_slots - 1
      PROVE  PermitConservation'
  <2>1. Cardinality(Holders') = Cardinality(Holders) + 1
    BY <1>1, <1>4, FS_AddElement
  <2> QED
    BY <1>1, <1>2, <1>4, <2>1 DEF PermitConservation, PoolTypes
<1>5. ASSUME NEW j, j \in Holders, Holders' = Holders \ {j},
             cpu_slots' = cpu_slots + 1
      PROVE  PermitConservation'
  <2>1. Cardinality(Holders') = Cardinality(Holders) - 1
    BY <1>1, <1>5, FS_RemoveElement
  <2> QED
    BY <1>1, <1>2, <1>5, <2>1 DEF PermitConservation, PoolTypes
<1>6. CASE UNCHANGED poolVars
  BY <1>3, <1>6 DEF Holders, poolVars
<1>7. ASSUME NEW j \in Jobs, CpuSend(j) \/ CpuCount(j)
      PROVE  PermitConservation'
  BY <1>3, <1>7 DEF CpuSend, CpuCount, Holders
<1>8. CASE DispatchRecv \/ DispatchExit
  BY <1>3, <1>8 DEF DispatchRecv, DispatchExit, Holders
<1>9. ASSUME NEW j \in Jobs, WorkerReply(j)
      PROVE  PermitConservation'
  <2>1. Holders' = Holders
    BY <1>9 DEF WorkerReply, Holders, PoolTypes
  <2> QED
    BY <1>3, <1>9, <2>1 DEF WorkerReply
<1>10. CASE DispatchAcquire
  <2>1. held \in Jobs /\ held \notin Holders
    BY <1>10, CoreAssumption
    DEF DispatchAcquire, PoolInv, HeldInv, PoolTypes, Holders, CoreAssumption
  <2>2. Holders' = Holders \cup {held}
    BY <1>10, <2>1 DEF DispatchAcquire, Holders, PoolTypes
  <2> QED
    BY <1>4, <1>10, <2>1, <2>2 DEF DispatchAcquire
<1>11. ASSUME NEW j \in Jobs, RunAcquire(j)
       PROVE  PermitConservation'
  <2>1. j \notin Holders
    BY <1>11 DEF RunAcquire, PoolInv, FreshCalls, Holders
  <2>2. Holders' = Holders \cup {j}
    BY <1>11 DEF RunAcquire, Holders, PoolTypes
  <2> QED
    BY <1>4, <1>11, <2>1, <2>2 DEF RunAcquire
<1>12. ASSUME NEW j \in Jobs, WorkerRelease(j)
       PROVE  PermitConservation'
  <2>1. j \in Holders
    BY <1>12 DEF WorkerRelease, Holders
  <2>2. Holders' = Holders \ {j}
    BY <1>12 DEF WorkerRelease, Holders, PoolTypes
  <2> QED
    BY <1>5, <1>12, <2>1, <2>2 DEF WorkerRelease
<1>13. ASSUME NEW j \in Jobs, RunWork(j)
       PROVE  PermitConservation'
  <2>1. j \in Holders
    BY <1>13 DEF RunWork, Holders
  <2>2. Holders' = Holders \ {j}
    BY <1>13 DEF RunWork, Holders, PoolTypes
  <2> QED
    BY <1>5, <1>13, <2>1, <2>2 DEF RunWork
<1> QED
  BY <1>6, <1>7, <1>8, <1>9, <1>10, <1>11, <1>12, <1>13, PoolActions

-----------------------------------------------------------------------------
(* The inductive invariant *)

(* A permit is taken only when one is free. *)
LEMMA PermitsNonNegative ==
  ASSUME TypeOK, [Next]_vars
  PROVE  cpu_slots' >= 0
<1>0. cpu_slots \in Nat
  BY CoreAssumption DEF TypeOK, CoreAssumption, Configs
<1>1. CASE UNCHANGED poolVars
  BY <1>0, <1>1 DEF poolVars
<1>2. ASSUME NEW j \in Jobs,
             \/ CpuSend(j) \/ CpuCount(j) \/ RunAcquire(j)
             \/ WorkerReply(j) \/ WorkerRelease(j) \/ RunWork(j)
      PROVE  cpu_slots' >= 0
  BY <1>0, <1>2
  DEF CpuSend, CpuCount, RunAcquire, WorkerReply, WorkerRelease, RunWork
<1>3. CASE DispatchRecv \/ DispatchAcquire \/ DispatchExit
  BY <1>0, <1>3 DEF DispatchRecv, DispatchAcquire, DispatchExit
<1> QED
  BY <1>1, <1>2, <1>3, PoolActions

(* The initial state satisfies it. *)
LEMMA InitIInv == Init => IInv
<1> SUFFICES ASSUME Init PROVE IInv
  OBVIOUS
<1> USE CoreAssumption DEF CoreAssumption
<1>1. CallTypes
  BY DEF Init, CallTypes, PCs
<1>2. PoolTypes
  BY DEF Init, PoolTypes, Configs
<1>3. BatchTypes
  BY DEF Init, BatchTypes
<1>4. StoreTypes
  BY DEF Init, StoreTypes
<1>5. PermitConservation
  <2>1. Holders = {}
    BY DEF Init, Holders
  <2> QED
    BY <2>1, FS_EmptySet DEF Init, PermitConservation, Configs
<1>6. cpu_slots \in 0 .. Cfg.cpu_parallelism
  BY DEF Init, Configs
<1>7. PoolInv
  BY DEF Init, PoolInv, FreshCalls, QueueInv, HeldInv
<1> QED
  BY <1>1, <1>2, <1>3, <1>4, <1>5, <1>6, <1>7 DEF IInv, TypeOK

(* Every step preserves it. *)
LEMMA NextIInv == IInv /\ [Next]_vars => IInv'
<1> SUFFICES ASSUME IInv, [Next]_vars PROVE IInv'
  OBVIOUS
<1>1. CallTypes'
  BY CallTypesStep DEF IInv, TypeOK
<1>2. PoolTypes'
  BY PoolTypesStep DEF IInv, TypeOK, PoolInv
<1>3. BatchTypes'
  BY BatchTypesStep DEF IInv, TypeOK
<1>4. StoreTypes'
  BY StoreTypesStep DEF IInv, TypeOK
<1>5. PoolInv'
  BY PoolInvStep DEF IInv, TypeOK
<1>6. PermitConservation'
  BY PermitStep DEF IInv, TypeOK
<1>7. cpu_slots' >= 0
  BY PermitsNonNegative DEF IInv
<1>8. (cpu_slots \in 0 .. Cfg.cpu_parallelism)'
  <2>1. (Cardinality(Holders) \in Nat)' /\ Cfg.cpu_parallelism \in Nat
    <3>1. Holders' \subseteq Jobs /\ IsFiniteSet(Jobs)
      BY CoreAssumption DEF Holders, CoreAssumption
    <3>2. Cardinality(Holders') \in Nat
      BY <3>1, FS_Subset, FS_CardinalityType
    <3> QED
      BY <3>2, CoreAssumption DEF CoreAssumption, Configs
  <2> QED
    BY <1>2, <1>6, <1>7, <2>1 DEF PermitConservation, PoolTypes
<1> QED
  BY <1>1, <1>2, <1>3, <1>4, <1>5, <1>6, <1>8 DEF IInv, TypeOK

-----------------------------------------------------------------------------
(* Theorems *)

(* The inductive invariant holds of every state the router reaches. *)
THEOREM Invariant == Spec => []IInv
  BY InitIInv, NextIInv, PTL DEF Spec

(* Every variable keeps its type, whatever calls, panics, cancellations and  *)
(* shutdown do: the gauge of the CPU queue stays a u64, and the free permits *)
(* stay between none and cpu_parallelism.                                    *)
THEOREM TypeCorrect == Spec => []TypeOK
<1>1. IInv => TypeOK
  BY DEF IInv
<1> QED
  BY <1>1, Invariant, PTL

(* The permits of cpu_dispatch_loop and of run are neither leaked nor freed  *)
(* twice.                                                                    *)
THEOREM PermitsConserved == Spec => []PermitConservation
<1>1. IInv => PermitConservation
  BY DEF IInv
<1> QED
  BY <1>1, Invariant, PTL

(* README.md: "The pool never ran more than cpu_parallelism jobs at once",   *)
(* the dispatcher's workers and the callers of run together.                 *)
PoolBound == Cardinality(Holders) <= Cfg.cpu_parallelism

THEOREM PoolBounded == Spec => []PoolBound
<1>1. IInv => PoolBound
  <2> SUFFICES ASSUME IInv PROVE PoolBound
    OBVIOUS
  <2> QED
    BY HoldersFinite, CoreAssumption
    DEF IInv, TypeOK, PermitConservation, PoolBound, CoreAssumption, Configs
<1> QED
  BY <1>1, Invariant, PTL

-----------------------------------------------------------------------------
(* The gauge                                                                 *)
(*                                                                           *)
(* It wraps at DepthMod: it may be below the backlog between a try_send and  *)
(* its fetch_add, and then has wrapped.  GaugeExact compares remainders, and *)
(* the lemmas on % carry each step through the wrap.                         *)

(* Any set of calls is finite. *)
LEMMA CallsFinite ==
  ASSUME NEW S, S \subseteq Jobs
  PROVE  IsFiniteSet(S) /\ Cardinality(S) \in Nat
  BY CoreAssumption, FS_Subset, FS_CardinalityType DEF CoreAssumption

(* A remainder and its quotient. *)
LEMMA Quotient ==
  ASSUME NEW m \in Nat \ {0}, NEW a \in Int
  PROVE  \E q \in Int : a % m \in 0 .. m - 1 /\ a = (a % m) + q * m
<1> DEFINE q == a \div m
           r == a - q * m
<1>1. q \in Int /\ q * m \in Int /\ q * m <= a /\ a < q * m + m
  OBVIOUS
<1>2. r \in 0 .. m - 1 /\ a = r + q * m
  BY <1>1
<1>3. ASSUME NEW d \in 0 .. m - 1, NEW n \in Int
      PROVE  (d + n * m) % m = d
  OBVIOUS
<1>4. a % m = r
  BY <1>1, <1>2, <1>3
<1> QED
  BY <1>1, <1>2, <1>4

(* A multiple of the modulus makes no difference. *)
LEMMA ModShift ==
  ASSUME NEW m \in Nat \ {0}, NEW a \in Int
  PROVE  (a + m) % m = a % m /\ (a - m) % m = a % m
<1>1. PICK q \in Int : a % m \in 0 .. m - 1 /\ a = (a % m) + q * m
  BY Quotient
<1> DEFINE d == a % m
<1>2. d \in 0 .. m - 1 /\ a = d + q * m
  BY <1>1
<1> HIDE DEF d
<1>3. ASSUME NEW i \in Int
      PROVE  (d + i * m) % m = d
  BY <1>2
<1>4. /\ q * m \in Int /\ (q + 1) * m = q * m + m /\ (q - 1) * m = q * m - m
      /\ q + 1 \in Int /\ q - 1 \in Int
  OBVIOUS
<1>5. a + m = d + (q + 1) * m /\ a - m = d + (q - 1) * m
  BY <1>2, <1>4
<1>6. (d + (q + 1) * m) % m = d /\ (d + (q - 1) * m) % m = d
  BY <1>3, <1>4
<1> QED
  BY <1>5, <1>6 DEF d

(* Equal remainders stay equal when the same number is added. *)
LEMMA Remainders ==
  ASSUME NEW m \in Nat \ {0}, NEW a \in Int, NEW b \in Int, NEW c \in Int, a % m = b % m
  PROVE  (a + c) % m = (b + c) % m
<1>1. PICK q \in Int : a % m \in 0 .. m - 1 /\ a = (a % m) + q * m
  BY Quotient
<1>2. PICK n \in Int : b = (b % m) + n * m
  BY Quotient
<1>3. b + c \in Int
  OBVIOUS
<1>4. PICK k \in Int : (b + c) % m \in 0 .. m - 1 /\ b + c = ((b + c) % m) + k * m
  BY <1>3, Quotient
<1> DEFINE d == (b + c) % m
           i == k + q - n
<1>5. i \in Int /\ d \in 0 .. m - 1 /\ b + c = d + k * m
  BY <1>4
<1> HIDE DEF d
<1>6. a + c = d + i * m
  <2>1. q * m \in Int /\ n * m \in Int /\ k * m \in Int
    OBVIOUS
  <2>2. i * m = k * m + q * m - n * m
    OBVIOUS
  <2>3. a - b = q * m - n * m
    BY <1>1, <1>2, <2>1
  <2> QED
    BY <1>5, <2>1, <2>2, <2>3
<1> HIDE DEF i
<1>7. (d + i * m) % m = d
  BY <1>5
<1> QED
  BY <1>6, <1>7 DEF d

(* One more, or one less. *)
LEMMA OneMore ==
  ASSUME NEW m \in Nat \ {0}, NEW a \in Int, NEW b \in Int, a % m = b % m
  PROVE  (a + 1) % m = (b + 1) % m /\ (a - 1) % m = (b - 1) % m
<1>1. ASSUME NEW c \in Int
      PROVE  (a + c) % m = (b + c) % m
  BY Remainders
<1>2. PICK c \in Int : c = 1
  OBVIOUS
<1>3. PICK e \in Int : e = -1
  OBVIOUS
<1>4. a + c = a + 1 /\ b + c = b + 1 /\ a + e = a - 1 /\ b + e = b - 1
  BY <1>2, <1>3
<1>5. (a + c) % m = (b + c) % m /\ (a + e) % m = (b + e) % m
  BY <1>1
<1> QED
  BY <1>4, <1>5

(* The gauge wraps, and a sum with it does not notice. *)
LEMMA GaugeWraps ==
  ASSUME NEW d \in 0 .. DepthMod - 1, NEW s \in Int
  PROVE  /\ (((d + 1) % DepthMod) + s) % DepthMod = (d + 1 + s) % DepthMod
         /\ (((d + DepthMod - 1) % DepthMod) + s) % DepthMod = (d - 1 + s) % DepthMod
<1>1. DepthMod \in Nat \ {0}
  BY CoreAssumption DEF CoreAssumption
<1>2. ASSUME NEW m \in Nat \ {0}, NEW x \in 0 .. m - 1
      PROVE  /\ (x + 1) % m = IF x = m - 1 THEN 0 ELSE x + 1
             /\ (x + m - 1) % m = IF x = 0 THEN m - 1 ELSE x - 1
  OBVIOUS
<1>3. (d + 1) % DepthMod = IF d = DepthMod - 1 THEN 0 ELSE d + 1
  BY <1>1, <1>2
<1>4. (d + DepthMod - 1) % DepthMod = IF d = 0 THEN DepthMod - 1 ELSE d - 1
  BY <1>1, <1>2
<1> DEFINE up == d + 1 + s
           down == d - 1 + s
<1>5. up \in Int /\ down \in Int
  BY <1>1
<1>6. /\ d = DepthMod - 1 => up - DepthMod = 0 + s
      /\ d = 0 => down + DepthMod = DepthMod - 1 + s
  BY <1>1
<1> HIDE DEF up, down
<1>7. (up - DepthMod) % DepthMod = up % DepthMod
  BY <1>1, <1>5, ModShift
<1>8. (down + DepthMod) % DepthMod = down % DepthMod
  BY <1>1, <1>5, ModShift
<1>9. (((d + 1) % DepthMod) + s) % DepthMod = up % DepthMod
  BY <1>3, <1>6, <1>7 DEF up
<1>10. (((d + DepthMod - 1) % DepthMod) + s) % DepthMod = down % DepthMod
  BY <1>4, <1>6, <1>8 DEF down
<1> QED
  BY <1>9, <1>10 DEF up, down

(* The two sides of GaugeExact. *)
Sent == {j \in Jobs : pc[j] = "sent"}
Backlog == Len(cpu_tx) + IF held = Nobody THEN 0 ELSE 1

(* A submit is between its try_send and its fetch_add by these two alone. *)
LEMMA SentActions ==
  ASSUME CallTypes, [Next]_vars
  PROVE  Sent' = Sent \/ \E j \in Jobs : CpuSend(j) \/ CpuCount(j)
<1>1. ASSUME NEW j \in Jobs, NEW l, pc' = [pc EXCEPT ![j] = l], pc[j] # "sent", l # "sent"
      PROVE  Sent' = Sent
  BY <1>1 DEF CallTypes, Sent
<1>2. ASSUME NEW j \in Jobs,
             \/ DeadlineExceeded(j) \/ ZeroCost(j) \/ CacheHit(j) \/ Decide(j) \/ DropJob(j)
             \/ RunInline(j) \/ CountInline(j) \/ RunInlineWork(j) \/ Return(j)
             \/ SpawnTask(j) \/ SpawnJoin(j) \/ ReplyReceived(j)
      PROVE  Sent' = Sent
  <2>1. pc[j] # "sent"
    BY <1>2
    DEF DeadlineExceeded, ZeroCost, CacheHit, Decide, DropJob, RunInline, CountInline,
        RunInlineWork, Return, SpawnTask, SpawnJoin, ReplyReceived
  <2>2. \E l : l # "sent" /\ pc' = [pc EXCEPT ![j] = l]
    BY <1>2
    DEF DeadlineExceeded, ZeroCost, CacheHit, Decide, DropJob, RunInline, CountInline,
        RunInlineWork, Return, SpawnTask, SpawnJoin, ReplyReceived, Complete,
        CountDropped, Goto
  <2> QED
    BY <1>1, <2>1, <2>2
<1>3. ASSUME NEW j \in Jobs,
             \/ RunAwaitPermit(j) \/ RunAcquire(j) \/ RunJoin(j) \/ BatchDraw(j)
             \/ BatchPush(j) \/ SubmitterTake(j) \/ SubmitterFlush(j)
             \/ SubmitterFlushed(j) \/ Cancel(j)
      PROVE  Sent' = Sent
  <2>1. pc[j] # "sent"
    BY <1>3
    DEF RunAwaitPermit, RunAcquire, RunJoin, BatchDraw, BatchPush, SubmitterTake,
        SubmitterFlush, SubmitterFlushed, Cancel, AwaitPCs
  <2>2. \E l : l # "sent" /\ pc' = [pc EXCEPT ![j] = l]
    BY <1>3
    DEF RunAwaitPermit, RunAcquire, RunJoin, BatchDraw, BatchPush, SubmitterTake,
        SubmitterFlush, SubmitterFlushed, Cancel, Complete, CountDropped, Goto
  <2> QED
    BY <1>1, <2>1, <2>2
<1>4. ASSUME \/ UNCHANGED vars \/ (\E j \in Jobs : WorkerStep(j)) \/ DispatcherStep
             \/ FlusherStep \/ CacheEvict \/ Shutdown
      PROVE  UNCHANGED pc
  BY <1>4
  DEF vars, WorkerStep, WorkerReply, WorkerRelease, RunWork, DispatcherStep,
      DispatchRecv, DispatchAcquire, DispatchExit, FlusherStep, FlusherWake,
      FlusherFlush, FlusherSleep, FlusherExit, CacheEvict, Shutdown
<1>5. UNCHANGED pc => Sent' = Sent
  BY DEF Sent
<1> QED
  BY <1>2, <1>3, <1>4, <1>5 DEF Next, JobStep

(* They are numbers. *)
LEMMA GaugeTypes ==
  ASSUME PoolTypes
  PROVE  /\ IsFiniteSet(Sent) /\ Cardinality(Sent) \in Nat
         /\ Backlog \in Nat /\ Len(cpu_tx) \in Nat
         /\ cpu_queue_depth \in 0 .. DepthMod - 1 /\ cpu_queue_depth \in Int
         /\ DepthMod \in Nat \ {0}
<1>1. Sent \subseteq Jobs
  BY DEF Sent
<1>2. DepthMod \in Nat \ {0}
  BY CoreAssumption DEF CoreAssumption
<1> QED
  BY <1>1, <1>2, CallsFinite DEF PoolTypes, Backlog

(* The dispatcher never comes back once it has exited. *)
LEMMA ExitedStays ==
  ASSUME [Next]_vars, dispatcher = "exited"
  PROVE  dispatcher' = "exited"
  BY PoolActions
  DEF poolVars, CpuSend, CpuCount, RunAcquire, WorkerReply, WorkerRelease, RunWork,
      DispatchRecv, DispatchAcquire, DispatchExit

(* Every step keeps the gauge exact: what try_send adds to the backlog is    *)
(* owed to the gauge until fetch_add, and fetch_sub takes off both.          *)
LEMMA GaugeExactStep ==
  ASSUME CallTypes, PoolTypes, HeldInv, GaugeExact, [Next]_vars
  PROVE  GaugeExact'
<1> DEFINE d == cpu_queue_depth
           n == Cardinality(Sent)
<1> SUFFICES ASSUME dispatcher' # "exited"
             PROVE  (d' + n') % DepthMod = Backlog' % DepthMod
  BY DEF GaugeExact, Sent, Backlog
<1>1. /\ IsFiniteSet(Sent) /\ n \in Nat /\ Backlog \in Nat /\ Len(cpu_tx) \in Nat
      /\ d \in 0 .. DepthMod - 1 /\ d \in Int /\ DepthMod \in Nat \ {0}
  BY GaugeTypes
<1>2. (d + n) % DepthMod = Backlog % DepthMod
  BY ExitedStays DEF GaugeExact, Sent, Backlog
<1>3. CASE d' = d /\ n' = n /\ Backlog' = Backlog
  BY <1>2, <1>3
<1>4. ASSUME NEW j \in Jobs, CpuSend(j), j \notin Sent, Sent' = Sent \cup {j}
      PROVE  d' = d /\ n' = n + 1
  BY <1>1, <1>4, FS_AddElement DEF CpuSend
<1>5. ASSUME NEW j \in Jobs, CpuSend(j)
      PROVE  (d' + n') % DepthMod = Backlog' % DepthMod
  <2>1. CASE UNCHANGED cpu_tx
    <3>1. Sent' = Sent /\ UNCHANGED <<d, held>>
      BY <1>5, <2>1, <1>1 DEF CpuSend, CountDropped, Goto, Sent, CallTypes, PoolTypes
    <3> QED
      BY <1>3, <2>1, <3>1 DEF Backlog
  <2>2. CASE cpu_tx' = Append(cpu_tx, j) /\ Goto(j, "sent")
    <3>1. j \notin Sent /\ Sent' = Sent \cup {j}
      BY <1>5, <2>2 DEF CpuSend, Goto, Sent, CallTypes
    <3>2. d' = d /\ n' = n + 1
      BY <1>4, <1>5, <3>1
    <3>3. Backlog' = Backlog + 1
      BY <1>1, <1>5, <2>2 DEF CpuSend, Backlog, PoolTypes
    <3>4. (d + n + 1) % DepthMod = (Backlog + 1) % DepthMod
      <4> DEFINE a == d + n
                 b == Backlog
      <4>1. a \in Int /\ b \in Int /\ a % DepthMod = b % DepthMod
        BY <1>1, <1>2
      <4> HIDE DEF a, b
      <4>2. (a + 1) % DepthMod = (b + 1) % DepthMod
        BY <1>1, <4>1, OneMore
      <4> QED
        BY <4>2 DEF a, b
    <3> QED
      BY <1>1, <3>2, <3>3, <3>4
  <2> QED
    BY <1>5, <2>1, <2>2 DEF CpuSend
<1>6. ASSUME NEW j \in Jobs, CpuCount(j)
      PROVE  (d' + n') % DepthMod = Backlog' % DepthMod
  <2>1. j \in Sent /\ Sent' = Sent \ {j}
    BY <1>6 DEF CpuCount, Goto, Sent, CallTypes
  <2>2. n' = n - 1
    BY <1>1, <2>1, FS_RemoveElement
  <2>3. d' = (d + 1) % DepthMod /\ Backlog' = Backlog
    BY <1>6 DEF CpuCount, Backlog
  <2> DEFINE s == n - 1
  <2>4. s \in Int /\ d + 1 + s = d + n
    BY <1>1
  <2> HIDE DEF s
  <2>5. (d' + s) % DepthMod = (d + 1 + s) % DepthMod
    BY <1>1, <2>3, <2>4, GaugeWraps
  <2> QED
    BY <1>2, <2>2, <2>3, <2>4, <2>5 DEF s
<1>7. CASE Sent' = Sent /\ UNCHANGED poolVars
  BY <1>3, <1>7 DEF poolVars, Backlog
<1>8. ASSUME NEW j \in Jobs, RunAcquire(j) \/ WorkerReply(j) \/ WorkerRelease(j) \/ RunWork(j),
             Sent' = Sent
      PROVE  (d' + n') % DepthMod = Backlog' % DepthMod
  BY <1>3, <1>8 DEF RunAcquire, WorkerReply, WorkerRelease, RunWork, Backlog
<1>9. CASE DispatchRecv /\ Sent' = Sent
  <2>1. Backlog' = Backlog
    <3>1. /\ held = Nobody /\ held' # Nobody /\ Len(cpu_tx') = Len(cpu_tx) - 1
      BY <1>9, CoreAssumption DEF DispatchRecv, HeldInv, PoolTypes, CoreAssumption
    <3> QED
      BY <1>1, <3>1 DEF Backlog
  <2> QED
    BY <1>3, <1>9, <2>1 DEF DispatchRecv
<1>10. CASE DispatchAcquire /\ Sent' = Sent
  <2>1. /\ held # Nobody /\ held' = Nobody /\ UNCHANGED cpu_tx
        /\ d' = (d + DepthMod - 1) % DepthMod
    BY <1>10 DEF DispatchAcquire, HeldInv
  <2>2. Backlog' = Backlog - 1
    BY <1>1, <2>1 DEF Backlog
  <2>3. \A s \in Int : (d' + s) % DepthMod = (d - 1 + s) % DepthMod
    BY <1>1, <2>1, GaugeWraps
  <2>4. (d + n - 1) % DepthMod = (Backlog - 1) % DepthMod
    <3> DEFINE a == d + n
               b == Backlog
    <3>1. a \in Int /\ b \in Int /\ a % DepthMod = b % DepthMod
      BY <1>1, <1>2
    <3> HIDE DEF a, b
    <3>2. (a - 1) % DepthMod = (b - 1) % DepthMod
      BY <1>1, <3>1, OneMore
    <3> QED
      BY <1>1, <3>2 DEF a, b
  <2>5. d + n - 1 = d - 1 + n /\ n \in Int
    BY <1>1
  <2> HIDE DEF n
  <2>6. (d' + n) % DepthMod = (d - 1 + n) % DepthMod
    BY <2>3, <2>5
  <2> QED
    BY <1>10, <2>2, <2>4, <2>5, <2>6 DEF n
<1>11. ~DispatchExit
  BY DEF DispatchExit
<1>12. Sent' = Sent \/ \E j \in Jobs : CpuSend(j) \/ CpuCount(j)
  BY SentActions
<1> QED
  BY <1>5, <1>6, <1>7, <1>8, <1>9, <1>10, <1>11, <1>12, PoolActions

(* While the dispatcher lives, no order of try_send, fetch_add and fetch_sub *)
(* makes the gauge drift from the backlog.                                   *)
THEOREM GaugeIsExact == Spec => []GaugeExact
<1>1. Init => GaugeExact
  <2> SUFFICES ASSUME Init PROVE GaugeExact
    OBVIOUS
  <2>1. {j \in Jobs : pc[j] = "sent"} = {}
    BY DEF Init
  <2> QED
    BY <2>1, FS_EmptySet DEF Init, GaugeExact
<1>2. IInv /\ GaugeExact /\ [Next]_vars => GaugeExact'
  BY GaugeExactStep DEF IInv, TypeOK, PoolInv
<1> QED
  BY <1>1, <1>2, Invariant, PTL DEF Spec

-----------------------------------------------------------------------------
(* Work                                                                      *)
(*                                                                           *)
(* OneOwner counts the places a call is in, which no step can use.  WorkInv  *)
(* says instead, for each place, what is known of a call that is there, and  *)
(* for each reply that is due, which place its work is in: CallInv relates   *)
(* the reply, the worker, the number of runs and the point a call has        *)
(* reached, PlaceInv the places and the replies.                             *)

Hands == Jobs \cup {Flusher}

InTx(j) == \E i \in DOMAIN cpu_tx : cpu_tx[i] = j
InBatch(j) == \E i \in DOMAIN batches[JobSpec[j].kind] : batches[JobSpec[j].kind][i] = j
InHands(j) == \E f \in Hands : j \in flushing[f]

(* Where a call is before its work is handed on or done. *)
Early == {"new", "decided", "seqDrawn", "awaitPermit"}

(* Where a submitted call can be while its reply is due; it may be gone. *)
Waiting == {"sent", "awaitReply", "flushDue", "taken", "flushing", "cancelled", "panicked"}

(* Work that has not been handed on has not run.  Work whose reply is due,   *)
(* or was dropped, has not run; work that was replied to ran once.           *)
ReplyInv ==
  \A j \in Jobs :
    /\ pc[j] \in Early => runs[j] = 0 /\ reply[j] = "none" /\ worker[j] = "none"
    /\ pc[j] = "new" => strategy[j] = "none"
    /\ pc[j] = "seqDrawn" => JobSpec[j].api = "submit" /\ strategy[j] = "Batch"
    /\ reply[j] # "none" =>
         JobSpec[j].api = "submit" /\ strategy[j] \in {"CpuPool", "Batch"}
    /\ reply[j] = "open" => runs[j] = 0 /\ pc[j] \in Waiting
    /\ reply[j] = "closed" => runs[j] = 0
    /\ reply[j] = "sent" => runs[j] = 1
    /\ runs[j] <= 1

(* A worker has not run its work yet, and knows whom it works for. *)
WorkerInv ==
  \A j \in Jobs :
    /\ worker[j] = "exec" =>
         /\ runs[j] = 0
         /\ \/ JobSpec[j].api = "submit" /\ reply[j] = "open" /\ strategy[j] = "CpuPool"
            \/ JobSpec[j].api = "run" /\ pc[j] \in {"awaitPool", "cancelled"}
    /\ worker[j] = "replied" => JobSpec[j].api = "submit"
    /\ worker[j] = "finished" /\ JobSpec[j].api = "run" => runs[j] = 1
    /\ worker[j] = "unwound" => JobSpec[j].panics
    /\ pc[j] = "awaitPool" => JobSpec[j].api = "run"
    /\ pc[j] \in {"executed", "spawned"} => runs[j] = 1

(* A call that ends with an answer ran, and one that ends without did not.   *)
ResInv ==
  \A j \in Jobs :
    /\ pc[j] \notin {"recording", "done", "cancelled"} => res[j] = None
    /\ pc[j] = "recording" =>
         \/ res[j] = None /\ runs[j] = 0 /\ strategy[j] # "Inline"
         \/ res[j] = execute_job(j) /\ runs[j] = 1

(* What the cache holds under a key is the output of a call of that key that *)
(* ran.                                                                      *)
CacheInv ==
  \A k \in DOMAIN result_cache :
    \E o \in Jobs : runs[o] = 1 /\ job_key(o) = k /\ result_cache[k] = execute_job(o)

(* Work in the channel or in the dispatcher's hands is due a reply. *)
TxInv ==
  /\ \A i \in DOMAIN cpu_tx : reply[cpu_tx[i]] = "open" /\ strategy[cpu_tx[i]] = "CpuPool"
  /\ held # Nobody => reply[held] = "open" /\ strategy[held] = "CpuPool"

(* So is work in a buffer, which holds one kind and each entry once. *)
Buffered(o, k) ==
  JobSpec[o].kind = k /\ reply[o] = "open" /\ strategy[o] = "Batch" /\ ~InHands(o)

BufferInv ==
  \A k \in Kinds :
    /\ \A i \in DOMAIN batches[k] : Buffered(batches[k][i], k)
    /\ \A i, n \in DOMAIN batches[k] : batches[k][i] = batches[k][n] => i = n

(* So is work in a flusher's hands. *)
HandsInv ==
  \A f \in Hands : \A o \in flushing[f] :
    /\ reply[o] = "open" /\ strategy[o] = "Batch"
    /\ \A g \in Hands : o \in flushing[g] => g = f

(* Nobody has entries in hand unless it flushes. *)
BusyInv ==
  /\ flushing[Flusher] # {} => flusher = "flush"
  /\ \A j \in Jobs : flushing[j] # {} => pc[j] \in {"taken", "flushing"}

(* Work whose reply is due is somewhere. *)
FoundInv ==
  \A j \in Jobs : reply[j] = "open" =>
    /\ strategy[j] = "CpuPool" => InTx(j) \/ held = j \/ worker[j] = "exec"
    /\ strategy[j] = "Batch" => InBatch(j) \/ InHands(j)

CallInv == ReplyInv /\ WorkerInv
PlaceInv == TxInv /\ BufferInv /\ HandsInv /\ BusyInv /\ FoundInv
AnswerInv == ResInv /\ CacheInv

WorkInv == CallInv /\ PlaceInv /\ AnswerInv

-----------------------------------------------------------------------------
(* Calls and their work *)

(* A reply is due from the submit on until its work has run or is given up. *)
LEMMA ReplyInvStep ==
  ASSUME CallTypes, PoolTypes, PoolInv, CallInv, PlaceInv, [Next]_vars
  PROVE  ReplyInv'
<1>1. ASSUME NEW j \in Jobs, DeadlineExceeded(j) PROVE ReplyInv'
  BY <1>1
  DEF DeadlineExceeded, CountDropped, bump_route, Goto, CallTypes, CallInv,
      ReplyInv, WorkerInv, Early, Waiting, poolVars, batchVars
<1>2. ASSUME NEW j \in Jobs, ZeroCost(j) PROVE ReplyInv'
  BY <1>2
  DEF ZeroCost, Execute, Goto, bump_route, CallTypes, CallInv, ReplyInv,
      WorkerInv, Early, Waiting, poolVars, batchVars
<1>3. ASSUME NEW j \in Jobs, CacheHit(j) PROVE ReplyInv'
  BY <1>3
  DEF CacheHit, Complete, Goto, CallTypes, CallInv, ReplyInv, WorkerInv,
      Early, Waiting, poolVars, batchVars
<1>4. ASSUME NEW j \in Jobs, Decide(j) PROVE ReplyInv'
  BY <1>4
  DEF Decide, Goto, CallTypes, CallInv, ReplyInv, WorkerInv, Early, Waiting,
      poolVars, batchVars
<1>5. ASSUME NEW j \in Jobs, DropJob(j) PROVE ReplyInv'
  BY <1>5
  DEF DropJob, CountDropped, bump_route, Goto, CallTypes, CallInv, ReplyInv,
      WorkerInv, Early, Waiting, poolVars, batchVars
<1>6. ASSUME NEW j \in Jobs, RunInline(j) PROVE ReplyInv'
  BY <1>6
  DEF RunInline, Execute, Goto, bump_route, CallTypes, CallInv, ReplyInv,
      WorkerInv, Early, Waiting, poolVars, batchVars
<1>7. ASSUME NEW j \in Jobs, CountInline(j) PROVE ReplyInv'
  BY <1>7
  DEF CountInline, Complete, Goto, CallTypes, CallInv, ReplyInv, WorkerInv,
      Early, Waiting, poolVars, batchVars
<1>8. ASSUME NEW j \in Jobs, RunInlineWork(j) PROVE ReplyInv'
  BY <1>8
  DEF RunInlineWork, Execute, Complete, bump_route, Goto, CallTypes, CallInv,
      ReplyInv, WorkerInv, Early, Waiting, poolVars, batchVars
<1>9. ASSUME NEW j \in Jobs, Return(j) PROVE ReplyInv'
  BY <1>9
  DEF Return, Goto, CallTypes, CallInv, ReplyInv, WorkerInv, Early, Waiting,
      poolVars, batchVars
<1>10. ASSUME NEW j \in Jobs, SpawnTask(j) PROVE ReplyInv'
  BY <1>10
  DEF SpawnTask, Execute, Goto, bump_route, CallTypes, CallInv, ReplyInv,
      WorkerInv, Early, Waiting, poolVars, batchVars
<1>11. ASSUME NEW j \in Jobs, SpawnJoin(j) PROVE ReplyInv'
  <2>1. \E l \in {"recording", "done"} : pc' = [pc EXCEPT ![j] = l]
    BY <1>11 DEF SpawnJoin, Complete, CountDropped, Goto
  <2>2. reply[j] # "open" /\ UNCHANGED <<strategy, reply, worker, runs>>
    BY <1>11 DEF SpawnJoin, poolVars, CallInv, ReplyInv, Waiting
  <2> QED
    BY <2>1, <2>2 DEF CallInv, ReplyInv, Early, CallTypes
<1>12. ASSUME NEW j \in Jobs, CpuSend(j) PROVE ReplyInv'
  BY <1>12
  DEF CpuSend, CountDropped, bump_route, Goto, CallTypes, CallInv, ReplyInv,
      WorkerInv, Early, Waiting, poolVars, batchVars
<1>13. ASSUME NEW j \in Jobs, CpuCount(j) PROVE ReplyInv'
  BY <1>13
  DEF CpuCount, Goto, CallTypes, CallInv, ReplyInv, WorkerInv, Early, Waiting
<1>14. ASSUME NEW j \in Jobs, ReplyReceived(j) PROVE ReplyInv'
  <2>1. \E l \in {"recording", "done"} : pc' = [pc EXCEPT ![j] = l]
    BY <1>14 DEF ReplyReceived, Complete, CountDropped, Goto
  <2>2. reply[j] # "open" /\ UNCHANGED <<strategy, reply, worker, runs>>
    BY <1>14 DEF ReplyReceived, poolVars, ReplyInv
  <2> QED
    BY <2>1, <2>2 DEF CallInv, ReplyInv, Early, CallTypes
<1>15. ASSUME NEW j \in Jobs, RunAwaitPermit(j) PROVE ReplyInv'
  BY <1>15
  DEF RunAwaitPermit, Goto, CallTypes, CallInv, ReplyInv, WorkerInv, Early,
      Waiting, poolVars, batchVars
<1>16. ASSUME NEW j \in Jobs, RunAcquire(j) PROVE ReplyInv'
  BY <1>16
  DEF RunAcquire, Goto, CallTypes, CallInv, ReplyInv, WorkerInv, Early,
      Waiting
<1>17. ASSUME NEW j \in Jobs, RunJoin(j) PROVE ReplyInv'
  <2>1. \E l \in {"recording", "done"} : pc' = [pc EXCEPT ![j] = l]
    BY <1>17 DEF RunJoin, Complete, CountDropped, Goto
  <2>2. reply[j] # "open" /\ UNCHANGED <<strategy, reply, worker, runs>>
    BY <1>17 DEF RunJoin, poolVars, CallInv, ReplyInv, Waiting
  <2> QED
    BY <2>1, <2>2 DEF CallInv, ReplyInv, Early, CallTypes
<1>18. ASSUME NEW j \in Jobs, BatchDraw(j) PROVE ReplyInv'
  BY <1>18
  DEF BatchDraw, Goto, CallTypes, CallInv, ReplyInv, WorkerInv, Early,
      Waiting, poolVars, batchVars
<1>19. ASSUME NEW j \in Jobs, BatchPush(j) PROVE ReplyInv'
  <2>1. \E l \in {"flushDue", "awaitReply"} : pc' = [pc EXCEPT ![j] = l]
    BY <1>19 DEF BatchPush, Goto
  <2>2. /\ reply' = [reply EXCEPT ![j] = "open"] /\ UNCHANGED <<strategy, worker, runs>>
        /\ runs[j] = 0 /\ strategy[j] = "Batch" /\ JobSpec[j].api = "submit"
    BY <1>19 DEF BatchPush, poolVars, CallInv, ReplyInv, Early
  <2> QED
    BY <2>1, <2>2 DEF CallInv, ReplyInv, Early, Waiting, CallTypes
<1>20. ASSUME NEW j \in Jobs, SubmitterTake(j) PROVE ReplyInv'
  BY <1>20
  DEF SubmitterTake, Goto, CallTypes, CallInv, ReplyInv, WorkerInv, Early,
      Waiting, poolVars, batchVars
<1>21. ASSUME NEW j \in Jobs, SubmitterFlush(j) PROVE ReplyInv'
  BY <1>21
  DEF SubmitterFlush, FlushOne, Execute, Goto, CallTypes, CallInv, ReplyInv,
      WorkerInv, PlaceInv, TxInv, BufferInv, HandsInv, Early, Waiting, Hands,
      poolVars, batchVars
<1>22. ASSUME NEW j \in Jobs, SubmitterFlushed(j) PROVE ReplyInv'
  BY <1>22
  DEF SubmitterFlushed, Goto, CallTypes, CallInv, ReplyInv, WorkerInv, Early,
      Waiting, poolVars, batchVars
<1>23. ASSUME NEW j \in Jobs, WorkerReply(j) PROVE ReplyInv'
  BY <1>23 DEF WorkerReply, Execute, CallTypes, CallInv, ReplyInv, WorkerInv
<1>24. ASSUME NEW j \in Jobs, WorkerRelease(j) PROVE ReplyInv'
  BY <1>24 DEF WorkerRelease, CallInv, ReplyInv, WorkerInv
<1>25. ASSUME NEW j \in Jobs, RunWork(j) PROVE ReplyInv'
  BY <1>25
  DEF RunWork, Execute, CallTypes, PoolTypes, CallInv, ReplyInv, WorkerInv
<1>26. ASSUME NEW j \in Jobs, Cancel(j) PROVE ReplyInv'
  BY <1>26
  DEF Cancel, Goto, CallTypes, CallInv, ReplyInv, WorkerInv, PlaceInv, TxInv,
      BufferInv, HandsInv, Early, Waiting, Hands, poolVars, batchVars
<1>27. CASE DispatchRecv
  BY <1>27 DEF DispatchRecv, CallInv, ReplyInv, WorkerInv
<1>28. CASE DispatchAcquire
  BY <1>28
  DEF DispatchAcquire, PoolInv, QueueInv, HeldInv, CallInv, ReplyInv,
      WorkerInv, PlaceInv, TxInv, BufferInv, HandsInv, Hands
<1>29. CASE DispatchExit
  BY <1>29
  DEF DispatchExit, CallInv, ReplyInv, WorkerInv, PlaceInv, TxInv, BufferInv,
      HandsInv, Hands
<1>30. CASE FlusherWake
  BY <1>30 DEF FlusherWake, CallInv, ReplyInv, WorkerInv, poolVars, batchVars
<1>31. CASE FlusherFlush
  BY <1>31
  DEF FlusherFlush, FlushOne, Execute, CallTypes, CallInv, ReplyInv,
      WorkerInv, PlaceInv, TxInv, BufferInv, HandsInv, Hands, poolVars,
      batchVars
<1>32. CASE FlusherSleep
  BY <1>32 DEF FlusherSleep, CallInv, ReplyInv, WorkerInv, poolVars, batchVars
<1>33. CASE FlusherExit
  BY <1>33 DEF FlusherExit, CallInv, ReplyInv, WorkerInv, poolVars, batchVars
<1>34. CASE CacheEvict
  BY <1>34 DEF CacheEvict, CallInv, ReplyInv, WorkerInv, poolVars, batchVars
<1>35. CASE Shutdown
  BY <1>35 DEF Shutdown, CallInv, ReplyInv, WorkerInv, poolVars, batchVars
<1>36. CASE UNCHANGED vars
  BY <1>36
  DEF vars, poolVars, batchVars, statVars, CallTypes, CallInv, ReplyInv,
      WorkerInv, poolVars, batchVars
<1> QED
  BY <1>1, <1>2, <1>3, <1>4, <1>5, <1>6, <1>7, <1>8, <1>9, <1>10, <1>11,
     <1>12, <1>13, <1>14, <1>15, <1>16, <1>17, <1>18, <1>19, <1>20, <1>21,
     <1>22, <1>23, <1>24, <1>25, <1>26, <1>27, <1>28, <1>29, <1>30, <1>31,
     <1>32, <1>33, <1>34, <1>35, <1>36
  DEF Next, JobStep, WorkerStep, DispatcherStep, FlusherStep

(* A worker runs its work once, for a call that still is where it left it.  *)
LEMMA WorkerInvStep ==
  ASSUME CallTypes, PoolTypes, PoolInv, CallInv, PlaceInv, [Next]_vars
  PROVE  WorkerInv'
<1>1. ASSUME NEW j \in Jobs, DeadlineExceeded(j) PROVE WorkerInv'
  BY <1>1
  DEF DeadlineExceeded, CountDropped, bump_route, Goto, CallTypes, CallInv,
      ReplyInv, WorkerInv, poolVars, batchVars
<1>2. ASSUME NEW j \in Jobs, ZeroCost(j) PROVE WorkerInv'
  BY <1>2
  DEF ZeroCost, Execute, Goto, bump_route, CallTypes, CallInv, ReplyInv,
      WorkerInv, Early, Waiting, poolVars, batchVars
<1>3. ASSUME NEW j \in Jobs, CacheHit(j) PROVE WorkerInv'
  BY <1>3
  DEF CacheHit, Complete, Goto, CallTypes, CallInv, ReplyInv, WorkerInv,
      poolVars, batchVars
<1>4. ASSUME NEW j \in Jobs, Decide(j) PROVE WorkerInv'
  BY <1>4
  DEF Decide, Goto, CallTypes, CallInv, ReplyInv, WorkerInv, poolVars,
      batchVars
<1>5. ASSUME NEW j \in Jobs, DropJob(j) PROVE WorkerInv'
  BY <1>5
  DEF DropJob, CountDropped, bump_route, Goto, CallTypes, CallInv, ReplyInv,
      WorkerInv, poolVars, batchVars
<1>6. ASSUME NEW j \in Jobs, RunInline(j) PROVE WorkerInv'
  BY <1>6
  DEF RunInline, Execute, Goto, bump_route, CallTypes, CallInv, ReplyInv,
      WorkerInv, Early, Waiting, poolVars, batchVars
<1>7. ASSUME NEW j \in Jobs, CountInline(j) PROVE WorkerInv'
  BY <1>7
  DEF CountInline, Complete, Goto, CallTypes, CallInv, ReplyInv, WorkerInv,
      poolVars, batchVars
<1>8. ASSUME NEW j \in Jobs, RunInlineWork(j) PROVE WorkerInv'
  BY <1>8
  DEF RunInlineWork, Execute, Complete, bump_route, Goto, CallTypes, CallInv,
      ReplyInv, WorkerInv, Early, Waiting, poolVars, batchVars
<1>9. ASSUME NEW j \in Jobs, Return(j) PROVE WorkerInv'
  BY <1>9
  DEF Return, Goto, CallTypes, CallInv, ReplyInv, WorkerInv, poolVars,
      batchVars
<1>10. ASSUME NEW j \in Jobs, SpawnTask(j) PROVE WorkerInv'
  BY <1>10
  DEF SpawnTask, Execute, Goto, bump_route, CallTypes, CallInv, ReplyInv,
      WorkerInv, Early, Waiting, poolVars, batchVars
<1>11. ASSUME NEW j \in Jobs, SpawnJoin(j) PROVE WorkerInv'
  BY <1>11
  DEF SpawnJoin, Complete, CountDropped, Goto, CallTypes, CallInv, ReplyInv,
      WorkerInv, poolVars, batchVars
<1>12. ASSUME NEW j \in Jobs, CpuSend(j) PROVE WorkerInv'
  BY <1>12
  DEF CpuSend, CountDropped, bump_route, Goto, CallTypes, CallInv, ReplyInv,
      WorkerInv, poolVars, batchVars
<1>13. ASSUME NEW j \in Jobs, CpuCount(j) PROVE WorkerInv'
  BY <1>13 DEF CpuCount, Goto, CallTypes, CallInv, ReplyInv, WorkerInv
<1>14. ASSUME NEW j \in Jobs, ReplyReceived(j) PROVE WorkerInv'
  BY <1>14
  DEF ReplyReceived, Complete, CountDropped, Goto, CallTypes, CallInv,
      ReplyInv, WorkerInv, poolVars, batchVars
<1>15. ASSUME NEW j \in Jobs, RunAwaitPermit(j) PROVE WorkerInv'
  BY <1>15
  DEF RunAwaitPermit, Goto, CallTypes, CallInv, ReplyInv, WorkerInv, poolVars,
      batchVars
<1>16. ASSUME NEW j \in Jobs, RunAcquire(j) PROVE WorkerInv'
  BY <1>16
  DEF RunAcquire, Goto, CallTypes, PoolInv, FreshCalls, QueueInv, HeldInv,
      CallInv, ReplyInv, WorkerInv, Early, Waiting
<1>17. ASSUME NEW j \in Jobs, RunJoin(j) PROVE WorkerInv'
  BY <1>17
  DEF RunJoin, Complete, CountDropped, Goto, CallTypes, CallInv, ReplyInv,
      WorkerInv, poolVars, batchVars
<1>18. ASSUME NEW j \in Jobs, BatchDraw(j) PROVE WorkerInv'
  BY <1>18
  DEF BatchDraw, Goto, CallTypes, CallInv, ReplyInv, WorkerInv, poolVars,
      batchVars
<1>19. ASSUME NEW j \in Jobs, BatchPush(j) PROVE WorkerInv'
  BY <1>19
  DEF BatchPush, Goto, CallTypes, CallInv, ReplyInv, WorkerInv, poolVars,
      batchVars
<1>20. ASSUME NEW j \in Jobs, SubmitterTake(j) PROVE WorkerInv'
  BY <1>20
  DEF SubmitterTake, Goto, CallTypes, CallInv, ReplyInv, WorkerInv, poolVars,
      batchVars
<1>21. ASSUME NEW j \in Jobs, SubmitterFlush(j) PROVE WorkerInv'
  BY <1>21
  DEF SubmitterFlush, FlushOne, Execute, Goto, CallTypes, CallInv, ReplyInv,
      WorkerInv, PlaceInv, TxInv, BufferInv, HandsInv, Hands, poolVars,
      batchVars
<1>22. ASSUME NEW j \in Jobs, SubmitterFlushed(j) PROVE WorkerInv'
  BY <1>22
  DEF SubmitterFlushed, Goto, CallTypes, CallInv, ReplyInv, WorkerInv,
      poolVars, batchVars
<1>23. ASSUME NEW j \in Jobs, WorkerReply(j) PROVE WorkerInv'
  BY <1>23
  DEF WorkerReply, Execute, CallTypes, PoolTypes, CallInv, ReplyInv, WorkerInv
<1>24. ASSUME NEW j \in Jobs, WorkerRelease(j) PROVE WorkerInv'
  BY <1>24 DEF WorkerRelease, CallInv, ReplyInv, WorkerInv
<1>25. ASSUME NEW j \in Jobs, RunWork(j) PROVE WorkerInv'
  BY <1>25
  DEF RunWork, Execute, CallTypes, PoolTypes, CallInv, ReplyInv, WorkerInv
<1>26. ASSUME NEW j \in Jobs, Cancel(j) PROVE WorkerInv'
  BY <1>26
  DEF Cancel, Goto, CallTypes, CallInv, ReplyInv, WorkerInv, PlaceInv, TxInv,
      BufferInv, HandsInv, Hands, poolVars, batchVars
<1>27. CASE DispatchRecv
  BY <1>27 DEF DispatchRecv, CallInv, ReplyInv, WorkerInv
<1>28. CASE DispatchAcquire
  BY <1>28
  DEF DispatchAcquire, PoolInv, FreshCalls, QueueInv, HeldInv, CallInv,
      ReplyInv, WorkerInv, PlaceInv, TxInv, BufferInv, HandsInv, Hands
<1>29. CASE DispatchExit
  BY <1>29
  DEF DispatchExit, PoolInv, FreshCalls, QueueInv, HeldInv, CallInv, ReplyInv,
      WorkerInv
<1>30. CASE FlusherWake
  BY <1>30 DEF FlusherWake, CallInv, ReplyInv, WorkerInv, poolVars, batchVars
<1>31. CASE FlusherFlush
  BY <1>31
  DEF FlusherFlush, FlushOne, Execute, CallTypes, CallInv, ReplyInv,
      WorkerInv, PlaceInv, TxInv, BufferInv, HandsInv, Hands, poolVars,
      batchVars
<1>32. CASE FlusherSleep
  BY <1>32 DEF FlusherSleep, CallInv, ReplyInv, WorkerInv, poolVars, batchVars
<1>33. CASE FlusherExit
  BY <1>33 DEF FlusherExit, CallInv, ReplyInv, WorkerInv, poolVars, batchVars
<1>34. CASE CacheEvict
  BY <1>34 DEF CacheEvict, CallInv, ReplyInv, WorkerInv, poolVars, batchVars
<1>35. CASE Shutdown
  BY <1>35 DEF Shutdown, CallInv, ReplyInv, WorkerInv, poolVars, batchVars
<1>36. CASE UNCHANGED vars
  BY <1>36
  DEF vars, poolVars, batchVars, statVars, CallTypes, CallInv, ReplyInv,
      WorkerInv, poolVars, batchVars
<1> QED
  BY <1>1, <1>2, <1>3, <1>4, <1>5, <1>6, <1>7, <1>8, <1>9, <1>10, <1>11,
     <1>12, <1>13, <1>14, <1>15, <1>16, <1>17, <1>18, <1>19, <1>20, <1>21,
     <1>22, <1>23, <1>24, <1>25, <1>26, <1>27, <1>28, <1>29, <1>30, <1>31,
     <1>32, <1>33, <1>34, <1>35, <1>36
  DEF Next, JobStep, WorkerStep, DispatcherStep, FlusherStep

-----------------------------------------------------------------------------
(* The places of work *)

(* What PlaceInv reads of a call's work. *)
workVars == <<reply, strategy, worker, cpu_tx, held, batches, flushing>>

(* The work of calls is moved by these actions alone. *)
LEMMA WorkActions ==
  ASSUME [Next]_vars
  PROVE  \/ UNCHANGED workVars
         \/ \E j \in Jobs :
              \/ Decide(j) \/ CpuSend(j) \/ RunAcquire(j) \/ BatchPush(j)
              \/ SubmitterTake(j) \/ SubmitterFlush(j) \/ Cancel(j)
              \/ WorkerReply(j) \/ WorkerRelease(j) \/ RunWork(j)
         \/ DispatchRecv \/ DispatchAcquire \/ DispatchExit
         \/ FlusherWake \/ FlusherFlush
<1>1. ASSUME NEW j \in Jobs,
             DeadlineExceeded(j) \/ ZeroCost(j) \/ CacheHit(j) \/ DropJob(j) \/
             RunInline(j) \/ CountInline(j) \/ RunInlineWork(j) \/ Return(j) \/
             SpawnTask(j) \/ SpawnJoin(j) \/ CpuCount(j) \/ ReplyReceived(j) \/
             RunAwaitPermit(j) \/ RunJoin(j) \/ BatchDraw(j) \/ SubmitterFlushed(j)
      PROVE  UNCHANGED workVars
  BY <1>1
  DEF DeadlineExceeded, ZeroCost, CacheHit, DropJob, RunInline, CountInline,
      RunInlineWork, Return, SpawnTask, SpawnJoin, CpuCount, ReplyReceived,
      RunAwaitPermit, RunJoin, BatchDraw, SubmitterFlushed, poolVars, batchVars,
      workVars
<1>2. ASSUME FlusherSleep \/ FlusherExit \/ CacheEvict \/ Shutdown
      PROVE  UNCHANGED workVars
  BY <1>2
  DEF FlusherSleep, FlusherExit, CacheEvict, Shutdown, poolVars, batchVars, workVars
<1>3. ASSUME UNCHANGED vars
      PROVE  UNCHANGED workVars
  BY <1>3 DEF vars, poolVars, batchVars, workVars
<1> QED
  BY <1>1, <1>2, <1>3 DEF Next, JobStep, WorkerStep, DispatcherStep, FlusherStep

(* What is left of a sequence when its first n elements are taken. *)
LEMMA TakeFront ==
  ASSUME NEW S, NEW s \in Seq(S), NEW n \in 0 .. Len(s)
  PROVE  LET t == SubSeq(s, n + 1, Len(s)) IN
         /\ t \in Seq(S) /\ Len(t) = Len(s) - n /\ DOMAIN t = 1 .. Len(s) - n
         /\ \A i \in DOMAIN t : i + n \in DOMAIN s /\ t[i] = s[i + n]
         /\ \A i \in DOMAIN s : i > n => i - n \in DOMAIN t /\ t[i - n] = s[i]
OBVIOUS

(* A batch passes whole from its buffer to the hands of f. *)
LEMMA BatchPasses ==
  ASSUME BatchTypes, BufferInv, HandsInv, NEW f \in Hands, NEW k \in Kinds,
         flushing[f] = {}, UNCHANGED <<reply, strategy>>,
         NEW b \in Seq(Jobs), b = batches[k], NEW n \in 0 .. Len(b),
         NEW t, t = SubSeq(b, n + 1, Len(b)),
         NEW T, T = {b[i] : i \in 1 .. n},
         flushing' = [flushing EXCEPT ![f] = T],
         batches' = [batches EXCEPT ![k] = t]
  PROVE  /\ BufferInv' /\ HandsInv'
         /\ \A o \in Jobs : InBatch(o) \/ InHands(o) => InBatch(o)' \/ InHands(o)'
<1>1. /\ Len(t) = Len(b) - n /\ DOMAIN t = 1 .. Len(b) - n
      /\ \A i \in DOMAIN t : i + n \in DOMAIN b /\ t[i] = b[i + n]
      /\ \A i \in DOMAIN b : i > n => i - n \in DOMAIN t /\ t[i - n] = b[i]
  BY TakeFront
<1>2. /\ DOMAIN b = 1 .. Len(b) /\ Len(b) \in Nat
      /\ \A o \in T : \E i \in DOMAIN b : i <= n /\ o = b[i]
      /\ \A i \in DOMAIN b : i <= n => b[i] \in T
  OBVIOUS
<1>3. \A g \in Hands : flushing'[g] = IF g = f THEN T ELSE flushing[g]
  BY DEF BatchTypes, Hands
<1>4. \A l \in Kinds : batches'[l] = IF l = k THEN t ELSE batches[l]
  BY DEF BatchTypes
<1>5. /\ \A i \in DOMAIN b : Buffered(b[i], k)
      /\ \A i, m \in DOMAIN b : b[i] = b[m] => i = m
  BY DEF BufferInv
<1>6. \A o : InHands(o)' <=> InHands(o) \/ o \in T
  BY <1>3 DEF InHands
<1>7. ASSUME NEW l \in Kinds, NEW o, Buffered(o, l), o \notin T
      PROVE  Buffered(o, l)'
  BY <1>6, <1>7 DEF Buffered
<1>8. ASSUME NEW o \in T PROVE Buffered(o, k)
  <2>1. PICK i \in DOMAIN b : o = b[i]
    BY <1>2
  <2> QED
    BY <1>5, <2>1
<1>9. BufferInv'
  <2>1. ASSUME NEW l \in Kinds, l # k, NEW i \in DOMAIN batches[l]
        PROVE  Buffered(batches[l][i], l) /\ batches[l][i] \notin T
    <3>1. Buffered(batches[l][i], l)
      BY DEF BufferInv
    <3> QED
      BY <1>8, <2>1, <3>1 DEF Buffered
  <2>2. ASSUME NEW i \in DOMAIN t
        PROVE  Buffered(t[i], k) /\ t[i] \notin T
    <3>0. i + n \in DOMAIN b /\ t[i] = b[i + n] /\ i + n > n
      BY <1>1
    <3>1. PICK m \in DOMAIN b : m > n /\ t[i] = b[m]
      BY <3>0
    <3>2. ASSUME b[m] \in T PROVE FALSE
      <4>1. PICK r \in DOMAIN b : r <= n /\ b[m] = b[r]
        BY <1>2, <3>2
      <4>2. m = r
        BY <1>5, <4>1
      <4> QED
        BY <1>2, <3>1, <4>1, <4>2
    <3> QED
      BY <1>5, <3>1, <3>2
  <2>3. ASSUME NEW l \in Kinds, NEW i \in DOMAIN batches'[l], NEW o, o = batches'[l][i]
        PROVE  Buffered(o, l)'
    <3>1. CASE l = k
      BY <1>4, <1>7, <2>2, <2>3, <3>1
    <3>2. CASE l # k
      BY <1>4, <1>7, <2>1, <2>3, <3>2
    <3> QED
      BY <3>1, <3>2
  <2>4. ASSUME NEW i \in DOMAIN t, NEW m \in DOMAIN t, t[i] = t[m]
        PROVE  i = m
    <3>1. i + n \in DOMAIN b /\ m + n \in DOMAIN b /\ b[i + n] = b[m + n]
      BY <1>1, <2>4
    <3>2. i + n = m + n /\ i \in Int /\ m \in Int
      BY <1>1, <1>5, <3>1
    <3> QED
      BY <3>2
  <2> QED
    BY <1>4, <2>3, <2>4 DEF BufferInv
<1>10. HandsInv'
  <2>1. \A o \in T : reply[o] = "open" /\ strategy[o] = "Batch" /\ ~InHands(o)
    BY <1>8 DEF Buffered
  <2>2. ASSUME NEW g \in Hands, NEW o \in flushing'[g]
        PROVE  reply[o] = "open" /\ strategy[o] = "Batch"
    BY <1>3, <2>1, <2>2 DEF HandsInv
  <2>3. ASSUME NEW g \in Hands, NEW o \in flushing'[g], NEW h \in Hands, o \in flushing'[h]
        PROVE  h = g
    <3>1. CASE o \in T
      <4>1. \A e \in Hands : o \notin flushing[e]
        BY <2>1, <3>1 DEF InHands
      <4> QED
        BY <1>3, <2>3, <4>1
    <3>2. CASE o \notin T
      <4>1. o \in flushing[g] /\ o \in flushing[h]
        BY <1>3, <2>3, <3>2
      <4> QED
        BY <4>1 DEF HandsInv
    <3> QED
      BY <3>1, <3>2
  <2> QED
    BY <2>2, <2>3 DEF HandsInv
<1>11. ASSUME NEW o \in Jobs, InBatch(o)
       PROVE  InBatch(o)' \/ InHands(o)'
  <2>1. JobSpec[o].kind \in Kinds
    BY OutputTypes
  <2>2. CASE JobSpec[o].kind = k
    <3>1. PICK i \in DOMAIN b : b[i] = o
      BY <1>11, <2>2 DEF InBatch
    <3>2. CASE i <= n
      BY <1>2, <1>6, <3>1, <3>2
    <3>3. CASE i > n
      BY <1>1, <1>4, <2>2, <3>1, <3>3 DEF InBatch
    <3> QED
      BY <1>2, <3>1, <3>2, <3>3
  <2>3. CASE JobSpec[o].kind # k
    BY <1>4, <1>11, <2>1, <2>3 DEF InBatch
  <2> QED
    BY <2>2, <2>3
<1> QED
  BY <1>6, <1>9, <1>10, <1>11

(* So a flush keeps every entry: it is in the buffer still, or in hand.       *)
LEMMA TakeBatchKeeps ==
  ASSUME BatchTypes, BufferInv, HandsInv, NEW f \in Hands, NEW k \in Kinds,
         flushing[f] = {}, TakeBatch(f, k), UNCHANGED <<reply, strategy>>
  PROVE  /\ BufferInv' /\ HandsInv'
         /\ \A o \in Jobs : InBatch(o) \/ InHands(o) => InBatch(o)' \/ InHands(o)'
<1> DEFINE n == IF Len(batches[k]) < Cfg.batch_max_size
                THEN Len(batches[k]) ELSE Cfg.batch_max_size
<1>1. batches[k] \in Seq(Jobs) /\ n \in 0 .. Len(batches[k])
  BY CoreAssumption DEF CoreAssumption, Configs, BatchTypes
<1>2. /\ flushing' = [flushing EXCEPT ![f] = {batches[k][i] : i \in 1 .. n}]
      /\ batches' = [batches EXCEPT ![k] = SubSeq(batches[k], n + 1, Len(batches[k]))]
  BY DEF TakeBatch
<1> QED
  BY <1>1, <1>2, BatchPasses

(* Work in the channel or in the dispatcher's hands stays due a reply. *)
LEMMA TxInvStep ==
  ASSUME CallTypes, PoolTypes, BatchTypes, PoolInv, CallInv, TxInv, HandsInv, [Next]_vars
  PROVE  TxInv'
<1>1. CASE UNCHANGED workVars
  BY <1>1 DEF workVars, TxInv, HandsInv, Hands
<1>2. ASSUME NEW j \in Jobs, Decide(j) PROVE TxInv'
  BY <1>2
  DEF Decide, Goto, CallTypes, PoolTypes, CallInv, ReplyInv, WorkerInv, TxInv,
      HandsInv, Hands, poolVars, batchVars
<1>3. ASSUME NEW j \in Jobs, CpuSend(j) PROVE TxInv'
  <2>1. CASE UNCHANGED <<cpu_tx, reply>>
    BY <1>3, <2>1 DEF CpuSend, TxInv
  <2>2. CASE cpu_tx' = Append(cpu_tx, j) /\ reply' = [reply EXCEPT ![j] = "open"]
    <3>1. /\ DOMAIN cpu_tx' = 1 .. Len(cpu_tx) + 1
          /\ DOMAIN cpu_tx = 1 .. Len(cpu_tx) /\ Len(cpu_tx) \in Nat
          /\ \A i \in DOMAIN cpu_tx : cpu_tx'[i] = cpu_tx[i] /\ cpu_tx[i] \in Jobs
          /\ cpu_tx'[Len(cpu_tx) + 1] = j
      BY <2>2 DEF PoolTypes
    <3>2. strategy[j] = "CpuPool" /\ UNCHANGED <<strategy, held>>
      BY <1>3 DEF CpuSend
    <3> QED
      BY <2>2, <3>1, <3>2 DEF TxInv, CallTypes
  <2> QED
    BY <1>3, <2>1, <2>2 DEF CpuSend
<1>4. ASSUME NEW j \in Jobs, RunAcquire(j) PROVE TxInv'
  BY <1>4 DEF RunAcquire, CallTypes, TxInv, HandsInv, Hands
<1>5. ASSUME NEW j \in Jobs, BatchPush(j) PROVE TxInv'
  BY <1>5
  DEF BatchPush, CallTypes, TxInv, HandsInv, Hands, poolVars, batchVars
<1>6. ASSUME NEW j \in Jobs, SubmitterTake(j) PROVE TxInv'
  BY <1>6
  DEF SubmitterTake, CallTypes, TxInv, HandsInv, Hands, poolVars, batchVars
<1>7. ASSUME NEW j \in Jobs, SubmitterFlush(j) PROVE TxInv'
  BY <1>7
  DEF SubmitterFlush, FlushOne, Goto, CallTypes, TxInv, HandsInv, Hands,
      poolVars, batchVars
<1>8. ASSUME NEW j \in Jobs, Cancel(j) PROVE TxInv'
  BY <1>8
  DEF Cancel, Goto, CallTypes, PoolTypes, TxInv, HandsInv, Hands, poolVars,
      batchVars
<1>9. ASSUME NEW j \in Jobs, WorkerReply(j) PROVE TxInv'
  BY <1>9 DEF WorkerReply, PoolInv, QueueInv, HeldInv, TxInv, HandsInv, Hands
<1>10. ASSUME NEW j \in Jobs, WorkerRelease(j) PROVE TxInv'
  BY <1>10 DEF WorkerRelease, TxInv, HandsInv, Hands
<1>11. ASSUME NEW j \in Jobs, RunWork(j) PROVE TxInv'
  BY <1>11 DEF RunWork, TxInv, HandsInv, Hands
<1>12. CASE DispatchRecv
  BY <1>12 DEF DispatchRecv, CallTypes, PoolTypes, TxInv, HandsInv, Hands
<1>13. CASE DispatchAcquire
  BY <1>13 DEF DispatchAcquire, TxInv, HandsInv, Hands
<1>14. CASE DispatchExit
  BY <1>14
  DEF DispatchExit, PoolInv, QueueInv, HeldInv, TxInv, HandsInv, Hands
<1>15. CASE FlusherWake
  BY <1>15 DEF FlusherWake, TxInv, HandsInv, Hands, poolVars, batchVars
<1>16. CASE FlusherFlush
  BY <1>16
  DEF FlusherFlush, FlushOne, CallTypes, TxInv, HandsInv, Hands, poolVars,
      batchVars
<1> QED
  BY <1>1, <1>2, <1>3, <1>4, <1>5, <1>6, <1>7, <1>8, <1>9, <1>10, <1>11,
     <1>12, <1>13, <1>14, <1>15, <1>16, WorkActions

(* An entry stays in one flusher's hands. *)
LEMMA HandsInvStep ==
  ASSUME CallTypes, PoolTypes, BatchTypes, CallInv, TxInv, BufferInv, HandsInv, BusyInv, [Next]_vars
  PROVE  HandsInv'
<1>1. CASE UNCHANGED workVars
  BY <1>1 DEF workVars, HandsInv, BusyInv, Hands
<1>2. ASSUME NEW j \in Jobs, Decide(j) PROVE HandsInv'
  BY <1>2
  DEF Decide, CallTypes, PoolTypes, BatchTypes, CallInv, ReplyInv, WorkerInv,
      HandsInv, BusyInv, Hands, poolVars, batchVars
<1>3. ASSUME NEW j \in Jobs, CpuSend(j) PROVE HandsInv'
  BY <1>3
  DEF CpuSend, CallTypes, PoolTypes, BatchTypes, HandsInv, BusyInv, Hands,
      poolVars, batchVars
<1>4. ASSUME NEW j \in Jobs, RunAcquire(j) PROVE HandsInv'
  BY <1>4
  DEF RunAcquire, CallTypes, HandsInv, BusyInv, Hands, poolVars, batchVars
<1>5. ASSUME NEW j \in Jobs, BatchPush(j) PROVE HandsInv'
  BY <1>5 DEF BatchPush, CallTypes, HandsInv, BusyInv, Hands
<1>6. ASSUME NEW j \in Jobs, SubmitterTake(j) PROVE HandsInv'
  <2>1. flushing[j] = {} /\ j \in Hands /\ JobSpec[j].kind \in Kinds
    BY <1>6, OutputTypes DEF SubmitterTake, BusyInv, Hands
  <2> QED
    BY <1>6, <2>1, TakeBatchKeeps DEF SubmitterTake
<1>7. ASSUME NEW j \in Jobs, SubmitterFlush(j) PROVE HandsInv'
  BY <1>7
  DEF SubmitterFlush, FlushOne, Goto, CallTypes, PoolTypes, BatchTypes,
      HandsInv, BusyInv, Hands
<1>8. ASSUME NEW j \in Jobs, Cancel(j) PROVE HandsInv'
  BY <1>8
  DEF Cancel, CallTypes, PoolTypes, BatchTypes, HandsInv, BusyInv, Hands
<1>9. ASSUME NEW j \in Jobs, WorkerReply(j) PROVE HandsInv'
  BY <1>9
  DEF WorkerReply, CallTypes, PoolTypes, BatchTypes, CallInv, ReplyInv,
      WorkerInv, HandsInv, BusyInv, Early, Hands, poolVars, batchVars
<1>10. ASSUME NEW j \in Jobs, WorkerRelease(j) PROVE HandsInv'
  BY <1>10 DEF WorkerRelease, HandsInv, BusyInv, Hands, poolVars, batchVars
<1>11. ASSUME NEW j \in Jobs, RunWork(j) PROVE HandsInv'
  BY <1>11 DEF RunWork, HandsInv, BusyInv, Hands, poolVars, batchVars
<1>12. CASE DispatchRecv
  BY <1>12 DEF DispatchRecv, HandsInv, BusyInv, Hands, poolVars, batchVars
<1>13. CASE DispatchAcquire
  BY <1>13 DEF DispatchAcquire, HandsInv, BusyInv, Hands, poolVars, batchVars
<1>14. CASE DispatchExit
  <2>1. ASSUME NEW f \in Hands, NEW o \in flushing[f]
        PROVE  reply'[o] = "open"
    BY <1>14, <2>1 DEF DispatchExit, HandsInv, TxInv, BatchTypes, Hands
  <2> QED
    BY <1>14, <2>1 DEF DispatchExit, HandsInv, batchVars
<1>15. CASE FlusherWake
  <2>1. flushing[Flusher] = {} /\ Flusher \in Hands /\ KindOrder[flush_idx] \in Kinds
    BY <1>15, FlushIdxStep DEF FlusherWake, BusyInv, Hands, BatchTypes
  <2> QED
    BY <1>15, <2>1, TakeBatchKeeps DEF FlusherWake
<1>16. CASE FlusherFlush
  BY <1>16
  DEF FlusherFlush, FlushOne, CallTypes, PoolTypes, BatchTypes, HandsInv,
      BusyInv, Hands
<1> QED
  BY <1>1, <1>2, <1>3, <1>4, <1>5, <1>6, <1>7, <1>8, <1>9, <1>10, <1>11,
     <1>12, <1>13, <1>14, <1>15, <1>16, WorkActions

(* A buffer stays of one kind and without repetitions. *)
LEMMA BufferInvStep ==
  ASSUME CallTypes, PoolTypes, BatchTypes, CallInv, TxInv, BufferInv, HandsInv, BusyInv, [Next]_vars
  PROVE  BufferInv'
<1>1. CASE UNCHANGED workVars
  <2>1. UNCHANGED <<batches, flushing, reply, strategy>>
    BY <1>1 DEF workVars
  <2>2. \A o, k : Buffered(o, k)' <=> Buffered(o, k)
    BY <2>1 DEF Buffered, InHands
  <2> QED
    BY <2>1, <2>2 DEF BufferInv
<1>2. ASSUME NEW j \in Jobs, Decide(j) PROVE BufferInv'
  <2>1. UNCHANGED <<batches, flushing, reply>> /\ reply[j] = "none"
    BY <1>2 DEF Decide, batchVars, CallInv, ReplyInv, Early
  <2>2. \A o \in Jobs \ {j} : strategy'[o] = strategy[o]
    BY <1>2 DEF Decide, CallTypes
  <2>3. ASSUME NEW o \in Jobs, NEW k, Buffered(o, k)
        PROVE  Buffered(o, k)'
    BY <2>1, <2>2, <2>3 DEF Buffered, InHands
  <2>4. ASSUME NEW k \in Kinds, NEW i \in DOMAIN batches[k]
        PROVE  batches[k][i] \in Jobs
    BY DEF BatchTypes
  <2> QED
    BY <2>1, <2>3, <2>4 DEF BufferInv
<1>3. ASSUME NEW j \in Jobs, CpuSend(j) PROVE BufferInv'
  <2>1. UNCHANGED <<batches, flushing, strategy>> /\ strategy[j] # "Batch"
    BY <1>3 DEF CpuSend, batchVars
  <2>2. \A o \in Jobs \ {j} : reply'[o] = reply[o]
    BY <1>3 DEF CpuSend, CallTypes
  <2>3. ASSUME NEW o \in Jobs, NEW k, Buffered(o, k)
        PROVE  Buffered(o, k)'
    BY <2>1, <2>2, <2>3 DEF Buffered, InHands
  <2>4. ASSUME NEW k \in Kinds, NEW i \in DOMAIN batches[k]
        PROVE  batches[k][i] \in Jobs
    BY DEF BatchTypes
  <2> QED
    BY <2>1, <2>3, <2>4 DEF BufferInv
<1>4. ASSUME NEW j \in Jobs, RunAcquire(j) PROVE BufferInv'
  BY <1>4
  DEF RunAcquire, CallTypes, HandsInv, BufferInv, Buffered, InHands, Hands,
      poolVars, batchVars
<1>5. ASSUME NEW j \in Jobs, BatchPush(j) PROVE BufferInv'
  <2> DEFINE l == JobSpec[j].kind
  <2>1. l \in Kinds /\ batches[l] \in Seq(Jobs) /\ Len(batches[l]) \in Nat
    BY OutputTypes DEF BatchTypes
  <2>2. /\ reply[j] = "none" /\ strategy[j] = "Batch"
        /\ reply' = [reply EXCEPT ![j] = "open"] /\ UNCHANGED <<strategy, flushing>>
        /\ batches' = [batches EXCEPT ![l] = Append(@, j)]
    BY <1>5 DEF BatchPush, CallInv, ReplyInv, Early
  <2>3. ASSUME NEW o \in Jobs, NEW k, Buffered(o, k)
        PROVE  Buffered(o, k)' /\ o # j
    BY <2>2, <2>3 DEF Buffered, InHands, CallTypes
  <2>4. Buffered(j, l)'
    BY <2>2 DEF Buffered, InHands, HandsInv, CallTypes
  <2>5. ASSUME NEW k \in Kinds, NEW i \in DOMAIN batches[k], NEW o, o = batches[k][i]
        PROVE  o \in Jobs /\ Buffered(o, k)' /\ o # j
    <3>1. o \in Jobs /\ Buffered(o, k)
      BY <2>5 DEF BatchTypes, BufferInv
    <3> QED
      BY <2>3, <3>1
  <2>6. ASSUME NEW k \in Kinds, k # l
        PROVE  batches'[k] = batches[k]
    BY <2>2, <2>6 DEF BatchTypes
  <2>7. /\ DOMAIN batches'[l] = 1 .. Len(batches[l]) + 1
        /\ DOMAIN batches[l] = 1 .. Len(batches[l])
        /\ \A i \in DOMAIN batches[l] : batches'[l][i] = batches[l][i]
        /\ batches'[l][Len(batches[l]) + 1] = j
    BY <2>1, <2>2 DEF BatchTypes
  <2>8. ASSUME NEW i \in DOMAIN batches'[l], NEW m \in DOMAIN batches'[l],
               batches'[l][i] = batches'[l][m]
        PROVE  i = m
    <3> DEFINE n == Len(batches[l])
    <3>1. (i \in DOMAIN batches[l] \/ i = n + 1) /\ (m \in DOMAIN batches[l] \/ m = n + 1)
      BY <2>1, <2>7
    <3>2. \A x \in DOMAIN batches[l] : batches'[l][x] = batches[l][x] /\ batches[l][x] # j
      BY <2>1, <2>5, <2>7
    <3>3. batches'[l][n + 1] = j
      BY <2>7
    <3>4. CASE i \in DOMAIN batches[l] /\ m \in DOMAIN batches[l]
      BY <2>1, <2>8, <3>2, <3>4 DEF BufferInv
    <3> HIDE DEF n
    <3> QED
      BY <2>8, <3>1, <3>2, <3>3, <3>4
  <2>9. ASSUME NEW i \in DOMAIN batches'[l], NEW o, o = batches'[l][i]
        PROVE  Buffered(o, l)'
    <3>1. CASE i \in DOMAIN batches[l]
      <4>1. o = batches[l][i]
        BY <2>7, <2>9, <3>1
      <4> QED
        BY <2>1, <2>5, <3>1, <4>1
    <3>2. CASE i = Len(batches[l]) + 1
      BY <2>4, <2>7, <2>9, <3>2
    <3> QED
      BY <2>1, <2>7, <3>1, <3>2
  <2> QED
    BY <2>5, <2>6, <2>8, <2>9 DEF BufferInv
<1>6. ASSUME NEW j \in Jobs, SubmitterTake(j) PROVE BufferInv'
  <2>1. flushing[j] = {} /\ j \in Hands /\ JobSpec[j].kind \in Kinds
    BY <1>6, OutputTypes DEF SubmitterTake, BusyInv, Hands
  <2> QED
    BY <1>6, <2>1, TakeBatchKeeps DEF SubmitterTake
<1>7. ASSUME NEW j \in Jobs, SubmitterFlush(j) PROVE BufferInv'
  BY <1>7
  DEF SubmitterFlush, FlushOne, Goto, CallTypes, HandsInv, BufferInv,
      Buffered, InHands, Hands
<1>8. ASSUME NEW j \in Jobs, Cancel(j) PROVE BufferInv'
  <2>1. /\ UNCHANGED <<batches, strategy>> /\ flushing' = [flushing EXCEPT ![j] = {}]
        /\ reply' = [o \in Jobs |-> IF o \in flushing[j] THEN "closed" ELSE reply[o]]
    BY <1>8 DEF Cancel
  <2>2. ASSUME NEW k \in Kinds, NEW i \in DOMAIN batches[k]
        PROVE  Buffered(batches[k][i], k)'
    <3> DEFINE o == batches[k][i]
    <3>1. o \in Jobs /\ Buffered(o, k) /\ o' = o
      BY <2>1 DEF BatchTypes, BufferInv
    <3> HIDE DEF o
    <3>2. o \notin flushing[j]
      BY <3>1 DEF Buffered, InHands, Hands
    <3>3. ~InHands(o)'
      BY <2>1, <3>1 DEF Buffered, InHands, Hands, HandsInv, BatchTypes
    <3>4. Buffered(o, k)'
      BY <2>1, <3>1, <3>2, <3>3 DEF Buffered
    <3> QED
      BY <3>1, <3>4 DEF o
  <2> QED
    BY <2>1, <2>2 DEF BufferInv
<1>9. ASSUME NEW j \in Jobs, WorkerReply(j) PROVE BufferInv'
  <2>1. ASSUME NEW k \in Kinds, NEW i \in DOMAIN batches[k]
        PROVE  batches[k][i] \in Jobs /\ Buffered(batches[k][i], k)
    BY DEF BatchTypes, BufferInv
  <2>2. ASSUME NEW o \in Jobs, NEW k, Buffered(o, k)
        PROVE  Buffered(o, k)'
    BY <1>9, <2>2
    DEF WorkerReply, Buffered, InHands, CallInv, WorkerInv, CallTypes,
        batchVars
  <2> QED
    BY <1>9, <2>1, <2>2 DEF WorkerReply, BufferInv, batchVars
<1>10. ASSUME NEW j \in Jobs, WorkerRelease(j) PROVE BufferInv'
  BY <1>10
  DEF WorkerRelease, HandsInv, BufferInv, Buffered, InHands, Hands, poolVars,
      batchVars
<1>11. ASSUME NEW j \in Jobs, RunWork(j) PROVE BufferInv'
  BY <1>11
  DEF RunWork, HandsInv, BufferInv, Buffered, InHands, Hands, poolVars,
      batchVars
<1>12. CASE DispatchRecv
  BY <1>12
  DEF DispatchRecv, HandsInv, BufferInv, Buffered, InHands, Hands, poolVars,
      batchVars
<1>13. CASE DispatchAcquire
  BY <1>13
  DEF DispatchAcquire, HandsInv, BufferInv, Buffered, InHands, Hands,
      poolVars, batchVars
<1>14. CASE DispatchExit
  <2>1. ASSUME NEW k \in Kinds, NEW i \in DOMAIN batches[k]
        PROVE  batches[k][i] \in Jobs /\ Buffered(batches[k][i], k)
    BY DEF BatchTypes, BufferInv
  <2>2. ASSUME NEW o \in Jobs, NEW k, Buffered(o, k)
        PROVE  Buffered(o, k)'
    BY <1>14, <2>2 DEF DispatchExit, Buffered, InHands, TxInv, batchVars
  <2> QED
    BY <1>14, <2>1, <2>2 DEF DispatchExit, BufferInv, batchVars
<1>15. CASE FlusherWake
  <2>1. flushing[Flusher] = {} /\ Flusher \in Hands /\ KindOrder[flush_idx] \in Kinds
    BY <1>15, FlushIdxStep DEF FlusherWake, BusyInv, Hands, BatchTypes
  <2> QED
    BY <1>15, <2>1, TakeBatchKeeps DEF FlusherWake
<1>16. CASE FlusherFlush
  BY <1>16
  DEF FlusherFlush, FlushOne, CallTypes, HandsInv, BufferInv, Buffered,
      InHands, Hands
<1> QED
  BY <1>1, <1>2, <1>3, <1>4, <1>5, <1>6, <1>7, <1>8, <1>9, <1>10, <1>11,
     <1>12, <1>13, <1>14, <1>15, <1>16, WorkActions

(* The background flusher works only on entries that it has, and so does a   *)
(* submitter.                                                                *)
LEMMA BusyInvStep ==
  ASSUME CallTypes, BatchTypes, BusyInv, [Next]_vars
  PROVE  BusyInv'
<1>1. CASE UNCHANGED <<flushing, flusher, pc>>
  BY <1>1 DEF BusyInv
<1>2. ASSUME NEW j \in Jobs, flushing[j] = {}, UNCHANGED <<flushing, flusher>>,
             NEW l, pc' = [pc EXCEPT ![j] = l]
      PROVE  BusyInv'
  BY <1>2 DEF BusyInv, CallTypes
<1>3. ASSUME NEW j \in Jobs,
             DeadlineExceeded(j) \/ ZeroCost(j) \/ CacheHit(j) \/ Decide(j) \/
             DropJob(j) \/ RunInline(j) \/ CountInline(j) \/ RunInlineWork(j) \/
             Return(j) \/ SpawnTask(j) \/ SpawnJoin(j)
      PROVE  BusyInv'
  <2>1. UNCHANGED <<flushing, flusher>> /\ flushing[j] = {}
    BY <1>3
    DEF DeadlineExceeded, ZeroCost, CacheHit, Decide, DropJob, RunInline, CountInline,
        RunInlineWork, Return, SpawnTask, SpawnJoin, batchVars, BusyInv
  <2>2. \E l : pc' = [pc EXCEPT ![j] = l]
    BY <1>3
    DEF DeadlineExceeded, ZeroCost, CacheHit, Decide, DropJob, RunInline, CountInline,
        RunInlineWork, Return, SpawnTask, SpawnJoin, Complete, CountDropped, Goto
  <2> QED
    BY <1>2, <2>1, <2>2
<1>4. ASSUME NEW j \in Jobs,
             CpuSend(j) \/ CpuCount(j) \/ ReplyReceived(j) \/ RunAwaitPermit(j) \/
             RunAcquire(j) \/ RunJoin(j) \/ BatchDraw(j) \/ BatchPush(j) \/
             SubmitterFlushed(j)
      PROVE  BusyInv'
  <2>1. UNCHANGED <<flushing, flusher>> /\ flushing[j] = {}
    BY <1>4
    DEF CpuSend, CpuCount, ReplyReceived, RunAwaitPermit, RunAcquire, RunJoin,
        BatchDraw, BatchPush, SubmitterFlushed, batchVars, BusyInv
  <2>2. \E l : pc' = [pc EXCEPT ![j] = l]
    BY <1>4
    DEF CpuSend, CpuCount, ReplyReceived, RunAwaitPermit, RunAcquire, RunJoin,
        BatchDraw, BatchPush, SubmitterFlushed, Complete, CountDropped, Goto
  <2> QED
    BY <1>2, <2>1, <2>2
<1>5. ASSUME NEW j \in Jobs, SubmitterTake(j) \/ SubmitterFlush(j) \/ Cancel(j)
      PROVE  BusyInv'
  <2>1. PICK l \in {"taken", "flushing", "cancelled"} : pc' = [pc EXCEPT ![j] = l]
    BY <1>5 DEF SubmitterTake, SubmitterFlush, Cancel, Goto
  <2>2. PICK T : /\ flushing' = [flushing EXCEPT ![j] = T]
                 /\ l = "cancelled" => T = {}
    <3>1. CASE SubmitterTake(j)
      BY <2>1, <3>1 DEF SubmitterTake, TakeBatch, Goto, CallTypes
    <3>2. CASE SubmitterFlush(j)
      BY <2>1, <3>2 DEF SubmitterFlush, FlushOne, Goto, CallTypes
    <3>3. CASE Cancel(j)
      BY <3>3 DEF Cancel
    <3> QED
      BY <1>5, <3>1, <3>2, <3>3
  <2>3. UNCHANGED flusher /\ Flusher # j
    BY <1>5, CoreAssumption DEF SubmitterTake, SubmitterFlush, Cancel, CoreAssumption
  <2>4. flushing'[Flusher] = flushing[Flusher]
    BY <2>2, <2>3 DEF BatchTypes
  <2>5. \A o \in Jobs \ {j} : flushing'[o] = flushing[o] /\ pc'[o] = pc[o]
    BY <2>1, <2>2 DEF BatchTypes, CallTypes
  <2>6. pc'[j] = l /\ flushing'[j] = T
    BY <2>1, <2>2 DEF BatchTypes, CallTypes
  <2> QED
    BY <2>1, <2>2, <2>3, <2>4, <2>5, <2>6 DEF BusyInv
<1>6. CASE FlusherWake \/ FlusherFlush \/ FlusherSleep \/ FlusherExit
  BY <1>6, CoreAssumption
  DEF FlusherWake, TakeBatch, FlusherFlush, FlushOne, FlusherSleep, FlusherExit,
      BusyInv, CallTypes, BatchTypes, CoreAssumption
<1>7. ASSUME NEW j \in Jobs, WorkerStep(j)
      PROVE  BusyInv'
  BY <1>1, <1>7 DEF WorkerStep, WorkerReply, WorkerRelease, RunWork, batchVars
<1>8. CASE DispatcherStep \/ CacheEvict \/ Shutdown \/ UNCHANGED vars
  BY <1>1, <1>8
  DEF DispatcherStep, DispatchRecv, DispatchAcquire, DispatchExit, CacheEvict,
      Shutdown, batchVars, vars
<1> QED
  BY <1>3, <1>4, <1>5, <1>6, <1>7, <1>8 DEF Next, JobStep, FlusherStep

(* Found(j): the work of j, if its reply is due, is somewhere. *)
LEMMA FoundInvStep ==
  ASSUME CallTypes, PoolTypes, BatchTypes, PoolInv, CallInv, TxInv, BufferInv, HandsInv,
         BusyInv, FoundInv, [Next]_vars
  PROVE  FoundInv'
<1> DEFINE Found(o) == /\ strategy[o] = "CpuPool" => InTx(o) \/ held = o \/ worker[o] = "exec"
                       /\ strategy[o] = "Batch" => InBatch(o) \/ InHands(o)
<1>0. \A o \in Jobs : reply[o] = "open" => Found(o)
  BY DEF FoundInv
<1> SUFFICES ASSUME NEW o \in Jobs, reply'[o] = "open"
             PROVE  Found(o)'
  BY DEF FoundInv
<1>1. CASE UNCHANGED workVars
  BY <1>0, <1>1 DEF InTx, InBatch, InHands, workVars
<1>2. ASSUME NEW j \in Jobs, Decide(j) PROVE Found(o)'
  <2>1. reply[j] = "none" /\ UNCHANGED <<reply, worker, cpu_tx, held, batches, flushing>>
    BY <1>2 DEF Decide, CallInv, ReplyInv, Early, poolVars, batchVars
  <2>2. j # o /\ \E s : strategy' = [strategy EXCEPT ![j] = s]
    BY <1>2, <2>1 DEF Decide
  <2>3. strategy'[o] = strategy[o]
    BY <2>2 DEF CallTypes
  <2> QED
    BY <1>0, <2>1, <2>3 DEF InTx, InBatch, InHands
<1>3. ASSUME NEW j \in Jobs, CpuSend(j) PROVE Found(o)'
  <2>1. strategy[j] = "CpuPool" /\ UNCHANGED <<strategy, worker, held, batches, flushing>>
    BY <1>3 DEF CpuSend, batchVars
  <2>2. CASE UNCHANGED <<cpu_tx, reply>>
    BY <1>0, <2>1, <2>2 DEF InTx, InBatch, InHands
  <2>3. CASE cpu_tx' = Append(cpu_tx, j) /\ reply' = [reply EXCEPT ![j] = "open"]
    <3>1. InTx(j)' /\ \A p : InTx(p) => InTx(p)'
      BY <2>3 DEF InTx, PoolTypes
    <3>2. j # o => reply[o] = "open"
      BY <2>3 DEF CallTypes
    <3> QED
      BY <1>0, <2>1, <3>1, <3>2 DEF InBatch, InHands
  <2> QED
    BY <1>3, <2>2, <2>3 DEF CpuSend
<1>4. ASSUME NEW j \in Jobs, RunAcquire(j) \/ WorkerRelease(j) \/ RunWork(j) PROVE Found(o)'
  <2>1. UNCHANGED <<reply, strategy, cpu_tx, held, batches, flushing>>
    BY <1>4 DEF RunAcquire, WorkerRelease, RunWork, batchVars
  <2>2. worker[o] = "exec" => worker'[o] = "exec" \/ reply[o] # "open"
    BY <1>4 DEF RunAcquire, WorkerRelease, RunWork, PoolTypes, CallInv, ReplyInv
  <2> QED
    BY <1>0, <2>1, <2>2 DEF InTx, InBatch, InHands
<1>5. ASSUME NEW j \in Jobs, BatchPush(j) PROVE Found(o)'
  <2>1. /\ strategy[j] = "Batch" /\ JobSpec[j].kind \in Kinds
        /\ UNCHANGED <<strategy, worker, cpu_tx, held, flushing>>
        /\ reply' = [reply EXCEPT ![j] = "open"]
        /\ batches' = [batches EXCEPT ![JobSpec[j].kind] = Append(@, j)]
    BY <1>5, OutputTypes DEF BatchPush, CallInv, ReplyInv, poolVars
  <2>2. InBatch(j)' /\ \A p \in Jobs : InBatch(p) => InBatch(p)'
    <3> DEFINE l == JobSpec[j].kind
    <3>1. batches[l] \in Seq(Jobs) /\ batches'[l] = Append(batches[l], j)
      BY <2>1 DEF BatchTypes
    <3>2. /\ Len(batches[l]) + 1 \in DOMAIN batches'[l]
          /\ batches'[l][Len(batches[l]) + 1] = j
          /\ \A i \in DOMAIN batches[l] : i \in DOMAIN batches'[l] /\ batches'[l][i] = batches[l][i]
      BY <3>1
    <3>3. \A k \in Kinds : k # l => batches'[k] = batches[k]
      BY <2>1 DEF BatchTypes
    <3>4. \A p \in Jobs : JobSpec[p].kind \in Kinds
      BY OutputTypes
    <3> QED
      BY <3>2, <3>3, <3>4 DEF InBatch
  <2>3. j # o => reply[o] = "open"
    BY <2>1 DEF CallTypes
  <2> QED
    BY <1>0, <2>1, <2>2, <2>3 DEF InTx, InHands
<1>6. ASSUME UNCHANGED <<reply, strategy, worker, cpu_tx, held>>,
             NEW f \in Hands, NEW k \in Kinds, flushing[f] = {}, TakeBatch(f, k)
      PROVE  Found(o)'
  BY <1>0, <1>6, TakeBatchKeeps DEF InTx
<1>7. ASSUME NEW j \in Jobs, SubmitterTake(j) PROVE Found(o)'
  <2>1. flushing[j] = {} /\ j \in Hands /\ JobSpec[j].kind \in Kinds
    BY <1>7, OutputTypes DEF SubmitterTake, BusyInv, Hands
  <2> QED
    BY <1>6, <1>7, <2>1 DEF SubmitterTake, poolVars
<1>8. CASE FlusherWake
  <2>1. flushing[Flusher] = {} /\ Flusher \in Hands /\ KindOrder[flush_idx] \in Kinds
    BY <1>8, FlushIdxStep DEF FlusherWake, BusyInv, Hands, BatchTypes
  <2> QED
    BY <1>6, <1>8, <2>1 DEF FlusherWake, poolVars
<1>9. ASSUME NEW f \in Hands, NEW p \in Jobs, FlushOne(f, p),
             UNCHANGED <<strategy, worker, cpu_tx, held, batches>>
      PROVE  Found(o)'
  <2>1. reply' = [reply EXCEPT ![p] = "sent"] /\ flushing' = [flushing EXCEPT ![f] = @ \ {p}]
    BY <1>9 DEF FlushOne
  <2>2. o # p /\ reply[o] = "open"
    BY <2>1 DEF CallTypes
  <2>3. InHands(o) => InHands(o)'
    BY <2>1, <2>2 DEF InHands, BatchTypes, Hands
  <2> QED
    BY <1>0, <1>9, <2>2, <2>3 DEF InTx, InBatch
<1>10. ASSUME NEW j \in Jobs, SubmitterFlush(j) PROVE Found(o)'
  BY <1>9, <1>10 DEF SubmitterFlush, Hands, poolVars
<1>11. CASE FlusherFlush
  BY <1>9, <1>11 DEF FlusherFlush, Hands, poolVars
<1>12. ASSUME NEW j \in Jobs, Cancel(j) PROVE Found(o)'
  <2>1. reply' = [p \in Jobs |-> IF p \in flushing[j] THEN "closed" ELSE reply[p]]
    BY <1>12 DEF Cancel
  <2>2. o \notin flushing[j] /\ reply[o] = "open"
    BY <2>1
  <2>3. /\ flushing' = [flushing EXCEPT ![j] = {}]
        /\ UNCHANGED <<strategy, worker, cpu_tx, held, batches>>
    BY <1>12 DEF Cancel, poolVars
  <2>4. InHands(o) => InHands(o)'
    BY <2>2, <2>3 DEF InHands, BatchTypes, Hands
  <2> QED
    BY <1>0, <2>2, <2>3, <2>4 DEF InTx, InBatch
<1>13. ASSUME NEW j \in Jobs, WorkerReply(j) PROVE Found(o)'
  <2>1. /\ UNCHANGED <<strategy, cpu_tx, held, batches, flushing>>
        /\ reply' = [reply EXCEPT ![j] = "sent"] /\ worker' = [worker EXCEPT ![j] = "replied"]
    BY <1>13 DEF WorkerReply, batchVars
  <2>2. o # j /\ reply[o] = "open"
    BY <2>1 DEF CallTypes
  <2>3. worker'[o] = worker[o]
    BY <2>1, <2>2 DEF PoolTypes
  <2> QED
    BY <1>0, <2>1, <2>2, <2>3 DEF InTx, InBatch, InHands
<1>14. CASE DispatchRecv
  <2>1. /\ UNCHANGED <<reply, strategy, worker, batches, flushing>>
        /\ held' = Head(cpu_tx) /\ cpu_tx' = Tail(cpu_tx) /\ cpu_tx # <<>> /\ held = Nobody
    BY <1>14 DEF DispatchRecv, batchVars, PoolInv, HeldInv
  <2>2. InTx(o) => InTx(o)' \/ held' = o
    <3>1. ASSUME NEW i \in DOMAIN cpu_tx, cpu_tx[i] = o
          PROVE  InTx(o)' \/ held' = o
      <4>1. CASE i = 1
        BY <2>1, <3>1, <4>1 DEF PoolTypes
      <4>2. CASE i # 1
        <5>1. i - 1 \in DOMAIN Tail(cpu_tx) /\ Tail(cpu_tx)[i - 1] = cpu_tx[i]
          BY <2>1, <4>2 DEF PoolTypes
        <5> QED
          BY <2>1, <3>1, <5>1 DEF InTx
      <4> QED
        BY <4>1, <4>2
    <3> QED
      BY <3>1 DEF InTx
  <2>3. held # o
    BY <2>1, CoreAssumption DEF CoreAssumption
  <2> QED
    BY <1>0, <2>1, <2>2, <2>3 DEF InBatch, InHands
<1>15. CASE DispatchAcquire
  <2>1. /\ UNCHANGED <<reply, strategy, cpu_tx, batches, flushing>>
        /\ worker' = [worker EXCEPT ![held] = "exec"]
    BY <1>15 DEF DispatchAcquire, batchVars
  <2>2. held = o \/ worker[o] = "exec" => worker'[o] = "exec"
    BY <2>1 DEF PoolTypes
  <2> QED
    BY <1>0, <2>1, <2>2 DEF InTx, InBatch, InHands
<1>16. CASE DispatchExit
  <2>1. /\ UNCHANGED <<strategy, worker, held, batches, flushing>>
        /\ reply' = [j \in Jobs |-> IF \E i \in DOMAIN cpu_tx : cpu_tx[i] = j
                                    THEN "closed" ELSE reply[j]]
    BY <1>16 DEF DispatchExit, batchVars
  <2>2. ~InTx(o) /\ reply[o] = "open"
    BY <2>1 DEF InTx
  <2> QED
    BY <1>0, <2>1, <2>2 DEF InBatch, InHands
<1> QED
  BY <1>1, <1>2, <1>3, <1>4, <1>5, <1>7, <1>8, <1>10, <1>11, <1>12, <1>13, <1>14, <1>15,
     <1>16, WorkActions

-----------------------------------------------------------------------------
(* What a step does to the calls *)

Over == {"recording", "done", "cancelled", "panicked"}

(* Nobody's call ends, and the work of at most one call runs. *)
Silent ==
  /\ \A j \in Jobs : pc'[j] # pc[j] => pc[j] \notin Over /\ pc'[j] \notin Over
  /\ UNCHANGED <<res, completed, dropped>>
  /\ \/ UNCHANGED runs
     \/ \E o \in Jobs : Execute(o) /\ runs[o] = 0 /\ pc[o] \notin {"recording", "done"}

(* The call is answered with its own output: the work ran before, or now. *)
Answers(j) ==
  /\ pc[j] \notin Over
  /\ \/ UNCHANGED runs /\ runs[j] = 1
     \/ Execute(j) /\ runs[j] = 0
  /\ \/ Complete(j, execute_job(j), "recording")
     \/ Complete(j, execute_job(j), "done") /\ runs[j] = 1

(* The call gets no answer: it has not run, or it panicked. *)
Refuses(j) ==
  /\ pc[j] \notin Over
  /\ \/ CountDropped(j, "recording") /\ runs[j] = 0 /\ strategy[j] # "Inline"
     \/ CountDropped(j, "done") /\ JobSpec[j].panics
  /\ UNCHANGED <<runs, strategy>>

(* A panic unwinds the caller. *)
Unwinds(j) ==
  /\ pc[j] \notin Over
  /\ Goto(j, "panicked")
  /\ UNCHANGED <<res, completed, dropped>>
  /\ UNCHANGED runs \/ (JobSpec[j].panics /\ Execute(j) /\ runs[j] = 0)

(* Every step of the router is one of these, for the calls. *)
LEMMA CallSteps ==
  ASSUME CallTypes, CallInv, HandsInv, [Next]_vars
  PROVE  \/ Silent
         \/ \E j \in Jobs :
              \/ Answers(j) \/ Refuses(j) \/ Unwinds(j)
              \/ CacheHit(j) \/ Return(j) \/ Cancel(j)
<1>1. ASSUME NEW j \in Jobs, NEW l, pc' = [pc EXCEPT ![j] = l],
             pc[j] \notin Over, l \notin Over,
             UNCHANGED <<res, completed, dropped>>,
             UNCHANGED runs \/ (Execute(j) /\ runs[j] = 0)
      PROVE  Silent
  BY <1>1 DEF Silent, CallTypes, Over
<1>2. ASSUME NEW j \in Jobs,
             \/ Decide(j) \/ RunAwaitPermit(j) \/ RunAcquire(j) \/ BatchDraw(j)
             \/ BatchPush(j) \/ SubmitterTake(j) \/ SubmitterFlushed(j)
      PROVE  Silent
  <2>1. pc[j] \notin Over /\ UNCHANGED <<res, completed, dropped, runs>>
    BY <1>2
    DEF Decide, RunAwaitPermit, RunAcquire, BatchDraw, BatchPush, SubmitterTake,
        SubmitterFlushed, Over, statVars
  <2>2. \E l : l \notin Over /\ pc' = [pc EXCEPT ![j] = l]
    BY <1>2
    DEF Decide, RunAwaitPermit, RunAcquire, BatchDraw, BatchPush, SubmitterTake,
        SubmitterFlushed, Over, Goto
  <2> QED
    BY <1>1, <2>1, <2>2
<1>3. ASSUME NEW j \in Jobs, ZeroCost(j) \/ RunInline(j) \/ SpawnTask(j)
      PROVE  Silent
  <2>1. /\ pc[j] \notin Over /\ UNCHANGED <<res, completed, dropped>>
        /\ Execute(j) /\ runs[j] = 0
    BY <1>3 DEF ZeroCost, RunInline, SpawnTask, Over, CallInv, ReplyInv, Early
  <2>2. \E l : l \notin Over /\ pc' = [pc EXCEPT ![j] = l]
    BY <1>3 DEF ZeroCost, RunInline, SpawnTask, Over, Goto
  <2> QED
    BY <1>1, <2>1, <2>2
<1>4. ASSUME NEW j \in Jobs, DeadlineExceeded(j) \/ DropJob(j)
      PROVE  Refuses(j)
  BY <1>4 DEF DeadlineExceeded, DropJob, Refuses, Over, CallInv, ReplyInv, Early
<1>5. ASSUME NEW j \in Jobs, CountInline(j) \/ SpawnJoin(j)
      PROVE  Answers(j) \/ Refuses(j)
  BY <1>5 DEF CountInline, SpawnJoin, Answers, Refuses, Over, CallInv, WorkerInv
<1>6. ASSUME NEW j \in Jobs, RunJoin(j) \/ ReplyReceived(j)
      PROVE  Answers(j) \/ Refuses(j)
  BY <1>6 DEF RunJoin, ReplyReceived, Answers, Refuses, Over, CallInv, ReplyInv, WorkerInv
<1>7. ASSUME NEW j \in Jobs, RunInlineWork(j)
      PROVE  Answers(j) \/ Unwinds(j)
  BY <1>7 DEF RunInlineWork, Answers, Unwinds, Over, CallInv, ReplyInv, Early
<1>8. ASSUME NEW j \in Jobs, CpuSend(j)
      PROVE  Silent \/ Refuses(j)
  <2>1. CASE Goto(j, "sent") /\ UNCHANGED <<completed, dropped, res>>
    BY <1>1, <1>8, <2>1 DEF CpuSend, Goto, Over
  <2>2. CASE CountDropped(j, "recording")
    BY <1>8, <2>2 DEF CpuSend, Refuses, Over, CallInv, ReplyInv, Early
  <2> QED
    BY <1>8, <2>1, <2>2 DEF CpuSend
<1>9. ASSUME NEW j \in Jobs, CpuCount(j)
      PROVE  Silent \/ Unwinds(j)
  <2>1. CASE Goto(j, "awaitReply")
    BY <1>1, <1>9, <2>1 DEF CpuCount, Goto, Over, statVars
  <2>2. CASE Goto(j, "panicked")
    BY <1>9, <2>2 DEF CpuCount, Unwinds, Over, statVars
  <2> QED
    BY <1>9, <2>1, <2>2 DEF CpuCount
<1>10. ASSUME NEW o \in Jobs, Execute(o), reply[o] = "open",
              UNCHANGED <<res, completed, dropped>>,
              \A p \in Jobs : pc'[p] # pc[p] => pc[p] = "taken" /\ pc'[p] = "flushing"
       PROVE  Silent
  <2>1. runs[o] = 0 /\ pc[o] \notin {"recording", "done"}
    BY <1>10 DEF CallInv, ReplyInv, Waiting
  <2> QED
    BY <1>10, <2>1 DEF Silent, Over
<1>11. ASSUME NEW j \in Jobs, SubmitterFlush(j)
       PROVE  Silent
  <2>1. \E o \in Jobs : Execute(o) /\ reply[o] = "open"
    BY <1>11 DEF SubmitterFlush, FlushOne, HandsInv, Hands
  <2>2. \A p \in Jobs : pc'[p] # pc[p] => pc[p] = "taken" /\ pc'[p] = "flushing"
    BY <1>11 DEF SubmitterFlush, Goto, CallTypes
  <2> QED
    BY <1>10, <1>11, <2>1, <2>2 DEF SubmitterFlush, statVars
<1>12. CASE FlusherFlush
  <2>1. \E o \in Jobs : Execute(o) /\ reply[o] = "open"
    BY <1>12 DEF FlusherFlush, FlushOne, HandsInv, Hands
  <2> QED
    BY <1>10, <1>12, <2>1 DEF FlusherFlush, statVars
<1>13. ASSUME NEW j \in Jobs, WorkerReply(j) \/ RunWork(j)
       PROVE  Silent
  <2>1. /\ Execute(j) /\ runs[j] = 0 /\ UNCHANGED <<pc, res, completed, dropped>>
        /\ pc[j] \notin {"recording", "done"}
    BY <1>13
    DEF WorkerReply, RunWork, statVars, CallInv, WorkerInv, ReplyInv, Waiting
  <2> QED
    BY <2>1 DEF Silent
<1>14. ASSUME \/ UNCHANGED vars \/ (\E j \in Jobs : WorkerRelease(j)) \/ DispatcherStep
              \/ FlusherWake \/ FlusherSleep \/ FlusherExit \/ CacheEvict \/ Shutdown
       PROVE  Silent
  <2>1. UNCHANGED <<pc, res, completed, dropped, runs>>
    BY <1>14
    DEF vars, statVars, WorkerRelease, DispatcherStep, DispatchRecv, DispatchAcquire,
        DispatchExit, FlusherWake, FlusherSleep, FlusherExit, CacheEvict, Shutdown
  <2> QED
    BY <2>1 DEF Silent
<1> QED
  BY <1>2, <1>3, <1>4, <1>5, <1>6, <1>7, <1>8, <1>9, <1>11, <1>12, <1>13, <1>14
  DEF Next, JobStep, WorkerStep, FlusherStep

(* A strategy is decided once, by a new call. *)
LEMMA DecideOnce ==
  ASSUME CallTypes, [Next]_vars
  PROVE  \A j \in Jobs : strategy'[j] # strategy[j] => pc[j] = "new"
<1>1. ASSUME NEW j \in Jobs, Decide(j)
      PROVE  \A o \in Jobs : strategy'[o] # strategy[o] => pc[o] = "new"
  BY <1>1 DEF Decide, CallTypes
<1>2. ASSUME NEW j \in Jobs,
             \/ DeadlineExceeded(j) \/ ZeroCost(j) \/ CacheHit(j) \/ DropJob(j)
             \/ RunInline(j) \/ CountInline(j) \/ RunInlineWork(j) \/ Return(j)
             \/ SpawnTask(j) \/ SpawnJoin(j) \/ CpuSend(j) \/ CpuCount(j)
             \/ ReplyReceived(j) \/ RunAwaitPermit(j) \/ RunAcquire(j) \/ RunJoin(j)
             \/ BatchDraw(j) \/ BatchPush(j) \/ SubmitterTake(j) \/ SubmitterFlush(j)
             \/ SubmitterFlushed(j) \/ WorkerStep(j) \/ Cancel(j)
      PROVE  UNCHANGED strategy
  BY <1>2
  DEF DeadlineExceeded, ZeroCost, CacheHit, DropJob, RunInline, CountInline,
      RunInlineWork, Return, SpawnTask, SpawnJoin, CpuSend, CpuCount, ReplyReceived,
      RunAwaitPermit, RunAcquire, RunJoin, BatchDraw, BatchPush, SubmitterTake,
      SubmitterFlush, SubmitterFlushed, WorkerStep, WorkerReply, WorkerRelease, RunWork,
      Cancel
<1>3. ASSUME UNCHANGED vars \/ DispatcherStep \/ FlusherStep \/ CacheEvict \/ Shutdown
      PROVE  UNCHANGED strategy
  BY <1>3
  DEF vars, DispatcherStep, DispatchRecv, DispatchAcquire, DispatchExit, FlusherStep,
      FlusherWake, FlusherFlush, FlusherSleep, FlusherExit, CacheEvict, Shutdown
<1> QED
  BY <1>1, <1>2, <1>3 DEF Next, JobStep

(* Only a call that ran returns an answer, and only one that did not is      *)
(* refused after its decision.                                               *)
LEMMA ResInvStep ==
  ASSUME CallTypes, CallInv, HandsInv, ResInv, [Next]_vars
  PROVE  ResInv'
<1>1. \A o \in Jobs : pc[o] = "recording" => strategy'[o] = strategy[o]
  BY DecideOnce
<1>2. CASE Silent
  BY <1>1, <1>2 DEF Silent, Over, Execute, ResInv, CallTypes
<1>3. ASSUME NEW j \in Jobs, NEW l \in Over, pc' = [pc EXCEPT ![j] = l],
             \A o \in Jobs \ {j} : res'[o] = res[o] /\ runs'[o] = runs[o],
             l = "panicked" => res'[j] = None,
             l = "recording" =>
               \/ res'[j] = None /\ runs'[j] = 0 /\ strategy'[j] # "Inline"
               \/ res'[j] = execute_job(j) /\ runs'[j] = 1
      PROVE  ResInv'
  BY <1>1, <1>3 DEF ResInv, CallTypes, Over
<1>4. ASSUME NEW j \in Jobs, Answers(j) PROVE ResInv'
  <2>1. \E l \in {"recording", "done"} : pc' = [pc EXCEPT ![j] = l]
    BY <1>4 DEF Answers, Complete, Goto
  <2>2. res' = [res EXCEPT ![j] = execute_job(j)]
    BY <1>4 DEF Answers, Complete
  <2>3. runs'[j] = 1 /\ \A o \in Jobs \ {j} : runs'[o] = runs[o]
    BY <1>4 DEF Answers, Execute, CallTypes
  <2> QED
    BY <1>3, <2>1, <2>2, <2>3 DEF Over, CallTypes
<1>5. ASSUME NEW j \in Jobs, Refuses(j) PROVE ResInv'
  <2>1. /\ \E l \in {"recording", "done"} :
              /\ pc' = [pc EXCEPT ![j] = l]
              /\ l = "recording" => runs[j] = 0 /\ strategy[j] # "Inline"
        /\ UNCHANGED <<res, runs>>
    BY <1>5 DEF Refuses, CountDropped, Goto
  <2>2. res[j] = None
    BY <1>5 DEF Refuses, ResInv, Over
  <2>3. strategy' = strategy
    BY <1>5 DEF Refuses
  <2> QED
    BY <1>3, <2>1, <2>2, <2>3 DEF Over
<1>6. ASSUME NEW j \in Jobs, Unwinds(j) PROVE ResInv'
  <2>1. res[j] = None /\ UNCHANGED res
    BY <1>6 DEF Unwinds, ResInv, Over
  <2>2. \A o \in Jobs \ {j} : runs'[o] = runs[o]
    BY <1>6 DEF Unwinds, Execute, CallTypes
  <2> QED
    BY <1>3, <1>6, <2>1, <2>2 DEF Unwinds, Goto, Over
<1>7. ASSUME NEW j \in Jobs, CacheHit(j) PROVE ResInv'
  BY <1>3, <1>7 DEF CacheHit, Complete, Goto, Over, CallTypes
<1>8. ASSUME NEW j \in Jobs, Return(j) \/ Cancel(j) PROVE ResInv'
  BY <1>3, <1>8 DEF Return, Cancel, Goto, Over
<1> QED
  BY <1>2, <1>4, <1>5, <1>6, <1>7, <1>8, CallSteps

(* Only Return stores and only CacheEvict removes. *)
LEMMA CacheActions ==
  ASSUME [Next]_vars
  PROVE  UNCHANGED result_cache \/ (\E j \in Jobs : Return(j)) \/ CacheEvict
<1>1. ASSUME NEW j \in Jobs,
             \/ DeadlineExceeded(j) \/ ZeroCost(j) \/ CacheHit(j) \/ Decide(j) \/ DropJob(j)
             \/ RunInline(j) \/ CountInline(j) \/ RunInlineWork(j) \/ SpawnTask(j)
             \/ SpawnJoin(j) \/ CpuSend(j) \/ CpuCount(j) \/ ReplyReceived(j)
             \/ RunAwaitPermit(j) \/ RunAcquire(j) \/ RunJoin(j) \/ BatchDraw(j)
             \/ BatchPush(j) \/ SubmitterTake(j) \/ SubmitterFlush(j)
             \/ SubmitterFlushed(j) \/ WorkerStep(j) \/ Cancel(j)
      PROVE  UNCHANGED result_cache
  BY <1>1
  DEF DeadlineExceeded, ZeroCost, CacheHit, Decide, DropJob, RunInline, CountInline,
      RunInlineWork, SpawnTask, SpawnJoin, CpuSend, CpuCount, ReplyReceived,
      RunAwaitPermit, RunAcquire, RunJoin, BatchDraw, BatchPush, SubmitterTake,
      SubmitterFlush, SubmitterFlushed, WorkerStep, WorkerReply, WorkerRelease, RunWork,
      Cancel
<1>2. ASSUME UNCHANGED vars \/ DispatcherStep \/ FlusherStep \/ Shutdown
      PROVE  UNCHANGED result_cache
  BY <1>2
  DEF vars, DispatcherStep, DispatchRecv, DispatchAcquire, DispatchExit, FlusherStep,
      FlusherWake, FlusherFlush, FlusherSleep, FlusherExit, Shutdown
<1> QED
  BY <1>1, <1>2 DEF Next, JobStep

(* No run is forgotten. *)
LEMMA RunsGrow ==
  ASSUME CallTypes, CallInv, HandsInv, [Next]_vars
  PROVE  \A o \in Jobs : runs'[o] >= runs[o]
<1>1. UNCHANGED runs \/ \E j \in Jobs : Execute(j)
  BY CallSteps DEF Silent, Answers, Refuses, Unwinds, CacheHit, Return, Cancel
<1> QED
  BY <1>1 DEF Execute, CallTypes

(* The cache only ever holds what a kernel computed for that content. *)
LEMMA CacheInvStep ==
  ASSUME CallTypes, CallInv, HandsInv, ResInv, CacheInv, ReplyInv', CallTypes', [Next]_vars
  PROVE  CacheInv'
<1> DEFINE Held(k, out) == \E o \in Jobs : runs[o] = 1 /\ job_key(o) = k /\ out = execute_job(o)
<1>1. ASSUME NEW k, NEW out, Held(k, out)
      PROVE  \E o \in Jobs : runs'[o] = 1 /\ job_key(o) = k /\ out = execute_job(o)
  <2>1. \A o \in Jobs : runs[o] = 1 => runs'[o] = 1
    BY RunsGrow DEF ReplyInv, CallTypes
  <2> QED
    BY <1>1, <2>1
<1>2. \A k \in DOMAIN result_cache : Held(k, result_cache[k])
  BY DEF CacheInv
<1> HIDE DEF Held
<1>3. SUFFICES ASSUME NEW k \in DOMAIN result_cache' PROVE Held(k, result_cache'[k])
  BY <1>1 DEF CacheInv, job_key, execute_job
<1>4. CASE UNCHANGED result_cache
  BY <1>2, <1>4
<1>5. CASE CacheEvict
  BY <1>2, <1>5 DEF CacheEvict
<1>6. ASSUME NEW j \in Jobs, Return(j) PROVE Held(k, result_cache'[k])
  <2>1. CASE k # job_key(j) \/ ~(strategy[j] = "Inline" /\ JobSpec[j].api = "submit")
    BY <1>2, <1>6, <2>1 DEF Return
  <2>2. CASE k = job_key(j) /\ strategy[j] = "Inline" /\ JobSpec[j].api = "submit"
    <3>1. result_cache'[k] = execute_job(j)
      BY <1>6, <2>2 DEF Return
    <3>2. runs[j] = 1
      BY <1>6, <2>2 DEF Return, ResInv
    <3> QED
      BY <2>2, <3>1, <3>2 DEF Held
  <2> QED
    BY <2>1, <2>2
<1> QED
  BY <1>4, <1>5, <1>6, CacheActions

-----------------------------------------------------------------------------
(* The invariant *)

(* The initial state satisfies it: nothing is anywhere. *)
LEMMA InitWorkInv == Init => WorkInv
<1> SUFFICES ASSUME Init PROVE WorkInv
  OBVIOUS
<1>1. CallInv
  BY CoreAssumption DEF Init, CallInv, ReplyInv, WorkerInv, CoreAssumption, JobSpecs
<1>2. TxInv /\ BufferInv /\ HandsInv /\ BusyInv
  BY DEF Init, TxInv, BufferInv, HandsInv, BusyInv, Hands
<1>3. FoundInv
  BY DEF Init, FoundInv
<1>4. AnswerInv
  BY DEF Init, AnswerInv, ResInv, CacheInv
<1> QED
  BY <1>1, <1>2, <1>3, <1>4 DEF WorkInv, PlaceInv

(* Every step preserves it. *)
LEMMA NextWorkInv == IInv /\ WorkInv /\ [Next]_vars => WorkInv'
<1> SUFFICES ASSUME IInv, WorkInv, [Next]_vars PROVE WorkInv'
  OBVIOUS
<1>1. CallTypes /\ PoolTypes /\ BatchTypes /\ StoreTypes /\ PoolInv /\ CallTypes'
  BY NextIInv DEF IInv, TypeOK
<1>2. CallInv /\ PlaceInv /\ ResInv /\ CacheInv
  BY DEF WorkInv, AnswerInv
<1>3. TxInv /\ BufferInv /\ HandsInv /\ BusyInv /\ FoundInv
  BY <1>2 DEF PlaceInv
<1>4. ReplyInv'
  BY <1>1, <1>2, ReplyInvStep
<1>5. WorkerInv'
  BY <1>1, <1>2, WorkerInvStep
<1>6. TxInv' /\ BufferInv' /\ HandsInv'
  BY <1>1, <1>2, <1>3, TxInvStep, BufferInvStep, HandsInvStep
<1>7. BusyInv'
  BY <1>1, <1>3, BusyInvStep
<1>8. FoundInv'
  BY <1>1, <1>2, <1>3, FoundInvStep
<1>9. ResInv'
  BY <1>1, <1>2, <1>3, ResInvStep
<1>10. CacheInv'
  BY <1>1, <1>2, <1>3, <1>4, CacheInvStep
<1> QED
  BY <1>4, <1>5, <1>6, <1>7, <1>8, <1>9, <1>10 DEF WorkInv, CallInv, PlaceInv, AnswerInv

(* The invariant of the calls holds of every state the router reaches. *)
THEOREM WorkInvariant == Spec => [](IInv /\ WorkInv)
<1>1. Init => IInv /\ WorkInv
  BY InitIInv, InitWorkInv
<1>2. IInv /\ WorkInv /\ [Next]_vars => (IInv /\ WorkInv)'
  BY NextIInv, NextWorkInv
<1> QED
  BY <1>1, <1>2, PTL DEF Spec

(* No work runs twice: not when its caller goes away, when its reply is      *)
(* dropped, nor when two flushers take the same kind at once.                *)
THEOREM RunsAtMostOnce == Spec => []RunsOnce
<1>1. IInv /\ WorkInv => RunsOnce
  BY DEF WorkInv, CallInv, ReplyInv, RunsOnce
<1> QED
  BY <1>1, WorkInvariant, PTL

-----------------------------------------------------------------------------
(* Work is in one place *)

(* A call is found at most once where no call is found twice. *)
LEMMA OccurrencesOnce ==
  ASSUME NEW S, NEW s \in Seq(S), NEW o, \A i, n \in DOMAIN s : s[i] = s[n] => i = n
  PROVE  Occurrences(s, o) = IF \E i \in DOMAIN s : s[i] = o THEN 1 ELSE 0
<1>1. CASE \E i \in DOMAIN s : s[i] = o
  <2>1. PICK i \in DOMAIN s : s[i] = o
    BY <1>1
  <2>2. {n \in DOMAIN s : s[n] = o} = {i}
    BY <2>1
  <2> QED
    BY <1>1, <2>2, FS_Singleton DEF Occurrences
<1>2. CASE ~ \E i \in DOMAIN s : s[i] = o
  <2>1. {n \in DOMAIN s : s[n] = o} = {}
    BY <1>2
  <2> QED
    BY <1>2, <2>1, FS_EmptySet DEF Occurrences
<1> QED
  BY <1>1, <1>2

(* A call is in at most one flusher's hands. *)
LEMMA HandsOnce ==
  ASSUME HandsInv, NEW o \in Jobs
  PROVE  Cardinality({f \in Jobs \cup {Flusher} : o \in flushing[f]}) = IF InHands(o) THEN 1 ELSE 0
<1>1. CASE InHands(o)
  <2>1. PICK f \in Hands : o \in flushing[f]
    BY <1>1 DEF InHands
  <2>2. {g \in Jobs \cup {Flusher} : o \in flushing[g]} = {f}
    BY <2>1 DEF HandsInv, Hands
  <2> QED
    BY <1>1, <2>2, FS_Singleton
<1>2. CASE ~InHands(o)
  <2>1. {g \in Jobs \cup {Flusher} : o \in flushing[g]} = {}
    BY <1>2 DEF InHands, Hands
  <2> QED
    BY <1>2, <2>1, FS_EmptySet
<1> QED
  BY <1>1, <1>2

(* How many places work is in follows from which. *)
LEMMA PlacesOf ==
  ASSUME IInv, WorkInv, NEW o \in Jobs
  PROVE  Places(o) = (IF InTx(o) THEN 1 ELSE 0) + (IF InBatch(o) THEN 1 ELSE 0)
                     + (IF InHands(o) THEN 1 ELSE 0) + (IF held = o THEN 1 ELSE 0)
                     + (IF worker[o] = "exec" /\ JobSpec[o].api = "submit" THEN 1 ELSE 0)
<1>1. Occurrences(cpu_tx, o) = IF InTx(o) THEN 1 ELSE 0
  <2>1. cpu_tx \in Seq(Jobs) /\ \A i, n \in DOMAIN cpu_tx : cpu_tx[i] = cpu_tx[n] => i = n
    BY DEF IInv, TypeOK, PoolTypes, PoolInv, QueueInv
  <2> QED
    BY <2>1, OccurrencesOnce DEF InTx
<1>2. Occurrences(batches[JobSpec[o].kind], o) = IF InBatch(o) THEN 1 ELSE 0
  <2> DEFINE b == batches[JobSpec[o].kind]
  <2>1. b \in Seq(Jobs) /\ \A i, n \in DOMAIN b : b[i] = b[n] => i = n
    BY OutputTypes DEF IInv, TypeOK, BatchTypes, WorkInv, PlaceInv, BufferInv
  <2> QED
    BY <2>1, OccurrencesOnce DEF InBatch
<1>3. Cardinality({f \in Jobs \cup {Flusher} : o \in flushing[f]}) = IF InHands(o) THEN 1 ELSE 0
  BY HandsOnce DEF WorkInv, PlaceInv
<1> QED
  BY <1>1, <1>2, <1>3 DEF Places

(* The places exclude each other, and one of them is the place of work whose *)
(* reply is due.                                                             *)
THEOREM WorkHasOneOwner == Spec => []OneOwner
<1>1. IInv /\ WorkInv => OneOwner
  <2> SUFFICES ASSUME IInv, WorkInv, NEW o \in Jobs
               PROVE  Places(o) = IF reply[o] = "open" THEN 1 ELSE 0
    BY DEF OneOwner
  <2>1. InTx(o) => /\ reply[o] = "open" /\ strategy[o] = "CpuPool"
                   /\ worker[o] = "none" /\ held # o
    BY DEF IInv, PoolInv, QueueInv, WorkInv, PlaceInv, TxInv, InTx
  <2>2. held = o => reply[o] = "open" /\ strategy[o] = "CpuPool" /\ worker[o] = "none"
    BY CoreAssumption DEF IInv, PoolInv, HeldInv, WorkInv, PlaceInv, TxInv, CoreAssumption
  <2>3. worker[o] = "exec" /\ JobSpec[o].api = "submit"
          => reply[o] = "open" /\ strategy[o] = "CpuPool"
    BY DEF WorkInv, CallInv, WorkerInv
  <2>4. InBatch(o) => reply[o] = "open" /\ strategy[o] = "Batch" /\ ~InHands(o)
    BY OutputTypes DEF WorkInv, PlaceInv, BufferInv, Buffered, InBatch
  <2>5. InHands(o) => reply[o] = "open" /\ strategy[o] = "Batch"
    BY DEF WorkInv, PlaceInv, HandsInv, InHands
  <2>6. reply[o] = "open" =>
          /\ strategy[o] \in {"CpuPool", "Batch"} /\ JobSpec[o].api = "submit"
          /\ strategy[o] = "CpuPool" => InTx(o) \/ held = o \/ worker[o] = "exec"
          /\ strategy[o] = "Batch" => InBatch(o) \/ InHands(o)
    BY DEF WorkInv, CallInv, ReplyInv, PlaceInv, FoundInv
  <2> QED
    BY <2>1, <2>2, <2>3, <2>4, <2>5, <2>6, PlacesOf
<1> QED
  BY <1>1, WorkInvariant, PTL

-----------------------------------------------------------------------------
(* Answers *)

(* An answer is computed, or was computed for the same content and cached. *)
LEMMA AnswersAreOutputs ==
  ASSUME CallTypes, CallInv, HandsInv, CacheInv, [Next]_vars, NEW j \in Jobs, res'[j] # res[j]
  PROVE  \E o \in Jobs : job_key(o) = job_key(j) /\ res'[j] = execute_job(o)
<1>1. ASSUME NEW p \in Jobs, Answers(p)
      PROVE  res' = [res EXCEPT ![p] = execute_job(p)]
  BY <1>1 DEF Answers, Complete
<1>2. ASSUME NEW p \in Jobs, CacheHit(p)
      PROVE  \E o \in Jobs : job_key(o) = job_key(p) /\ res' = [res EXCEPT ![p] = execute_job(o)]
  BY <1>2 DEF CacheHit, Complete, CacheInv
<1>3. ASSUME NEW p \in Jobs, Refuses(p) \/ Unwinds(p) \/ Return(p) \/ Cancel(p)
      PROVE  UNCHANGED res
  BY <1>3 DEF Refuses, CountDropped, Unwinds, Return, Cancel
<1>4. Silent => UNCHANGED res
  BY DEF Silent
<1>5. \E p, o \in Jobs : job_key(o) = job_key(p) /\ res' = [res EXCEPT ![p] = execute_job(o)]
  BY <1>1, <1>2, <1>3, <1>4, CallSteps
<1> QED
  BY <1>5 DEF CallTypes

(* The content of a call determines what its kernel computes, but for the    *)
(* seed of MonteCarloRisk.                                                   *)
LEMMA KeyIsContent ==
  ASSUME NEW j \in Jobs, NEW o \in Jobs, job_key(o) = job_key(j)
  PROVE  /\ execute_job(o).kind = JobSpec[j].kind
         /\ execute_job(o).payload = JobSpec[j].payload
         /\ JobSpec[j].kind # "MonteCarloRisk" => execute_job(o) = execute_job(j)
<1>1. JobSpec[o].kind = JobSpec[j].kind /\ JobSpec[o].payload = JobSpec[j].payload
  BY DEF job_key
<1> QED
  BY <1>1 DEF execute_job

(* Whatever path or cache entry an answer came from, it is the output for    *)
(* the caller's own content.                                                 *)
THEOREM AnswersAreOwn == Spec => []OwnContent
<1>1. Init => OwnContent
  BY DEF Init, OwnContent
<1>2. IInv /\ WorkInv /\ OwnContent /\ [Next]_vars => OwnContent'
  <2> SUFFICES ASSUME IInv, WorkInv, OwnContent, [Next]_vars,
                      NEW j \in Jobs, res'[j] # None
               PROVE  /\ res'[j].kind = JobSpec[j].kind
                      /\ res'[j].payload = JobSpec[j].payload
                      /\ JobSpec[j].kind # "MonteCarloRisk" => res'[j] = execute_job(j)
    BY DEF OwnContent, execute_job
  <2>1. CASE res'[j] = res[j]
    BY <2>1 DEF OwnContent
  <2>2. CASE res'[j] # res[j]
    <3>1. PICK o \in Jobs : job_key(o) = job_key(j) /\ res'[j] = execute_job(o)
      BY <2>2, AnswersAreOutputs DEF IInv, TypeOK, WorkInv, PlaceInv, AnswerInv
    <3> QED
      BY <3>1, KeyIsContent
  <2> QED
    BY <2>1, <2>2
<1> QED
  BY <1>1, <1>2, WorkInvariant, PTL DEF Spec

-----------------------------------------------------------------------------
(* The counters *)

(* The sets that Accounting counts. *)
Returned == {j \in Jobs : pc[j] \in {"recording", "done"}}
Answered == {j \in Returned : res[j] # None}
Refused == Returned \ Answered
Counted == Returned \cup {j \in Jobs : pc[j] = "cancelled"}

(* A step that counts nobody may lose answers and refusals to cancellation,  *)
(* but none of those who were counted.                                       *)
LEMMA NobodyCounted ==
  ASSUME StoreTypes, Accounting, UNCHANGED <<completed, dropped>>,
         Answered' \subseteq Answered, Refused' \subseteq Refused,
         Counted \subseteq Counted', Counted' \subseteq Jobs
  PROVE  Accounting'
<1>1. /\ Answered \subseteq Jobs /\ Refused \subseteq Jobs /\ Counted \subseteq Jobs
  BY DEF Answered, Refused, Counted, Returned
<1>2. /\ Cardinality(Answered') <= Cardinality(Answered)
      /\ Cardinality(Refused') <= Cardinality(Refused)
      /\ Cardinality(Counted) <= Cardinality(Counted')
  BY <1>1, CallsFinite, FS_Subset
<1>3. /\ Cardinality(Answered) \in Nat /\ Cardinality(Refused) \in Nat
      /\ Cardinality(Counted) \in Nat
      /\ Cardinality(Answered') \in Nat /\ Cardinality(Refused') \in Nat
      /\ Cardinality(Counted') \in Nat
  BY <1>1, CallsFinite
<1>4. /\ completed >= Cardinality(Answered) /\ dropped >= Cardinality(Refused)
      /\ completed + dropped <= Cardinality(Counted)
  BY DEF Accounting, Returned, Answered, Refused, Counted
<1>5. /\ completed' >= Cardinality(Answered') /\ dropped' >= Cardinality(Refused')
      /\ completed' + dropped' <= Cardinality(Counted')
  BY <1>2, <1>3, <1>4 DEF StoreTypes
<1> QED
  BY <1>5 DEF Accounting, Returned, Answered, Refused, Counted

(* A step that counts a call, which was not counted before, does so once. *)
LEMMA OneCounted ==
  ASSUME StoreTypes, Accounting, NEW j \in Jobs, j \notin Counted,
         Counted' = Counted \cup {j},
         \/ /\ completed' = completed + 1 /\ dropped' = dropped
            /\ Answered' = Answered \cup {j} /\ Refused' = Refused
         \/ /\ completed' = completed /\ dropped' = dropped + 1
            /\ Answered' = Answered /\ Refused' = Refused \cup {j}
  PROVE  Accounting'
<1>1. /\ Answered \subseteq Counted /\ Refused \subseteq Counted /\ Counted \subseteq Jobs
  BY DEF Answered, Refused, Counted, Returned
<1>2. /\ IsFiniteSet(Answered) /\ IsFiniteSet(Refused) /\ IsFiniteSet(Counted)
      /\ Cardinality(Answered) \in Nat /\ Cardinality(Refused) \in Nat
      /\ Cardinality(Counted) \in Nat
  BY <1>1, CallsFinite
<1>3. /\ Cardinality(Counted \cup {j}) = Cardinality(Counted) + 1
      /\ Cardinality(Answered \cup {j}) = Cardinality(Answered) + 1
      /\ Cardinality(Refused \cup {j}) = Cardinality(Refused) + 1
  BY <1>1, <1>2, FS_AddElement
<1>4. /\ completed >= Cardinality(Answered) /\ dropped >= Cardinality(Refused)
      /\ completed + dropped <= Cardinality(Counted)
  BY DEF Accounting, Returned, Answered, Refused, Counted
<1>5. Cardinality(Counted') = Cardinality(Counted) + 1 /\ completed \in Nat /\ dropped \in Nat
  BY <1>3 DEF StoreTypes
<1>6. CASE /\ completed' = completed + 1 /\ dropped' = dropped
           /\ Answered' = Answered \cup {j} /\ Refused' = Refused
  <2>1. /\ Cardinality(Answered') = Cardinality(Answered) + 1
        /\ Cardinality(Refused') = Cardinality(Refused)
    BY <1>3, <1>6
  <2>2. /\ completed' >= Cardinality(Answered') /\ dropped' >= Cardinality(Refused')
        /\ completed' + dropped' <= Cardinality(Counted')
    BY <1>2, <1>4, <1>5, <1>6, <2>1
  <2> QED
    BY <2>2 DEF Accounting, Returned, Answered, Refused, Counted
<1>7. CASE /\ completed' = completed /\ dropped' = dropped + 1
           /\ Answered' = Answered /\ Refused' = Refused \cup {j}
  <2>1. /\ Cardinality(Answered') = Cardinality(Answered)
        /\ Cardinality(Refused') = Cardinality(Refused) + 1
    BY <1>3, <1>7
  <2>2. /\ completed' >= Cardinality(Answered') /\ dropped' >= Cardinality(Refused')
        /\ completed' + dropped' <= Cardinality(Counted')
    BY <1>2, <1>4, <1>5, <1>7, <2>1
  <2> QED
    BY <2>2 DEF Accounting, Returned, Answered, Refused, Counted
<1> QED
  BY <1>6, <1>7

(* Every step keeps the counters within the calls that ended. *)
LEMMA AccountingStep ==
  ASSUME CallTypes, StoreTypes, CallInv, HandsInv, ResInv, CacheInv, Accounting, [Next]_vars
  PROVE  Accounting'
<1>0. Counted' \subseteq Jobs
  BY DEF Counted, Returned
<1>1. CASE Silent
  <2>1. Returned' = Returned /\ Answered' = Answered /\ Counted' = Counted
    BY <1>1 DEF Silent, Over, Returned, Answered, Counted
  <2> QED
    BY <1>0, <1>1, <2>1, NobodyCounted DEF Silent, Refused
<1>2. ASSUME NEW j \in Jobs, pc[j] \notin Over,
             NEW l \in {"recording", "done"}, pc' = [pc EXCEPT ![j] = l]
      PROVE  /\ j \notin Counted /\ Counted' = Counted \cup {j}
             /\ Returned' = Returned \cup {j} /\ j \notin Returned
  BY <1>2 DEF Over, Counted, Returned, CallTypes
<1>3. ASSUME NEW j \in Jobs, pc[j] \notin Over,
             NEW l \in {"recording", "done"}, NEW out, out # None, Complete(j, out, l)
      PROVE  Accounting'
  <2>1. /\ j \notin Counted /\ Counted' = Counted \cup {j}
        /\ Returned' = Returned \cup {j} /\ j \notin Returned
    BY <1>2, <1>3 DEF Complete, Goto
  <2>2. Answered' = Answered \cup {j}
    BY <1>3, <2>1 DEF Complete, Answered, Returned, CallTypes
  <2>3. Refused' = Refused
    BY <2>1, <2>2 DEF Refused, Answered
  <2> QED
    BY <1>3, <2>1, <2>2, <2>3, OneCounted DEF Complete
<1>4. ASSUME NEW j \in Jobs, Answers(j) PROVE Accounting'
  BY <1>3, <1>4, OutputTypes DEF Answers
<1>5. ASSUME NEW j \in Jobs, CacheHit(j) PROVE Accounting'
  <2>1. result_cache[job_key(j)] # None
    BY <1>5, OutputTypes DEF CacheHit, CacheInv
  <2>2. pc[j] \notin Over
    BY <1>5 DEF CacheHit, Over
  <2> QED
    BY <1>3, <1>5, <2>1, <2>2 DEF CacheHit
<1>6. ASSUME NEW j \in Jobs, Refuses(j) PROVE Accounting'
  <2>1. PICK l \in {"recording", "done"} : CountDropped(j, l)
    BY <1>6 DEF Refuses
  <2>2. res[j] = None /\ pc[j] \notin Over
    BY <1>6 DEF Refuses, ResInv, Over
  <2>3. /\ j \notin Counted /\ Counted' = Counted \cup {j}
        /\ Returned' = Returned \cup {j} /\ j \notin Returned
    BY <1>2, <2>1, <2>2 DEF CountDropped, Goto
  <2>4. Answered' = Answered /\ Refused' = Refused \cup {j}
    BY <2>1, <2>2, <2>3 DEF CountDropped, Answered, Refused
  <2> QED
    BY <2>1, <2>3, <2>4, OneCounted DEF CountDropped
<1>7. ASSUME NEW j \in Jobs, Unwinds(j) \/ Return(j) PROVE Accounting'
  <2>1. Returned' = Returned /\ Counted' = Counted /\ UNCHANGED <<res, completed, dropped>>
    BY <1>7 DEF Unwinds, Return, Goto, Over, Returned, Counted, CallTypes, statVars
  <2>2. Answered' = Answered /\ Refused' = Refused
    BY <2>1 DEF Answered, Refused
  <2> QED
    BY <1>0, <2>1, <2>2, NobodyCounted
<1>8. ASSUME NEW j \in Jobs, Cancel(j) PROVE Accounting'
  <2>1. /\ Returned' = Returned \ {j} /\ Counted' = Counted \cup {j}
        /\ UNCHANGED <<res, completed, dropped>>
    BY <1>8 DEF Cancel, Goto, Returned, Counted, CallTypes, statVars
  <2>2. Answered' \subseteq Answered /\ Refused' \subseteq Refused
    BY <2>1 DEF Answered, Refused
  <2> QED
    BY <1>0, <2>1, <2>2, NobodyCounted
<1> QED
  BY <1>1, <1>4, <1>5, <1>6, <1>7, <1>8, CallSteps

(* The counters count every call that returns once, as what it returned, and *)
(* a call whose caller went away at most once.                               *)
THEOREM CallsCounted == Spec => []Accounting
<1>1. Init => Accounting
  <2> SUFFICES ASSUME Init PROVE Accounting
    OBVIOUS
  <2>1. Answered = {} /\ Refused = {} /\ Counted = {}
    BY DEF Init, Answered, Refused, Counted, Returned
  <2>2. completed = 0 /\ dropped = 0
    BY DEF Init
  <2> QED
    BY <2>1, <2>2, FS_EmptySet DEF Accounting, Returned, Answered, Refused, Counted
<1>2. IInv /\ WorkInv /\ Accounting /\ [Next]_vars => Accounting'
  BY AccountingStep DEF IInv, TypeOK, WorkInv, PlaceInv, AnswerInv
<1> QED
  BY <1>1, <1>2, WorkInvariant, PTL DEF Spec

-----------------------------------------------------------------------------
(* The router implements JobService *)

(* The state of the service that a state of the router stands for. *)
SPhase == [j \in Jobs |-> Phase(j)]
SAnswer == [j \in Jobs |-> IF pc[j] = "done" THEN res[j] ELSE None]
SRan == {j \in Jobs : runs[j] > 0}

(* The initial states map to initial states. *)
LEMMA InitService == Init => Service!Init
  BY DEF Init, Service!Init, Phase

(* Work that had not run has run after its step, and no other work. *)
LEMMA RanStep ==
  ASSUME CallTypes, NEW j \in Jobs, Execute(j), runs[j] = 0
  PROVE  SRan' = SRan \cup {j} /\ j \notin SRan
  BY DEF CallTypes, Execute, SRan

(* A call that moves changes its own phase and answer alone. *)
LEMMA PhaseStep ==
  ASSUME CallTypes, NEW j \in Jobs, NEW l \in PCs, pc' = [pc EXCEPT ![j] = l],
         \A o \in Jobs \ {j} : res'[o] = res[o]
  PROVE  /\ SPhase' = [SPhase EXCEPT ![j] =
              IF l = "done" THEN IF res'[j] = None THEN "refused" ELSE "answered"
              ELSE IF l \in {"cancelled", "panicked"} THEN "gone" ELSE "pending"]
         /\ SAnswer' = [SAnswer EXCEPT ![j] = IF l = "done" THEN res'[j] ELSE None]
<1>1. \A o \in Jobs \ {j} : pc'[o] = pc[o] /\ res'[o] = res[o]
  BY DEF CallTypes
<1>2. pc'[j] = l
  BY DEF CallTypes
<1>3. /\ \A o \in Jobs \ {j} : Phase(o)' = Phase(o)
      /\ Phase(j)' = IF l = "done" THEN IF res'[j] = None THEN "refused" ELSE "answered"
                     ELSE IF l \in {"cancelled", "panicked"} THEN "gone" ELSE "pending"
  BY <1>1, <1>2 DEF Phase
<1>4. SPhase' = [SPhase EXCEPT ![j] = Phase(j)']
  BY <1>3 DEF SPhase
<1>5. SAnswer' = [SAnswer EXCEPT ![j] = IF l = "done" THEN res'[j] ELSE None]
  BY <1>1, <1>2 DEF SAnswer
<1> QED
  BY <1>3, <1>4, <1>5

(* Every step maps to a step of the service or a stutter. *)
LEMMA NextService ==
  ASSUME CallTypes, CallInv, HandsInv, ResInv, CacheInv, [Next]_vars
  PROVE  [Service!Next]_(Service!svars)
<1>1. CASE Silent
  <2>1. SPhase' = SPhase /\ SAnswer' = SAnswer
    BY <1>1 DEF Silent, Over, SPhase, SAnswer, Phase
  <2>2. CASE UNCHANGED runs
    BY <2>1, <2>2 DEF Service!svars, SPhase, SAnswer, SRan
  <2>3. ASSUME NEW o \in Jobs, Execute(o), runs[o] = 0, pc[o] \notin {"recording", "done"}
        PROVE  Service!Run(o)
    <3>1. SRan' = SRan \cup {o} /\ o \notin SRan
      BY <2>3, RanStep
    <3>2. SPhase[o] \in {"pending", "gone"}
      BY <2>3 DEF SPhase, Phase
    <3> QED
      BY <2>1, <3>1, <3>2 DEF Service!Run, SPhase, SAnswer, SRan
  <2> QED
    BY <1>1, <2>2, <2>3 DEF Silent, Service!Next
<1>2. ASSUME NEW j \in Jobs, pc[j] \notin Over,
             pc' = [pc EXCEPT ![j] = "recording"],
             \A o \in Jobs \ {j} : res'[o] = res[o]
      PROVE  SPhase' = SPhase /\ SAnswer' = SAnswer /\ SPhase[j] = "pending"
  BY <1>2 DEF CallTypes, SPhase, SAnswer, Phase, Over
<1>3. ASSUME NEW j \in Jobs, pc[j] \notin Over \/ pc[j] = "recording",
             pc' = [pc EXCEPT ![j] = "done"],
             NEW o \in Jobs, runs[o] = 1, job_key(o) = job_key(j),
             res' = [res EXCEPT ![j] = execute_job(o)], UNCHANGED runs
      PROVE  Service!Answer(j)
  <2>1. res'[j] = execute_job(o) /\ res'[j] # None
    BY <1>3, OutputTypes DEF CallTypes
  <2>2. /\ SPhase' = [SPhase EXCEPT ![j] = "answered"]
        /\ SAnswer' = [SAnswer EXCEPT ![j] = execute_job(o)]
    <3>1. "done" \in PCs /\ \A x \in Jobs \ {j} : res'[x] = res[x]
      BY <1>3 DEF PCs, CallTypes
    <3> QED
      BY <1>3, <2>1, <3>1, PhaseStep
  <2>3. o \in SRan /\ SPhase[j] = "pending" /\ SRan' = SRan
    BY <1>3 DEF SRan, SPhase, Phase, Over
  <2> QED
    BY <1>3, <2>2, <2>3 DEF Service!Answer, SPhase, SAnswer, SRan
<1>4. ASSUME NEW j \in Jobs, pc[j] \notin Over \/ pc[j] = "recording",
             pc' = [pc EXCEPT ![j] = "done"], res[j] = None,
             runs[j] = 0 \/ JobSpec[j].panics, UNCHANGED <<res, runs>>
      PROVE  Service!Refuse(j)
  <2>1. SPhase' = [SPhase EXCEPT ![j] = "refused"] /\ SAnswer' = [SAnswer EXCEPT ![j] = None]
    BY <1>4, PhaseStep DEF PCs
  <2>2. /\ SAnswer[j] = None /\ SPhase[j] = "pending" /\ SRan' = SRan
        /\ j \notin SRan \/ JobMayPanic(j)
    BY <1>4 DEF SRan, SPhase, SAnswer, Phase, Over, JobMayPanic
  <2>3. SAnswer' = SAnswer
    BY <2>1, <2>2 DEF SAnswer
  <2> QED
    BY <2>1, <2>2, <2>3 DEF Service!Refuse, SPhase, SAnswer, SRan
<1>5. ASSUME NEW j \in Jobs, pc[j] \notin Over \/ pc[j] = "recording",
             NEW l \in {"cancelled", "panicked"}, pc' = [pc EXCEPT ![j] = l], UNCHANGED res,
             UNCHANGED runs \/ (JobSpec[j].panics /\ Execute(j) /\ runs[j] = 0)
      PROVE  Service!Abandon(j)
  <2>1. SPhase' = [SPhase EXCEPT ![j] = "gone"] /\ SAnswer' = [SAnswer EXCEPT ![j] = None]
    BY <1>5, PhaseStep DEF PCs
  <2>2. SAnswer' = SAnswer /\ SPhase[j] = "pending"
    BY <1>5, <2>1 DEF SPhase, SAnswer, Phase, Over
  <2>3. SRan' = SRan \/ (j \notin SRan /\ JobMayPanic(j) /\ SRan' = SRan \cup {j})
    BY <1>5, RanStep DEF SRan, JobMayPanic
  <2> QED
    BY <2>1, <2>2, <2>3 DEF Service!Abandon, SPhase, SAnswer, SRan
<1>6. ASSUME NEW j \in Jobs, Answers(j) PROVE [Service!Next]_(Service!svars)
  <2>1. CASE Complete(j, execute_job(j), "recording")
    <3>1. SPhase' = SPhase /\ SAnswer' = SAnswer /\ SPhase[j] = "pending"
      BY <1>2, <1>6, <2>1 DEF Answers, Complete, Goto, CallTypes
    <3>2. CASE UNCHANGED runs
      BY <3>1, <3>2 DEF Service!svars, SPhase, SAnswer, SRan
    <3>3. CASE Execute(j) /\ runs[j] = 0
      <4>1. SRan' = SRan \cup {j} /\ j \notin SRan
        BY <3>3, RanStep
      <4>2. Service!Run(j)
        BY <3>1, <4>1 DEF Service!Run, SPhase, SAnswer, SRan
      <4> QED
        BY <4>2 DEF Service!Next
    <3> QED
      BY <1>6, <3>2, <3>3 DEF Answers
  <2>2. CASE Complete(j, execute_job(j), "done") /\ runs[j] = 1
    <3>1. /\ pc[j] \notin Over /\ UNCHANGED runs /\ pc' = [pc EXCEPT ![j] = "done"]
          /\ res' = [res EXCEPT ![j] = execute_job(j)]
      BY <1>6, <2>2 DEF Answers, Complete, Goto
    <3>2. Service!Answer(j)
      BY <1>3, <2>2, <3>1
    <3> QED
      BY <3>2 DEF Service!Next
  <2> QED
    BY <1>6, <2>1, <2>2 DEF Answers
<1>7. ASSUME NEW j \in Jobs, CacheHit(j) PROVE [Service!Next]_(Service!svars)
  <2>1. PICK o \in Jobs : /\ runs[o] = 1 /\ job_key(o) = job_key(j)
                          /\ result_cache[job_key(j)] = execute_job(o)
    BY <1>7 DEF CacheHit, CacheInv
  <2>2. /\ pc[j] \notin Over /\ pc' = [pc EXCEPT ![j] = "done"]
        /\ res' = [res EXCEPT ![j] = execute_job(o)] /\ UNCHANGED runs
    BY <1>7, <2>1 DEF CacheHit, Complete, Goto, Over
  <2> QED
    BY <1>3, <2>1, <2>2 DEF Service!Next
<1>8. ASSUME NEW j \in Jobs, Refuses(j) PROVE [Service!Next]_(Service!svars)
  <2>1. UNCHANGED <<res, runs>> /\ res[j] = None
    BY <1>8 DEF Refuses, CountDropped, ResInv, Over
  <2>2. CASE CountDropped(j, "recording")
    <3>1. SPhase' = SPhase /\ SAnswer' = SAnswer
      BY <1>2, <1>8, <2>1, <2>2 DEF Refuses, CountDropped, Goto
    <3> QED
      BY <2>1, <3>1 DEF Service!svars, SPhase, SAnswer, SRan
  <2>3. CASE CountDropped(j, "done") /\ JobSpec[j].panics
    BY <1>4, <1>8, <2>1, <2>3 DEF Refuses, CountDropped, Goto, Service!Next
  <2> QED
    BY <1>8, <2>2, <2>3 DEF Refuses
<1>9. ASSUME NEW j \in Jobs, Unwinds(j) PROVE [Service!Next]_(Service!svars)
  BY <1>5, <1>9 DEF Unwinds, Goto, Service!Next
<1>10. ASSUME NEW j \in Jobs, Return(j) PROVE [Service!Next]_(Service!svars)
  <2>1. /\ pc[j] = "recording" /\ pc' = [pc EXCEPT ![j] = "done"]
        /\ UNCHANGED <<res, runs>>
    BY <1>10 DEF Return, Goto
  <2>2. CASE res[j] = None /\ runs[j] = 0
    BY <1>4, <2>1, <2>2 DEF Service!Next
  <2>3. CASE res[j] = execute_job(j) /\ runs[j] = 1
    <3>1. res' = [res EXCEPT ![j] = execute_job(j)]
      BY <2>1, <2>3 DEF CallTypes
    <3> QED
      BY <1>3, <2>1, <2>3, <3>1 DEF Service!Next
  <2> QED
    BY <2>1, <2>2, <2>3 DEF ResInv
<1>11. ASSUME NEW j \in Jobs, Cancel(j) PROVE [Service!Next]_(Service!svars)
  <2>1. pc[j] \notin Over \/ pc[j] = "recording"
    BY <1>11 DEF Cancel, AwaitPCs, Over
  <2> QED
    BY <1>5, <1>11, <2>1 DEF Cancel, Goto, Service!Next
<1> QED
  BY <1>1, <1>6, <1>7, <1>8, <1>9, <1>10, <1>11, CallSteps

(* The router is the service its callers rely on: a call is answered only    *)
(* with the output of work that ran for the same content, work runs at most  *)
(* once, and a refused call has not run and never will.                      *)
THEOREM ImplementsService == Spec => ServiceSpec
<1>1. IInv /\ WorkInv /\ [Next]_vars => [Service!Next]_(Service!svars)
  BY NextService DEF IInv, TypeOK, WorkInv, PlaceInv, AnswerInv
<1> QED
  BY <1>1, InitService, WorkInvariant, PTL DEF Spec, ServiceSpec, Service!Spec
=============================================================================
