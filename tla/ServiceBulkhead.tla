--------------------------- MODULE ServiceBulkhead ---------------------------
(***************************************************************************)
(* bulkhead.rs: ServiceBulkheadManager::execute for one registered         *)
(* service.  A caller takes a free permit at once; without one it waits in *)
(* a queue whose depth it checks first and adds itself to next.  The       *)
(* semaphore is never closed.                                              *)
(***************************************************************************)
EXTENDS Naturals, FiniteSets

CONSTANTS
  Callers,
  Cancellable,     \* the callers whose future may be dropped or panic
  max_concurrent, max_queue_size

VARIABLES
  pc,       \* where each call is
  queue_depth, total_executed, total_rejected,
  permits   \* free permits of the semaphore

vars == <<pc, queue_depth, total_executed, total_rejected, permits>>

Goto(c, label) == pc' = [pc EXCEPT ![c] = label]

(* try_acquire *)
FastPath(c) ==
  /\ pc[c] = "new"
  /\ IF permits > 0 THEN permits' = permits - 1 /\ Goto(c, "running")
     ELSE Goto(c, "refused") /\ UNCHANGED permits
  /\ UNCHANGED <<queue_depth, total_executed, total_rejected>>

CheckQueue(c) ==
  /\ pc[c] = "refused"
  /\ IF queue_depth >= max_queue_size
     THEN Goto(c, "queueFull") /\ total_rejected' = total_rejected + 1
     ELSE Goto(c, "admitted") /\ UNCHANGED total_rejected
  /\ UNCHANGED <<queue_depth, total_executed, permits>>

Enqueue(c) ==
  /\ pc[c] = "admitted"
  /\ queue_depth' = queue_depth + 1
  /\ Goto(c, "acquiring")
  /\ UNCHANGED <<total_executed, total_rejected, permits>>

Acquire(c) ==
  /\ pc[c] = "acquiring"
  /\ \/ permits > 0 /\ permits' = permits - 1 /\ Goto(c, "acquired")
     \/ Goto(c, "expired") /\ UNCHANGED permits
  /\ UNCHANGED <<queue_depth, total_executed, total_rejected>>

(* Mutant: the queue is left only with a permit. *)
Dequeue_NotExpired(c) ==
  /\ pc[c] \in {"acquired", "expired"}
  /\ queue_depth' = IF pc[c] = "acquired" THEN queue_depth - 1 ELSE queue_depth
  /\ IF pc[c] = "acquired"
     THEN Goto(c, "running") /\ UNCHANGED total_rejected
     ELSE Goto(c, "timedOut") /\ total_rejected' = total_rejected + 1
  /\ UNCHANGED <<total_executed, permits>>

Dequeue(c) ==
  /\ pc[c] \in {"acquired", "expired"}
  /\ queue_depth' = queue_depth - 1
  /\ IF pc[c] = "acquired"
     THEN Goto(c, "running") /\ UNCHANGED total_rejected
     ELSE Goto(c, "timedOut") /\ total_rejected' = total_rejected + 1
  /\ UNCHANGED <<total_executed, permits>>

(* The work is done and counted; the permit is dropped at the end. *)
Run(c) ==
  /\ pc[c] = "running"
  /\ total_executed' = total_executed + 1
  /\ permits' = permits + 1
  /\ Goto(c, "done")
  /\ UNCHANGED <<queue_depth, total_rejected>>

(* A future is dropped at an await, or unwinds there: only its permit is     *)
(* given back.                                                               *)
Cancel(c) ==
  /\ c \in Cancellable
  /\ \/ pc[c] = "acquiring" /\ Goto(c, "lostQueued") /\ UNCHANGED permits
     \/ pc[c] = "running" /\ Goto(c, "lostRunning") /\ permits' = permits + 1
  /\ UNCHANGED <<queue_depth, total_executed, total_rejected>>

Init ==
  /\ pc = [c \in Callers |-> "new"]
  /\ queue_depth = 0 /\ total_executed = 0 /\ total_rejected = 0
  /\ permits = max_concurrent

CallerStep(c) ==
  FastPath(c) \/ CheckQueue(c) \/ Enqueue(c) \/ Acquire(c) \/ Dequeue(c) \/ Run(c)

Next == \E c \in Callers : CallerStep(c) \/ Cancel(c)

Spec == Init /\ [][Next]_vars

-----------------------------------------------------------------------------
Labels ==
  {"new", "refused", "admitted", "acquiring", "acquired", "expired", "running", "done",
   "queueFull", "timedOut", "lostQueued", "lostRunning"}

TypeOK ==
  /\ pc \in [Callers -> Labels]
  /\ {queue_depth, total_executed, total_rejected, permits} \subseteq Nat

At(labels) == {c \in Callers : pc[c] \in labels}

(* However the fast path, the queue and timeouts race, no permit is lost or   *)
(* made, by dropped callers either; the depth on which callers are refused    *)
(* drifts by exactly those that were dropped in the queue; and a caller finds *)
(* the queue full only if as many others as may run and may wait came first.  *)
ServiceExact ==
  /\ permits + Cardinality(At({"acquired", "running"})) = max_concurrent
  /\ queue_depth = Cardinality(At({"acquiring", "acquired", "expired", "lostQueued"}))
  /\ total_executed + total_rejected = Cardinality(At({"done", "queueFull", "timedOut"}))
  /\ \A c \in At({"queueFull"}) :
       max_concurrent + max_queue_size <= Cardinality(Callers \ (At({"new"}) \cup {c}))

-----------------------------------------------------------------------------
(* What makes ServiceExact inductive.                                         *)

ServiceAssumption ==
  IsFiniteSet(Callers) /\ max_concurrent \in Nat /\ max_queue_size \in Nat

Permitted == At({"acquired", "running"})
Queued == At({"acquiring", "acquired", "expired", "lostQueued"})
Counted == At({"done", "queueFull", "timedOut"})

(* Who found no permit at first, and has not got one since or has not yet     *)
(* left the queue with it.                                                    *)
Late == At({"refused", "admitted", "acquiring", "acquired", "expired", "lostQueued",
            "queueFull", "timedOut"})
Came == Callers \ At({"new"})

(* The permits that were all taken when the first of them came went to        *)
(* callers who never stood in the queue.                                      *)
TakenBefore == Late # {} => max_concurrent + Cardinality(Late) <= Cardinality(Came)

IInv == TypeOK /\ ServiceExact /\ TakenBefore
=============================================================================
