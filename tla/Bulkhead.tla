------------------------------- MODULE Bulkhead -------------------------------
(***************************************************************************)
(* bulkhead.rs: Bulkhead::try_execute.  The counts a caller is admitted on *)
(* are read before it waits for a permit; they are atomics that nobody     *)
(* else keeps in step, and a caller whose future is dropped, or panics,    *)
(* gives back its permit but not its counts.  The semaphore is never       *)
(* closed.  A timeout may fire whenever its future is pending.             *)
(***************************************************************************)
EXTENDS Naturals, FiniteSets

CONSTANTS
  Callers,
  Cancellable,     \* the callers whose future may be dropped or panic
  max_concurrent, max_queue_size

VARIABLES
  pc,         \* where each call is
  seen,       \* in_flight, as a caller read it
  in_flight, queued, total_rejected, total_completed,
  permits     \* free permits of the semaphore

vars == <<pc, seen, in_flight, queued, total_rejected, total_completed, permits>>

gauges == <<in_flight, queued>>
totals == <<total_rejected, total_completed>>

Goto(c, label) == pc' = [pc EXCEPT ![c] = label]

(* The read of in_flight said that the caller has to queue. *)
needs_queue(c) == seen[c] >= max_concurrent

LoadInFlight(c) ==
  /\ pc[c] = "new"
  /\ seen' = [seen EXCEPT ![c] = in_flight]
  /\ Goto(c, "loaded")
  /\ UNCHANGED <<gauges, totals, permits>>

(* Mutant: one limit is enough for a refusal. *)
Admit_EitherLimit(c) ==
  /\ pc[c] = "loaded"
  /\ IF needs_queue(c) \/ queued >= max_queue_size
     THEN Goto(c, "rejected") /\ total_rejected' = total_rejected + 1
     ELSE Goto(c, IF needs_queue(c) THEN "admitted" ELSE "acquiring") /\ UNCHANGED total_rejected
  /\ UNCHANGED <<seen, gauges, total_completed, permits>>

(* The read of queued, and the decision. *)
Admit(c) ==
  /\ pc[c] = "loaded"
  /\ IF needs_queue(c) /\ queued >= max_queue_size
     THEN Goto(c, "rejected") /\ total_rejected' = total_rejected + 1
     ELSE Goto(c, IF needs_queue(c) THEN "admitted" ELSE "acquiring") /\ UNCHANGED total_rejected
  /\ UNCHANGED <<seen, gauges, total_completed, permits>>

Enqueue(c) ==
  /\ pc[c] = "admitted"
  /\ queued' = queued + 1
  /\ Goto(c, "acquiring")
  /\ UNCHANGED <<seen, in_flight, totals, permits>>

(* The permit, or the timeout. *)
Acquire(c) ==
  /\ pc[c] = "acquiring"
  /\ \/ permits > 0 /\ permits' = permits - 1 /\ Goto(c, "acquired")
     \/ Goto(c, "expired") /\ UNCHANGED permits
  /\ UNCHANGED <<seen, gauges, totals>>

(* Mutant: a caller that timed out leaves the queue without saying so. *)
Dequeue_NotExpired(c) ==
  /\ pc[c] \in {"acquired", "expired"}
  /\ queued' = IF needs_queue(c) /\ pc[c] = "acquired" THEN queued - 1 ELSE queued
  /\ IF pc[c] = "acquired"
     THEN Goto(c, "permitted") /\ UNCHANGED total_rejected
     ELSE Goto(c, "timedOut") /\ total_rejected' = total_rejected + 1
  /\ UNCHANGED <<seen, in_flight, total_completed, permits>>

(* The caller leaves the queue; without a permit it has timed out. *)
Dequeue(c) ==
  /\ pc[c] \in {"acquired", "expired"}
  /\ queued' = IF needs_queue(c) THEN queued - 1 ELSE queued
  /\ IF pc[c] = "acquired"
     THEN Goto(c, "permitted") /\ UNCHANGED total_rejected
     ELSE Goto(c, "timedOut") /\ total_rejected' = total_rejected + 1
  /\ UNCHANGED <<seen, in_flight, total_completed, permits>>

Start(c) ==
  /\ pc[c] = "permitted"
  /\ in_flight' = in_flight + 1
  /\ Goto(c, "running")
  /\ UNCHANGED <<seen, queued, totals, permits>>

(* The future ends, or its timeout, and the caller leaves in_flight. *)
Finish(c) ==
  /\ pc[c] = "running"
  /\ in_flight' = in_flight - 1
  /\ \E label \in {"finished", "overran"} : Goto(c, label)
  /\ UNCHANGED <<seen, queued, totals, permits>>

(* The outcome is counted, and the permit dropped at the end of the call. *)
Return(c) ==
  /\ pc[c] \in {"finished", "overran"}
  /\ IF pc[c] = "finished"
     THEN Goto(c, "completed") /\ total_completed' = total_completed + 1 /\ UNCHANGED total_rejected
     ELSE Goto(c, "timedOut") /\ total_rejected' = total_rejected + 1 /\ UNCHANGED total_completed
  /\ permits' = permits + 1
  /\ UNCHANGED <<seen, gauges>>

(* A future is dropped at an await, or unwinds there: only its permit is     *)
(* given back.                                                               *)
Cancel(c) ==
  /\ c \in Cancellable
  /\ \/ pc[c] = "acquiring" /\ Goto(c, "lostQueued") /\ UNCHANGED permits
     \/ pc[c] = "running" /\ Goto(c, "lostRunning") /\ permits' = permits + 1
  /\ UNCHANGED <<seen, gauges, totals>>

Init ==
  /\ pc = [c \in Callers |-> "new"]
  /\ seen = [c \in Callers |-> 0]
  /\ in_flight = 0 /\ queued = 0 /\ total_rejected = 0 /\ total_completed = 0
  /\ permits = max_concurrent

CallerStep(c) ==
  LoadInFlight(c) \/ Admit(c) \/ Enqueue(c) \/ Acquire(c) \/ Dequeue(c) \/ Start(c)
    \/ Finish(c) \/ Return(c)

Next == \E c \in Callers : CallerStep(c) \/ Cancel(c)

Spec == Init /\ [][Next]_vars

-----------------------------------------------------------------------------
Labels ==
  {"new", "loaded", "admitted", "acquiring", "acquired", "expired", "permitted", "running",
   "finished", "overran", "completed", "rejected", "timedOut", "lostQueued", "lostRunning"}

TypeOK ==
  /\ pc \in [Callers -> Labels]
  /\ seen \in [Callers -> Nat]
  /\ {in_flight, queued, total_rejected, total_completed, permits} \subseteq Nat

At(labels) == {c \in Callers : pc[c] \in labels}

(* A permit is held by whoever may run and by nobody else; the two gauges on  *)
(* which refusals are decided drift by exactly the callers that were lost     *)
(* where they were counted, never for a timeout or a refusal; and every call  *)
(* that returns is counted once.                                              *)
BulkheadExact ==
  /\ permits + Cardinality(At({"acquired", "permitted", "running", "finished", "overran"}))
       = max_concurrent
  /\ in_flight = Cardinality(At({"running", "lostRunning"}))
  /\ queued = Cardinality({c \in At({"acquiring", "acquired", "expired", "lostQueued"}) :
                             needs_queue(c)})
  /\ total_completed = Cardinality(At({"completed"}))
  /\ total_rejected = Cardinality(At({"rejected", "timedOut"}))

(* "If in_flight >= max_concurrent AND queued >= max_queue_size, the request  *)
(* is rejected": the two are read at different times, yet a caller is refused *)
(* only if that many others came before it.  in_flight is read first, and     *)
(* calls move from queued to in_flight, so that none is counted twice.        *)
RefusedForOthers ==
  \A c \in At({"rejected"}) :
    max_concurrent + max_queue_size <= Cardinality(Callers \ (At({"new"}) \cup {c}))

-----------------------------------------------------------------------------
(* What makes the two inductive, for every finite set of callers and all      *)
(* limits.                                                                    *)

BulkheadAssumption ==
  IsFiniteSet(Callers) /\ max_concurrent \in Nat /\ max_queue_size \in Nat

(* The callers that BulkheadExact counts. *)
Permitted == At({"acquired", "permitted", "running", "finished", "overran"})
InFlight == At({"running", "lostRunning"})
Queued == {c \in At({"acquiring", "acquired", "expired", "lostQueued"}) : needs_queue(c)}
Completed == At({"completed"})
Rejected == At({"rejected", "timedOut"})

(* Who has been in in_flight, or timed out, and will not be queued again. *)
Past == At({"running", "lostRunning", "finished", "overran", "completed", "timedOut"})

(* Who has come, but for c. *)
Others(c) == Callers \ (At({"new"}) \cup {c})

(* What a caller has read of in_flight is no more than the callers that have *)
(* been there since.                                                         *)
SeenPast == \A c \in Callers : pc[c] = "loaded" => seen[c] <= Cardinality(Past)

(* Only a caller that has to queue goes there. *)
AdmittedQueues == \A c \in Callers : pc[c] = "admitted" => needs_queue(c)

IInv == TypeOK /\ BulkheadExact /\ AdmittedQueues /\ SeenPast /\ RefusedForOthers
=============================================================================
