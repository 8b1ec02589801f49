-------------------------------- MODULE SlaQueue --------------------------------
(* sla_queue.rs: a heap ordered by a class's base priority and by how much of *)
(* its time a job has used up; pop rescores every job first.  One step is one *)
(* call, the queue being taken by &mut.                                       *)
EXTENDS Naturals, FiniteSets

CONSTANTS
  Jobs, sla_class,            \* the class of a job
  sla_ms, base_priority,      \* functions of the class
  boost,                      \* what a whole SLA of waiting adds (1_000)
  MaxTime

VARIABLES
  now,
  enqueued_at,                \* of the jobs in the heap
  done                        \* jobs popped or expired
vars == <<now, enqueued_at, done>>

heap == DOMAIN enqueued_at
elapsed(j) == now - enqueued_at[j]

(* As a bug would have it: whole SLAs only.                                   *)
effective_priority_Truncated(j) ==
  base_priority[sla_class[j]] + (elapsed(j) \div sla_ms[sla_class[j]]) * boost

effective_priority(j) ==
  base_priority[sla_class[j]] + (elapsed(j) * boost) \div sla_ms[sla_class[j]]

is_expired(j) == elapsed(j) > sla_ms[sla_class[j]]

Without(gone) ==
  /\ enqueued_at' = [j \in heap \ gone |-> enqueued_at[j]] /\ done' = done \cup gone

push(j) ==
  /\ j \notin heap \cup done
  /\ enqueued_at' = [k \in heap \cup {j} |-> IF k = j THEN now ELSE enqueued_at[k]]
  /\ UNCHANGED <<now, done>>

(* Among equals the heap takes any.                                           *)
urgent(j) == \A k \in heap : effective_priority(k) <= effective_priority(j)

pop(j) == j \in heap /\ urgent(j) /\ Without({j}) /\ UNCHANGED now

expired ==
  /\ \E j \in heap : is_expired(j)
  /\ Without({j \in heap : is_expired(j)}) /\ UNCHANGED now

Tick == now < MaxTime /\ now' = now + 1 /\ UNCHANGED <<enqueued_at, done>>

Init == now = 0 /\ enqueued_at = <<>> /\ done = {}

Next == Tick \/ expired \/ \E j \in Jobs : push(j) \/ pop(j)

Spec == Init /\ [][Next]_vars

TypeOK ==
  /\ now \in 0 .. MaxTime /\ heap \subseteq Jobs /\ done \subseteq Jobs \ heap
  /\ \A j \in heap : enqueued_at[j] \in 0 .. now

SlaAssumption ==
  /\ boost \in Nat \ {0} /\ {sla_class[j] : j \in Jobs} \subseteq DOMAIN sla_ms
  /\ \A c \in DOMAIN sla_ms : sla_ms[c] \in Nat \ {0} /\ base_priority[c] \in Nat

(* sla_queue.rs pop: a job is never handed out, with time to spare, before    *)
(* one as urgent or more that is late by more than the rounding of the boost; *)
(* nor before one of its own class that came a rounding step earlier.         *)
DeadlinesFirst ==
  \A j \in heap : done' = done \cup {j} =>
    \A k \in heap \ {j} :
      LET step == (sla_ms[sla_class[k]] + boost - 1) \div boost IN
      /\ ~(/\ ~is_expired(j) /\ elapsed(k) >= sla_ms[sla_class[k]] + step
           /\ base_priority[sla_class[k]] >= base_priority[sla_class[j]])
      /\ ~(sla_class[j] = sla_class[k] /\ enqueued_at[k] + step <= enqueued_at[j])

IInv ==
  /\ now \in Nat /\ heap \subseteq Jobs /\ heap \cap done = {}
  /\ \A j \in heap : enqueued_at[j] \in 0 .. now
=============================================================================
