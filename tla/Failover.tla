------------------------------- MODULE Failover -------------------------------
(***************************************************************************)
(* failover.rs: one FailoverGroup behind its mutex, the callers that ask   *)
(* for its best endpoint and report how the call went, and the maintenance *)
(* loop, which reads the clock before it waits for the lock.  The time     *)
(* since a failure is an age that stops at the recovery timeout, and       *)
(* failures are counted up to the threshold.                               *)
(***************************************************************************)
EXTENDS Naturals, FiniteSetsExt

CONSTANTS
  Callers,
  Endpoints,          \* 1 .. n, in the order of insertion
  priority,           \* the smallest is the best
  failure_threshold, recovery_timeout

VARIABLES
  healthy, failure_count,
  failed, age,              \* last_failure: whether there is one, and how long ago it was
  current_primary_idx,
  looking, aged,            \* the maintenance loop: whether it woke, the ages at its clock
  at                        \* the endpoint a caller uses, or 0

vars == <<healthy, failure_count, failed, age, current_primary_idx, looking, aged, at>>

endpoint == <<healthy, failure_count, failed, age>>

(* The first of the best of S, by min_by_key. *)
Best(S) ==
  CHOOSE e \in S : \A d \in S : priority[e] < priority[d] \/ (priority[e] = priority[d] /\ e <= d)

Healthy == {e \in Endpoints : healthy[e]}

(* get_endpoint: the primary, if an endpoint is healthy. *)
get_endpoint(c) ==
  /\ at[c] = 0 /\ Healthy # {}
  /\ at' = [at EXCEPT ![c] = Best(Healthy)]
  /\ UNCHANGED <<endpoint, current_primary_idx, looking, aged>>

(* report_failure, mark_failed.  The pass that is waiting for the lock sees *)
(* a failure that is younger than its clock.                                *)
report_failure(c) ==
  LET e == at[c]
      n == Min({failure_count[e] + 1, failure_threshold})
  IN /\ e # 0 /\ at' = [at EXCEPT ![c] = 0]
     /\ failure_count' = [failure_count EXCEPT ![e] = n]
     /\ healthy' = [healthy EXCEPT ![e] = @ /\ n < failure_threshold]
     /\ failed' = [failed EXCEPT ![e] = TRUE]
     /\ age' = [age EXCEPT ![e] = 0] /\ aged' = [aged EXCEPT ![e] = 0]
     /\ UNCHANGED <<current_primary_idx, looking>>

(* Mutant: a success only clears the failures. *)
report_success_OnlyClears(c) ==
  LET e == at[c]
  IN /\ e # 0 /\ at' = [at EXCEPT ![c] = 0]
     /\ failure_count' = [failure_count EXCEPT ![e] = 0]
     /\ failed' = [failed EXCEPT ![e] = FALSE]
     /\ age' = [age EXCEPT ![e] = 0] /\ aged' = [aged EXCEPT ![e] = 0]
     /\ UNCHANGED <<healthy, current_primary_idx, looking>>

(* report_success, mark_recovered, of a call that may have begun long before *)
(* its endpoint was taken out.                                               *)
report_success(c) ==
  LET e == at[c]
  IN /\ e # 0 /\ at' = [at EXCEPT ![c] = 0]
     /\ healthy' = [healthy EXCEPT ![e] = TRUE]
     /\ failure_count' = [failure_count EXCEPT ![e] = 0]
     /\ failed' = [failed EXCEPT ![e] = FALSE]
     /\ age' = [age EXCEPT ![e] = 0] /\ aged' = [aged EXCEPT ![e] = 0]
     /\ UNCHANGED <<current_primary_idx, looking>>

(* FailoverGroup::failover: the best healthy endpoint of another priority. *)
failover ==
  LET others == {e \in Healthy : priority[e] # priority[current_primary_idx]}
  IN /\ others # {} /\ current_primary_idx' = Best(others)
     /\ UNCHANGED <<endpoint, looking, aged, at>>

(* The maintenance loop wakes and reads the clock. *)
Wake ==
  /\ ~looking /\ looking' = TRUE /\ aged' = age
  /\ UNCHANGED <<endpoint, current_primary_idx, at>>

(* check_recovery: what failed long enough ago may be tried again. *)
check_recovery ==
  /\ looking /\ looking' = FALSE
  /\ healthy' = [e \in Endpoints |-> healthy[e] \/ (failed[e] /\ aged[e] >= recovery_timeout)]
  /\ aged' = [e \in Endpoints |-> 0]
  /\ UNCHANGED <<failure_count, failed, age, current_primary_idx, at>>

Tick ==
  /\ age' = [e \in Endpoints |-> IF failed[e] THEN Min({age[e] + 1, recovery_timeout}) ELSE 0]
  /\ UNCHANGED <<healthy, failure_count, failed, current_primary_idx, looking, aged, at>>

Init ==
  /\ healthy = [e \in Endpoints |-> TRUE]
  /\ failure_count = [e \in Endpoints |-> 0]
  /\ failed = [e \in Endpoints |-> FALSE] /\ age = [e \in Endpoints |-> 0]
  /\ current_primary_idx = 1
  /\ looking = FALSE /\ aged = [e \in Endpoints |-> 0]
  /\ at = [c \in Callers |-> 0]

CallerStep(c) == get_endpoint(c) \/ report_failure(c) \/ report_success(c)

Next == (\E c \in Callers : CallerStep(c)) \/ failover \/ Wake \/ check_recovery \/ Tick

Spec == Init /\ [][Next]_vars

-----------------------------------------------------------------------------
TypeOK ==
  /\ healthy \in [Endpoints -> BOOLEAN] /\ failed \in [Endpoints -> BOOLEAN]
  /\ failure_count \in [Endpoints -> 0 .. failure_threshold]
  /\ age \in [Endpoints -> 0 .. recovery_timeout] /\ aged \in [Endpoints -> 0 .. recovery_timeout]
  /\ current_primary_idx \in Endpoints /\ looking \in BOOLEAN
  /\ at \in [Callers -> Endpoints \cup {0}]
=============================================================================
