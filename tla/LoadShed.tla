------------------------------- MODULE LoadShed -------------------------------
(* load_shed.rs: callers who ask whether to shed, enqueue if not, and dequeue *)
(* in the end.  Every call is separate, and record_dequeue loads the depth    *)
(* before it subtracts.                                                       *)
EXTENDS Naturals, FiniteSets

CONSTANTS
  Callers,
  Low,               \* those of them with a priority below 128
  capacity,
  threshold          \* threshold_pct of the capacity

VARIABLES
  policy, pc, queue_depth,
  slow               \* whether the EMA of the latencies is above target_p99_ms
vars == <<policy, pc, queue_depth, slow>>

(* The answers should_shed can give: under "adaptive" it throws a coin.       *)
MayShed(p) ==
  \/ policy = "full" /\ queue_depth >= capacity
  \/ policy = "priority" /\ p \in Low /\ queue_depth > threshold
  \/ policy = "adaptive" /\ slow /\ queue_depth > capacity \div 2

MayPass(p) == policy = "adaptive" \/ ~MayShed(p)

should_shed(p) ==
  /\ pc[p] = "idle"
  /\ \/ MayShed(p) /\ UNCHANGED pc
     \/ MayPass(p) /\ pc' = [pc EXCEPT ![p] = "enqueue"]
  /\ UNCHANGED <<policy, queue_depth, slow>>

record_enqueue(p) ==
  /\ pc[p] = "enqueue"
  /\ queue_depth' = queue_depth + 1 /\ pc' = [pc EXCEPT ![p] = "queued"]
  /\ UNCHANGED <<policy, slow>>

(* record_dequeue: the load, and the subtraction unless it was 0.             *)
Load(p) ==
  /\ pc[p] = "queued"
  /\ pc' = [pc EXCEPT ![p] = IF queue_depth > 0 THEN "sub" ELSE "idle"]
  /\ UNCHANGED <<policy, queue_depth, slow>>

Sub(p) ==
  /\ pc[p] = "sub"
  /\ queue_depth' = queue_depth - 1 /\ pc' = [pc EXCEPT ![p] = "idle"]
  /\ UNCHANGED <<policy, slow>>

update_p99_ema == slow' \in BOOLEAN /\ slow' # slow /\ UNCHANGED <<policy, pc, queue_depth>>

Init ==
  /\ policy \in {"never", "full", "priority", "adaptive"}
  /\ pc = [p \in Callers |-> "idle"] /\ queue_depth = 0 /\ slow = FALSE

Next ==
  \/ update_p99_ema
  \/ \E p \in Callers : should_shed(p) \/ record_enqueue(p) \/ Load(p) \/ Sub(p)

Spec == Init /\ [][Next]_vars

TypeOK ==
  /\ pc \in [Callers -> {"idle", "enqueue", "queued", "sub"}]
  /\ queue_depth \in 0 .. Cardinality(Callers) /\ slow \in BOOLEAN

In(s) == {p \in Callers : pc[p] \in s}

ShedAssumption == IsFiniteSet(Callers) /\ Callers # {} /\ capacity \in Nat

(* load_shed.rs: when every dequeue follows an enqueue, the depth is the      *)
(* number of requests in the queue, whatever the calls interleave with, and   *)
(* the queue outgrows what the policy allows by the callers that asked in     *)
(* time and no more.                                                          *)
Held ==
  /\ queue_depth = Cardinality(In({"queued", "sub"}))
  /\ policy = "full" =>
       queue_depth + Cardinality(In({"enqueue"})) <= capacity + Cardinality(Callers) - 1

IInv == pc \in [Callers -> {"idle", "enqueue", "queued", "sub"}] /\ Held
=============================================================================
