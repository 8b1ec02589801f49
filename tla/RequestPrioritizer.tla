--------------------------- MODULE RequestPrioritizer ---------------------------
(* request_prioritizer.rs: a queue for every level, a fairness policy that    *)
(* says which gives the next request, and requests that expire.  One step is  *)
(* one call, the prioritizer being taken by &mut; calls bring their own time. *)
EXTENDS Naturals, FiniteSets, Sequences

CONSTANTS
  Policies,            \* "strict", "weighted", "robin"
  Requests, level, client, deadline_ms,   \* functions of the request; a deadline
                                          \* past every Times is none
  weights, Times

Levels == {level[r] : r \in Requests}
Clients == {client[r] : r \in Requests}

VARIABLES
  policy, queues, client_counts, rr_cursor,
  arrived,             \* requests in the order they were enqueued
  left,                \* and those that expired or were served
  passed               \* how often a waiting level was passed over while no level
                       \* emptied or filled
vars == <<policy, queues, client_counts, rr_cursor, arrived, left, passed>>

waiting(q) == {l \in Levels : q[l] # <<>>}

is_overdue(r, t) == t >= deadline_ms[r]

(* expire_overdue: what it leaves.                                            *)
unexpired(t) ==
  LET InTime(r) == ~is_overdue(r, t) IN [l \in Levels |-> SelectSeq(queues[l], InTime)]

(* The n-th non-empty level, from the highest.                                *)
descending(q, n) ==
  CHOOSE l \in waiting(q) : Cardinality({k \in waiting(q) : k > l}) = n

(* dequeue_weighted_fair: weight / (count + 1) + level * 0.001, of the client *)
(* at the front of a level; the highest level wins a tie.                     *)
share(q, l) == client_counts[client[q[l][1]]] + 1
beats(q, a, b) ==
  LET wa == weights[client[q[a][1]]]  wb == weights[client[q[b][1]]] IN
  1000 * wa * share(q, b) + a * share(q, a) * share(q, b)
    >= 1000 * wb * share(q, a) + b * share(q, a) * share(q, b)

chosen(q) ==
  CASE policy = "strict" -> descending(q, 0)
    [] policy = "weighted" ->
         CHOOSE l \in waiting(q) :
           \A k \in waiting(q) \ {l} : beats(q, l, k) /\ (beats(q, k, l) => k < l)
    [] policy = "robin" -> descending(q, rr_cursor % Cardinality(waiting(q)))

enqueue(r) ==
  /\ \A i \in DOMAIN arrived : arrived[i] # r
  /\ queues' = [queues EXCEPT ![level[r]] = Append(@, r)]
  /\ arrived' = Append(arrived, r)
  /\ passed' = [l \in Levels |-> IF waiting(queues') = waiting(queues) THEN passed[l] ELSE 0]
  /\ UNCHANGED <<policy, client_counts, rr_cursor, left>>

dequeue(t) ==
  LET q == unexpired(t) IN
  /\ arrived # <<>>
  /\ IF waiting(q) = {}
     THEN /\ queues' = q /\ UNCHANGED <<client_counts, rr_cursor>>
          /\ left' = {arrived[i] : i \in DOMAIN arrived}
          /\ passed' = [l \in Levels |-> 0]
     ELSE LET l == chosen(q)  r == q[l][1] IN
          /\ queues' = [q EXCEPT ![l] = Tail(@)]
          /\ client_counts' = [client_counts EXCEPT ![client[r]] = @ + 1]
          /\ rr_cursor' = IF policy = "robin"
                          THEN (rr_cursor + 1) % Cardinality(waiting(q))
                          ELSE rr_cursor
          /\ left' = {arrived[i] : i \in DOMAIN arrived}
                       \ UNION {{queues'[k][i] : i \in DOMAIN queues'[k]} : k \in Levels}
          /\ passed' = [k \in Levels |->
               IF k = l \/ waiting(queues') # waiting(queues) THEN 0
               ELSE IF k \in waiting(q) THEN passed[k] + 1 ELSE 0]
  /\ UNCHANGED <<policy, arrived>>

Init ==
  /\ policy \in Policies /\ queues = [l \in Levels |-> <<>>] /\ rr_cursor = 0
  /\ client_counts = [c \in Clients |-> 0] /\ arrived = <<>> /\ left = {}
  /\ passed = [l \in Levels |-> 0]

Next == (\E r \in Requests : enqueue(r)) \/ \E t \in Times : dequeue(t)

Spec == Init /\ [][Next]_vars

TypeOK ==
  /\ policy \in Policies /\ queues \in [Levels -> Seq(Requests)] /\ rr_cursor \in Nat
  /\ client_counts \in [Clients -> Nat] /\ left \subseteq Requests

(* request_prioritizer.rs: a request is waiting or gone, its level keeps the  *)
(* order of arrival under every policy and expiry, and under RoundRobin a     *)
(* waiting level is passed over once by each other one, as long as no level   *)
(* empties or fills.                                                          *)
Held ==
  /\ \A l \in Levels :
       LET Waits(r) == level[r] = l /\ r \notin left IN queues[l] = SelectSeq(arrived, Waits)
  /\ policy = "robin" =>
       \A l \in Levels : passed[l] < Cardinality(waiting(queues)) \/ passed[l] = 0
=============================================================================
