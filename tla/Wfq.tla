---------------------------------- MODULE Wfq ----------------------------------
(* wfq.rs: deficit round-robin over the job classes.  The scheduler is taken  *)
(* by &mut, so that a call is one step.                                       *)
EXTENDS Naturals, FiniteSets, Sequences

CONSTANTS
  Jobs, class_for_job, compute_cost,   \* functions of the job
  class_order, weight, quantum         \* the classes in order, and their weights

Classes == {class_order[i] : i \in DOMAIN class_order}

VARIABLES
  queue, deficit,
  arrived,            \* jobs in the order they were enqueued
  left                \* and in the order they were handed out
vars == <<queue, deficit, arrived, left>>

PrefixCost(s, n) ==
  LET cost[i \in 0 .. n] == IF i = 0 THEN 0 ELSE cost[i - 1] + compute_cost[s[i]]
  IN cost[n]

(* What a round credits a class with, and how many jobs that pays for.        *)
credit(q, d, c) == IF q[c] = <<>> THEN 0 ELSE d[c] + quantum * weight[c]

taken(q, d, c) ==
  CHOOSE n \in 0 .. Len(q[c]) :
    /\ PrefixCost(q[c], n) <= credit(q, d, c)
    /\ \A m \in n + 1 .. Len(q[c]) : PrefixCost(q[c], m) > credit(q, d, c)

(* A round on queues q with deficits d; a class left empty keeps no credit.   *)
Round(q, d) ==
  LET out[i \in 0 .. Len(class_order)] ==
        IF i = 0 THEN <<>>
        ELSE out[i - 1] \o SubSeq(q[class_order[i]], 1, taken(q, d, class_order[i]))
  IN [queue |-> [c \in Classes |-> SubSeq(q[c], taken(q, d, c) + 1, Len(q[c]))],
      deficit |-> [c \in Classes |->
        IF taken(q, d, c) = Len(q[c]) THEN 0
        ELSE credit(q, d, c) - PrefixCost(q[c], taken(q, d, c))],
      out |-> out[Len(class_order)]]

enqueue(j) ==
  /\ \A i \in DOMAIN arrived : arrived[i] # j
  /\ queue' = [queue EXCEPT ![class_for_job[j]] = Append(@, j)]
  /\ arrived' = Append(arrived, j)
  /\ UNCHANGED <<deficit, left>>

is_empty == \A c \in Classes : queue[c] = <<>>

drain_round ==
  LET r == Round(queue, deficit) IN
  /\ ~is_empty
  /\ queue' = r.queue /\ deficit' = r.deficit /\ left' = left \o r.out
  /\ UNCHANGED arrived

(* As a bug would have it: pushed to the front first to last.                 *)
put_back_Reversed(q, rest) ==
  LET back == [i \in DOMAIN rest |-> rest[Len(rest) + 1 - i]] IN
  [c \in Classes |-> LET OfClass(j) == class_for_job[j] = c IN SelectSeq(back, OfClass) \o q[c]]

(* The put-back of next_job: every job of the batch but the first returns to  *)
(* the front of its class, in order.  What it cost is not given back.         *)
put_back(q, rest) ==
  [c \in Classes |-> LET OfClass(j) == class_for_job[j] = c IN SelectSeq(rest, OfClass) \o q[c]]

(* Rounds until one hands out a job: a class in need of a cost gets at least  *)
(* one unit of it in each.                                                    *)
next_job ==
  /\ ~is_empty
  /\ LET most == PrefixCost(arrived, Len(arrived))
         round[n \in 0 .. most] ==
           IF n = 0 THEN Round(queue, deficit)
           ELSE Round(round[n - 1].queue, round[n - 1].deficit)
         first == CHOOSE n \in 0 .. most : /\ round[n].out # <<>>
                                          /\ \A m \in 0 .. n - 1 : round[m].out = <<>>
         batch == round[first].out
     IN /\ queue' = put_back(round[first].queue, Tail(batch))
        /\ deficit' = round[first].deficit
        /\ left' = Append(left, batch[1])
  /\ UNCHANGED arrived

Init ==
  /\ queue = [c \in Classes |-> <<>>] /\ deficit = [c \in Classes |-> 0]
  /\ arrived = <<>> /\ left = <<>>

Next == drain_round \/ next_job \/ \E j \in Jobs : enqueue(j)

Spec == Init /\ [][Next]_vars

TypeOK ==
  /\ queue \in [Classes -> Seq(Jobs)] /\ deficit \in [Classes -> Nat]
  /\ arrived \in Seq(Jobs) /\ left \in Seq(Jobs)

(* wfq.rs: through rounds, and through jobs handed out, put back and handed   *)
(* out again, a class's jobs leave once each and in the order they came, a    *)
(* waiting class is never more than one job's cost ahead, and an idle one     *)
(* saves up nothing.                                                          *)
Held ==
  /\ \A c \in Classes :
       LET OfClass(j) == class_for_job[j] = c IN
       SelectSeq(left, OfClass) \o queue[c] = SelectSeq(arrived, OfClass)
  /\ \A c \in Classes : queue[c] = <<>> => deficit[c] = 0
  /\ \A c \in Classes : \E j \in Jobs : deficit[c] < compute_cost[j]
=============================================================================
