---------------------------- MODULE MCRouterCore ----------------------------
(* Instances of RouterCore for TLC. *)
EXTENDS RouterCore

CONSTANTS p1, p2, r1, s1, b1, b2, b3, c1

Job(api, kind, payload, cost, scaling) ==
  [api |-> api, kind |-> kind, payload |-> payload, cost |-> cost,
   scaling |-> scaling, deadline |-> FALSE, panics |-> FALSE]

(* inline up to 1, spawn below 4, pool or batch from there on; one permit, so *)
(* that a call decides Drop while the pool is busy; batches of two.           *)
OnePermit ==
  [inline_threshold |-> 1, spawn_threshold |-> 4, cpu_parallelism |-> 1,
   cpu_queue_cap |-> 1, backpressure_busy_threshold |-> 1, batch_max_size |-> 2]

(* Two calls for the pool, one closure for it that may panic, and a spawned   *)
(* closure that may panic.                                                    *)
PoolSpec ==
  [j \in {p1, p2, r1, s1} |->
    CASE j \in {p1, p2} -> Job("submit", "HashMix", 1, 5, 0)
      [] j = r1 -> [Job("run", "HashMix", 2, 5, 0) EXCEPT !.panics = TRUE]
      [] j = s1 -> [Job("run", "HashMix", 3, 2, 0) EXCEPT !.panics = TRUE]]

(* Three calls of one kind that a warm neural router may send anywhere, the    *)
(* batch among them: two of one content, of which one has a deadline, and one *)
(* of another content; and a call of cost zero.                               *)
MixedSpec ==
  [j \in {b1, b2, b3, c1} |->
    CASE j = b1 -> Job("submit", "HashMix", 1, 5, 90)
      [] j = b2 -> [Job("submit", "HashMix", 1, 5, 90) EXCEPT !.deadline = TRUE]
      [] j = b3 -> Job("submit", "HashMix", 2, 5, 90)
      [] j = c1 -> Job("submit", "HashMix", 2, 0, 0)]

(* Three batched calls of one kind.                                           *)
BatchSpec ==
  [j \in {b1, b2, b3} |-> Job("submit", "HashMix", 1, 5, 90)]

(* A call a warm neural router may send anywhere, a closure for the pool and  *)
(* one that runs on its caller, which may both panic.                         *)
LiveSpec ==
  [j \in {b1, r1, s1} |->
    CASE j = b1 -> Job("submit", "HashMix", 1, 5, 90)
      [] j = r1 -> [Job("run", "HashMix", 2, 5, 0) EXCEPT !.panics = TRUE]
      [] j = s1 -> [Job("run", "PrimeCount", 3, 1, 0) EXCEPT !.panics = TRUE]]

OneKind == <<"HashMix">>
TwoKinds == <<"PrimeCount", "HashMix">>
ThreeKinds == <<"HashMix", "PrimeCount", "MonteCarloRisk">>
=============================================================================
