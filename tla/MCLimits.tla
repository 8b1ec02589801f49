------------------------------- MODULE MCLimits -------------------------------
(* The components that limit how much is let through, runs, waits or is open, *)
(* and the settings such limits are kept in, each on its own: part says which *)
(* of them moves in a behaviour.  The bulkhead of Bulkhead has its own        *)
(* variables; v1, v2, ... stand for those of any other.                       *)
EXTENDS Bulkhead, Admissions, FiniteSetTheorems, SequenceTheorems, TLAPS

CONSTANTS
  c1, c2, c3, c4,
  MaxTime, MaxLog,   \* how far a part's clock and its log go, by part
  service_Callers, service_Cancellable, service_max_concurrent, service_max_queue_size,
  pool_Callers, max_connections, MaxId,
  sliding_Callers, sliding_window_ms, sliding_max_requests, burst_tenths, sliding_Steps,
  prefix_Callers, Rules, window_secs, prefix_Steps,
  hybrid_capacity, hybrid_refill, hybrid_window_ms, window_max, Tokens, hybrid_MaxLate,
  counter_window_ms, counter_max_requests, sub_windows, counter_MaxLate,
  Kinds, Configs,
  Requests, MaxWanted, shaper_capacity, shaper_refill, strict_priority,
  bucket_capacity, refill_rate, bucket_ttl, soft_ceiling, hard_ceiling, Loads,
  shed_Callers, Low, shed_capacity, threshold,
  reserved_Callers, reserved_Ids, Fractions, max_reserved_fraction, free_tier_threshold,
  sla_Jobs, sla_class, sla_ms, base_priority, boost,
  Writers, Readers, Keys, Values, Valid, Required, MaxWrites

VARIABLES part, v1, v2, v3, v4, v5, v6, v7

others == <<v1, v2, v3, v4, v5, v6, v7>>
allVars == <<part, vars, others>>

Service == INSTANCE ServiceBulkhead WITH
  Callers <- service_Callers, Cancellable <- service_Cancellable,
  max_concurrent <- service_max_concurrent, max_queue_size <- service_max_queue_size,
  pc <- v1, queue_depth <- v2, total_executed <- v3, total_rejected <- v4, permits <- v5

Pool == INSTANCE ConnectionPool WITH
  Callers <- pool_Callers,
  state <- v1, error_count <- v2, next_id <- v3, evicted_total <- v4, held <- v5

Sliding == INSTANCE SlidingRateLimiter WITH
  Callers <- sliding_Callers, window_ms <- sliding_window_ms, max_requests <- sliding_max_requests,
  Steps <- sliding_Steps, MaxTime <- MaxTime["sliding"], MaxLog <- MaxLog["sliding"],
  now <- v1, timestamps <- v2, pc <- v3, at <- v4, limited <- v5, log <- v6

Prefix == INSTANCE RateLimiter WITH
  Callers <- prefix_Callers, Steps <- prefix_Steps,
  MaxTime <- MaxTime["prefix"], MaxLog <- MaxLog["prefix"],
  now <- v1, rules <- v2, timestamps <- v3, burst_used <- v4, rule <- v5, log <- v6

Hybrid == INSTANCE RateLimiterV2 WITH
  capacity <- hybrid_capacity, refill <- hybrid_refill, window_ms <- hybrid_window_ms,
  MaxLate <- hybrid_MaxLate, MaxTime <- MaxTime["hybrid"], MaxLog <- MaxLog["hybrid"],
  now <- v1, entries <- v2, tokens <- v3, last_ms <- v4, log <- v5

Counter == INSTANCE SlidingWindowCounter WITH
  window_ms <- counter_window_ms, max_requests <- counter_max_requests,
  MaxLate <- counter_MaxLate, MaxTime <- MaxTime["counter"], MaxLog <- MaxLog["counter"],
  now <- v1, buckets <- v2, log <- v3

Flow == INSTANCE FlowControl WITH
  MaxTime <- MaxTime["flow"], MaxLog <- MaxLog["flow"],
  now <- v1, config <- v2, tokens <- v3, last_refill <- v4, kind_tokens <- v5,
  kind_last_refill <- v6, log <- v7

Shaper == INSTANCE TrafficShaper WITH
  capacity <- shaper_capacity, refill <- shaper_refill, MaxTime <- MaxTime["shaper"],
  now <- v1, tokens <- v2, last_refill <- v3, queue <- v4, asked <- v5, spent <- v6, log <- v7

Gate == INSTANCE Admission WITH
  MaxTime <- MaxTime["gate"], MaxLog <- MaxLog["gate"],
  now <- v1, tokens <- v2, last_refill <- v3, last_used <- v4, log <- v5,
  given <- v6

Shed == INSTANCE LoadShed WITH
  Callers <- shed_Callers, capacity <- shed_capacity,
  pc <- v1, queue_depth <- v2, slow <- v3, policy <- v4

Reserved == INSTANCE Reservation WITH
  Callers <- reserved_Callers, Ids <- reserved_Ids, reservations <- v1

Fair == INSTANCE Wfq WITH
  Jobs <- 1 .. 5, class_for_job <- <<"a", "a", "a", "b", "b">>, compute_cost <- <<1, 1, 2, 5, 2>>,
  class_order <- <<"a", "b">>, weight <- [c \in {"a", "b"} |-> IF c = "a" THEN 4 ELSE 2],
  quantum <- 1, queue <- v1, deficit <- v2, arrived <- v3, left <- v4

Sla == INSTANCE SlaQueue WITH
  Jobs <- sla_Jobs, MaxTime <- MaxTime["sla"], now <- v1, enqueued_at <- v2, done <- v3

Levels == INSTANCE RequestPrioritizer WITH
  Policies <- {"strict", "weighted", "robin"}, Requests <- 1 .. 6,
  level <- <<0, 0, 2, 2, 4, 4>>, client <- <<c1, c2, c2, c1, c1, c1>>,
  deadline_ms <- <<9, 9, 1, 9, 9, 9>>, weights <- [c \in {c1, c2} |-> IF c = c1 THEN 2 ELSE 1],
  Times <- {0, 1},
  policy <- v1, queues <- v2, client_counts <- v3, rr_cursor <- v4, arrived <- v5, left <- v6,
  passed <- v7

Settings == INSTANCE DynamicConfig WITH
  values <- v1, version <- v2, writes <- v3, pc <- v4, pending <- v5, seen <- v6, copy <- v7

(* What the writers of the settings try, and what the schema lets through.    *)
TriedValues == [k \in {"rate", "name"} |-> {"low", "mid", "odd"}]
ValidValues == [k \in {"rate", "name"} |-> IF k = "rate" THEN {"low", "mid"} ELSE {"mid", "odd"}]

(* What the limiters and the queue with deadlines are given.                  *)
TimeBounds == [sliding |-> 21, prefix |-> 8, hybrid |-> 7, counter |-> 14, flow |-> 4,
               shaper |-> 4, gate |-> 8, sla |-> 8]
LogBounds == [sliding |-> 5, prefix |-> 6, hybrid |-> 7, counter |-> 6, flow |-> 4, gate |-> 7]
PrefixRules == {[requests_per_window |-> 1, burst_allowance |-> 2],
                [requests_per_window |-> 2, burst_allowance |-> 0]}
FlowConfigs == {[global_rps |-> 3, burst |-> 3, per_kind_rps |-> [k \in {c1} |-> 4]],
                [global_rps |-> 5, burst |-> 2, per_kind_rps |-> [k \in {c1, c2} |-> 3]]}
JobClasses == <<"critical", "batch", "batch", "critical">>
ClassTimes == [c \in {"critical", "batch"} |-> IF c = "batch" THEN 5 ELSE 2]
ClassPriorities == [c \in {"critical", "batch"} |-> IF c = "batch" THEN 4 ELSE 8]

(* simple_regex_match, for a pattern v1 and a text v2.                        *)
Segments == {<<>>, <<"a">>, <<"b">>, <<"a", "b">>}
Patterns == [start : BOOLEAN, end : BOOLEAN,
             segments : UNION {[1 .. n -> Segments] : n \in 1 .. 3}]
Texts == UNION {[1 .. n -> {"a", "b"}] : n \in 0 .. 4}

(* The proofs rest on this.                                                   *)
ASSUME LimitsAssumption ==
  /\ BulkheadAssumption
  /\ Service!ServiceAssumption
  /\ Pool!PoolAssumption
  /\ Sliding!SlidingAssumption /\ Prefix!RulesAssumption
  /\ Hybrid!HybridAssumption /\ Counter!CounterAssumption
  /\ Flow!FlowAssumption /\ Shaper!ShaperAssumption /\ Gate!GateAssumption
  /\ Shed!ShedAssumption /\ Reserved!ReservationAssumption /\ Sla!SlaAssumption

v6on == <<v6, v7>>
v4on == <<v4, v5, v6, v7>>
v5on == <<v5, v6, v7>>

OtherInit ==
  \/ /\ part = "bulkhead"
     /\ v1 = 0 /\ v2 = 0 /\ v3 = 0 /\ v4 = 0 /\ v5 = 0 /\ v6 = 0 /\ v7 = 0
  \/ part = "service" /\ Service!Init /\ v6 = 0 /\ v7 = 0
  \/ part = "pool" /\ Pool!Init /\ v6 = 0 /\ v7 = 0
  \/ part = "sliding" /\ Sliding!Init /\ v7 = 0
  \/ part = "prefix" /\ Prefix!Init /\ v7 = 0
  \/ part = "hybrid" /\ Hybrid!Init /\ v6 = 0 /\ v7 = 0
  \/ part = "counter" /\ Counter!Init /\ v4 = 0 /\ v5 = 0 /\ v6 = 0 /\ v7 = 0
  \/ part = "flow" /\ Flow!Init
  \/ part = "shaper" /\ Shaper!Init
  \/ part = "gate" /\ Gate!Init /\ v7 = 0
  \/ part = "shed" /\ Shed!Init /\ v5 = 0 /\ v6 = 0 /\ v7 = 0
  \/ /\ part = "reserved" /\ Reserved!Init
     /\ v2 = 0 /\ v3 = 0 /\ v4 = 0 /\ v5 = 0 /\ v6 = 0 /\ v7 = 0
  \/ part = "fair" /\ Fair!Init /\ v5 = 0 /\ v6 = 0 /\ v7 = 0
  \/ part = "sla" /\ Sla!Init /\ v4 = 0 /\ v5 = 0 /\ v6 = 0 /\ v7 = 0
  \/ part = "levels" /\ Levels!Init
  \/ part = "settings" /\ Settings!Init
  \/ /\ part = "regex" /\ v1 \in Patterns /\ v2 \in Texts
     /\ v3 = 0 /\ v4 = 0 /\ v5 = 0 /\ v6 = 0 /\ v7 = 0

OtherNext ==
  /\ UNCHANGED <<part, vars>>
  /\ \/ part = "service" /\ Service!Next /\ UNCHANGED v6on
     \/ part = "pool" /\ Pool!Next /\ UNCHANGED v6on
     \/ part = "sliding" /\ Sliding!Next /\ UNCHANGED v7
     \/ part = "prefix" /\ Prefix!Next /\ UNCHANGED v7
     \/ part = "hybrid" /\ Hybrid!Next /\ UNCHANGED v6on
     \/ part = "counter" /\ Counter!Next /\ UNCHANGED v4on
     \/ part = "flow" /\ Flow!Next
     \/ part = "shaper" /\ Shaper!Next
     \/ part = "gate" /\ Gate!Next /\ UNCHANGED v7
     \/ part = "shed" /\ Shed!Next /\ UNCHANGED v5on
     \/ part = "reserved" /\ Reserved!Next /\ UNCHANGED <<v2, v3, v4on>>
     \/ part = "fair" /\ Fair!Next /\ UNCHANGED v5on
     \/ part = "sla" /\ Sla!Next /\ UNCHANGED v4on
     \/ part = "levels" /\ Levels!Next
     \/ part = "settings" /\ Settings!Next

LimitsInit == Init /\ OtherInit

LimitsNext ==
  \/ part = "bulkhead" /\ Next /\ UNCHANGED <<part, others>>
  \/ OtherNext

LimitsSpec == LimitsInit /\ [][LimitsNext]_allVars

(* See ServiceBulkhead and ConnectionPool, and Bulkhead for the other two      *)
(* properties of the run.                                                     *)
PoolExact ==
  /\ part = "service" => Service!ServiceExact
  /\ part = "pool" => Pool!PoolExact

(* The limiters: what they let through, over every stretch of time.  See the  *)
(* Held of each module, which says where it is less than a doc line asks.     *)
RatesHeld ==
  /\ part = "sliding" => Sliding!Held /\ Sliding!RetryHonest
  /\ part = "prefix" => Prefix!Held
  /\ part = "hybrid" => Hybrid!Held
  /\ part = "counter" => Counter!Held
  /\ part = "flow" => Flow!Held
  /\ part = "shaper" => Shaper!Held
  /\ part = "gate" => Gate!Held
  /\ part = "shed" => Shed!Held
  /\ part = "reserved" => Reserved!Held

(* What is computed over sequences: the order, credit and rotation of the     *)
(* queues, see the Held of wfq.rs and request_prioritizer.rs, and what a      *)
(* pattern of dynamic_config.rs matches, see MatchSound.                      *)
SequencesHeld ==
  /\ part = "fair" => Fair!Held
  /\ part = "levels" => Levels!Held
  /\ part = "regex" => Settings!MatchSound(v1, v2)

(* dynamic_config.rs: see VersionsCover.                                      *)
SettingsHeld == part = "settings" => Settings!VersionsCover

(* See SlaQueue.                                                              *)
DeadlinesFirst == [][part = "sla" => Sla!DeadlinesFirst]_allVars

Types ==
  /\ TypeOK
  /\ part = "service" => Service!TypeOK
  /\ part = "pool" => Pool!TypeOK
  /\ part = "sliding" => Sliding!TypeOK
  /\ part = "prefix" => Prefix!TypeOK
  /\ part = "hybrid" => Hybrid!TypeOK
  /\ part = "counter" => Counter!TypeOK
  /\ part = "flow" => Flow!TypeOK
  /\ part = "shaper" => Shaper!TypeOK
  /\ part = "gate" => Gate!TypeOK
  /\ part = "shed" => Shed!TypeOK
  /\ part = "reserved" => Reserved!TypeOK
  /\ part = "fair" => Fair!TypeOK
  /\ part = "sla" => Sla!TypeOK
  /\ part = "levels" => Levels!TypeOK
  /\ part = "settings" => Settings!TypeOK

-----------------------------------------------------------------------------
(* What is proved of the parts above, for every value of the constants.       *)

In(c, S) == IF c \in S THEN 1 ELSE 0

(* A set that gains or loses one caller, or none. *)
LEMMA OneMoves ==
  ASSUME NEW S, NEW T, IsFiniteSet(S), NEW c, S \ {c} = T \ {c}
  PROVE  /\ IsFiniteSet(T) /\ Cardinality(T) \in Nat /\ Cardinality(S) \in Nat
         /\ Cardinality(T) + In(c, S) = Cardinality(S) + In(c, T)
<1> DEFINE R == S \ {c}
<1>1. IsFiniteSet(R) /\ Cardinality(R) \in Nat
  BY FS_Subset, FS_CardinalityType
<1>2. c \notin R /\ IsFiniteSet(R \cup {c}) /\ Cardinality(R \cup {c}) = Cardinality(R) + 1
  BY <1>1, FS_AddElement
<1>3. S \ {c} = R /\ T \ {c} = R
  OBVIOUS
<1> HIDE DEF R
<1>4. ASSUME NEW X, X \ {c} = R
      PROVE  IsFiniteSet(X) /\ Cardinality(X) = Cardinality(R) + In(c, X)
  <2>1. CASE c \in X
    <3>1. X = R \cup {c}
      BY <1>4, <2>1
    <3> QED
      BY <1>2, <2>1, <3>1 DEF In
  <2>2. CASE c \notin X
    <3>1. X = R
      BY <1>4, <2>2
    <3> QED
      BY <1>1, <2>2, <3>1 DEF In
  <2> QED
    BY <2>1, <2>2
<1>5. In(c, S) \in Nat /\ In(c, T) \in Nat
  BY DEF In
<1> QED
  BY <1>1, <1>3, <1>4, <1>5

(* A count that moves as its set does stays the size of the set. *)
LEMMA CountFollows ==
  ASSUME NEW S, NEW T, IsFiniteSet(S), NEW c, S \ {c} = T \ {c},
         NEW n, NEW m \in Int, n = Cardinality(S), m + In(c, S) = n + In(c, T)
  PROVE  m = Cardinality(T) /\ m \in Nat
<1>1. /\ Cardinality(T) \in Nat /\ Cardinality(S) \in Nat
      /\ Cardinality(T) + In(c, S) = Cardinality(S) + In(c, T)
  BY OneMoves
<1>2. In(c, S) \in Nat /\ In(c, T) \in Nat
  BY DEF In
<1> QED
  BY <1>1, <1>2

(* The callers can be counted. *)
LEMMA SetsFinite ==
  ASSUME BulkheadAssumption
  PROVE  /\ IsFiniteSet(Permitted) /\ IsFiniteSet(InFlight) /\ IsFiniteSet(Queued)
         /\ IsFiniteSet(Completed) /\ IsFiniteSet(Rejected) /\ IsFiniteSet(Past)
BY FS_Subset
DEF BulkheadAssumption, Permitted, InFlight, Queued, Completed, Rejected, Past, At

(* The counts are exact, in terms of the sets. *)
LEMMA Exact ==
  BulkheadExact <=>
    /\ permits + Cardinality(Permitted) = max_concurrent
    /\ in_flight = Cardinality(InFlight)
    /\ queued = Cardinality(Queued)
    /\ total_completed = Cardinality(Completed)
    /\ total_rejected = Cardinality(Rejected)
BY DEF BulkheadExact, Permitted, InFlight, Queued, Completed, Rejected

(* Each count moves as caller c enters or leaves its set. *)
CountsMove(c) ==
  /\ {permits, in_flight, queued, total_completed, total_rejected}' \subseteq Int
  /\ permits' + In(c, Permitted') = permits + In(c, Permitted)
  /\ in_flight' + In(c, InFlight) = in_flight + In(c, InFlight')
  /\ queued' + In(c, Queued) = queued + In(c, Queued')
  /\ total_completed' + In(c, Completed) = total_completed + In(c, Completed')
  /\ total_rejected' + In(c, Rejected) = total_rejected + In(c, Rejected')

(* A step of one caller keeps the counts exact if they move as it does. *)
LEMMA ExactStep ==
  ASSUME BulkheadAssumption, TypeOK, BulkheadExact, NEW c \in Callers,
         \A d \in Callers \ {c} : pc'[d] = pc[d] /\ seen'[d] = seen[d],
         CountsMove(c)
  PROVE  BulkheadExact' /\ {in_flight, queued, total_rejected, total_completed}' \subseteq Nat
<1>1. /\ permits + Cardinality(Permitted) = max_concurrent
      /\ in_flight = Cardinality(InFlight)
      /\ queued = Cardinality(Queued)
      /\ total_completed = Cardinality(Completed)
      /\ total_rejected = Cardinality(Rejected)
  BY Exact
<1>2. /\ Permitted \ {c} = Permitted' \ {c} /\ InFlight \ {c} = InFlight' \ {c}
      /\ Queued \ {c} = Queued' \ {c} /\ Completed \ {c} = Completed' \ {c}
      /\ Rejected \ {c} = Rejected' \ {c}
  BY DEF Permitted, InFlight, Queued, Completed, Rejected, At, needs_queue
<1>3. permits' + Cardinality(Permitted') = max_concurrent
  <2>1. /\ Cardinality(Permitted') \in Nat /\ Cardinality(Permitted) \in Nat
        /\ Cardinality(Permitted') + In(c, Permitted)
             = Cardinality(Permitted) + In(c, Permitted')
    BY <1>2, SetsFinite, OneMoves
  <2>2. /\ In(c, Permitted) \in Nat /\ In(c, Permitted') \in Nat
        /\ max_concurrent \in Nat /\ permits \in Nat
    BY DEF In, BulkheadAssumption, TypeOK
  <2>3. permits' \in Int /\ permits' + In(c, Permitted') = permits + In(c, Permitted)
    BY DEF CountsMove
  <2>4. permits + Cardinality(Permitted) = max_concurrent
    BY <1>1
  <2> QED
    BY <2>1, <2>2, <2>3, <2>4
<1>4. in_flight' = Cardinality(InFlight') /\ in_flight' \in Nat
  <2>1. /\ IsFiniteSet(InFlight) /\ InFlight \ {c} = InFlight' \ {c} /\ in_flight = Cardinality(InFlight)
        /\ in_flight' + In(c, InFlight) = in_flight + In(c, InFlight')
        /\ in_flight' \in Int
    BY <1>1, <1>2, SetsFinite DEF CountsMove
  <2> QED
    BY <2>1, CountFollows
<1>5. queued' = Cardinality(Queued') /\ queued' \in Nat
  <2>1. /\ IsFiniteSet(Queued) /\ Queued \ {c} = Queued' \ {c} /\ queued = Cardinality(Queued)
        /\ queued' + In(c, Queued) = queued + In(c, Queued')
        /\ queued' \in Int
    BY <1>1, <1>2, SetsFinite DEF CountsMove
  <2> QED
    BY <2>1, CountFollows
<1>6. total_completed' = Cardinality(Completed') /\ total_completed' \in Nat
  <2>1. /\ IsFiniteSet(Completed) /\ Completed \ {c} = Completed' \ {c} /\ total_completed = Cardinality(Completed)
        /\ total_completed' + In(c, Completed) = total_completed + In(c, Completed')
        /\ total_completed' \in Int
    BY <1>1, <1>2, SetsFinite DEF CountsMove
  <2> QED
    BY <2>1, CountFollows
<1>7. total_rejected' = Cardinality(Rejected') /\ total_rejected' \in Nat
  <2>1. /\ IsFiniteSet(Rejected) /\ Rejected \ {c} = Rejected' \ {c} /\ total_rejected = Cardinality(Rejected)
        /\ total_rejected' + In(c, Rejected) = total_rejected + In(c, Rejected')
        /\ total_rejected' \in Int
    BY <1>1, <1>2, SetsFinite DEF CountsMove
  <2> QED
    BY <2>1, CountFollows
<1> QED
  BY <1>3, <1>4, <1>5, <1>6, <1>7
  DEF BulkheadExact, Permitted, InFlight, Queued, Completed, Rejected

(* Nobody leaves the past, and nobody is new again. *)
LEMMA PastGrows ==
  ASSUME BulkheadAssumption, TypeOK, Past \subseteq Past', At({"new"})' \subseteq At({"new"})
  PROVE  /\ Cardinality(Past) <= Cardinality(Past') /\ Cardinality(Past') \in Nat
         /\ Cardinality(Past) \in Nat
         /\ \A c \in Callers : /\ Cardinality(Others(c)) <= Cardinality(Others(c)')
                               /\ Cardinality(Others(c)) \in Nat
                               /\ Cardinality(Others(c)') \in Nat
<1>1. IsFiniteSet(Past') /\ IsFiniteSet(Past)
  BY FS_Subset DEF BulkheadAssumption, Past, At
<1>2. ASSUME NEW c \in Callers
      PROVE  Others(c) \subseteq Others(c)' /\ IsFiniteSet(Others(c)')
  BY FS_Subset DEF BulkheadAssumption, Others
<1> QED
  BY <1>1, <1>2, FS_Subset, FS_CardinalityType

(* A step of one caller, whatever it counts. *)
LEMMA MoveStep ==
  ASSUME BulkheadAssumption, TypeOK, SeenPast, RefusedForOthers, NEW c \in Callers, NEW l,
         pc' = [pc EXCEPT ![c] = l], l # "new", c \in Past => c \in Past',
         l = "loaded" => seen'[c] <= Cardinality(Past),
         l = "rejected" => max_concurrent + max_queue_size <= Cardinality(Others(c)),
         seen' \in [Callers -> Nat], \A d \in Callers \ {c} : seen'[d] = seen[d]
  PROVE  SeenPast' /\ RefusedForOthers'
<1>1. Past \subseteq Past' /\ At({"new"})' \subseteq At({"new"})
  BY DEF Past, At, TypeOK
<1>2. SeenPast'
  <2>1. \A d \in Callers : pc'[d] = "loaded" => seen'[d] <= Cardinality(Past)
    BY DEF SeenPast, TypeOK
  <2>2. /\ Cardinality(Past) <= Cardinality(Past') /\ Cardinality(Past') \in Nat
        /\ Cardinality(Past) \in Nat
    BY <1>1, PastGrows
  <2> QED
    BY <2>1, <2>2 DEF SeenPast
<1>3. ASSUME NEW d \in Callers, pc'[d] = "rejected"
      PROVE  max_concurrent + max_queue_size <= Cardinality(Others(d)')
  <2>1. max_concurrent + max_queue_size <= Cardinality(Others(d))
    BY <1>3 DEF RefusedForOthers, Others, At, TypeOK
  <2>2. /\ Cardinality(Others(d)) <= Cardinality(Others(d)')
        /\ Cardinality(Others(d)) \in Nat /\ Cardinality(Others(d)') \in Nat
    BY <1>1, PastGrows
  <2> QED
    BY <2>1, <2>2 DEF BulkheadAssumption
<1> QED
  BY <1>2, <1>3 DEF RefusedForOthers, Others, At

(* Nobody has called at first. *)
LEMMA InitIInv == BulkheadAssumption /\ Init => IInv
<1> SUFFICES ASSUME BulkheadAssumption, Init PROVE IInv
  OBVIOUS
<1>1. TypeOK /\ AdmittedQueues /\ SeenPast /\ RefusedForOthers
  BY DEF BulkheadAssumption, Init, TypeOK, Labels, AdmittedQueues, SeenPast, RefusedForOthers, At
<1>2. /\ Permitted = {} /\ InFlight = {} /\ Queued = {} /\ Completed = {} /\ Rejected = {}
  BY DEF Init, Permitted, InFlight, Queued, Completed, Rejected, At
<1>3. BulkheadExact
  BY <1>2, Exact, FS_EmptySet DEF Init, BulkheadAssumption
<1> QED
  BY <1>1, <1>3 DEF IInv

(* The decision on two counts that were read one after the other. *)
LEMMA RefusalJust ==
  ASSUME BulkheadAssumption, IInv, NEW c \in Callers,
         pc[c] = "loaded", needs_queue(c), queued >= max_queue_size
  PROVE  max_concurrent + max_queue_size <= Cardinality(Others(c))
<1>1. /\ max_concurrent <= Cardinality(Past) /\ max_queue_size <= Cardinality(Queued)
      /\ IsFiniteSet(Past) /\ IsFiniteSet(Queued)
      /\ Cardinality(Past) \in Nat /\ Cardinality(Queued) \in Nat
  <2>1. queued = Cardinality(Queued) /\ seen[c] <= Cardinality(Past)
    BY Exact DEF IInv, SeenPast
  <2>2. /\ IsFiniteSet(Past) /\ IsFiniteSet(Queued)
        /\ Cardinality(Past) \in Nat /\ Cardinality(Queued) \in Nat
    BY SetsFinite, FS_CardinalityType
  <2> QED
    BY <2>1, <2>2 DEF needs_queue, BulkheadAssumption, IInv, TypeOK
<1>2. Past \cap Queued = {} /\ Past \cup Queued \subseteq Others(c)
  BY DEF Past, Queued, Others, At
<1>3. IsFiniteSet(Others(c))
  BY FS_Subset DEF BulkheadAssumption, Others
<1>4. Cardinality(Past \cup Queued) = Cardinality(Past) + Cardinality(Queued)
  <2>1. Cardinality(Past \cap Queued) = 0
    BY <1>2, FS_EmptySet
  <2>2. Cardinality(Past \cup Queued)
          = Cardinality(Past) + Cardinality(Queued) - Cardinality(Past \cap Queued)
    BY <1>1, FS_Union
  <2> QED
    BY <1>1, <2>1, <2>2
<1>5. Cardinality(Past \cup Queued) <= Cardinality(Others(c)) /\ Cardinality(Others(c)) \in Nat
  BY <1>2, <1>3, FS_Subset, FS_CardinalityType
<1> QED
  BY <1>1, <1>4, <1>5 DEF BulkheadAssumption

(* The sets a caller is in before and after it moves. *)
LEMMA Membership ==
  ASSUME TypeOK, NEW c \in Callers, NEW l, pc' = [pc EXCEPT ![c] = l]
  PROVE  /\ In(c, Permitted) = IF pc[c] \in {"acquired", "permitted", "running", "finished",
                                             "overran"} THEN 1 ELSE 0
         /\ In(c, Permitted') = IF l \in {"acquired", "permitted", "running", "finished",
                                         "overran"} THEN 1 ELSE 0
         /\ In(c, InFlight) = IF pc[c] \in {"running", "lostRunning"} THEN 1 ELSE 0
         /\ In(c, InFlight') = IF l \in {"running", "lostRunning"} THEN 1 ELSE 0
         /\ In(c, Queued) = IF /\ pc[c] \in {"acquiring", "acquired", "expired", "lostQueued"}
                               /\ seen[c] >= max_concurrent THEN 1 ELSE 0
         /\ In(c, Queued') = IF /\ l \in {"acquiring", "acquired", "expired", "lostQueued"}
                                /\ seen'[c] >= max_concurrent THEN 1 ELSE 0
         /\ In(c, Completed) = IF pc[c] = "completed" THEN 1 ELSE 0
         /\ In(c, Completed') = IF l = "completed" THEN 1 ELSE 0
         /\ In(c, Rejected) = IF pc[c] \in {"rejected", "timedOut"} THEN 1 ELSE 0
         /\ In(c, Rejected') = IF l \in {"rejected", "timedOut"} THEN 1 ELSE 0
<1>1. pc'[c] = l
  BY DEF TypeOK
<1> QED
  BY <1>1
  DEF In, Permitted, InFlight, Queued, Completed, Rejected, At, needs_queue

(* A step of c to l that keeps what has been read, and moves the counts. *)
LEMMA CallStep ==
  ASSUME BulkheadAssumption, IInv, NEW c \in Callers, NEW l \in Labels,
         pc' = [pc EXCEPT ![c] = l], l # "new", c \in Past => c \in Past',
         l = "admitted" => needs_queue(c),
         l = "rejected" => max_concurrent + max_queue_size <= Cardinality(Others(c)),
         l = "loaded" => seen'[c] <= Cardinality(Past), l = "loaded" \/ seen'[c] = seen[c],
         seen' \in [Callers -> Nat], \A d \in Callers \ {c} : seen'[d] = seen[d],
         permits' \in Nat, CountsMove(c)
  PROVE  IInv'
<1>1. \A d \in Callers \ {c} : pc'[d] = pc[d] /\ seen'[d] = seen[d]
  BY DEF IInv, TypeOK
<1>2. BulkheadExact' /\ {in_flight, queued, total_rejected, total_completed}' \subseteq Nat
  BY <1>1, ExactStep DEF IInv
<1>3. SeenPast' /\ RefusedForOthers'
  BY MoveStep DEF IInv
<1>4. TypeOK'
  <2>1. pc' \in [Callers -> Labels]
    BY DEF IInv, TypeOK
  <2> QED
    BY <1>2, <2>1 DEF TypeOK
<1>5. AdmittedQueues'
  BY DEF IInv, TypeOK, AdmittedQueues, needs_queue
<1> QED
  BY <1>2, <1>3, <1>4, <1>5 DEF IInv

(* Every step of a call moves the counts as it moves the caller. *)
LEMMA NextIInv ==
  ASSUME BulkheadAssumption, IInv, [Next]_vars
  PROVE  IInv'
<1>1. TypeOK
  BY DEF IInv
<1>2. ASSUME NEW c \in Callers, LoadInFlight(c) PROVE IInv'
  <2>1. in_flight <= Cardinality(Past)
    <3>1. InFlight \subseteq Past
      BY DEF InFlight, Past, At
    <3> QED
      BY <3>1, SetsFinite, FS_Subset, Exact DEF IInv
  <2>2. CountsMove(c)
    <3>1. pc[c] = "new" /\ pc' = [pc EXCEPT ![c] = "loaded"]
      BY <1>2 DEF LoadInFlight, Goto
    <3>2. /\ In(c, Permitted) = 0 /\ In(c, Permitted') = 0
          /\ In(c, InFlight) = 0 /\ In(c, InFlight') = 0
          /\ In(c, Queued) = 0 /\ In(c, Queued') = 0
          /\ In(c, Completed) = 0 /\ In(c, Completed') = 0
          /\ In(c, Rejected) = 0 /\ In(c, Rejected') = 0
      BY <1>1, <3>1
      DEF In, Permitted, InFlight, Queued, Completed, Rejected, At, TypeOK
    <3> QED
      BY <1>1, <1>2, <3>2 DEF LoadInFlight, gauges, totals, CountsMove, TypeOK
  <2>3. c \notin Past /\ permits' \in Nat
    BY <1>1, <1>2 DEF LoadInFlight, Past, At, TypeOK
  <2> QED
    BY <1>1, <1>2, <2>1, <2>2, <2>3, CallStep DEF LoadInFlight, Goto, Labels, TypeOK
<1>3. ASSUME NEW c \in Callers, Admit(c) PROVE IInv'
  <2>1. CountsMove(c)
    BY <1>1, <1>3, Membership DEF Admit, Goto, gauges, CountsMove, TypeOK, needs_queue
  <2>2. c \notin Past /\ permits' \in Nat
    BY <1>1, <1>3 DEF Admit, Past, At, TypeOK
  <2> QED
    BY <1>1, <1>3, <2>1, <2>2, CallStep, RefusalJust DEF Admit, Goto, Labels, TypeOK, needs_queue
<1>4. ASSUME NEW c \in Callers, Enqueue(c) PROVE IInv'
  <2>1. CountsMove(c)
    <3>1. seen[c] >= max_concurrent
      BY <1>4 DEF Enqueue, IInv, AdmittedQueues, needs_queue
    <3>2. /\ In(c, Permitted) = 0 /\ In(c, Permitted') = 0
          /\ In(c, InFlight) = 0 /\ In(c, InFlight') = 0
          /\ In(c, Queued) = 0 /\ In(c, Queued') = 1
          /\ In(c, Completed) = 0 /\ In(c, Completed') = 0
          /\ In(c, Rejected) = 0 /\ In(c, Rejected') = 0
      BY <1>1, <1>4, <3>1, Membership DEF Enqueue, Goto
    <3> QED
      BY <1>1, <1>4, <3>2 DEF Enqueue, totals, CountsMove, TypeOK
  <2>2. (c \in Past => c \in Past') /\ permits' \in Nat
    BY <1>1, <1>4 DEF Enqueue, Goto, totals, Past, At, TypeOK
  <2> QED
    BY <1>1, <1>4, <2>1, <2>2, CallStep DEF Enqueue, Goto, Labels, TypeOK
<1>5. ASSUME NEW c \in Callers, Acquire(c) PROVE IInv'
  <2>1. CountsMove(c)
    BY <1>1, <1>5, Membership DEF Acquire, Goto, gauges, totals, CountsMove, TypeOK, needs_queue
  <2>2. (c \in Past => c \in Past') /\ permits' \in Nat
    BY <1>1, <1>5 DEF Acquire, Goto, gauges, totals, Past, At, TypeOK
  <2> QED
    BY <1>1, <1>5, <2>1, <2>2, CallStep DEF Acquire, Goto, Labels, TypeOK
<1>6. ASSUME NEW c \in Callers, Dequeue(c) PROVE IInv'
  <2>1. CountsMove(c)
    BY <1>1, <1>6, Membership DEF Dequeue, Goto, CountsMove, TypeOK, needs_queue
  <2>2. (c \in Past => c \in Past') /\ permits' \in Nat
    BY <1>1, <1>6 DEF Dequeue, Goto, Past, At, TypeOK
  <2> QED
    BY <1>1, <1>6, <2>1, <2>2, CallStep DEF Dequeue, Goto, Labels, TypeOK
<1>7. ASSUME NEW c \in Callers, Start(c) PROVE IInv'
  <2>1. CountsMove(c)
    <3>1. /\ In(c, Permitted) = 1 /\ In(c, Permitted') = 1
          /\ In(c, InFlight) = 0 /\ In(c, InFlight') = 1
          /\ In(c, Queued) = 0 /\ In(c, Queued') = 0
          /\ In(c, Completed) = 0 /\ In(c, Completed') = 0
          /\ In(c, Rejected) = 0 /\ In(c, Rejected') = 0
      BY <1>1, <1>7, Membership DEF Start, Goto
    <3> QED
      BY <1>1, <1>7, <3>1 DEF Start, totals, CountsMove, TypeOK
  <2>2. (c \in Past => c \in Past') /\ permits' \in Nat
    BY <1>1, <1>7 DEF Start, Goto, totals, Past, At, TypeOK
  <2> QED
    BY <1>1, <1>7, <2>1, <2>2, CallStep DEF Start, Goto, Labels, TypeOK
<1>8. ASSUME NEW c \in Callers, Finish(c) PROVE IInv'
  <2>1. CountsMove(c)
    <3>1. /\ In(c, Permitted) = 1 /\ In(c, Permitted') = 1
          /\ In(c, InFlight) = 1 /\ In(c, InFlight') = 0
          /\ In(c, Queued) = 0 /\ In(c, Queued') = 0
          /\ In(c, Completed) = 0 /\ In(c, Completed') = 0
          /\ In(c, Rejected) = 0 /\ In(c, Rejected') = 0
      BY <1>1, <1>8, Membership DEF Finish, Goto
    <3> QED
      BY <1>1, <1>8, <3>1 DEF Finish, totals, CountsMove, TypeOK
  <2>2. (c \in Past => c \in Past') /\ permits' \in Nat
    BY <1>1, <1>8 DEF Finish, Goto, totals, Past, At, TypeOK
  <2> QED
    BY <1>1, <1>8, <2>1, <2>2, CallStep DEF Finish, Goto, Labels, TypeOK
<1>9. ASSUME NEW c \in Callers, Return(c) PROVE IInv'
  <2>1. CountsMove(c)
    BY <1>1, <1>9, Membership DEF Return, Goto, gauges, CountsMove, TypeOK, needs_queue
  <2>2. (c \in Past => c \in Past') /\ permits' \in Nat
    BY <1>1, <1>9 DEF Return, Goto, gauges, Past, At, TypeOK
  <2> QED
    BY <1>1, <1>9, <2>1, <2>2, CallStep DEF Return, Goto, Labels, TypeOK
<1>10. ASSUME NEW c \in Callers, Cancel(c) PROVE IInv'
  <2>1. CountsMove(c)
    BY <1>1, <1>10, Membership
    DEF Cancel, Goto, gauges, totals, CountsMove, TypeOK, needs_queue
  <2>2. (c \in Past => c \in Past') /\ permits' \in Nat
    BY <1>1, <1>10 DEF Cancel, Goto, gauges, totals, Past, At, TypeOK
  <2> QED
    BY <1>1, <1>10, <2>1, <2>2, CallStep DEF Cancel, Goto, Labels, TypeOK
<1>11. CASE UNCHANGED vars
  BY <1>11
  DEF vars, IInv, TypeOK, BulkheadExact, AdmittedQueues, SeenPast, RefusedForOthers, Past, At,
      needs_queue
<1> QED
  BY <1>2, <1>3, <1>4, <1>5, <1>6, <1>7, <1>8, <1>9, <1>10, <1>11 DEF Next, CallerStep

-----------------------------------------------------------------------------
(* The bulkhead of a service.                                                 *)

(* The instance counts as this module does.                                   *)
LEMMA ServiceCounts ==
  /\ \A S : Service!IsFiniteSet(S) <=> IsFiniteSet(S)
  /\ \A S : Service!Cardinality(S) = Cardinality(S)
<1>1. \A S : Service!IsFiniteSet(S) <=> IsFiniteSet(S)
  BY DEF Service!IsFiniteSet, IsFiniteSet
<1>2. \A S : Service!Cardinality(S) = Cardinality(S)
  BY DEF Service!Cardinality, Cardinality
<1> QED
  BY <1>1, <1>2

(* Its callers can be counted.                                                *)
LEMMA ServiceSets ==
  ASSUME Service!ServiceAssumption
  PROVE  /\ IsFiniteSet(Service!Permitted) /\ IsFiniteSet(Service!Queued)
         /\ IsFiniteSet(Service!Counted) /\ IsFiniteSet(Service!Late) /\ IsFiniteSet(Service!Came)
         /\ Cardinality(Service!Permitted) \in Nat /\ Cardinality(Service!Queued) \in Nat
         /\ Cardinality(Service!Late) \in Nat /\ Cardinality(Service!Came) \in Nat
<1>1. IsFiniteSet(service_Callers)
  BY ServiceCounts DEF Service!ServiceAssumption
<1>2. /\ Service!Permitted \subseteq service_Callers /\ Service!Queued \subseteq service_Callers
      /\ Service!Counted \subseteq service_Callers /\ Service!Late \subseteq service_Callers
      /\ Service!Came \subseteq service_Callers
  BY DEF Service!Permitted, Service!Queued, Service!Counted, Service!Late, Service!Came, Service!At
<1>3. /\ IsFiniteSet(Service!Permitted) /\ IsFiniteSet(Service!Queued)
      /\ IsFiniteSet(Service!Counted) /\ IsFiniteSet(Service!Late) /\ IsFiniteSet(Service!Came)
  BY <1>1, <1>2, FS_Subset
<1> QED
  BY <1>3, FS_CardinalityType

(* What a step of caller c to l does to the sets.                             *)
LEMMA ServiceMembership ==
  ASSUME Service!TypeOK, NEW c \in service_Callers, NEW l, v1' = [v1 EXCEPT ![c] = l]
  PROVE  /\ In(c, Service!Permitted) = IF v1[c] \in {"acquired", "running"} THEN 1 ELSE 0
         /\ In(c, Service!Permitted') = IF l \in {"acquired", "running"} THEN 1 ELSE 0
         /\ In(c, Service!Queued)
              = IF v1[c] \in {"acquiring", "acquired", "expired", "lostQueued"} THEN 1 ELSE 0
         /\ In(c, Service!Queued')
              = IF l \in {"acquiring", "acquired", "expired", "lostQueued"} THEN 1 ELSE 0
         /\ In(c, Service!Counted)
              = IF v1[c] \in {"done", "queueFull", "timedOut"} THEN 1 ELSE 0
         /\ In(c, Service!Counted')
              = IF l \in {"done", "queueFull", "timedOut"} THEN 1 ELSE 0
         /\ Service!Permitted \ {c} = Service!Permitted' \ {c}
         /\ Service!Queued \ {c} = Service!Queued' \ {c}
         /\ Service!Counted \ {c} = Service!Counted' \ {c}
<1>1. v1'[c] = l /\ \A d \in service_Callers \ {c} : v1'[d] = v1[d]
  BY DEF Service!TypeOK
<1> QED
  BY <1>1 DEF In, Service!Permitted, Service!Queued, Service!Counted, Service!At

(* The counts move as the caller does.                                        *)
ServiceMoves(c) ==
  /\ v2' \in Int /\ {v3, v4, v5}' \subseteq Nat
  /\ v5' + In(c, Service!Permitted') = v5 + In(c, Service!Permitted)
  /\ v2' + In(c, Service!Queued) = v2 + In(c, Service!Queued')
  /\ v3' + v4' + In(c, Service!Counted) = v3 + v4 + In(c, Service!Counted')

LateLabels ==
  {"refused", "admitted", "acquiring", "acquired", "expired", "lostQueued", "queueFull",
   "timedOut"}

(* A caller comes late only if all permits are taken.                         *)
LEMMA LateStep ==
  ASSUME Service!ServiceAssumption, Service!IInv, NEW c \in service_Callers, NEW l,
         v1' = [v1 EXCEPT ![c] = l], l # "new",
         v1[c] = "new" => l \in {"refused", "running"}, l = "refused" => v1[c] = "new" /\ v5 = 0,
         v1[c] # "new" /\ l \in LateLabels => v1[c] \in LateLabels
  PROVE  Service!TakenBefore'
<1> USE DEF Service!IInv
<1>1. /\ Service!Late = {d \in service_Callers : v1[d] \in LateLabels}
      /\ Service!Late' = {d \in service_Callers : v1'[d] \in LateLabels}
      /\ Service!Came = {d \in service_Callers : v1[d] # "new"}
      /\ Service!Came' = {d \in service_Callers : v1'[d] # "new"}
  BY DEF Service!Late, Service!Came, Service!At, LateLabels
<1>2. v1'[c] = l /\ \A d \in service_Callers \ {c} : v1'[d] = v1[d]
  BY DEF Service!TypeOK
<1>3. /\ IsFiniteSet(Service!Late) /\ Cardinality(Service!Late) \in Nat
      /\ IsFiniteSet(Service!Came) /\ Cardinality(Service!Came) \in Nat
      /\ service_max_concurrent \in Nat
  BY ServiceSets DEF Service!ServiceAssumption
<1> DEFINE late == Service!Late
           came == Service!Came
<1>4. late # {} => service_max_concurrent + Cardinality(late) <= Cardinality(came)
  BY ServiceCounts DEF Service!TakenBefore
<1>5. Service!TakenBefore' <=>
        (late' # {} => service_max_concurrent + Cardinality(late') <= Cardinality(came'))
  BY ServiceCounts DEF Service!TakenBefore
<1>6. CASE v1[c] = "new"
  <2>1. came' = came \cup {c} /\ c \notin came /\ c \notin late
    BY <1>1, <1>2, <1>6 DEF LateLabels
  <2>2. Cardinality(came') = Cardinality(came) + 1
    BY <1>3, <2>1, FS_AddElement
  <2>3. CASE l = "running"
    <3>1. late' = late
      BY <1>1, <1>2, <1>6, <2>3 DEF LateLabels
    <3> HIDE DEF late, came
    <3> QED
      BY <1>3, <1>4, <1>5, <2>2, <3>1 DEF late, came
  <2>4. CASE l = "refused"
    <3>1. late' = late \cup {c}
      BY <1>1, <1>2, <1>6, <2>4 DEF LateLabels
    <3>2. Cardinality(late') = Cardinality(late) + 1
      BY <1>3, <2>1, <3>1, FS_AddElement
    <3>3. late = {} => Cardinality(late) = 0
      BY FS_EmptySet
    <3>4. service_max_concurrent <= Cardinality(came)
      <4>1. Cardinality(Service!Permitted) = service_max_concurrent
        <5>1. v5 + Cardinality(Service!Permitted) = service_max_concurrent
          BY ServiceCounts DEF Service!ServiceExact, Service!Permitted
        <5> QED
          BY <2>4, <5>1, ServiceSets
      <4>2. Service!Permitted \subseteq Service!Came
        BY DEF Service!Permitted, Service!Came, Service!At
      <4> QED
        BY <1>3, <4>1, <4>2, FS_Subset
    <3> HIDE DEF late, came
    <3>5. service_max_concurrent + Cardinality(late') <= Cardinality(came')
      <4>1. Cardinality(late) \in Nat /\ Cardinality(came) \in Nat
        BY <1>3 DEF late, came
      <4> QED
        BY <1>3, <1>4, <2>2, <3>2, <3>3, <3>4, <4>1
    <3> QED
      BY <1>5, <3>5
  <2> QED
    BY <1>6, <2>3, <2>4
<1>7. CASE v1[c] # "new"
  <2>1. came' = came /\ late' \subseteq late
    BY <1>1, <1>2, <1>7
  <2>2. Cardinality(late') <= Cardinality(late) /\ Cardinality(late') \in Nat
    BY <1>3, <2>1, FS_Subset, FS_CardinalityType
  <2>3. late' # {} => late # {}
    BY <2>1
  <2> HIDE DEF late, came
  <2>4. Cardinality(late) \in Nat /\ Cardinality(came) \in Nat
    BY <1>3 DEF late, came
  <2>5. late' # {} => service_max_concurrent + Cardinality(late') <= Cardinality(came')
    BY <1>3, <1>4, <2>1, <2>2, <2>3, <2>4
  <2> QED
    BY <1>5, <2>5
<1> QED
  BY <1>6, <1>7

(* Who finds the queue full comes after those who took the permits and those  *)
(* who stand in the queue.                                                    *)
LEMMA FullQueueJust ==
  ASSUME Service!ServiceAssumption, Service!IInv, NEW c \in service_Callers,
         v1[c] = "refused", v2 >= service_max_queue_size
  PROVE  service_max_concurrent + service_max_queue_size <= Cardinality(Service!Came \ {c})
<1> DEFINE late == Service!Late
           came == Service!Came
           queued_ == Service!Queued
<1>1. c \in late /\ c \in came /\ queued_ \subseteq late \ {c}
  BY DEF Service!Late, Service!Came, Service!Queued, Service!At
<1>2. /\ IsFiniteSet(late) /\ IsFiniteSet(came) /\ Cardinality(late) \in Nat
      /\ Cardinality(came) \in Nat /\ Cardinality(queued_) \in Nat
  BY ServiceSets
<1>3. service_max_concurrent + Cardinality(late) <= Cardinality(came)
  BY <1>1, ServiceCounts DEF Service!IInv, Service!TakenBefore
<1>4. service_max_queue_size <= Cardinality(queued_)
  BY ServiceCounts DEF Service!IInv, Service!ServiceExact, Service!Queued
<1>5. /\ IsFiniteSet(late \ {c}) /\ Cardinality(late \ {c}) = Cardinality(late) - 1
      /\ Cardinality(came \ {c}) = Cardinality(came) - 1
  BY <1>1, <1>2, FS_RemoveElement
<1>6. Cardinality(queued_) <= Cardinality(late \ {c})
  BY <1>1, <1>5, FS_Subset
<1> HIDE DEF late, came, queued_
<1>7. service_max_concurrent \in Nat /\ service_max_queue_size \in Nat
  BY DEF Service!ServiceAssumption
<1>8. service_max_concurrent + service_max_queue_size <= Cardinality(came \ {c})
  BY <1>2, <1>3, <1>4, <1>5, <1>6, <1>7
<1> QED
  BY <1>8 DEF came

(* A step of caller c to l.                                                   *)
LEMMA ServiceCall ==
  ASSUME Service!ServiceAssumption, Service!IInv, NEW c \in service_Callers, NEW l,
         v1' = [v1 EXCEPT ![c] = l], v1' \in [service_Callers -> Service!Labels], l # "new",
         v1[c] = "new" => l \in {"refused", "running"}, l = "refused" => v1[c] = "new" /\ v5 = 0,
         v1[c] # "new" /\ l \in LateLabels => v1[c] \in LateLabels,
         l = "queueFull" => v1[c] = "refused" /\ v2 >= service_max_queue_size,
         ServiceMoves(c)
  PROVE  Service!IInv'
<1> USE DEF Service!IInv
<1>1. /\ v5 + Cardinality(Service!Permitted) = service_max_concurrent
      /\ v2 = Cardinality(Service!Queued)
      /\ v3 + v4 = Cardinality(Service!Counted)
      /\ \A d \in service_Callers : v1[d] = "queueFull" =>
           service_max_concurrent + service_max_queue_size <= Cardinality(Service!Came \ {d})
  <2>1. \A d \in service_Callers :
          service_Callers \ (Service!At({"new"}) \cup {d}) = Service!Came \ {d}
    BY DEF Service!Came
  <2> QED
    BY <2>1, ServiceCounts
    DEF Service!ServiceExact, Service!Permitted, Service!Queued, Service!Counted, Service!At
<1>2. /\ Service!Permitted \ {c} = Service!Permitted' \ {c}
      /\ Service!Queued \ {c} = Service!Queued' \ {c}
      /\ Service!Counted \ {c} = Service!Counted' \ {c}
  BY ServiceMembership
<1>3. v5' + Cardinality(Service!Permitted') = service_max_concurrent
  <2>1. /\ Cardinality(Service!Permitted') \in Nat /\ Cardinality(Service!Permitted) \in Nat
        /\ Cardinality(Service!Permitted') + In(c, Service!Permitted)
             = Cardinality(Service!Permitted) + In(c, Service!Permitted')
    BY <1>2, ServiceSets, OneMoves
  <2>2. /\ In(c, Service!Permitted) \in Nat /\ In(c, Service!Permitted') \in Nat
        /\ v5 \in Nat /\ v5' \in Nat /\ service_max_concurrent \in Nat
    BY DEF In, Service!ServiceAssumption, Service!TypeOK, ServiceMoves
  <2>3. v5' + In(c, Service!Permitted') = v5 + In(c, Service!Permitted)
    BY DEF ServiceMoves
  <2> QED
    BY <1>1, <2>1, <2>2, <2>3
<1>4. v2' = Cardinality(Service!Queued') /\ v2' \in Nat
  <2>1. v2' \in Int /\ v2' + In(c, Service!Queued) = v2 + In(c, Service!Queued')
    BY DEF ServiceMoves
  <2>2. IsFiniteSet(Service!Queued)
    BY ServiceSets
  <2> QED
    BY <1>1, <1>2, <2>1, <2>2, CountFollows
<1>5. v3' + v4' = Cardinality(Service!Counted')
  <2>1. /\ v3' + v4' \in Int
        /\ v3' + v4' + In(c, Service!Counted) = v3 + v4 + In(c, Service!Counted')
    BY DEF ServiceMoves
  <2>2. IsFiniteSet(Service!Counted)
    BY ServiceSets
  <2> QED
    BY <1>1, <1>2, <2>1, <2>2, CountFollows
<1>6. ASSUME NEW d \in service_Callers, v1'[d] = "queueFull"
      PROVE  service_max_concurrent + service_max_queue_size
               <= Cardinality(Service!Came' \ {d})
  <2>1. v1'[c] = l /\ \A e \in service_Callers \ {c} : v1'[e] = v1[e]
    BY DEF Service!TypeOK
  <2>2. service_max_concurrent + service_max_queue_size <= Cardinality(Service!Came \ {d})
    BY <1>1, <1>6, <2>1, FullQueueJust
  <2>3. Service!Came \ {d} \subseteq Service!Came' \ {d}
    BY <2>1 DEF Service!Came, Service!At
  <2>4. IsFiniteSet(Service!Came' \ {d})
    <3>1. Service!Came' \subseteq service_Callers
      BY DEF Service!Came
    <3> QED
      BY <3>1, FS_Subset, ServiceCounts DEF Service!ServiceAssumption
  <2>5. /\ Cardinality(Service!Came \ {d}) <= Cardinality(Service!Came' \ {d})
        /\ IsFiniteSet(Service!Came \ {d})
    BY <2>3, <2>4, FS_Subset
  <2>6. Cardinality(Service!Came \ {d}) \in Nat /\ Cardinality(Service!Came' \ {d}) \in Nat
    BY <2>4, <2>5, FS_CardinalityType
  <2>7. service_max_concurrent + service_max_queue_size \in Nat
    BY DEF Service!ServiceAssumption
  <2> QED
    BY <2>2, <2>5, <2>6, <2>7
<1>7. Service!ServiceExact'
  <2>1. \A d \in service_Callers :
          service_Callers \ (Service!At({"new"})' \cup {d}) = Service!Came' \ {d}
    BY DEF Service!Came
  <2> QED
    BY <1>3, <1>4, <1>5, <1>6, <2>1, ServiceCounts
    DEF Service!ServiceExact, Service!Permitted, Service!Queued, Service!Counted, Service!At
<1>8. Service!TypeOK'
  BY <1>4 DEF Service!TypeOK, ServiceMoves
<1>9. Service!TakenBefore'
  BY LateStep
<1> QED
  BY <1>7, <1>8, <1>9
(* Every step of a call moves the counts as it moves the caller.              *)
LEMMA ServiceStep ==
  ASSUME Service!ServiceAssumption, Service!IInv, [Service!Next]_(Service!vars)
  PROVE  Service!IInv'
<1>1. Service!TypeOK
  BY DEF Service!IInv
<1>2. ASSUME NEW c \in service_Callers, Service!FastPath(c) PROVE Service!IInv'
  <2>1. ServiceMoves(c)
    BY <1>1, <1>2, ServiceMembership DEF Service!FastPath, Service!Goto, ServiceMoves, Service!TypeOK
  <2>2. \E l \in {"running", "refused"} :
          v1[c] = "new" /\ v1' = [v1 EXCEPT ![c] = l] /\ (l = "refused" => v5 = 0)
    BY <1>1, <1>2 DEF Service!FastPath, Service!Goto, Service!TypeOK
  <2> QED
    BY <1>1, <2>1, <2>2, ServiceCall DEF Service!TypeOK, Service!Labels, LateLabels
<1>3. ASSUME NEW c \in service_Callers, Service!CheckQueue(c) PROVE Service!IInv'
  <2>1. ServiceMoves(c)
    BY <1>1, <1>3, ServiceMembership
    DEF Service!CheckQueue, Service!Goto, ServiceMoves, Service!TypeOK
  <2> QED
    BY <1>1, <1>3, <2>1, ServiceCall
    DEF Service!CheckQueue, Service!Goto, Service!TypeOK, Service!Labels, LateLabels
<1>4. ASSUME NEW c \in service_Callers, Service!Enqueue(c) PROVE Service!IInv'
  <2>1. v1[c] = "admitted" /\ v1' = [v1 EXCEPT ![c] = "acquiring"]
    BY <1>4 DEF Service!Enqueue, Service!Goto
  <2>2. ServiceMoves(c)
    <3>1. /\ In(c, Service!Permitted) = 0 /\ In(c, Service!Permitted') = 0
          /\ In(c, Service!Queued) = 0 /\ In(c, Service!Queued') = 1
          /\ In(c, Service!Counted) = 0 /\ In(c, Service!Counted') = 0
      BY <1>1, <2>1, ServiceMembership
    <3> QED
      BY <1>1, <1>4, <3>1 DEF Service!Enqueue, ServiceMoves, Service!TypeOK
  <2>3. v1' \in [service_Callers -> Service!Labels]
    BY <1>1, <2>1 DEF Service!TypeOK, Service!Labels
  <2> QED
    BY <2>1, <2>2, <2>3, ServiceCall DEF LateLabels
<1>5. ASSUME NEW c \in service_Callers, Service!Acquire(c) PROVE Service!IInv'
  <2>1. ServiceMoves(c)
    BY <1>1, <1>5, ServiceMembership DEF Service!Acquire, Service!Goto, ServiceMoves, Service!TypeOK
  <2> QED
    BY <1>1, <1>5, <2>1, ServiceCall
    DEF Service!Acquire, Service!Goto, Service!TypeOK, Service!Labels, LateLabels
<1>6. ASSUME NEW c \in service_Callers, Service!Dequeue(c) PROVE Service!IInv'
  <2>1. ServiceMoves(c)
    BY <1>1, <1>6, ServiceMembership DEF Service!Dequeue, Service!Goto, ServiceMoves, Service!TypeOK
  <2> QED
    BY <1>1, <1>6, <2>1, ServiceCall
    DEF Service!Dequeue, Service!Goto, Service!TypeOK, Service!Labels, LateLabels
<1>7. ASSUME NEW c \in service_Callers, Service!Run(c) PROVE Service!IInv'
  <2>1. v1[c] = "running" /\ v1' = [v1 EXCEPT ![c] = "done"]
    BY <1>7 DEF Service!Run, Service!Goto
  <2>2. ServiceMoves(c)
    <3>1. /\ In(c, Service!Permitted) = 1 /\ In(c, Service!Permitted') = 0
          /\ In(c, Service!Queued) = 0 /\ In(c, Service!Queued') = 0
          /\ In(c, Service!Counted) = 0 /\ In(c, Service!Counted') = 1
      BY <1>1, <2>1, ServiceMembership
    <3> QED
      BY <1>1, <1>7, <3>1 DEF Service!Run, ServiceMoves, Service!TypeOK
  <2>3. v1' \in [service_Callers -> Service!Labels]
    BY <1>1, <2>1 DEF Service!TypeOK, Service!Labels
  <2> QED
    BY <2>1, <2>2, <2>3, ServiceCall DEF LateLabels
<1>8. ASSUME NEW c \in service_Callers, Service!Cancel(c) PROVE Service!IInv'
  <2>1. ServiceMoves(c)
    BY <1>1, <1>8, ServiceMembership DEF Service!Cancel, Service!Goto, ServiceMoves, Service!TypeOK
  <2> QED
    BY <1>1, <1>8, <2>1, ServiceCall
    DEF Service!Cancel, Service!Goto, Service!TypeOK, Service!Labels, LateLabels
<1>9. CASE UNCHANGED Service!vars
  BY <1>9
  DEF Service!vars, Service!IInv, Service!TypeOK, Service!ServiceExact, Service!TakenBefore,
      Service!Late, Service!Came, Service!At
<1> QED
  BY <1>2, <1>3, <1>4, <1>5, <1>6, <1>7, <1>8, <1>9 DEF Service!Next, Service!CallerStep

(* Nobody has called at first.                                                *)
LEMMA ServiceInit ==
  ASSUME Service!ServiceAssumption, Service!Init
  PROVE  Service!IInv
<1>1. Service!TypeOK
  BY DEF Service!ServiceAssumption, Service!Init, Service!TypeOK, Service!Labels
<1>2. /\ Service!At({"acquired", "running"}) = {}
      /\ Service!At({"acquiring", "acquired", "expired", "lostQueued"}) = {}
      /\ Service!At({"done", "queueFull", "timedOut"}) = {}
      /\ Service!At({"queueFull"}) = {} /\ Service!Late = {}
  BY DEF Service!Init, Service!Late, Service!At
<1>3. Service!ServiceExact
  BY <1>2, ServiceCounts, FS_EmptySet
  DEF Service!Init, Service!ServiceExact, Service!ServiceAssumption
<1> QED
  BY <1>1, <1>2, <1>3 DEF Service!IInv, Service!TakenBefore
-----------------------------------------------------------------------------
(* The connection pool.                                                       *)

LEMMA PoolCounts ==
  /\ \A S : Pool!IsFiniteSet(S) <=> IsFiniteSet(S)
  /\ \A S : Pool!Cardinality(S) = Cardinality(S)
<1>1. \A S : Pool!IsFiniteSet(S) <=> IsFiniteSet(S)
  BY DEF Pool!IsFiniteSet, IsFiniteSet
<1>2. \A S : Pool!Cardinality(S) = Cardinality(S)
  BY DEF Pool!Cardinality, Cardinality
<1> QED
  BY <1>1, <1>2

LEMMA PoolFinite ==
  ASSUME Pool!PoolAssumption
  PROVE  \A S : S \subseteq Pool!Ids => IsFiniteSet(S) /\ Cardinality(S) \in Nat
<1>1. IsFiniteSet(Pool!Ids)
  BY FS_Interval DEF Pool!Ids, Pool!PoolAssumption
<1> QED
  BY <1>1, FS_Subset, FS_CardinalityType

(* What PoolExact says besides the counts.                                    *)
PoolHolders ==
  /\ \A c, d \in pool_Callers : v5[c] # 0 /\ v5[c] = v5[d] => c = d
  /\ \A i \in Pool!Pooled : v1[i] = "inUse" <=> \E c \in pool_Callers : v5[c] = i
  /\ \A i \in Pool!Idle : v2[i] = 0

PoolSize ==
  /\ Cardinality(Pool!Pooled) <= max_connections
  /\ v4 + Cardinality(Pool!Pooled) = v3 - 1

LEMMA PoolParts ==
  /\ Pool!PoolExact <=> PoolHolders /\ PoolSize
  /\ (Pool!PoolExact <=> PoolHolders /\ PoolSize)'
BY PoolCounts DEF Pool!PoolExact, PoolHolders, PoolSize

(* A step that keeps who is in the pool keeps its size.                       *)
LEMMA PoolKeeps ==
  ASSUME Pool!IInv, Pool!Pooled' = Pool!Pooled, v3' = v3, v4' = v4
  PROVE  PoolSize'
BY PoolParts DEF Pool!IInv, PoolSize

(* The first idle connection goes to a caller who has none.                   *)
LEMMA TakeIdle ==
  ASSUME Pool!PoolAssumption, Pool!IInv, NEW c \in pool_Callers, NEW i \in Pool!Idle,
         v5[c] = 0, Pool!Take(c, i), UNCHANGED <<v2, v3, v4>>
  PROVE  Pool!IInv'
<1> USE DEF Pool!IInv
<1>1. /\ v1' = [v1 EXCEPT ![i] = "inUse"] /\ v5' = [v5 EXCEPT ![c] = i]
      /\ i \in Pool!Ids /\ v1[i] = "idle" /\ i # 0
  BY DEF Pool!Take, Pool!Idle, Pool!Ids
<1>2. Pool!TypeOK'
  BY <1>1 DEF Pool!TypeOK
<1>3. Pool!Pooled' = Pool!Pooled /\ Pool!Idle' = Pool!Idle \ {i}
  BY <1>1 DEF Pool!TypeOK, Pool!Pooled, Pool!Idle
<1>4. i < v3
  BY <1>1 DEF Pool!Unused, Pool!TypeOK, Pool!Ids
<1>5. \A d \in pool_Callers : v5[d] # i
  BY <1>1, PoolParts DEF PoolHolders, Pool!Pooled
<1>6. PoolHolders'
  <2>1. v5'[c] = i /\ v1'[i] = "inUse" /\ \A d \in pool_Callers \ {c} : v5'[d] = v5[d]
    BY <1>1 DEF Pool!TypeOK
  <2>2. \A k \in Pool!Pooled' : k \in Pool!Ids /\ k # 0 /\ (k # i => v1'[k] = v1[k])
    BY <1>1, <1>3 DEF Pool!TypeOK, Pool!Pooled, Pool!Ids
  <2>3. PoolHolders
    BY PoolParts
  <2>4. \A k \in Pool!Pooled' : v1'[k] = "inUse" <=> \E d \in pool_Callers : v5'[d] = k
    BY <1>3, <1>5, <2>1, <2>2, <2>3 DEF PoolHolders
  <2>5. \A d, e \in pool_Callers : v5'[d] # 0 /\ v5'[d] = v5'[e] => d = e
    BY <1>5, <2>1, <2>3 DEF PoolHolders
  <2>6. \A k \in Pool!Idle' : v2'[k] = 0
    BY <1>3, <2>3 DEF PoolHolders
  <2> QED
    BY <2>4, <2>5, <2>6 DEF PoolHolders
<1>7. Pool!Unused'
  BY <1>1, <1>4, PoolParts DEF PoolHolders, Pool!Unused, Pool!TypeOK, Pool!Idle
<1> QED
  BY <1>2, <1>3, <1>6, <1>7, PoolKeeps, PoolParts

(* A new connection has an id that nobody knows yet.                          *)
LEMMA TakeNew ==
  ASSUME Pool!PoolAssumption, Pool!IInv, NEW c \in pool_Callers, v5[c] = 0,
         Pool!Idle = {}, Cardinality(Pool!Pooled) < max_connections, v3 \in Pool!Ids,
         Pool!Take(c, v3), v3' = v3 + 1, UNCHANGED <<v2, v4>>
  PROVE  Pool!IInv'
<1> USE DEF Pool!IInv
<1>1. PICK i \in Pool!Ids : i = v3
  OBVIOUS
<1>2. /\ v1' = [v1 EXCEPT ![i] = "inUse"] /\ v5' = [v5 EXCEPT ![c] = i]
      /\ v1[i] = "none" /\ v2[i] = 0 /\ i # 0 /\ i \in Nat /\ MaxId \in Nat
  BY <1>1 DEF Pool!Take, Pool!Unused, Pool!Ids, Pool!PoolAssumption
<1>3. Pool!TypeOK'
  BY <1>1, <1>2 DEF Pool!TypeOK, Pool!Ids
<1>4. Pool!Pooled' = Pool!Pooled \cup {i} /\ i \notin Pool!Pooled /\ Pool!Idle' = {}
  BY <1>1, <1>2 DEF Pool!TypeOK, Pool!Pooled, Pool!Idle
<1>5. PoolSize'
  <2>1. IsFiniteSet(Pool!Pooled) /\ Cardinality(Pool!Pooled) \in Nat
    BY PoolFinite DEF Pool!Pooled
  <2>2. Cardinality(Pool!Pooled') = Cardinality(Pool!Pooled) + 1
    BY <1>4, <2>1, FS_AddElement
  <2>3. v4 + Cardinality(Pool!Pooled) = v3 - 1 /\ v4 \in Nat /\ v3 \in Nat
    BY PoolParts DEF PoolSize, Pool!TypeOK, Pool!Ids
  <2>4. max_connections \in Nat
    BY DEF Pool!PoolAssumption
  <2> QED
    BY <2>1, <2>2, <2>3, <2>4 DEF PoolSize
<1>6. \A d \in pool_Callers : v5[d] # i
  BY <1>1, <1>2 DEF Pool!Unused, Pool!TypeOK, Pool!Ids
<1>7. PoolHolders'
  <2>1. v5'[c] = i /\ v1'[i] = "inUse" /\ \A d \in pool_Callers \ {c} : v5'[d] = v5[d]
    BY <1>2 DEF Pool!TypeOK
  <2>2. \A k \in Pool!Pooled : k # 0 /\ k # i /\ v1'[k] = v1[k]
    BY <1>2, <1>4 DEF Pool!TypeOK, Pool!Pooled, Pool!Ids
  <2>3. PoolHolders
    BY PoolParts
  <2>4. \A k \in Pool!Pooled' : v1'[k] = "inUse" <=> \E d \in pool_Callers : v5'[d] = k
    BY <1>4, <1>6, <2>1, <2>2, <2>3 DEF PoolHolders
  <2>5. \A d, e \in pool_Callers : v5'[d] # 0 /\ v5'[d] = v5'[e] => d = e
    BY <1>6, <2>1, <2>3 DEF PoolHolders
  <2> QED
    BY <1>4, <2>4, <2>5 DEF PoolHolders
<1>8. Pool!Unused'
  BY <1>1, <1>2 DEF Pool!Unused, Pool!TypeOK, Pool!Ids
<1> QED
  BY <1>3, <1>5, <1>7, <1>8, PoolParts

(* A connection comes back, whether the pool knows it or not.                 *)
LEMMA ReleaseKeeps ==
  ASSUME Pool!PoolAssumption, Pool!IInv, NEW c \in pool_Callers, Pool!release(c)
  PROVE  Pool!IInv'
<1> USE DEF Pool!IInv
<1>1. PICK i \in Pool!Ids : i = v5[c]
  BY DEF Pool!release, Pool!TypeOK
<1>2. /\ i # 0 /\ v5' = [v5 EXCEPT ![c] = 0] /\ v3' = v3 /\ v4' = v4
      /\ i < v3 /\ v3 \in Nat
  BY <1>1 DEF Pool!release, Pool!Unused, Pool!TypeOK, Pool!Ids
<1>3. CASE i \notin Pool!Pooled
  <2>1. v1' = v1 /\ v2' = v2
    BY <1>1, <1>3 DEF Pool!release
  <2>2. Pool!Pooled' = Pool!Pooled /\ Pool!Idle' = Pool!Idle
    BY <2>1 DEF Pool!Pooled, Pool!Idle
  <2>3. Pool!TypeOK'
    BY <1>2, <2>1 DEF Pool!TypeOK
  <2>4. Pool!Unused'
    BY <1>2, <2>1 DEF Pool!Unused, Pool!TypeOK, Pool!Ids
  <2>5. PoolHolders'
    BY <1>1, <1>2, <1>3, <2>1, <2>2, PoolParts DEF PoolHolders, Pool!TypeOK, Pool!Ids, Pool!Pooled
  <2> QED
    BY <1>2, <2>2, <2>3, <2>4, <2>5, PoolKeeps, PoolParts
<1>4. CASE i \in Pool!Pooled
  <2>1. PICK had_error \in BOOLEAN :
          /\ v1' = [v1 EXCEPT ![i] = IF had_error THEN "unhealthy" ELSE "idle"]
          /\ v2' = [v2 EXCEPT ![i] = IF had_error THEN @ + 1 ELSE @]
    BY <1>1, <1>4 DEF Pool!release
  <2>2. v1[i] = "inUse" /\ v2[i] = 0
    BY <1>1, <1>4, PoolParts DEF PoolHolders, Pool!Unused
  <2>3. Pool!Pooled' = Pool!Pooled /\ Pool!Idle' \subseteq Pool!Idle \cup {i}
    BY <1>4, <2>1 DEF Pool!Pooled, Pool!Idle, Pool!TypeOK
  <2>4. Pool!TypeOK'
    BY <1>2, <2>1 DEF Pool!TypeOK
  <2>5. Pool!Unused'
    BY <1>2, <2>1, <2>4 DEF Pool!Unused, Pool!TypeOK, Pool!Ids
  <2>6. \A d \in pool_Callers : v5'[d] # i
    BY <1>1, <1>2, PoolParts DEF PoolHolders, Pool!TypeOK
  <2>7. i \in Pool!Idle' => v2'[i] = 0
    BY <2>1, <2>2 DEF Pool!Idle, Pool!TypeOK
  <2>8. PoolHolders'
    BY <1>1, <1>2, <2>1, <2>2, <2>3, <2>6, <2>7, PoolParts
    DEF PoolHolders, Pool!TypeOK, Pool!Ids, Pool!Pooled
  <2> QED
    BY <1>2, <2>3, <2>4, <2>5, <2>8, PoolKeeps, PoolParts
<1> QED
  BY <1>3, <1>4

(* What is evicted is counted, and may still be held.                         *)
LEMMA EvictKeeps ==
  ASSUME Pool!PoolAssumption, Pool!IInv, Pool!evict_stale
  PROVE  Pool!IInv'
<1> USE DEF Pool!IInv
<1>1. PICK gone \in SUBSET Pool!Pooled :
        /\ v1' = [i \in Pool!Ids |-> IF i \in gone THEN "none" ELSE v1[i]]
        /\ v4' = v4 + Cardinality(gone)
        /\ UNCHANGED <<v2, v3, v5>>
        /\ Pool!Pooled' = Pool!Pooled \ gone
  <2>1. PICK stale \in SUBSET {i \in Pool!Pooled : v1[i] # "unhealthy"} :
          LET gone == stale \cup {i \in Pool!Ids : v1[i] = "unhealthy"}
          IN /\ v1' = [i \in Pool!Ids |-> IF i \in gone THEN "none" ELSE v1[i]]
             /\ v4' = v4 + Cardinality(gone)
             /\ UNCHANGED <<v2, v3, v5>>
    BY PoolCounts DEF Pool!evict_stale
  <2> DEFINE gone == stale \cup {i \in Pool!Ids : v1[i] = "unhealthy"}
  <2>2. gone \subseteq Pool!Pooled
    BY DEF Pool!Pooled
  <2>3. Pool!Pooled' = Pool!Pooled \ gone
    BY <2>1 DEF Pool!Pooled
  <2> QED
    BY <2>1, <2>2, <2>3
<1>2. /\ IsFiniteSet(Pool!Pooled) /\ Cardinality(Pool!Pooled) \in Nat
      /\ IsFiniteSet(gone) /\ Cardinality(gone) \in Nat
  BY PoolFinite DEF Pool!Pooled
<1>3. Pool!TypeOK'
  <2>1. v1' \in [Pool!Ids -> {"none", "idle", "inUse", "unhealthy"}]
    BY <1>1 DEF Pool!TypeOK
  <2>2. v4' \in Nat
    BY <1>1, <1>2 DEF Pool!TypeOK
  <2> QED
    BY <1>1, <2>1, <2>2 DEF Pool!TypeOK
<1>4. PoolSize'
  <2>1. Cardinality(Pool!Pooled') = Cardinality(Pool!Pooled) - Cardinality(gone)
    <3>1. Pool!Pooled \cap gone = gone
      OBVIOUS
    <3>2. Cardinality(Pool!Pooled \ gone)
            = Cardinality(Pool!Pooled) - Cardinality(Pool!Pooled \cap gone)
      BY <1>2, FS_Difference
    <3> QED
      BY <1>1, <3>1, <3>2
  <2>2. /\ v4 + Cardinality(Pool!Pooled) = v3 - 1 /\ v4 \in Nat /\ v3 \in Int
        /\ Cardinality(Pool!Pooled) <= max_connections
    BY PoolParts DEF PoolSize, Pool!TypeOK, Pool!PoolAssumption
  <2>3. max_connections \in Nat
    BY DEF Pool!PoolAssumption
  <2> QED
    BY <1>1, <1>2, <2>1, <2>2, <2>3 DEF PoolSize
<1>5. PoolHolders' /\ Pool!Unused'
  BY <1>1, PoolParts DEF PoolHolders, Pool!Unused, Pool!TypeOK, Pool!Pooled, Pool!Idle
<1> QED
  BY <1>3, <1>4, <1>5, PoolParts

(* No idle connection has an error, so that none is found unhealthy.          *)
LEMMA CheckMarksNone ==
  ASSUME Pool!IInv, Pool!health_check_all
  PROVE  v1' = v1
<1>1. PICK quiet \in SUBSET Pool!Idle :
        v1' = [i \in Pool!Ids |-> IF i \in quiet /\ v2[i] > 3 THEN "unhealthy" ELSE v1[i]]
  BY DEF Pool!health_check_all
<1>2. \A i \in quiet : ~(v2[i] > 3)
  BY PoolParts DEF Pool!IInv, PoolHolders
<1> QED
  BY <1>1, <1>2 DEF Pool!IInv, Pool!TypeOK

LEMMA PoolStep ==
  ASSUME Pool!PoolAssumption, Pool!IInv, [Pool!Next]_(Pool!vars)
  PROVE  Pool!IInv'
<1>1. ASSUME NEW c \in pool_Callers, Pool!acquire(c) PROVE Pool!IInv'
  BY <1>1, TakeIdle, TakeNew, PoolCounts DEF Pool!acquire
<1>2. ASSUME NEW c \in pool_Callers, Pool!release(c) PROVE Pool!IInv'
  BY <1>2, ReleaseKeeps
<1>3. CASE Pool!evict_stale
  BY <1>3, EvictKeeps
<1>4. CASE UNCHANGED Pool!vars
  BY <1>4
  DEF Pool!vars, Pool!IInv, Pool!TypeOK, Pool!PoolExact, Pool!Unused, Pool!Pooled, Pool!Idle
<1>5. CASE Pool!health_check_all
  BY <1>4, <1>5, CheckMarksNone DEF Pool!health_check_all, Pool!vars
<1> QED
  BY <1>1, <1>2, <1>3, <1>4, <1>5 DEF Pool!Next

LEMMA PoolInit ==
  ASSUME Pool!PoolAssumption, Pool!Init
  PROVE  Pool!IInv
<1>1. Pool!TypeOK
  BY DEF Pool!Init, Pool!TypeOK, Pool!PoolAssumption
<1>2. Pool!Pooled = {} /\ Pool!Idle = {}
  BY DEF Pool!Init, Pool!Pooled, Pool!Idle
<1>3. PoolSize
  BY <1>2, FS_EmptySet DEF PoolSize, Pool!Init, Pool!PoolAssumption
<1>4. PoolHolders /\ Pool!Unused
  BY <1>2 DEF Pool!Init, PoolHolders, Pool!Unused
<1> QED
  BY <1>1, <1>3, <1>4, PoolParts DEF Pool!IInv
-----------------------------------------------------------------------------
(* The store of settings.                                                     *)

(* A step of one writer that leaves readers alone.  It changes the values     *)
(* only as it begins to announce them.                                        *)
LEMMA WriterStep ==
  ASSUME Settings!IInv, NEW w \in Writers, NEW l, NEW p,
         v4' = [v4 EXCEPT ![w] = l], l \in {"idle", "set", "reload", "bump"},
         v5' = [v5 EXCEPT ![w] = p] \/ v5' = v5, UNCHANGED <<v6, v7>>,
         l = "set" => /\ v5'[w].key \in Keys /\ v5'[w].value \in Values[v5'[w].key]
                      /\ v5'[w].value \in Valid[v5'[w].key],
         l = "reload" => Settings!IsMap(v5'[w]) /\ Settings!Loadable(v5'[w]),
         Settings!IsMap(v1)', \A k \in Settings!given(v1)' : v1'[k] \in Valid[k],
         v2' \in {v2, v2 + 1}, v1' = v1 \/ l = "bump", v2' = v2 => l = "bump" \/ v4[w] # "bump"
  PROVE  Settings!IInv'
<1> USE DEF Settings!IInv
<1>1. v4'[w] = l /\ \A x \in Writers \ {w} : v4'[x] = v4[x] /\ v5'[x] = v5[x]
  OBVIOUS
<1>2. ASSUME NEW r \in Readers, v6[r] = v2', v7[r] # Settings!Unread, Settings!Announcing' = {}
      PROVE  v7[r] = v1'
  <2>1. l # "bump" /\ \A x \in Writers \ {w} : v4[x] # "bump"
    BY <1>1, <1>2 DEF Settings!Announcing
  <2>2. v2' = v2
    BY <1>2
  <2>3. Settings!Announcing = {}
    BY <2>1, <2>2 DEF Settings!Announcing
  <2> QED
    BY <1>2, <2>1, <2>2, <2>3 DEF Settings!VersionsCover
<1>3. Settings!VersionsCover'
  BY <1>2 DEF Settings!VersionsCover, Settings!validate_value
<1>4. \A x \in Writers :
        /\ v4'[x] = "set" => /\ v5'[x].key \in Keys /\ v5'[x].value \in Values[v5'[x].key]
                             /\ v5'[x].value \in Valid[v5'[x].key]
        /\ v4'[x] = "reload" => Settings!IsMap(v5'[x]) /\ Settings!Loadable(v5'[x])
  BY <1>1 DEF Settings!validate_value
<1>5. v4' \in [Writers -> {"idle", "set", "reload", "bump"}] /\ DOMAIN v5' = Writers
  OBVIOUS
<1> QED
  BY <1>3, <1>4, <1>5 DEF Settings!validate_value, Settings!Loadable, Settings!given

LEMMA StoreStep ==
  ASSUME Settings!IInv, [Settings!Next]_(Settings!vars)
  PROVE  Settings!IInv'
<1> USE DEF Settings!IInv
<1>1. Settings!IsMap(v1) /\ \A k \in Settings!given(v1) : v1[k] \in Valid[k]
  BY DEF Settings!VersionsCover, Settings!validate_value
<1>2. ASSUME NEW w \in Writers, Settings!set(w) PROVE Settings!IInv'
  <2>1. PICK k \in Keys : \E v \in Values[k] :
          v \in Valid[k] /\ v5' = [v5 EXCEPT ![w] = [key |-> k, value |-> v]]
    BY <1>2 DEF Settings!set, Settings!validate_value
  <2>2. PICK v \in Values[k] : v \in Valid[k] /\ v5' = [v5 EXCEPT ![w] = [key |-> k, value |-> v]]
    BY <2>1
  <2>3. v4[w] = "idle" /\ v4' = [v4 EXCEPT ![w] = "set"] /\ UNCHANGED <<v1, v2, v3, v6, v7>>
    BY <1>2 DEF Settings!set
  <2>4. v5'[w] = [key |-> k, value |-> v] /\ v4'[w] = "set"
    BY <2>2, <2>3
  <2>5. Settings!given(v1)' = Settings!given(v1)
    BY <2>3 DEF Settings!given
  <2> QED
    BY <1>1, <2>2, <2>3, <2>4, <2>5, WriterStep
<1>3. ASSUME NEW w \in Writers, Settings!set_Write(w) PROVE Settings!IInv'
  <2> DEFINE k == v5[w].key
             v == v5[w].value
  <2>1. /\ v4[w] = "set" /\ v4' = [v4 EXCEPT ![w] = "bump"] /\ v3' = v3 + 1
        /\ v1' = [v1 EXCEPT ![k] = v] /\ UNCHANGED <<v2, v5, v6, v7>>
    BY <1>3 DEF Settings!set_Write
  <2>2. k \in Keys /\ v \in Values[k] /\ v \in Valid[k]
    BY <2>1 DEF Settings!validate_value
  <2>3. Settings!IsMap(v1)'
    BY <1>1, <2>1, <2>2 DEF Settings!IsMap
  <2>4. \A i \in Settings!given(v1)' : v1'[i] \in Valid[i]
    BY <1>1, <2>1, <2>2 DEF Settings!given, Settings!IsMap
  <2> HIDE DEF k, v
  <2>5. v2' = v2 /\ v5' = v5
    BY <2>1
  <2> QED
    BY <2>1, <2>3, <2>4, <2>5, WriterStep
<1>4. ASSUME NEW w \in Writers, Settings!reload(w) PROVE Settings!IInv'
  <2>1. PICK m : Settings!IsMap(m) /\ Settings!Loadable(m) /\ v5' = [v5 EXCEPT ![w] = m]
    BY <1>4 DEF Settings!reload, Settings!IsMap
  <2>2. v4[w] = "idle" /\ v4' = [v4 EXCEPT ![w] = "reload"] /\ UNCHANGED <<v1, v2, v3, v6, v7>>
    BY <1>4 DEF Settings!reload
  <2>3. v5'[w] = m /\ v4'[w] = "reload"
    BY <2>1, <2>2
  <2>4. Settings!given(v1)' = Settings!given(v1)
    BY <2>2 DEF Settings!given
  <2> QED
    BY <1>1, <2>1, <2>2, <2>3, <2>4, WriterStep
<1>5. ASSUME NEW w \in Writers, Settings!reload_Write(w) PROVE Settings!IInv'
  <2> DEFINE m == v5[w]
             none == Settings!Changed(m) = {}
  <2>1. /\ v4[w] = "reload" /\ v4' = [v4 EXCEPT ![w] = IF none THEN "idle" ELSE "bump"]
        /\ v1' = m /\ v3' = v3 + (IF none THEN 0 ELSE 1) /\ UNCHANGED <<v2, v5, v6, v7>>
    BY <1>5 DEF Settings!reload_Write
  <2>2. Settings!IsMap(m) /\ Settings!Loadable(m)
    BY <2>1
  <2>3. \A i \in Settings!given(v1)' : v1'[i] \in Valid[i]
    BY <2>1, <2>2 DEF Settings!given, Settings!Loadable, Settings!validate_value
  <2>4. none => v1' = v1
    BY <1>1, <2>1, <2>2 DEF Settings!Changed, Settings!IsMap
  <2>5. Settings!IsMap(v1)'
    BY <2>1, <2>2 DEF Settings!IsMap
  <2> HIDE DEF none
  <2>6. CASE none
    BY <2>1, <2>3, <2>4, <2>5, <2>6, WriterStep
  <2>7. CASE ~none
    BY <2>1, <2>3, <2>5, <2>7, WriterStep
  <2> QED
    BY <2>6, <2>7
<1>6. ASSUME NEW w \in Writers, Settings!bump_version(w) PROVE Settings!IInv'
  <2>1. /\ v4[w] = "bump" /\ v4' = [v4 EXCEPT ![w] = "idle"] /\ v2' = v2 + 1
        /\ UNCHANGED <<v1, v3, v5, v6, v7>>
    BY <1>6 DEF Settings!bump_version
  <2>2. Settings!given(v1)' = Settings!given(v1)
    BY <2>1 DEF Settings!given
  <2>3. v2' # v2 /\ v5' = v5
    BY <2>1
  <2> QED
    BY <1>1, <2>1, <2>2, <2>3, WriterStep
<1>7. ASSUME NEW r \in Readers, Settings!Notified(r) \/ Settings!get(r) PROVE Settings!IInv'
  <2>1. /\ UNCHANGED <<v1, v2, v3, v4, v5>>
        /\ \E s, x : /\ v6' = [v6 EXCEPT ![r] = s] /\ v7' = [v7 EXCEPT ![r] = x]
                     /\ s = v2 \/ s = v6[r]
                     /\ x = Settings!Unread \/ x = v1
    <3>1. CASE Settings!Notified(r)
      BY <3>1 DEF Settings!Notified
    <3>2. CASE Settings!get(r)
      <4>1. v6' = [v6 EXCEPT ![r] = v6[r]]
        BY <3>2 DEF Settings!get
      <4> QED
        BY <3>2, <4>1 DEF Settings!get
    <3> QED
      BY <1>7, <3>1, <3>2
  <2>2. Settings!Announcing' = Settings!Announcing /\ Settings!given(v1)' = Settings!given(v1)
    BY <2>1 DEF Settings!Announcing, Settings!given
  <2>3. \A q \in Readers : v6'[q] \in Nat /\ v6'[q] <= v2'
    BY <2>1
  <2>4. \A q \in Readers :
          v6'[q] = v2 /\ v7'[q] # Settings!Unread /\ Settings!Announcing = {} => v7'[q] = v1
    BY <2>1 DEF Settings!VersionsCover
  <2>5. Settings!VersionsCover'
    BY <1>1, <2>1, <2>2, <2>4 DEF Settings!VersionsCover, Settings!validate_value
  <2>6. v6' \in [Readers -> Nat] /\ DOMAIN v7' = Readers
    BY <2>1
  <2> QED
    BY <2>1, <2>3, <2>5, <2>6 DEF Settings!validate_value, Settings!Loadable, Settings!given
<1>8. CASE UNCHANGED Settings!vars
  BY <1>8
  DEF Settings!vars, Settings!VersionsCover, Settings!Announcing, Settings!given,
      Settings!validate_value, Settings!Loadable
<1> QED
  BY <1>2, <1>3, <1>4, <1>5, <1>6, <1>7, <1>8 DEF Settings!Next

LEMMA StoreInit ==
  ASSUME Settings!Init
  PROVE  Settings!IInv
<1>1. Settings!given(v1) = {} /\ Settings!Announcing = {}
  BY DEF Settings!Init, Settings!Nothing, Settings!given, Settings!Announcing
<1>2. Settings!VersionsCover
  BY <1>1 DEF Settings!Init, Settings!VersionsCover
<1>3. /\ v2 = 0 /\ v3 = 0 /\ v4 = [w \in Writers |-> "idle"] /\ v5 = [w \in Writers |-> <<>>]
      /\ v6 = [r \in Readers |-> 0] /\ DOMAIN v7 = Readers
  BY DEF Settings!Init
<1>4. /\ v4 \in [Writers -> {"idle", "set", "reload", "bump"}] /\ DOMAIN v5 = Writers
      /\ v6 \in [Readers -> Nat] /\ \A r \in Readers : v6[r] <= v2
  BY <1>3
<1>5. \A w \in Writers : v4[w] = "idle"
  BY <1>3
<1>6. Settings!IsMap(v1)
  BY DEF Settings!Init, Settings!Nothing, Settings!IsMap
<1> QED
  BY <1>2, <1>3, <1>4, <1>5, <1>6 DEF Settings!IInv

-----------------------------------------------------------------------------
(* The limiters and the SLA queue.                                            *)

(* Of finitely many, one has the most. *)
LEMMA SomeHighest ==
  ASSUME NEW S, IsFiniteSet(S), S # {}, NEW f \in [S -> Int]
  PROVE  \E c \in S : \A d \in S : f[d] <= f[c]
<1> DEFINE Above(c) == {d \in S : f[d] > f[c]}
<1> DEFINE Sets == {Above(c) : c \in S}
<1>1. Sets \subseteq FiniteSubsetsOf(S) /\ Sets # {}
  <2>1. \A c \in S : Above(c) \subseteq S
    OBVIOUS
  <2> HIDE DEF Above
  <2>2. \A c \in S : IsFiniteSet(Above(c))
    BY <2>1, FS_Subset
  <2> QED
    BY <2>1, <2>2 DEF FiniteSubsetsOf
<1>2. PICK T \in Sets : \A U \in Sets : <<U, T>> \notin StrictSubsetOrdering(S)
  <2> HIDE DEF Sets
  <2> QED
    BY <1>1, FS_StrictSubsetOrderingWellFounded, WFMin
<1>3. PICK c \in S : T = Above(c)
  BY <1>2
<1>4. ASSUME NEW d \in S, ~(f[d] <= f[c])
      PROVE  FALSE
  <2>1. d \in Above(c) /\ d \notin Above(d) /\ Above(d) \subseteq Above(c)
    BY <1>4
  <2>2. <<Above(d), Above(c)>> \in StrictSubsetOrdering(S)
    BY <2>1 DEF StrictSubsetOrdering
  <2> QED
    BY <1>2, <1>3, <2>2
<1> QED
  BY <1>4

(* What is left of s from the first of the positions K is an end of it. *)
LEMMA FrontDropped ==
  ASSUME NEW S, NEW s \in Seq(S), NEW K, K \subseteq DOMAIN s
  PROVE  \E n \in 0 .. Len(s) :
           /\ FromFirst(s, K) \in Seq(S) /\ Len(FromFirst(s, K)) = Len(s) - n
           /\ DOMAIN FromFirst(s, K) = 1 .. Len(s) - n
           /\ \A i \in 1 .. Len(s) - n : FromFirst(s, K)[i] = s[n + i]
           /\ \A i \in 1 .. n : i \notin K
<1> DEFINE d == FromFirst(s, K)
<1>1. CASE K = {}
  <2>1. d = <<>> /\ Len(s) \in Nat
    BY <1>1 DEF FromFirst
  <2>2. d \in Seq(S) /\ Len(d) = 0 /\ DOMAIN d = 1 .. 0 /\ Len(s) - Len(s) = 0
    BY <2>1
  <2>3. /\ d \in Seq(S) /\ Len(d) = Len(s) - Len(s) /\ DOMAIN d = 1 .. Len(s) - Len(s)
        /\ \A i \in 1 .. Len(s) - Len(s) : d[i] = s[Len(s) + i]
        /\ \A i \in 1 .. Len(s) : i \notin K
    BY <1>1, <2>2
  <2> QED
    BY <2>1, <2>3
<1>2. CASE K # {}
  <2>1. IsFiniteSet(K) /\ K \subseteq 1 .. Len(s) /\ Len(s) \in Nat
    <3>1. K \subseteq 1 .. Len(s) /\ Len(s) \in Nat
      BY LenProperties
    <3>2. IsFiniteSet(1 .. Len(s))
      BY <3>1, FS_Interval
    <3> QED
      BY <3>1, <3>2, FS_Subset
  <2> DEFINE f == [i \in K |-> 0 - i]
  <2>2. f \in [K -> Int]
    BY <2>1
  <2>3. \E c \in K : \A e \in K : f[e] <= f[c]
    <3> HIDE DEF f
    <3> QED
      BY <1>2, <2>1, <2>2, SomeHighest
  <2>4. \E c \in K : \A e \in K : c <= e
    BY <2>1, <2>3
  <2> DEFINE m == CHOOSE i \in K : \A j \in K : i <= j
  <2>5. m \in K /\ \A j \in K : m <= j
    BY <2>4
  <2>6. d = SubSeq(s, m, Len(s))
    BY <1>2 DEF FromFirst
  <2> HIDE DEF m, f
  <2>7. /\ d \in Seq(S) /\ Len(d) = Len(s) - m + 1
        /\ \A i \in 1 .. Len(s) - m + 1 : d[i] = s[m + i - 1]
    <3>1. m \in 1 .. Len(s) /\ \A i \in m .. Len(s) : s[i] \in S
      BY <2>1, <2>5
    <3>2. /\ SubSeq(s, m, Len(s)) \in Seq(S)
          /\ Len(SubSeq(s, m, Len(s))) = IF m <= Len(s) THEN Len(s) - m + 1 ELSE 0
          /\ \A i \in 1 .. Len(s) - m + 1 : SubSeq(s, m, Len(s))[i] = s[m + i - 1]
      <4>1. m \in Int /\ Len(s) \in Int
        BY <2>1, <3>1
      <4> QED
        BY <3>1, <4>1, SubSeqProperties
    <3>3. m <= Len(s)
      BY <3>1
    <3> QED
      BY <2>6, <3>2, <3>3
  <2>8. m \in 1 .. Len(s) /\ Len(s) \in Nat
    BY <2>1, <2>5
  <2>9. PICK n \in 0 .. Len(s) : m = n + 1
    BY <2>8
  <2>10. Len(s) - m + 1 = Len(s) - n /\ \A i \in Int : m + i - 1 = n + i
    BY <2>8, <2>9
  <2>11. Len(d) = Len(s) - n /\ \A i \in 1 .. Len(s) - n : d[i] = s[n + i]
    <3>1. Len(d) = Len(s) - n
      BY <2>7, <2>10
    <3>2. ASSUME NEW i \in 1 .. Len(s) - n
          PROVE  d[i] = s[n + i]
      <4>1. i \in 1 .. Len(s) - m + 1 /\ m + i - 1 = n + i
        BY <2>10
      <4> QED
        BY <2>7, <4>1
    <3> QED
      BY <3>1, <3>2
  <2>12. DOMAIN d = 1 .. Len(s) - n
    BY <2>7, <2>11, LenProperties
  <2>13. \A i \in 1 .. n : i \notin K
    BY <2>5, <2>8, <2>9
  <2> QED
    BY <2>7, <2>11, <2>12, <2>13
<1> QED
  BY <1>1, <1>2

(* A factor that grows makes a product grow. *)
LEMMA Products ==
  \A a, b, c \in Nat : a <= b => a * c <= b * c /\ a * c \in Nat /\ b * c \in Nat
<1> SUFFICES ASSUME NEW a \in Nat, NEW b \in Nat, NEW c \in Nat, a <= b
             PROVE  a * c <= b * c /\ a * c \in Nat /\ b * c \in Nat
  OBVIOUS
<1>1. (b - a) * c \in Nat /\ (b - a) * c = b * c - a * c
  OBVIOUS
<1> QED
  BY <1>1

(* Time passes, and no more is refilled than the rate allows. *)
LEMMA Refills ==
  ASSUME NEW log \in Seq(Nat), NEW price \in Nat, NEW capacity \in Nat, NEW rate \in Nat,
         NEW at \in Nat, NEW tokens \in Nat, Funded(log, price, capacity, rate, at, tokens),
         NEW now \in Nat, at <= now, NEW r \in Nat, r <= rate,
         NEW left \in Nat, left <= tokens + (now - at) * r
  PROVE  Funded(log, price, capacity, rate, now, left)
<1> SUFFICES ASSUME NEW i \in DOMAIN log
             PROVE  /\ log[i] <= now
                    /\ (Len(log) - i + 1) * price + left <= capacity + rate * (now - log[i])
  BY DEF Funded
<1>1. log[i] \in Nat /\ i \in Nat /\ Len(log) \in Nat
  OBVIOUS
<1>2. /\ log[i] <= at
      /\ (Len(log) - i + 1) * price + tokens <= capacity + rate * (at - log[i])
  BY DEF Funded
<1>3. (now - at) * r <= rate * (now - at)
  BY Products
<1>4. rate * (now - log[i]) = rate * (now - at) + rate * (at - log[i])
  BY <1>1
<1> DEFINE x == (Len(log) - i + 1) * price
<1> DEFINE y == rate * (now - at)
<1> DEFINE z == rate * (at - log[i])
<1> DEFINE u == (now - at) * r
<1>5. x \in Int /\ y \in Int /\ z \in Int /\ u \in Int
  BY <1>1
<1> HIDE DEF x, y, z, u
<1>6. x + left <= capacity + (y + z)
  BY <1>2, <1>3, <1>5 DEF x, y, z, u
<1> QED
  BY <1>1, <1>2, <1>4, <1>6 DEF x, y, z

(* Calls that are let through at a time, no later than that of the bucket and *)
(* behind it by late at most, are paid for. *)
LEMMA Spends ==
  ASSUME NEW log \in Seq(Nat), NEW price \in Nat, NEW capacity \in Nat, NEW rate \in Nat,
         NEW at \in Nat, NEW tokens \in Nat, Funded(log, price, capacity, rate, at, tokens),
         tokens <= capacity, NEW late \in Nat,
         PaidFor(log, price, capacity + rate * late, rate),
         NEW n \in Nat, n * price <= tokens,
         NEW time \in Nat, time <= at, at <= time + late,
         NEW log2 \in Seq(Nat), Len(log2) = Len(log) + n,
         \A i \in 1 .. Len(log) : log2[i] = log[i],
         \A i \in Len(log) + 1 .. Len(log) + n : log2[i] = time
  PROVE  /\ Funded(log2, price, capacity, rate, at, tokens - n * price)
         /\ PaidFor(log2, price, capacity + rate * late, rate)
<1>1. Len(log) \in Nat /\ DOMAIN log = 1 .. Len(log) /\ DOMAIN log2 = 1 .. Len(log) + n
  OBVIOUS
<1>2. \A i \in 1 .. Len(log) : log[i] \in Nat
  BY ElementOfSeq
<1>3. ASSUME NEW i \in 1 .. Len(log) + n
      PROVE  /\ log2[i] <= at
             /\ (Len(log) + n - i + 1) * price + (tokens - n * price) <= capacity + rate * (at - log2[i])
  <2>1. CASE i <= Len(log)
    <3>1. log2[i] = log[i] /\ i \in DOMAIN log
      BY <1>1, <2>1
    <3>2. /\ log[i] <= at /\ log[i] \in Nat
          /\ (Len(log) - i + 1) * price + tokens <= capacity + rate * (at - log[i])
      BY <1>2, <2>1, <3>1 DEF Funded
    <3>3. (Len(log) + n - i + 1) * price = (Len(log) - i + 1) * price + n * price
      BY <1>1
    <3> DEFINE x == (Len(log) - i + 1) * price
    <3> DEFINE y == n * price
    <3>4. x \in Int /\ y \in Int
      BY <1>1
    <3> HIDE DEF x, y
    <3>5. x + y + (tokens - y) = x + tokens
      BY <3>4
    <3> QED
      BY <3>1, <3>2, <3>3, <3>5 DEF x, y
  <2>2. CASE i > Len(log)
    <3>1. log2[i] = time /\ at - time \in Nat
      BY <1>1, <2>2
    <3>2. rate * (at - time) \in Nat
      BY <3>1
    <3>3. (Len(log) + n - i + 1) * price <= n * price
      <4>1. Len(log) + n - i + 1 \in Nat /\ Len(log) + n - i + 1 <= n
        BY <1>1, <2>2
      <4> QED
        BY <4>1, Products
    <3> DEFINE x == (Len(log) + n - i + 1) * price
    <3> DEFINE y == n * price
    <3>4. x \in Int /\ y \in Int
      BY <1>1
    <3> HIDE DEF x, y
    <3>5. x + (tokens - y) <= capacity
      BY <3>3, <3>4 DEF x, y
    <3> DEFINE z == rate * (at - time)
    <3>6. z \in Nat
      BY <3>2
    <3> HIDE DEF z
    <3>7. x + (tokens - y) <= capacity + z
      BY <3>4, <3>5, <3>6
    <3> QED
      BY <3>1, <3>7 DEF x, y, z
  <2> QED
    BY <1>1, <2>1, <2>2
<1>4. ASSUME NEW i \in 1 .. Len(log) + n, NEW j \in 1 .. Len(log) + n, i <= j
      PROVE  (j - i + 1) * price <= capacity + rate * late + rate * (log2[j] - log2[i])
  <2>1. CASE j <= Len(log)
    <3>1. i \in DOMAIN log /\ j \in DOMAIN log /\ log2[i] = log[i] /\ log2[j] = log[j]
      <4>1. i \in 1 .. Len(log) /\ j \in 1 .. Len(log)
        <5>1. i \in Nat /\ i >= 1 /\ j \in Nat /\ j >= 1
          BY <1>1
        <5> QED
          BY <1>1, <1>4, <2>1, <5>1
      <4> QED
        BY <1>1, <4>1
    <3> QED
      BY <1>4, <3>1 DEF PaidFor
  <2>2. CASE j > Len(log)
    <3>1. log2[j] = time /\ log2[i] \in Nat
      <4>1. log2[i] \in Nat
        BY <1>1
      <4> QED
        BY <1>1, <2>2, <4>1
    <3>2. (j - i + 1) * price <= (Len(log) + n - i + 1) * price
      <4>1. j - i + 1 \in Nat /\ Len(log) + n - i + 1 \in Nat /\ j - i + 1 <= Len(log) + n - i + 1
        BY <1>1, <1>4
      <4> QED
        BY <4>1, Products
    <3>3. rate * (at - log2[i]) <= rate * late + rate * (time - log2[i])
      <4>1. (at - time) * rate <= late * rate
        BY Products
      <4>2. rate * (at - log2[i]) = (at - time) * rate + rate * (time - log2[i])
        BY <3>1
      <4>3. rate * late = late * rate
        OBVIOUS
      <4> DEFINE a == (at - time) * rate
      <4> DEFINE b == rate * (time - log2[i])
      <4> DEFINE c == late * rate
      <4>4. a \in Int /\ b \in Int /\ c \in Int
        BY <3>1
      <4> HIDE DEF a, b, c
      <4>5. a + b <= c + b
        BY <4>1, <4>4 DEF a, c
      <4> QED
        BY <4>2, <4>3, <4>5 DEF a, b, c
    <3>4. (Len(log) + n - i + 1) * price + (tokens - n * price) <= capacity + rate * (at - log2[i])
      BY <1>3
    <3> DEFINE x == (Len(log) + n - i + 1) * price
    <3> DEFINE y == n * price
    <3> DEFINE z == rate * (at - log2[i])
    <3> DEFINE u == rate * late + rate * (time - log2[i])
    <3> DEFINE v == (j - i + 1) * price
    <3>5. x \in Int /\ y \in Int /\ z \in Int /\ u \in Int /\ v \in Int
      <4>1. {at - log2[i], time - log2[i], j - i + 1, Len(log) + n - i + 1} \subseteq Int
        BY <1>1, <3>1
      <4> HIDE DEF x, y, z, u, v
      <4>2. \A a, b \in Int : a * b \in Int
        OBVIOUS
      <4>3. x \in Int /\ y \in Int /\ v \in Int
        BY <4>1, <4>2 DEF x, y, v
      <4>4. z \in Int /\ rate * late \in Int /\ rate * (time - log2[i]) \in Int
        <5>1. {rate, late, at - log2[i], time - log2[i]} \subseteq Int
          BY <4>1
        <5>2. /\ rate \in Int /\ late \in Int
              /\ at - log2[i] \in Int /\ time - log2[i] \in Int
          BY <5>1, Zenon
        <5> QED
          BY <4>2, <5>2, Zenon DEF z
      <4>5. u \in Int
        BY <4>4 DEF u
      <4> QED
        BY <4>3, <4>4, <4>5
    <3> HIDE DEF x, y, z, u, v
    <3>6. x + (tokens - y) <= capacity + z /\ y <= tokens /\ v <= x /\ z <= u
      BY <3>2, <3>3, <3>4 DEF x, y, z, u, v
    <3>7. v <= capacity + u
      BY <3>5, <3>6
    <3>8. capacity + u = capacity + rate * late + rate * (log2[j] - log2[i])
      BY <3>1 DEF u
    <3> QED
      BY <3>7, <3>8 DEF v
  <2> QED
    BY <1>1, <2>1, <2>2
<1>5. Funded(log2, price, capacity, rate, at, tokens - n * price)
  BY <1>1, <1>3 DEF Funded
<1> QED
  BY <1>1, <1>4, <1>5 DEF PaidFor

(* Calls that are not late. *)
LEMMA SpendsNow ==
  ASSUME NEW log \in Seq(Nat), NEW price \in Nat, NEW capacity \in Nat, NEW rate \in Nat,
         NEW at \in Nat, NEW tokens \in Nat, Funded(log, price, capacity, rate, at, tokens),
         tokens <= capacity, PaidFor(log, price, capacity, rate),
         NEW n \in Nat, n * price <= tokens,
         NEW log2 \in Seq(Nat), Len(log2) = Len(log) + n,
         \A i \in 1 .. Len(log) : log2[i] = log[i],
         \A i \in Len(log) + 1 .. Len(log) + n : log2[i] = at
  PROVE  /\ Funded(log2, price, capacity, rate, at, tokens - n * price)
         /\ PaidFor(log2, price, capacity, rate)
<1>1. capacity + rate * 0 = capacity
  OBVIOUS
<1>2. PaidFor(log, price, capacity + rate * 0, rate)
  BY <1>1
<1>3. at <= at + 0 /\ at <= at /\ 0 \in Nat
  OBVIOUS
<1>4. /\ Funded(log2, price, capacity, rate, at, tokens - n * price)
      /\ PaidFor(log2, price, capacity + rate * 0, rate)
  BY <1>2, <1>3, Spends
<1> QED
  BY <1>1, <1>4

(* The same, for n calls the log has in one piece.                            *)
LoggedAt(log, log2, n, at) ==
  /\ log \in Seq(Nat) /\ log2 \in Seq(Nat) /\ n \in Nat /\ at \in Nat
  /\ Len(log2) = Len(log) + n
  /\ \A i \in 1 .. Len(log) : log2[i] = log[i]
  /\ \A i \in Len(log) + 1 .. Len(log) + n : log2[i] = at

LEMMA SpendsLogged ==
  ASSUME NEW log, NEW log2, NEW n, NEW at, LoggedAt(log, log2, n, at),
         NEW price \in Nat, NEW capacity \in Nat, NEW rate \in Nat, NEW tokens \in Nat,
         Funded(log, price, capacity, rate, at, tokens), tokens <= capacity,
         PaidFor(log, price, capacity, rate), n * price <= tokens
  PROVE  /\ Funded(log2, price, capacity, rate, at, tokens - n * price)
         /\ PaidFor(log2, price, capacity, rate)
<1>1. /\ log \in Seq(Nat) /\ log2 \in Seq(Nat) /\ n \in Nat /\ at \in Nat
      /\ Len(log2) = Len(log) + n
      /\ \A i \in 1 .. Len(log) : log2[i] = log[i]
      /\ \A i \in Len(log) + 1 .. Len(log) + n : log2[i] = at
  BY DEF LoggedAt
<1> QED
  BY <1>1, SpendsNow

LEMMA Fewer ==
  ASSUME NEW S, NEW T, IsFiniteSet(T), S \subseteq T
  PROVE  IsFiniteSet(S) /\ Cardinality(S) <= Cardinality(T) /\ Cardinality(S) \in Nat
         /\ Cardinality(T) \in Nat
BY FS_Subset, FS_CardinalityType

(* The parts of admission.rs's invariant.                                     *)
GateNumbers ==
  /\ v1 \in Nat /\ v2 \in Nat /\ v3 \in Nat /\ v6 \in Nat /\ v5 \in Seq(Nat)
  /\ v2 <= bucket_capacity /\ v3 <= v1 /\ v4 \in -1 .. v1

GatePaid == PaidFor(v5, 1, bucket_capacity, refill_rate)

GateGift == Gate!Monus(bucket_capacity, refill_rate * (bucket_ttl + 1))

GateFunded ==
  IF v4 = -1 THEN Funded(v5, 1, bucket_capacity, refill_rate, v1, bucket_capacity)
  ELSE Funded(v5, 1, bucket_capacity, refill_rate, v3, v2)

GateGathered ==
  v4 # -1 => v4 <= v3 /\ Gate!Least((v3 - v4) * refill_rate, bucket_capacity) <= v2

LEMMA GateParts ==
  /\ Gate!IInv <=> GateNumbers /\ GatePaid /\ v6 <= GateGift /\ GateFunded /\ GateGathered
  /\ (Gate!IInv <=> GateNumbers /\ GatePaid /\ v6 <= GateGift /\ GateFunded /\ GateGathered)'
<1>1. /\ \A l, a, b, c : Gate!PaidFor(l, a, b, c) <=> PaidFor(l, a, b, c)
      /\ \A l, a, b, c, d, e : Gate!Funded(l, a, b, c, d, e) <=> Funded(l, a, b, c, d, e)
  BY DEF Gate!PaidFor, PaidFor, Gate!Funded, Funded
<1>2. Gate!IInv <=> GateNumbers /\ GatePaid /\ v6 <= GateGift /\ GateFunded /\ GateGathered
  BY <1>1 DEF Gate!IInv, Gate!Held, Gate!Gathered, GateNumbers, GatePaid, GateGift, GateFunded,
     GateGathered
<1> QED
  BY <1>2, PTL

LEMMA GateConstants ==
  ASSUME Gate!GateAssumption
  PROVE  bucket_capacity \in Nat /\ refill_rate \in Nat /\ bucket_ttl \in Nat
BY DEF Gate!GateAssumption

(* admission.rs: what a call finds in the bucket can be spent now, and is no  *)
(* less than what was gathered since the last one let through.                *)
LEMMA GateRefills ==
  ASSUME Gate!GateAssumption, GateNumbers, GateFunded, GateGathered
  PROVE  /\ Gate!available \in Nat /\ Gate!available <= bucket_capacity
         /\ Funded(v5, 1, bucket_capacity, refill_rate, v1, Gate!available)
         /\ v4 # -1 => Gate!Least((v1 - v4) * refill_rate, bucket_capacity) <= Gate!available
<1>1. /\ v1 \in Nat /\ v2 \in Nat /\ v3 \in Nat /\ v3 <= v1 /\ v5 \in Seq(Nat) /\ v4 \in Int
      /\ bucket_capacity \in Nat /\ refill_rate \in Nat
  BY GateConstants DEF GateNumbers
<1>2. CASE v4 = -1
  BY <1>1, <1>2 DEF GateFunded, Gate!available
<1>3. CASE v4 # -1
  <2> DEFINE g == (v1 - v3) * refill_rate
  <2> DEFINE t == v2 + g
  <2>1. t \in Nat /\ g \in Nat
    <3>1. v1 - v3 \in Nat
      BY <1>1
    <3> QED
      BY <1>1, <3>1
  <2>2. Gate!available = Gate!Least(t, bucket_capacity)
    BY <1>3 DEF Gate!available
  <2>3. Funded(v5, 1, bucket_capacity, refill_rate, v3, v2)
    BY <1>3 DEF GateFunded
  <2> DEFINE b == (v3 - v4) * refill_rate
  <2> DEFINE w == (v1 - v4) * refill_rate
  <2>4. w = b + g /\ b \in Int /\ w \in Int
    BY <1>1
  <2>5. Gate!Least(b, bucket_capacity) <= v2
    BY <1>3 DEF GateGathered
  <2> HIDE DEF g, b, w
  <2>6. /\ Gate!available \in Nat /\ Gate!available <= t /\ Gate!available <= bucket_capacity
        /\ Gate!Least(w, bucket_capacity) <= Gate!available
    BY <1>1, <2>1, <2>2, <2>4, <2>5 DEF Gate!Least
  <2>7. refill_rate <= refill_rate /\ Gate!available <= v2 + (v1 - v3) * refill_rate
    BY <1>1, <2>6 DEF g
  <2>8. Funded(v5, 1, bucket_capacity, refill_rate, v1, Gate!available)
    BY <1>1, <2>6, <2>3, <2>7, Refills
  <2> QED
    BY <2>6, <2>8 DEF w
<1> QED
  BY <1>2, <1>3

LEMMA GateSubmits ==
  ASSUME Gate!GateAssumption, GateNumbers, GatePaid, v6 <= GateGift, GateFunded, GateGathered,
         NEW p \in Gate!Priorities, NEW l \in Loads, Gate!submit(p, l)
  PROVE  GateNumbers' /\ GatePaid' /\ (v6 <= GateGift)' /\ GateFunded' /\ GateGathered'
<1> DEFINE a == Gate!available
<1>1. /\ a \in Nat /\ a <= bucket_capacity
      /\ Funded(v5, 1, bucket_capacity, refill_rate, v1, a)
      /\ v4 # -1 => Gate!Least((v1 - v4) * refill_rate, bucket_capacity) <= a
      /\ v4 = -1 => a = bucket_capacity
  BY GateRefills DEF Gate!available
<1>2. /\ v1 \in Nat /\ v1' = v1 /\ v3' = v1 /\ v3 <= v1 /\ v5 \in Seq(Nat) /\ v6' = v6 /\ v6 \in Nat
      /\ bucket_capacity \in Nat /\ refill_rate \in Nat
      /\ PaidFor(v5, 1, bucket_capacity, refill_rate) /\ v4 \in -1 .. v1
  BY GateConstants DEF GateNumbers, GatePaid, Gate!submit
<1>3. (v6 <= GateGift)'
  BY <1>2 DEF GateGift
<1>4. \/ a >= 1 /\ v2' = a - 1 /\ v4' = v1 /\ v5' = Append(v5, v1)
      \/ a < 1 /\ v2' = a /\ v5' = v5 /\ v4' = IF v4 = -1 THEN v1 ELSE v4
  BY DEF Gate!submit
<1> HIDE DEF a
<1>5. Gate!Least(0, bucket_capacity) = 0
  BY <1>2 DEF Gate!Least
<1>6. CASE a >= 1 /\ v2' = a - 1 /\ v4' = v1 /\ v5' = Append(v5, v1)
  <2>1. /\ v5' \in Seq(Nat) /\ Len(v5') = Len(v5) + 1 /\ v5'[Len(v5) + 1] = v1
        /\ \A i \in 1 .. Len(v5) : v5'[i] = v5[i]
        /\ Len(v5) \in Nat
    BY <1>2, <1>6, AppendProperties
  <2>2. /\ \A i \in Len(v5) + 1 .. Len(v5) + 1 : v5'[i] = v1
        /\ 1 * 1 <= a /\ 1 \in Nat /\ a \in Nat /\ a - 1 * 1 = a - 1
    BY <1>1, <1>6, <2>1
  <2>3. /\ Funded(v5', 1, bucket_capacity, refill_rate, v1, a - 1)
        /\ PaidFor(v5', 1, bucket_capacity, refill_rate)
    <3>1. /\ Funded(v5', 1, bucket_capacity, refill_rate, v1, a - 1 * 1)
          /\ PaidFor(v5', 1, bucket_capacity, refill_rate)
      <4>1. PICK n : n = 1
        OBVIOUS
      <4>2. LoggedAt(v5, v5', n, v1) /\ n * 1 <= a /\ 1 \in Nat /\ a \in Nat
        BY <1>2, <2>1, <2>2, <4>1 DEF LoggedAt
      <4>3. /\ Funded(v5', 1, bucket_capacity, refill_rate, v1, a - n * 1)
            /\ PaidFor(v5', 1, bucket_capacity, refill_rate)
        BY <1>1, <1>2, <4>2, SpendsLogged
      <4> QED
        BY <4>1, <4>3
    <3> QED
      BY <2>2, <3>1
  <2>4. v4' # -1 /\ v2' \in Nat /\ v2' <= bucket_capacity
    BY <1>1, <1>2, <1>6
  <2>5. GateNumbers'
    BY <1>2, <1>6, <2>1, <2>4 DEF GateNumbers
  <2>6. GateFunded' /\ GatePaid'
    BY <1>2, <1>6, <2>3, <2>4 DEF GateFunded, GatePaid
  <2>7. GateGathered'
    <3>1. v3' = v1 /\ v4' = v1 /\ (v1 - v1) * refill_rate = 0
      BY <1>2, <1>6
    <3> QED
      BY <1>2, <1>5, <2>4, <3>1 DEF GateGathered
  <2> QED
    BY <1>3, <2>5, <2>6, <2>7
<1>7. CASE a < 1 /\ v2' = a /\ v5' = v5 /\ v4' = IF v4 = -1 THEN v1 ELSE v4
  <2>1. v4' # -1 /\ v4' \in -1 .. v1 /\ v4' <= v1
    BY <1>2, <1>7
  <2>2. GateNumbers'
    BY <1>1, <1>2, <1>7, <2>1 DEF GateNumbers
  <2>3. GateFunded' /\ GatePaid'
    BY <1>1, <1>2, <1>7, <2>1 DEF GateFunded, GatePaid
  <2>4. Gate!Least((v1 - v4') * refill_rate, bucket_capacity) <= a
    <3>1. CASE v4 = -1
      <4>1. v4' = v1 /\ (v1 - v1) * refill_rate = 0
        BY <1>2, <1>7, <3>1
      <4> QED
        BY <1>1, <1>5, <4>1
    <3>2. CASE v4 # -1
      BY <1>1, <1>7, <3>2
    <3> QED
      BY <3>1, <3>2
  <2>5. GateGathered'
    BY <1>2, <1>7, <2>1, <2>4 DEF GateGathered
  <2> QED
    BY <1>3, <2>2, <2>3, <2>5
<1> QED
  BY <1>4, <1>6, <1>7

(* A bucket that is dropped has gathered for longer than bucket_ttl.          *)
LEMMA GateEvicts ==
  ASSUME Gate!GateAssumption, GateNumbers, GatePaid, v6 <= GateGift, GateFunded, GateGathered,
         Gate!evict_idle_buckets
  PROVE  GateNumbers' /\ GatePaid' /\ (v6 <= GateGift)' /\ GateFunded' /\ GateGathered'
<1> DEFINE a == Gate!available
<1> DEFINE d == bucket_capacity - a
<1>1. /\ v1' = v1 /\ v4' = -1 /\ v2' = 0 /\ v3' = 0 /\ v4 # -1 /\ v1 - v4 > bucket_ttl
      /\ v6' = IF d > v6 THEN d ELSE v6
      /\ v5' = IF a < bucket_capacity THEN <<>> ELSE v5
  BY DEF Gate!evict_idle_buckets, Gate!is_idle
<1>2. /\ a \in Nat /\ a <= bucket_capacity
      /\ Funded(v5, 1, bucket_capacity, refill_rate, v1, a)
      /\ Gate!Least((v1 - v4) * refill_rate, bucket_capacity) <= a
  BY <1>1, GateRefills
<1>3. /\ v1 \in Nat /\ v4 \in Int /\ v5 \in Seq(Nat) /\ v6 \in Nat
      /\ bucket_capacity \in Nat /\ refill_rate \in Nat /\ bucket_ttl \in Nat
      /\ PaidFor(v5, 1, bucket_capacity, refill_rate) /\ v6 <= GateGift
  BY GateConstants DEF GateNumbers, GatePaid
<1> HIDE DEF a
<1>4. d \in Nat
  BY <1>2, <1>3
<1>5. d <= GateGift
  <2> DEFINE w == (v1 - v4) * refill_rate
  <2> DEFINE u == refill_rate * (bucket_ttl + 1)
  <2>1. u <= w /\ u \in Nat /\ w \in Int
    <3>1. bucket_ttl + 1 \in Nat /\ v1 - v4 \in Nat /\ bucket_ttl + 1 <= v1 - v4
      BY <1>1, <1>3
    <3>2. (bucket_ttl + 1) * refill_rate <= (v1 - v4) * refill_rate
      BY <1>3, <3>1, Products
    <3>3. \A x, y \in Nat : x * y = y * x /\ x * y \in Nat
      OBVIOUS
    <3> QED
      BY <1>3, <3>1, <3>2, <3>3
  <2>2. Gate!Least(w, bucket_capacity) <= a
    BY <1>2
  <2>3. GateGift = Gate!Monus(bucket_capacity, u)
    BY DEF GateGift
  <2> HIDE DEF w, u
  <2> QED
    BY <1>2, <1>3, <2>1, <2>2, <2>3 DEF Gate!Least, Gate!Monus
<1>6. (v6 <= GateGift)' /\ v6' \in Nat
  <2>1. GateGift' = GateGift
    BY DEF GateGift
  <2> HIDE DEF d
  <2> QED
    BY <1>1, <1>3, <1>4, <1>5, <2>1
<1>7. GateGathered'
  BY <1>1 DEF GateGathered
<1>8. CASE a < bucket_capacity
  <2>1. v5' = <<>> /\ <<>> \in Seq(Nat) /\ DOMAIN <<>> = {}
    BY <1>1, <1>8, EmptySeq
  <2>2. GateNumbers'
    BY <1>1, <1>3, <1>6, <2>1 DEF GateNumbers
  <2>3. GateFunded' /\ GatePaid'
    BY <1>1, <2>1 DEF GateFunded, GatePaid, Funded, PaidFor
  <2> QED
    BY <1>6, <1>7, <2>2, <2>3
<1>9. CASE ~(a < bucket_capacity)
  <2>1. v5' = v5 /\ a = bucket_capacity
    BY <1>1, <1>2, <1>3, <1>9
  <2>2. GateNumbers'
    BY <1>1, <1>3, <1>6, <2>1 DEF GateNumbers
  <2>3. GateFunded' /\ GatePaid'
    BY <1>1, <1>2, <1>3, <2>1 DEF GateFunded, GatePaid
  <2> QED
    BY <1>6, <1>7, <2>2, <2>3
<1> QED
  BY <1>8, <1>9

LEMMA GateTicks ==
  ASSUME Gate!GateAssumption, GateNumbers, GatePaid, v6 <= GateGift, GateFunded, GateGathered,
         Gate!Tick
  PROVE  GateNumbers' /\ GatePaid' /\ (v6 <= GateGift)' /\ GateFunded' /\ GateGathered'
<1>1. /\ v1 \in Nat /\ v1' = v1 + 1 /\ v2' = v2 /\ v3' = v3 /\ v4' = v4 /\ v5' = v5 /\ v6' = v6
      /\ v5 \in Seq(Nat) /\ v3 \in Nat /\ v3 <= v1 /\ v4 \in -1 .. v1
      /\ bucket_capacity \in Nat /\ refill_rate \in Nat
  BY GateConstants DEF Gate!Tick, GateNumbers
<1>2. v1' \in Nat /\ v3' <= v1' /\ v4' \in -1 .. v1'
  BY <1>1
<1>3. GateNumbers' /\ GatePaid' /\ (v6 <= GateGift)' /\ GateGathered'
  BY <1>1, <1>2 DEF GateNumbers, GatePaid, GateGift, GateGathered
<1>4. GateFunded'
  <2>1. CASE v4 = -1
    <3>1. Funded(v5, 1, bucket_capacity, refill_rate, v1, bucket_capacity)
      BY <2>1 DEF GateFunded
    <3>2. /\ v1 <= v1' /\ bucket_capacity <= bucket_capacity + (v1' - v1) * refill_rate
          /\ v1' \in Nat /\ 1 \in Nat /\ refill_rate <= refill_rate
      BY <1>1
    <3>3. Funded(v5, 1, bucket_capacity, refill_rate, v1', bucket_capacity)
      BY <1>1, <1>2, <3>1, <3>2, Refills
    <3> QED
      BY <1>1, <2>1, <3>3 DEF GateFunded
  <2>2. CASE v4 # -1
    BY <1>1, <2>2 DEF GateFunded
  <2> QED
    BY <2>1, <2>2
<1> QED
  BY <1>3, <1>4

LEMMA GateStep ==
  ASSUME Gate!GateAssumption, Gate!IInv, Gate!Next
  PROVE  Gate!IInv'
<1>1. GateNumbers /\ GatePaid /\ v6 <= GateGift /\ GateFunded /\ GateGathered
  BY GateParts
<1>2. GateNumbers' /\ GatePaid' /\ (v6 <= GateGift)' /\ GateFunded' /\ GateGathered'
  BY <1>1, GateTicks, GateEvicts, GateSubmits DEF Gate!Next
<1> QED
  BY <1>2, GateParts

LEMMA GateInit ==
  ASSUME Gate!GateAssumption, Gate!Init
  PROVE  Gate!IInv
<1>1. /\ v5 = <<>> /\ v4 = -1 /\ v1 = 0 /\ v2 = 0 /\ v3 = 0 /\ v6 = 0
      /\ bucket_capacity \in Nat /\ refill_rate \in Nat /\ bucket_ttl \in Nat
  BY GateConstants DEF Gate!Init
<1>2. DOMAIN <<>> = {} /\ <<>> \in Seq(Nat)
  BY EmptySeq
<1>3. GateNumbers /\ GateGathered
  BY <1>1, <1>2 DEF GateNumbers, GateGathered
<1>4. GatePaid /\ GateFunded
  BY <1>1, <1>2 DEF GatePaid, GateFunded, PaidFor, Funded
<1>5. v6 <= GateGift
  <2> DEFINE u == refill_rate * (bucket_ttl + 1)
  <2>1. u \in Nat
    BY <1>1
  <2>2. GateGift = Gate!Monus(bucket_capacity, u)
    BY DEF GateGift
  <2> HIDE DEF u
  <2> QED
    BY <1>1, <2>1, <2>2 DEF Gate!Monus
<1> QED
  BY <1>3, <1>4, <1>5, GateParts

(* Calls at one time that cost a token each, or less than what goes. *)
LEMMA SpendsOnes ==
  ASSUME NEW log \in Seq(Nat), NEW capacity \in Nat, NEW rate \in Nat,
         NEW at \in Nat, NEW tokens \in Nat, Funded(log, 1, capacity, rate, at, tokens),
         tokens <= capacity, PaidFor(log, 1, capacity, rate),
         NEW n \in Nat, n <= tokens,
         NEW log2 \in Seq(Nat), Len(log2) = Len(log) + n,
         \A i \in 1 .. Len(log) : log2[i] = log[i],
         \A i \in Len(log) + 1 .. Len(log) + n : log2[i] = at
  PROVE  Funded(log2, 1, capacity, rate, at, tokens - n) /\ PaidFor(log2, 1, capacity, rate)
<1>1. 1 \in Nat /\ n * 1 <= tokens /\ tokens - n * 1 = tokens - n
  OBVIOUS
<1>2. /\ Funded(log2, 1, capacity, rate, at, tokens - n * 1)
      /\ PaidFor(log2, 1, capacity, rate)
  BY <1>1, SpendsNow
<1> QED
  BY <1>1, <1>2

LEMMA TimesAdded ==
  ASSUME NEW log \in Seq(Nat), NEW n \in Nat, NEW at \in Nat,
         NEW log2, log2 = log \o [i \in 1 .. n |-> at]
  PROVE  /\ log2 \in Seq(Nat) /\ Len(log2) = Len(log) + n
         /\ \A i \in 1 .. Len(log) : log2[i] = log[i]
         /\ \A i \in Len(log) + 1 .. Len(log) + n : log2[i] = at
<1> DEFINE sp == [i \in 1 .. n |-> at]
<1>1. sp \in Seq(Nat) /\ Len(sp) = n /\ \A i \in 1 .. n : sp[i] = at
  OBVIOUS
<1> HIDE DEF sp
<1>2. /\ log2 \in Seq(Nat) /\ Len(log2) = Len(log) + n /\ Len(log) \in Nat
      /\ \A i \in 1 .. Len(log) + n : log2[i] = IF i <= Len(log) THEN log[i] ELSE sp[i - Len(log)]
  <2>1. /\ log \o sp \in Seq(Nat) /\ Len(log \o sp) = Len(log) + Len(sp) /\ Len(log) \in Nat
        /\ \A i \in 1 .. Len(log) + Len(sp) :
             (log \o sp)[i] = IF i <= Len(log) THEN log[i] ELSE sp[i - Len(log)]
    BY <1>1, ConcatProperties, LenProperties
  <2>2. log2 = log \o sp
    BY DEF sp
  <2> QED
    BY <1>1, <2>1, <2>2
<1>3. \A i \in 1 .. Len(log) : log2[i] = log[i]
  BY <1>2
<1>4. ASSUME NEW i \in Len(log) + 1 .. Len(log) + n
      PROVE  log2[i] = at
  <2>1. i \in 1 .. Len(log) + n /\ ~(i <= Len(log)) /\ i - Len(log) \in 1 .. n
    BY <1>2
  <2> QED
    BY <1>1, <1>2, <2>1
<1> QED
  BY <1>2, <1>3, <1>4

Log2(log, n, at) == log \o [i \in 1 .. n |-> at]

LEMMA SpendsTimes ==
  ASSUME NEW log \in Seq(Nat), NEW capacity \in Nat, NEW rate \in Nat,
         NEW at \in Nat, NEW tokens \in Nat, Funded(log, 1, capacity, rate, at, tokens),
         tokens <= capacity, PaidFor(log, 1, capacity, rate),
         NEW n \in Nat, NEW left \in Nat, left + n <= tokens
  PROVE  /\ Log2(log, n, at) \in Seq(Nat)
         /\ Funded(Log2(log, n, at), 1, capacity, rate, at, left)
         /\ PaidFor(Log2(log, n, at), 1, capacity, rate)
<1>1. PICK log2 : log2 = Log2(log, n, at)
  OBVIOUS
<1>2. /\ log2 \in Seq(Nat) /\ Len(log2) = Len(log) + n
      /\ \A i \in 1 .. Len(log) : log2[i] = log[i]
      /\ \A i \in Len(log) + 1 .. Len(log) + n : log2[i] = at
  <2>1. log2 = log \o [i \in 1 .. n |-> at]
    BY <1>1 DEF Log2
  <2> QED
    BY <2>1, TimesAdded
<1>3. n <= tokens
  OBVIOUS
<1>4. Funded(log2, 1, capacity, rate, at, tokens - n) /\ PaidFor(log2, 1, capacity, rate)
  BY <1>2, <1>3, SpendsOnes
<1>5. PICK t : t = tokens - n
  OBVIOUS
<1>6. t \in Nat /\ left <= t /\ Funded(log2, 1, capacity, rate, at, t)
  BY <1>3, <1>4, <1>5
<1>7. Funded(log2, 1, capacity, rate, at, left)
  <2>1. /\ at <= at /\ 0 \in Nat /\ 0 <= rate /\ left <= t + (at - at) * 0 /\ 1 \in Nat
    BY <1>6
  <2> QED
    BY <1>2, <1>6, <2>1, Refills
<1> QED
  BY <1>1, <1>2, <1>4, <1>7

ShaperTypes ==
  /\ v1 \in Nat /\ v2 \in Nat /\ v3 \in Nat /\ v3 <= v1 /\ v2 <= shaper_capacity
  /\ v6 \in Seq(Nat) /\ v7 \in Seq(Nat) /\ v4 \in Seq(Requests)
  /\ v5 \in [Requests -> 0 .. MaxWanted]

WantedCapacity == MaxWanted * shaper_capacity
WantedRefill == MaxWanted * shaper_refill

ShaperPaid ==
  /\ PaidFor(v6, 1, shaper_capacity, shaper_refill)
  /\ Funded(v6, 1, shaper_capacity, shaper_refill, v3, v2)

ShaperWanted ==
  /\ PaidFor(v7, 1, WantedCapacity, WantedRefill)
  /\ Funded(v7, 1, WantedCapacity, WantedRefill, v3, MaxWanted * v2)

LEMMA ShaperParts ==
  /\ Shaper!IInv <=> ShaperTypes /\ ShaperPaid /\ ShaperWanted
  /\ (Shaper!IInv <=> ShaperTypes /\ ShaperPaid /\ ShaperWanted)'
<1>1. /\ \A l, a, b, c : Shaper!PaidFor(l, a, b, c) <=> PaidFor(l, a, b, c)
      /\ \A l, a, b, c, d, e : Shaper!Funded(l, a, b, c, d, e) <=> Funded(l, a, b, c, d, e)
  BY DEF Shaper!PaidFor, PaidFor, Shaper!Funded, Funded
<1>2. Shaper!IInv <=> ShaperTypes /\ ShaperPaid /\ ShaperWanted
  BY <1>1 DEF Shaper!IInv, Shaper!Held, ShaperTypes, ShaperPaid, ShaperWanted, WantedCapacity,
     WantedRefill
<1> QED
  BY <1>2, PTL

LEMMA ShaperConstants ==
  ASSUME Shaper!ShaperAssumption
  PROVE  /\ shaper_capacity \in Nat /\ shaper_refill \in Nat /\ MaxWanted \in Nat
         /\ WantedCapacity \in Nat /\ WantedRefill \in Nat
<1>1. shaper_capacity \in Nat /\ shaper_refill \in Nat /\ MaxWanted \in Nat
  BY DEF Shaper!ShaperAssumption
<1>2. \A a, b \in Nat : a * b \in Nat
  OBVIOUS
<1> QED
  BY <1>1, <1>2 DEF WantedCapacity, WantedRefill

(* traffic_shaper.rs: the bucket as a call finds it, and the larger one. *)
LEMMA ShaperRefills ==
  ASSUME Shaper!ShaperAssumption, ShaperTypes, ShaperPaid, ShaperWanted
  PROVE  /\ Shaper!refilled \in Nat /\ Shaper!refilled <= shaper_capacity
         /\ MaxWanted * Shaper!refilled \in Nat /\ MaxWanted * Shaper!refilled <= WantedCapacity
         /\ Funded(v6, 1, shaper_capacity, shaper_refill, v1, Shaper!refilled)
         /\ Funded(v7, 1, WantedCapacity, WantedRefill, v1, MaxWanted * Shaper!refilled)
<1> DEFINE f == Shaper!refilled
<1>1. /\ v1 \in Nat /\ v2 \in Nat /\ v3 \in Nat /\ v3 <= v1 /\ v6 \in Seq(Nat) /\ v7 \in Seq(Nat)
      /\ shaper_capacity \in Nat /\ shaper_refill \in Nat /\ MaxWanted \in Nat
      /\ WantedCapacity \in Nat /\ WantedRefill \in Nat
  BY ShaperConstants DEF ShaperTypes
<1> DEFINE g == (v1 - v3) * shaper_refill
<1> DEFINE t == v2 + g
<1>2. t \in Nat /\ g \in Nat
  <2>1. v1 - v3 \in Nat
    BY <1>1
  <2> QED
    BY <1>1, <2>1
<1>3. f \in Nat /\ f <= t /\ f <= shaper_capacity
  <2>1. f = Shaper!Least(t, shaper_capacity)
    BY DEF Shaper!refilled
  <2> HIDE DEF t, f
  <2> QED
    BY <1>1, <1>2, <2>1 DEF Shaper!Least
<1>4. Funded(v6, 1, shaper_capacity, shaper_refill, v1, f)
  <2>1. Funded(v6, 1, shaper_capacity, shaper_refill, v3, v2) /\ shaper_refill <= shaper_refill
    BY <1>1 DEF ShaperPaid
  <2>2. f <= v2 + (v1 - v3) * shaper_refill
    BY <1>3
  <2> HIDE DEF f
  <2> QED
    BY <1>1, <1>3, <2>1, <2>2, Refills
<1> HIDE DEF f
<1> DEFINE m == MaxWanted * f
<1> DEFINE w == MaxWanted * v2
<1>5. m \in Nat /\ w \in Nat /\ m <= WantedCapacity /\ m <= w + MaxWanted * g
  <2>1. \A a, b \in Nat : a * b \in Nat /\ a * b = b * a
    OBVIOUS
  <2>2. f * MaxWanted <= shaper_capacity * MaxWanted /\ f * MaxWanted <= t * MaxWanted
    BY <1>1, <1>2, <1>3, Products
  <2>3. t * MaxWanted = v2 * MaxWanted + g * MaxWanted
    <3> HIDE DEF g
    <3> QED
      BY <1>1, <1>2
  <2> HIDE DEF g, t
  <2> QED
    BY <1>1, <1>2, <1>3, <2>1, <2>2, <2>3 DEF WantedCapacity
<1>6. m <= w + (v1 - v3) * WantedRefill
  <2>1. PICK e : e = v1 - v3
    OBVIOUS
  <2>2. e \in Int /\ g = e * shaper_refill /\ WantedRefill = MaxWanted * shaper_refill
    BY <1>1, <2>1 DEF WantedRefill
  <2>3. MaxWanted * (e * shaper_refill) = e * (MaxWanted * shaper_refill)
    <3>1. \A a, b, c \in Int : a * (b * c) = b * (a * c)
      OBVIOUS
    <3> QED
      BY <1>1, <2>2, <3>1
  <2> HIDE DEF g
  <2>4. MaxWanted * g = (v1 - v3) * WantedRefill
    BY <2>1, <2>2, <2>3
  <2> QED
    BY <1>5, <2>4
<1>7. Funded(v7, 1, WantedCapacity, WantedRefill, v1, m)
  <2>1. /\ Funded(v7, 1, WantedCapacity, WantedRefill, v3, w)
        /\ WantedRefill <= WantedRefill /\ 1 \in Nat
    BY <1>1 DEF ShaperWanted
  <2> HIDE DEF m, w
  <2> QED
    BY <1>1, <1>5, <1>6, <2>1, Refills
<1> QED
  BY <1>3, <1>4, <1>5, <1>7 DEF f

(* What a call spends of it, and what it lets through for that. *)
LEMMA ShaperSpends ==
  ASSUME Shaper!ShaperAssumption, ShaperTypes, ShaperPaid, ShaperWanted,
         NEW n \in Nat, n <= Shaper!refilled, NEW m \in Nat, m <= MaxWanted * n
  PROVE  /\ Shaper!refilled - n \in 0 .. shaper_capacity
         /\ v6 \o Shaper!Times(n) \in Seq(Nat) /\ v7 \o Shaper!Times(m) \in Seq(Nat)
         /\ PaidFor(v6 \o Shaper!Times(n), 1, shaper_capacity, shaper_refill)
         /\ Funded(v6 \o Shaper!Times(n), 1, shaper_capacity, shaper_refill, v1, Shaper!refilled - n)
         /\ PaidFor(v7 \o Shaper!Times(m), 1, WantedCapacity, WantedRefill)
         /\ Funded(v7 \o Shaper!Times(m), 1, WantedCapacity, WantedRefill, v1,
                   MaxWanted * (Shaper!refilled - n))
<1> DEFINE f == Shaper!refilled
<1> DEFINE d == f - n
<1>1. /\ v1 \in Nat /\ v6 \in Seq(Nat) /\ v7 \in Seq(Nat)
      /\ shaper_capacity \in Nat /\ shaper_refill \in Nat /\ MaxWanted \in Nat
      /\ WantedCapacity \in Nat /\ WantedRefill \in Nat
      /\ PaidFor(v6, 1, shaper_capacity, shaper_refill)
      /\ PaidFor(v7, 1, WantedCapacity, WantedRefill)
  BY ShaperConstants DEF ShaperTypes, ShaperPaid, ShaperWanted
<1>2. /\ f \in Nat /\ f <= shaper_capacity /\ n <= f
      /\ MaxWanted * f \in Nat /\ MaxWanted * f <= WantedCapacity
      /\ Funded(v6, 1, shaper_capacity, shaper_refill, v1, f)
      /\ Funded(v7, 1, WantedCapacity, WantedRefill, v1, MaxWanted * f)
  BY ShaperRefills
<1>3. v6 \o Shaper!Times(n) = Log2(v6, n, v1) /\ v7 \o Shaper!Times(m) = Log2(v7, m, v1)
  BY DEF Shaper!Times, Log2
<1> HIDE DEF f
<1>4. d \in Nat /\ d <= shaper_capacity /\ d + n <= f
  BY <1>1, <1>2
<1>5. MaxWanted * d \in Nat /\ MaxWanted * d + m <= MaxWanted * f
  <2>1. MaxWanted * d \in Nat
    <3> HIDE DEF d
    <3> QED
      BY <1>1, <1>4
  <2>2. MaxWanted * f = MaxWanted * d + MaxWanted * n
    BY <1>1, <1>2
  <2> HIDE DEF d
  <2>3. MaxWanted * n \in Int
    BY <1>1
  <2> QED
    BY <1>1, <2>1, <2>2, <2>3
<1> HIDE DEF d
<1>6. /\ Log2(v6, n, v1) \in Seq(Nat)
      /\ Funded(Log2(v6, n, v1), 1, shaper_capacity, shaper_refill, v1, d)
      /\ PaidFor(Log2(v6, n, v1), 1, shaper_capacity, shaper_refill)
  BY <1>1, <1>2, <1>4, SpendsTimes
<1> DEFINE x == MaxWanted * f
<1> DEFINE y == MaxWanted * d
<1>7. /\ Log2(v7, m, v1) \in Seq(Nat)
      /\ Funded(Log2(v7, m, v1), 1, WantedCapacity, WantedRefill, v1, y)
      /\ PaidFor(Log2(v7, m, v1), 1, WantedCapacity, WantedRefill)
  <2>1. /\ x \in Nat /\ y \in Nat /\ y + m <= x /\ x <= WantedCapacity
        /\ Funded(v7, 1, WantedCapacity, WantedRefill, v1, x)
    BY <1>2, <1>5
  <2> HIDE DEF x, y
  <2> QED
    BY <1>1, <2>1, SpendsTimes
<1>8. d \in 0 .. shaper_capacity
  BY <1>1, <1>4
<1> QED
  BY <1>3, <1>6, <1>7, <1>8 DEF d, f

(* The requests of a sequence ask for no more than MaxWanted each. *)
LEMMA ShaperAsked ==
  ASSUME Shaper!ShaperAssumption, NEW s \in Seq(Requests)
  PROVE  Shaper!Asked(s) \in Nat /\ Shaper!Asked(s) <= MaxWanted * Len(s)
<1> DEFINE E == (1 .. Len(s)) \X (1 .. MaxWanted)
<1> DEFINE A == {e \in E : e[2] <= v5[s[e[1]]]}
<1>1. Len(s) \in Nat /\ MaxWanted \in Nat
  BY LenProperties, ShaperConstants
<1>2. ASSUME NEW k \in Nat
      PROVE  IsFiniteSet(1 .. k) /\ Cardinality(1 .. k) = k
  <2>1. 1 \in Int /\ k \in Int
    OBVIOUS
  <2>2. IsFiniteSet(1 .. k) /\ Cardinality(1 .. k) = IF 1 > k THEN 0 ELSE k - 1 + 1
    BY <2>1, FS_Interval
  <2> QED
    BY <2>2
<1>3. IsFiniteSet(E) /\ Cardinality(E) = Len(s) * MaxWanted
  <2>1. /\ IsFiniteSet(1 .. Len(s)) /\ Cardinality(1 .. Len(s)) = Len(s)
        /\ IsFiniteSet(1 .. MaxWanted) /\ Cardinality(1 .. MaxWanted) = MaxWanted
    BY <1>1, <1>2
  <2>2. IsFiniteSet(E) /\ Cardinality(E) = Cardinality(1 .. Len(s)) * Cardinality(1 .. MaxWanted)
    BY <2>1, FS_Product
  <2> QED
    BY <2>1, <2>2
<1>4. Shaper!Asked(s) = Cardinality(A)
  BY DEF Shaper!Asked, Shaper!Cardinality, Cardinality
<1>5. A \subseteq E
  OBVIOUS
<1> HIDE DEF A, E
<1>6. Cardinality(A) \in Nat /\ Cardinality(A) <= Cardinality(E)
  BY <1>3, <1>5, Fewer
<1>7. Len(s) * MaxWanted = MaxWanted * Len(s)
  BY <1>1
<1> QED
  BY <1>3, <1>4, <1>6, <1>7

LEMMA ShaperAdmits ==
  ASSUME Shaper!ShaperAssumption, Shaper!IInv, NEW r \in Requests, NEW n \in 1 .. MaxWanted,
         Shaper!admit(r, n)
  PROVE  Shaper!IInv'
<1>1. ShaperTypes /\ ShaperPaid /\ ShaperWanted
  BY ShaperParts
<1>2. n \in Nat /\ n # 0 /\ n <= MaxWanted /\ MaxWanted \in Nat /\ shaper_capacity \in Nat
  BY ShaperConstants
<1>3. v5' = [v5 EXCEPT ![r] = n] /\ v3' = v1 /\ v1' = v1
  BY DEF Shaper!admit
<1>4. /\ v1 \in Nat /\ v4 \in Seq(Requests) /\ v5 \in [Requests -> 0 .. MaxWanted]
      /\ v6 \in Seq(Nat) /\ v7 \in Seq(Nat)
  BY <1>1 DEF ShaperTypes
<1>5. v5' \in [Requests -> 0 .. MaxWanted]
  BY <1>2, <1>3, <1>4
<1> DEFINE f == Shaper!refilled
<1>6. /\ f \in Nat /\ f <= shaper_capacity
      /\ Funded(v6, 1, shaper_capacity, shaper_refill, v1, f)
      /\ Funded(v7, 1, WantedCapacity, WantedRefill, v1, MaxWanted * f)
  BY <1>1, ShaperRefills
<1>7. CASE /\ f >= n /\ v2' = f - n /\ v6' = v6 \o Shaper!Times(n)
           /\ v7' = v7 \o Shaper!Times(n) /\ v4' = v4
  <2>1. n <= f /\ n <= MaxWanted * n
    <3>1. 1 * n <= MaxWanted * n
      <4>1. 1 \in Nat /\ 1 <= MaxWanted
        BY <1>2
      <4> QED
        BY <1>2, <4>1, Products
    <3> QED
      BY <1>2, <1>6, <1>7, <3>1
  <2>2. /\ f - n \in 0 .. shaper_capacity
        /\ v6' \in Seq(Nat) /\ v7' \in Seq(Nat)
        /\ PaidFor(v6', 1, shaper_capacity, shaper_refill)
        /\ Funded(v6', 1, shaper_capacity, shaper_refill, v1, f - n)
        /\ PaidFor(v7', 1, WantedCapacity, WantedRefill)
        /\ Funded(v7', 1, WantedCapacity, WantedRefill, v1, MaxWanted * (f - n))
    BY <1>1, <1>2, <1>7, <2>1, ShaperSpends
  <2> HIDE DEF f
  <2>3. ShaperPaid' /\ ShaperWanted'
    BY <1>3, <1>7, <2>2 DEF ShaperPaid, ShaperWanted, WantedCapacity, WantedRefill
  <2>4. ShaperTypes'
    BY <1>2, <1>3, <1>4, <1>5, <1>7, <2>2 DEF ShaperTypes
  <2> QED
    BY <2>3, <2>4, ShaperParts
<1>8. CASE v2' = f /\ v4' \in {v4, Append(v4, r)} /\ v6' = v6 /\ v7' = v7
  <2>1. v4' \in Seq(Requests)
    <3>1. Append(v4, r) \in Seq(Requests)
      BY <1>4, AppendProperties
    <3> QED
      BY <1>4, <1>8, <3>1
  <2> HIDE DEF f
  <2>2. ShaperPaid' /\ ShaperWanted'
    BY <1>1, <1>3, <1>6, <1>8 DEF ShaperPaid, ShaperWanted, WantedCapacity, WantedRefill
  <2>3. ShaperTypes'
    BY <1>3, <1>4, <1>5, <1>6, <1>8, <2>1 DEF ShaperTypes
  <2> QED
    BY <2>2, <2>3, ShaperParts
<1> QED
  BY <1>7, <1>8 DEF Shaper!admit

LEMMA ShaperDrains ==
  ASSUME Shaper!ShaperAssumption, Shaper!IInv, Shaper!drain_queue
  PROVE  Shaper!IInv'
<1>1. ShaperTypes /\ ShaperPaid /\ ShaperWanted
  BY ShaperParts
<1>2. v1 \in Nat /\ v4 \in Seq(Requests) /\ v5 \in [Requests -> 0 .. MaxWanted]
      /\ MaxWanted \in Nat /\ shaper_capacity \in Nat
  BY <1>1, ShaperConstants DEF ShaperTypes
<1> DEFINE n == Shaper!Least(Shaper!refilled, Len(v4))
<1> DEFINE front == SubSeq(v4, 1, n)
<1> DEFINE rest == SubSeq(v4, n + 1, Len(v4))
<1> DEFINE m == Shaper!Asked(front)
<1>3. /\ v3' = v1 /\ v2' = Shaper!refilled - n /\ v4' = rest
      /\ v6' = v6 \o Shaper!Times(n) /\ v7' = v7 \o Shaper!Times(m) /\ v1' = v1 /\ v5' = v5
  BY DEF Shaper!drain_queue
<1>4. n \in 0 .. Len(v4) /\ n <= Shaper!refilled /\ Len(v4) \in Nat /\ n \in Nat
  <2>1. Shaper!refilled \in Nat /\ Len(v4) \in Nat
    BY <1>1, <1>2, ShaperRefills, LenProperties
  <2> QED
    BY <2>1 DEF Shaper!Least
<1> HIDE DEF n
<1>5. front \in Seq(Requests) /\ Len(front) = n
  <2>1. \A i \in 1 .. n : v4[i] \in Requests
    BY <1>2, <1>4
  <2>2. 1 \in Int /\ n \in Int
    BY <1>4
  <2>3. front \in Seq(Requests) /\ Len(front) = IF 1 <= n THEN n - 1 + 1 ELSE 0
    BY <2>1, <2>2, SubSeqProperties
  <2> HIDE DEF front
  <2> QED
    BY <1>4, <2>3
<1>6. rest \in Seq(Requests)
  <2>1. \A i \in n + 1 .. Len(v4) : v4[i] \in Requests
    BY <1>2, <1>4
  <2>2. n + 1 \in Int /\ Len(v4) \in Int
    BY <1>4
  <2> QED
    BY <2>1, <2>2, SubSeqProperties
<1> HIDE DEF front, rest
<1>7. m \in Nat /\ m <= MaxWanted * n
  BY <1>5, ShaperAsked
<1> HIDE DEF m
<1> DEFINE d == Shaper!refilled - n
<1>8. /\ d \in 0 .. shaper_capacity
      /\ v6' \in Seq(Nat) /\ v7' \in Seq(Nat)
      /\ PaidFor(v6', 1, shaper_capacity, shaper_refill)
      /\ Funded(v6', 1, shaper_capacity, shaper_refill, v1, d)
      /\ PaidFor(v7', 1, WantedCapacity, WantedRefill)
      /\ Funded(v7', 1, WantedCapacity, WantedRefill, v1, MaxWanted * d)
  BY <1>1, <1>3, <1>4, <1>7, ShaperSpends
<1>9. v2' = d
  BY <1>3
<1> HIDE DEF d
<1>10. ShaperPaid' /\ ShaperWanted'
  BY <1>3, <1>8, <1>9 DEF ShaperPaid, ShaperWanted, WantedCapacity, WantedRefill
<1>11. ShaperTypes'
  BY <1>2, <1>3, <1>6, <1>8, <1>9 DEF ShaperTypes
<1> QED
  BY <1>10, <1>11, ShaperParts

LEMMA ShaperStep ==
  ASSUME Shaper!ShaperAssumption, Shaper!IInv, Shaper!Next
  PROVE  Shaper!IInv'
<1>1. CASE Shaper!Tick
  <2>1. ShaperTypes /\ ShaperPaid /\ ShaperWanted
    BY ShaperParts
  <2>2. v1' = v1 + 1 /\ UNCHANGED <<v2, v3, v4, v5, v6, v7>>
    BY <1>1 DEF Shaper!Tick
  <2>3. ShaperTypes'
    BY <2>1, <2>2 DEF ShaperTypes
  <2>4. ShaperPaid' /\ ShaperWanted'
    BY <2>1, <2>2 DEF ShaperPaid, ShaperWanted, WantedCapacity, WantedRefill
  <2> QED
    BY <2>3, <2>4, ShaperParts
<1> QED
  BY <1>1, ShaperAdmits, ShaperDrains DEF Shaper!Next

LEMMA ShaperInit ==
  ASSUME Shaper!ShaperAssumption, Shaper!Init
  PROVE  Shaper!IInv
<1>1. /\ v1 = 0 /\ v2 = shaper_capacity /\ v3 = 0 /\ v4 = <<>> /\ v6 = <<>> /\ v7 = <<>>
      /\ v5 = [r \in Requests |-> 0] /\ shaper_capacity \in Nat /\ MaxWanted \in Nat
  BY ShaperConstants DEF Shaper!Init
<1>2. ShaperTypes
  BY <1>1 DEF ShaperTypes
<1>3. <<>> \in Seq(Nat) /\ DOMAIN <<>> = {}
  BY EmptySeq
<1>4. ShaperPaid /\ ShaperWanted
  BY <1>1, <1>3 DEF ShaperPaid, ShaperWanted, PaidFor, Funded
<1> QED
  BY <1>2, <1>4, ShaperParts

LEMMA ShedCounts ==
  /\ \A S : Shed!IsFiniteSet(S) <=> IsFiniteSet(S)
  /\ \A S : Shed!Cardinality(S) = Cardinality(S)
<1>1. \A S : Shed!IsFiniteSet(S) <=> IsFiniteSet(S)
  BY DEF Shed!IsFiniteSet, IsFiniteSet
<1>2. \A S : Shed!Cardinality(S) = Cardinality(S)
  BY DEF Shed!Cardinality, Cardinality
<1> QED
  BY <1>1, <1>2

ShedQueued == Shed!In({"queued", "sub"})
ShedEntering == Shed!In({"enqueue"})

ShedExact ==
  /\ v1 \in [shed_Callers -> {"idle", "enqueue", "queued", "sub"}]
  /\ v2 = Cardinality(ShedQueued)
  /\ v4 = "full" =>
       v2 + Cardinality(ShedEntering) <= shed_capacity + Cardinality(shed_Callers) - 1

LEMMA ShedParts ==
  (Shed!IInv <=> ShedExact) /\ (Shed!IInv <=> ShedExact)'
BY ShedCounts DEF Shed!IInv, Shed!Held, ShedExact, ShedQueued, ShedEntering

(* load_shed.rs: a call of p that counts what it does. *)
LEMMA ShedMoves ==
  ASSUME Shed!ShedAssumption, Shed!IInv, NEW p \in shed_Callers,
         NEW to \in {"idle", "enqueue", "queued", "sub"},
         v1' = [v1 EXCEPT ![p] = to], v2' \in Int, v4' = v4,
         v2' + In(v1[p], {"queued", "sub"}) = v2 + In(to, {"queued", "sub"}),
         IF to = "enqueue" THEN v2' = v2 /\ (v4 = "full" => v2 < shed_capacity)
         ELSE v2' <= v2 + In(v1[p], {"enqueue"})
  PROVE  Shed!IInv'
<1> DEFINE Q == ShedQueued
<1> DEFINE E == ShedEntering
<1> DEFINE N == Cardinality(shed_Callers)
<1>1. /\ v1 \in [shed_Callers -> {"idle", "enqueue", "queued", "sub"}]
      /\ v1' \in [shed_Callers -> {"idle", "enqueue", "queued", "sub"}]
      /\ IsFiniteSet(shed_Callers) /\ shed_capacity \in Nat /\ N \in Nat
      /\ v2 = Cardinality(Q)
      /\ v4 = "full" => v2 + Cardinality(E) <= shed_capacity + N - 1
  BY ShedParts, ShedCounts, FS_CardinalityType DEF Shed!ShedAssumption, ShedExact
<1>2. /\ Q \subseteq shed_Callers /\ E \subseteq shed_Callers /\ E' \subseteq shed_Callers
      /\ Q \ {p} = Q' \ {p} /\ E \ {p} = E' \ {p}
      /\ In(p, Q) = In(v1[p], {"queued", "sub"}) /\ In(p, Q') = In(to, {"queued", "sub"})
      /\ In(p, E) = In(v1[p], {"enqueue"}) /\ In(p, E') = In(to, {"enqueue"})
  BY <1>1 DEF ShedQueued, ShedEntering, Shed!In, In
<1> HIDE DEF Q, E, N
<1>3. IsFiniteSet(Q) /\ IsFiniteSet(E) /\ IsFiniteSet(E')
  BY <1>1, <1>2, FS_Subset
<1>4. v2' = Cardinality(Q')
  BY <1>1, <1>2, <1>3, CountFollows
<1>5. /\ Cardinality(E) \in Nat /\ Cardinality(E') \in Nat
      /\ Cardinality(E') + In(p, E) = Cardinality(E) + In(p, E')
  BY <1>2, <1>3, OneMoves
<1>6. Cardinality(E') <= N
  BY <1>1, <1>2, FS_Subset DEF N
<1>7. v2 \in Nat
  BY <1>1, <1>3, FS_CardinalityType
<1>8. v4 = "full" => v2' + Cardinality(E') <= shed_capacity + N - 1
  <2>1. CASE to = "enqueue"
    BY <1>1, <1>5, <1>6, <1>7, <2>1
  <2>2. CASE to # "enqueue"
    <3>1. In(p, E') = 0 /\ In(p, E) = In(v1[p], {"enqueue"}) /\ In(p, E) \in Nat
      BY <1>2, <2>2 DEF In
    <3> QED
      BY <1>1, <1>5, <1>7, <2>2, <3>1
  <2> QED
    BY <2>1, <2>2
<1> QED
  BY <1>1, <1>4, <1>8, ShedParts DEF ShedExact, Q, E, N

LEMMA ShedStep ==
  ASSUME Shed!ShedAssumption, Shed!IInv, Shed!Next
  PROVE  Shed!IInv'
<1>1. CASE Shed!update_p99_ema
  BY <1>1, ShedParts DEF Shed!update_p99_ema, ShedExact, ShedQueued, ShedEntering, Shed!In
<1>2. CASE \E p \in shed_Callers :
             Shed!should_shed(p) \/ Shed!record_enqueue(p) \/ Shed!Load(p) \/ Shed!Sub(p)
  <2> PICK p \in shed_Callers :
             Shed!should_shed(p) \/ Shed!record_enqueue(p) \/ Shed!Load(p) \/ Shed!Sub(p)
    BY <1>2
  <2>1. /\ v1 \in [shed_Callers -> {"idle", "enqueue", "queued", "sub"}]
        /\ v2 = Cardinality(ShedQueued) /\ shed_capacity \in Nat
    BY ShedParts DEF ShedExact, Shed!ShedAssumption
  <2>2. IsFiniteSet(ShedQueued) /\ v2 \in Nat
    BY <2>1, FS_Subset, FS_CardinalityType, ShedCounts
    DEF Shed!ShedAssumption, ShedQueued, Shed!In
  <2>3. CASE Shed!should_shed(p)
    <3>1. CASE UNCHANGED v1
      BY <2>3, <3>1, ShedParts
      DEF Shed!should_shed, ShedExact, ShedQueued, ShedEntering, Shed!In
    <3>2. CASE Shed!MayPass(p) /\ v1' = [v1 EXCEPT ![p] = "enqueue"]
      <4>1. v1[p] = "idle" /\ v4' = v4 /\ v2' = v2 /\ (v4 = "full" => ~(v2 >= shed_capacity))
        BY <2>3, <3>2 DEF Shed!should_shed, Shed!MayPass, Shed!MayShed
      <4>2. /\ v4 = "full" => v2 < shed_capacity
            /\ v2' + In(v1[p], {"queued", "sub"}) = v2 + In("enqueue", {"queued", "sub"})
        BY <2>1, <2>2, <4>1 DEF In
      <4>3. /\ v2' \in Int /\ v4' = v4 /\ v1' = [v1 EXCEPT ![p] = "enqueue"]
            /\ IF "enqueue" = "enqueue" THEN v2' = v2 /\ (v4 = "full" => v2 < shed_capacity)
               ELSE v2' <= v2 + In(v1[p], {"enqueue"})
        BY <2>2, <3>2, <4>1, <4>2
      <4> QED
        BY <4>2, <4>3, ShedMoves
    <3> QED
      BY <2>3, <3>1, <3>2 DEF Shed!should_shed
  <2>4. CASE Shed!record_enqueue(p)
    <3>1. /\ v1[p] = "enqueue" /\ v1' = [v1 EXCEPT ![p] = "queued"] /\ v2' = v2 + 1 /\ v4' = v4
      BY <2>4 DEF Shed!record_enqueue
    <3>2. /\ v2' + In(v1[p], {"queued", "sub"}) = v2 + In("queued", {"queued", "sub"})
          /\ v2' <= v2 + In(v1[p], {"enqueue"}) /\ v2' \in Int
      BY <2>2, <3>1 DEF In
    <3> QED
      BY <3>1, <3>2, ShedMoves
  <2>5. CASE Shed!Load(p)
    <3>1. /\ v1[p] = "queued" /\ v2' = v2 /\ v4' = v4
          /\ v1' = [v1 EXCEPT ![p] = IF v2 > 0 THEN "sub" ELSE "idle"]
      BY <2>5 DEF Shed!Load
    <3>2. v2 > 0
      <4>1. p \in ShedQueued
        BY <3>1 DEF ShedQueued, Shed!In
      <4>2. v2 # 0
        BY <2>1, <2>2, <4>1, FS_EmptySet
      <4> QED
        BY <2>2, <4>2
    <3>3. /\ v1' = [v1 EXCEPT ![p] = "sub"] /\ v2' \in Int
          /\ v2' + In(v1[p], {"queued", "sub"}) = v2 + In("sub", {"queued", "sub"})
          /\ v2' <= v2 + In(v1[p], {"enqueue"})
      BY <2>2, <3>1, <3>2 DEF In
    <3> QED
      BY <3>1, <3>3, ShedMoves
  <2>6. CASE Shed!Sub(p)
    <3>1. /\ v1[p] = "sub" /\ v1' = [v1 EXCEPT ![p] = "idle"] /\ v2' = v2 - 1 /\ v4' = v4
      BY <2>6 DEF Shed!Sub
    <3>2. /\ v2' + In(v1[p], {"queued", "sub"}) = v2 + In("idle", {"queued", "sub"})
          /\ v2' <= v2 + In(v1[p], {"enqueue"}) /\ v2' \in Int
      BY <2>2, <3>1 DEF In
    <3> QED
      BY <3>1, <3>2, ShedMoves
  <2> QED
    BY <2>3, <2>4, <2>5, <2>6
<1> QED
  BY <1>1, <1>2 DEF Shed!Next

LEMMA ShedInit ==
  ASSUME Shed!ShedAssumption, Shed!Init
  PROVE  Shed!IInv
<1>1. /\ v1 = [p \in shed_Callers |-> "idle"] /\ v2 = 0 /\ shed_capacity \in Nat
      /\ IsFiniteSet(shed_Callers) /\ shed_Callers # {}
  BY ShedCounts DEF Shed!Init, Shed!ShedAssumption
<1>2. ShedQueued = {} /\ ShedEntering = {}
  BY <1>1 DEF ShedQueued, ShedEntering, Shed!In
<1>3. Cardinality({}) = 0 /\ Cardinality(shed_Callers) \in Nat /\ Cardinality(shed_Callers) # 0
  BY <1>1, FS_EmptySet, FS_CardinalityType
<1> QED
  BY <1>1, <1>2, <1>3, ShedParts DEF ShedExact

LEMMA ReservedCounts ==
  /\ \A S : Reserved!IsFiniteSet(S) <=> IsFiniteSet(S)
  /\ \A S : Reserved!Cardinality(S) = Cardinality(S)
<1>1. \A S : Reserved!IsFiniteSet(S) <=> IsFiniteSet(S)
  BY DEF Reserved!IsFiniteSet, IsFiniteSet
<1>2. \A S : Reserved!Cardinality(S) = Cardinality(S)
  BY DEF Reserved!Cardinality, Cardinality
<1> QED
  BY <1>1, <1>2

(* So many marked with the same name. *)
LEMMA Marked ==
  ASSUME NEW x, NEW n \in Nat
  PROVE  IsFiniteSet({x} \X (1 .. n)) /\ Cardinality({x} \X (1 .. n)) = n
<1>1. IsFiniteSet({x}) /\ Cardinality({x}) = 1
  BY FS_Singleton
<1>2. IsFiniteSet(1 .. n) /\ Cardinality(1 .. n) = n
  BY FS_Interval
<1>3. /\ IsFiniteSet({x} \X (1 .. n))
      /\ Cardinality({x} \X (1 .. n)) = Cardinality({x}) * Cardinality(1 .. n)
  BY <1>1, <1>2, FS_Product
<1> QED
  BY <1>1, <1>2, <1>3

(* Two finite sets with nothing in common. *)
LEMMA Joined ==
  ASSUME NEW S, NEW T, IsFiniteSet(S), IsFiniteSet(T), S \cap T = {}
  PROVE  /\ IsFiniteSet(S \cup T) /\ Cardinality(S \cup T) = Cardinality(S) + Cardinality(T)
         /\ Cardinality(S) \in Nat /\ Cardinality(T) \in Nat
<1>1. Cardinality(S \cap T) = 0
  BY FS_EmptySet
<1>2. Cardinality(S) \in Nat /\ Cardinality(T) \in Nat
  BY FS_CardinalityType
<1>3. /\ IsFiniteSet(S \cup T)
      /\ Cardinality(S \cup T) = Cardinality(S) + Cardinality(T) - Cardinality(S \cap T)
  BY FS_Union
<1> QED
  BY <1>1, <1>2, <1>3

ReservedExact ==
  /\ \A i \in DOMAIN v1 : v1[i].fraction \in Nat /\ v1[i].priority \in Reserved!Priorities
  /\ IsFiniteSet(Reserved!Tenths) /\ Cardinality(Reserved!Tenths) <= max_reserved_fraction

LEMMA ReservedParts ==
  (Reserved!IInv <=> ReservedExact) /\ (Reserved!IInv <=> ReservedExact)'
BY ReservedCounts DEF Reserved!IInv, ReservedExact, Reserved!reserved_fraction

(* reservation.rs add: what is added was clamped to what remains. *)
LEMMA ReservedAdds ==
  ASSUME Reserved!ReservationAssumption, Reserved!IInv, NEW id \in reserved_Ids,
         NEW c \in reserved_Callers,
         NEW f \in Fractions, NEW priority \in {1, 3}, Reserved!add(id, c, f, priority)
  PROVE  Reserved!IInv'
<1> DEFINE k == Reserved!clamped(f)
<1> DEFINE T == Reserved!Tenths
<1>1. /\ IsFiniteSet(T) /\ Cardinality(T) <= max_reserved_fraction /\ Cardinality(T) \in Nat
      /\ max_reserved_fraction \in Nat /\ f \in Nat
      /\ Reserved!reserved_fraction = Cardinality(T)
      /\ \A i \in DOMAIN v1 : v1[i].fraction \in Nat /\ v1[i].priority \in Reserved!Priorities
  BY ReservedParts, ReservedCounts, FS_CardinalityType
  DEF ReservedExact, Reserved!ReservationAssumption, Reserved!reserved_fraction
<1>2. k \in Nat /\ Cardinality(T) + k <= max_reserved_fraction
  BY <1>1 DEF Reserved!clamped, Reserved!remaining
<1>3. /\ id \notin DOMAIN v1
      /\ v1' = [i \in DOMAIN v1 \cup {id} |->
                  IF i = id THEN [caller_id |-> c, fraction |-> k, priority |-> priority] ELSE v1[i]]
  BY DEF Reserved!add
<1> HIDE DEF k, T
<1>4. /\ DOMAIN v1' = DOMAIN v1 \cup {id}
      /\ v1'[id].fraction = k /\ v1'[id].priority = priority
      /\ \A i \in DOMAIN v1 : v1'[i] = v1[i]
  BY <1>3
<1>5. T' = T \cup ({id} \X (1 .. k)) /\ T \cap ({id} \X (1 .. k)) = {}
  <2>1. T' = UNION {{i} \X (1 .. v1'[i].fraction) : i \in DOMAIN v1 \cup {id}}
    BY <1>4 DEF T, Reserved!Tenths
  <2>2. T = UNION {{i} \X (1 .. v1[i].fraction) : i \in DOMAIN v1}
    BY DEF T, Reserved!Tenths
  <2>3. ASSUME NEW u
        PROVE  u \in T' <=> u \in T \cup ({id} \X (1 .. k))
    <3>1. u \in T' <=> \E i \in DOMAIN v1 \cup {id} : u \in {i} \X (1 .. v1'[i].fraction)
      BY <2>1
    <3>2. u \in T <=> \E i \in DOMAIN v1 : u \in {i} \X (1 .. v1[i].fraction)
      BY <2>2
    <3> QED
      BY <1>4, <3>1, <3>2
  <2>4. ASSUME NEW u \in T, u \in {id} \X (1 .. k)
        PROVE  FALSE
    <3>1. PICK i \in DOMAIN v1 : u \in {i} \X (1 .. v1[i].fraction)
      BY <2>2
    <3>2. u[1] = i /\ u[1] = id
      BY <2>4, <3>1
    <3> QED
      BY <1>3, <3>2
  <2> QED
    BY <2>3, <2>4
<1>6. IsFiniteSet(T') /\ Cardinality(T') = Cardinality(T) + k
  <2> DEFINE X == {id} \X (1 .. k)
  <2>1. IsFiniteSet(X) /\ Cardinality(X) = k
    BY <1>2, Marked
  <2> HIDE DEF X
  <2>2. T' = T \cup X /\ T \cap X = {}
    BY <1>5 DEF X
  <2> QED
    BY <1>1, <2>1, <2>2, Joined
<1>7. \A i \in DOMAIN v1' : v1'[i].fraction \in Nat /\ v1'[i].priority \in Reserved!Priorities
  BY <1>1, <1>2, <1>4 DEF Reserved!Priorities
<1> QED
  BY <1>2, <1>6, <1>7, ReservedParts DEF ReservedExact, T

LEMMA ReservedRemoves ==
  ASSUME Reserved!ReservationAssumption, Reserved!IInv, NEW id, Reserved!remove(id)
  PROVE  Reserved!IInv'
<1>1. ReservedExact
  BY ReservedParts
<1>2. DOMAIN v1' = DOMAIN v1 \ {id} /\ \A i \in DOMAIN v1' : v1'[i] = v1[i]
  BY DEF Reserved!remove
<1>3. Reserved!Tenths' \subseteq Reserved!Tenths
  BY <1>2 DEF Reserved!Tenths
<1>4. /\ IsFiniteSet(Reserved!Tenths') /\ Cardinality(Reserved!Tenths') <= Cardinality(Reserved!Tenths)
      /\ Cardinality(Reserved!Tenths) \in Nat /\ Cardinality(Reserved!Tenths') \in Nat
  BY <1>1, <1>3, FS_Subset, FS_CardinalityType DEF ReservedExact
<1>5. Cardinality(Reserved!Tenths') <= max_reserved_fraction
  BY <1>1, <1>4 DEF ReservedExact, Reserved!ReservationAssumption
<1> QED
  BY <1>1, <1>2, <1>4, <1>5, ReservedParts DEF ReservedExact

LEMMA ReservedStep ==
  ASSUME Reserved!ReservationAssumption, Reserved!IInv, Reserved!Next
  PROVE  Reserved!IInv'
BY ReservedAdds, ReservedRemoves DEF Reserved!Next

LEMMA ReservedInit ==
  ASSUME Reserved!ReservationAssumption, Reserved!Init
  PROVE  Reserved!IInv
<1>1. DOMAIN v1 = {} /\ Reserved!Tenths = {}
  BY DEF Reserved!Init, Reserved!Tenths
<1> QED
  BY <1>1, FS_EmptySet, ReservedParts DEF ReservedExact, Reserved!ReservationAssumption

(* Who may claim more is admitted where who may claim less is. *)
LEMMA ReservedHolds ==
  ASSUME Reserved!IInv
  PROVE  Reserved!Held
<1>1. Reserved!reserved_fraction <= max_reserved_fraction
  BY DEF Reserved!IInv
<1>2. ASSUME NEW c \in reserved_Callers, NEW p \in Reserved!Priorities, NEW q \in Reserved!Priorities,
             p <= q, Reserved!can_admit(c, p)
      PROVE  Reserved!can_admit(c, q)
  <2>1. /\ p \in Nat /\ q \in Nat /\ p <= q
        /\ \A i \in DOMAIN v1 : v1[i].priority \in Nat
    BY <1>2, ReservedParts DEF Reserved!Priorities, ReservedExact
  <2>2. Reserved!holds_reservation(c, p) => Reserved!holds_reservation(c, q)
    BY <2>1 DEF Reserved!holds_reservation
  <2> QED
    BY <1>2, <2>1, <2>2 DEF Reserved!can_admit
<1> QED
  BY <1>1, <1>2 DEF Reserved!Held

(* A limiter that drops what has expired has kept what is recent. *)
LEMMA RecentSuffix ==
  ASSUME NEW log \in Seq(Nat), NEW s \in Seq(Nat), NEW span \in Nat, NEW t \in Nat,
         Recent(s, log, span, t), NEW t2 \in Nat, t <= t2, NEW n \in 0 .. Len(s),
         NEW d \in Seq(Nat), Len(d) = Len(s) - n,
         \A i \in 1 .. Len(s) - n : d[i] = s[n + i],
         \A i \in 1 .. n : s[i] + span <= t2
  PROVE  Recent(d, log, span, t2)
<1>1. /\ Len(s) \in Nat /\ Len(log) \in Nat /\ DOMAIN s = 1 .. Len(s) /\ DOMAIN d = 1 .. Len(s) - n
      /\ \A i \in 1 .. Len(log) : log[i] \in Nat
  BY LenProperties, ElementOfSeq
<1>2. /\ Len(s) <= Len(log)
      /\ \A i \in 1 .. Len(s) : s[i] = log[Len(log) - Len(s) + i]
      /\ \A i \in 1 .. Len(log) - Len(s) : log[i] + span <= t
  BY <1>1 DEF Recent
<1>3. Len(d) <= Len(log) /\ Len(log) - Len(d) = Len(log) - Len(s) + n
  BY <1>1, <1>2
<1>4. ASSUME NEW i \in 1 .. Len(s) - n
      PROVE  d[i] = log[Len(log) - Len(d) + i]
  <2>1. n + i \in 1 .. Len(s) /\ Len(log) - Len(s) + (n + i) = Len(log) - Len(d) + i
    BY <1>1, <1>2, <1>3
  <2>2. d[i] = s[n + i]
    OBVIOUS
  <2> QED
    BY <1>2, <2>1, <2>2
<1>5. ASSUME NEW i \in 1 .. Len(log) - Len(d)
      PROVE  log[i] + span <= t2
  <2>1. i \in 1 .. Len(log) /\ log[i] \in Nat /\ i \in Nat
    BY <1>1, <1>2, <1>3
  <2>2. CASE i <= Len(log) - Len(s)
    <3>1. log[i] + span <= t
      BY <1>1, <1>2, <2>1, <2>2
    <3> QED
      BY <2>1, <3>1
  <2>3. CASE i > Len(log) - Len(s)
    <3>1. PICK m \in 1 .. n : i = Len(log) - Len(s) + m
      <4>1. i - (Len(log) - Len(s)) \in 1 .. n
        BY <1>1, <1>2, <1>3, <2>1, <2>3
      <4>2. i = Len(log) - Len(s) + (i - (Len(log) - Len(s)))
        BY <1>1, <2>1
      <4> QED
        BY <4>1, <4>2
    <3>2. m \in 1 .. Len(s) /\ s[m] + span <= t2
      BY <1>1
    <3>3. s[m] = log[i]
      BY <1>2, <3>1, <3>2
    <3> QED
      BY <3>2, <3>3
  <2> QED
    BY <1>1, <2>1, <2>2, <2>3
<1> QED
  BY <1>1, <1>3, <1>4, <1>5 DEF Recent

LEMMA RecentDropped ==
  ASSUME NEW log \in Seq(Nat), NEW s \in Seq(Nat), NEW span \in Nat, NEW t \in Nat,
         Recent(s, log, span, t), NEW t2 \in Nat, t <= t2, NEW K, K \subseteq DOMAIN s,
         \A i \in DOMAIN s : i \notin K => s[i] + span <= t2
  PROVE  /\ FromFirst(s, K) \in Seq(Nat) /\ Len(FromFirst(s, K)) <= Len(s)
         /\ Recent(FromFirst(s, K), log, span, t2)
<1> DEFINE d == FromFirst(s, K)
<1>1. \E n \in 0 .. Len(s) :
           /\ d \in Seq(Nat) /\ Len(d) = Len(s) - n
           /\ \A i \in 1 .. Len(s) - n : d[i] = s[n + i]
           /\ \A i \in 1 .. n : i \notin K
  BY FrontDropped
<1> HIDE DEF d
<1>2. PICK n \in 0 .. Len(s) :
        /\ d \in Seq(Nat) /\ Len(d) = Len(s) - n
        /\ \A i \in 1 .. Len(s) - n : d[i] = s[n + i]
        /\ \A i \in 1 .. n : i \notin K
  BY <1>1
<1>3. Len(s) \in Nat /\ DOMAIN s = 1 .. Len(s)
  BY LenProperties
<1>4. \A i \in 1 .. n : i \in DOMAIN s
  BY <1>3
<1>5. \A i \in 1 .. n : s[i] + span <= t2
  BY <1>2, <1>4
<1>6. Len(d) <= Len(s)
  BY <1>2, <1>3
<1>7. Recent(d, log, span, t2)
  BY <1>2, <1>5, RecentSuffix
<1> QED
  BY <1>2, <1>6, <1>7 DEF d

LEMMA RecentAppended ==
  ASSUME NEW log \in Seq(Nat), NEW s \in Seq(Nat), NEW span \in Nat, NEW t \in Nat,
         Recent(s, log, span, t), NEW x \in Nat
  PROVE  Recent(Append(s, x), Append(log, x), span, t)
<1> DEFINE s2 == Append(s, x)
<1> DEFINE log2 == Append(log, x)
<1>1. /\ Len(s) \in Nat /\ Len(log) \in Nat /\ Len(s) <= Len(log) /\ DOMAIN s = 1 .. Len(s)
      /\ \A i \in 1 .. Len(s) : s[i] = log[Len(log) - Len(s) + i]
      /\ \A i \in 1 .. Len(log) - Len(s) : log[i] + span <= t
  BY DEF Recent
<1>2. /\ DOMAIN s2 = 1 .. Len(s) + 1 /\ Len(s2) = Len(s) + 1 /\ Len(log2) = Len(log) + 1
      /\ s2[Len(s) + 1] = x /\ log2[Len(log) + 1] = x
      /\ \A i \in 1 .. Len(s) : s2[i] = s[i]
      /\ \A i \in 1 .. Len(log) : log2[i] = log[i]
  BY AppendProperties, LenProperties
<1> HIDE DEF s2, log2
<1>3. Len(log2) - Len(s2) = Len(log) - Len(s) /\ Len(s2) <= Len(log2)
  BY <1>1, <1>2
<1>4. ASSUME NEW i \in 1 .. Len(s) + 1
      PROVE  s2[i] = log2[Len(log2) - Len(s2) + i]
  <2>1. CASE i = Len(s) + 1
    <3>1. Len(log2) - Len(s2) + i = Len(log) + 1
      BY <1>1, <1>2, <2>1
    <3> QED
      BY <1>2, <2>1, <3>1
  <2>2. CASE i # Len(s) + 1
    <3>1. i \in 1 .. Len(s) /\ Len(log) - Len(s) + i \in 1 .. Len(log)
      BY <1>1, <2>2
    <3>2. Len(log2) - Len(s2) + i = Len(log) - Len(s) + i
      BY <1>3
    <3> QED
      BY <1>1, <1>2, <3>1, <3>2
  <2> QED
    BY <2>1, <2>2
<1>5. ASSUME NEW i \in 1 .. Len(log) - Len(s)
      PROVE  log2[i] + span <= t
  <2>1. i \in 1 .. Len(log)
    BY <1>1
  <2> QED
    BY <1>1, <1>2, <2>1
<1>6. Recent(s2, log2, span, t)
  BY <1>2, <1>3, <1>4, <1>5 DEF Recent
<1> QED
  BY <1>6 DEF s2, log2

(* A set of positions of the end of a sequence. *)
LEMMA EndCounts ==
  ASSUME NEW n \in Nat, NEW k \in Nat, k <= n, NEW S, S \subseteq (n - k) + 1 .. n
  PROVE  IsFiniteSet(S) /\ Cardinality(S) \in Nat /\ Cardinality(S) <= k
<1>1. IsFiniteSet((n - k) + 1 .. n) /\ Cardinality((n - k) + 1 .. n) = k
  BY FS_Interval
<1> QED
  BY <1>1, FS_Subset, FS_CardinalityType

(* One more call where the recent ones leave room for it. *)
LEMMA AtMostAppended ==
  ASSUME NEW log \in Seq(Nat), NEW s \in Seq(Nat), NEW span \in Nat, span > 0, NEW most \in Nat,
         AtMost(log, span, most), NEW t \in Nat,
         Recent(s, Append(log, t), span, t), Len(s) <= most
  PROVE  AtMost(Append(log, t), span, most)
<1> DEFINE log2 == Append(log, t)
<1>1. /\ Len(log) \in Nat /\ DOMAIN log = 1 .. Len(log) /\ DOMAIN log2 = 1 .. Len(log) + 1
      /\ Len(log2) = Len(log) + 1 /\ log2[Len(log) + 1] = t /\ log2 \in Seq(Nat)
      /\ \A i \in 1 .. Len(log) : log2[i] = log[i]
      /\ \A i \in 1 .. Len(log) + 1 : log2[i] \in Nat
  <2>1. /\ log2 \in Seq(Nat) /\ Len(log2) = Len(log) + 1 /\ log2[Len(log) + 1] = t
        /\ \A i \in 1 .. Len(log) : log2[i] = log[i]
    BY AppendProperties
  <2> HIDE DEF log2
  <2>2. \A i \in 1 .. Len(log2) : log2[i] \in Nat
    BY <2>1, ElementOfSeq
  <2>3. Len(log) \in Nat /\ DOMAIN log = 1 .. Len(log) /\ DOMAIN log2 = 1 .. Len(log2)
    BY <2>1, LenProperties
  <2> QED
    BY <2>1, <2>2, <2>3
<1> HIDE DEF log2
<1>2. /\ Len(s) \in Nat /\ Len(s) <= Len(log) + 1
      /\ \A i \in 1 .. Len(log) + 1 - Len(s) : log2[i] + span <= t
  <2>1. Recent(s, log2, span, t)
    BY DEF log2
  <2> QED
    BY <1>1, <2>1 DEF Recent
<1>3. ASSUME NEW i \in 1 .. Len(log) + 1
      PROVE  Within(log2, log2[i], span) <= most
  <2> DEFINE S == {j \in DOMAIN log2 : log2[j] >= log2[i] /\ log2[j] < log2[i] + span}
  <2>1. Within(log2, log2[i], span) = Cardinality(S)
    BY DEF Within
  <2>2. CASE log2[i] + span <= t
    <3>1. i \in 1 .. Len(log) /\ log2[i] = log[i] /\ log[i] \in Nat
      BY <1>1, <2>2
    <3> DEFINE R == {j \in DOMAIN log : log[j] >= log[i] /\ log[j] < log[i] + span}
    <3>2. \A j \in 1 .. Len(log) + 1 : j \in S => j \in 1 .. Len(log)
      BY <1>1, <2>2
    <3>3. S = R
      <4>1. ASSUME NEW j \in 1 .. Len(log)
            PROVE  j \in S <=> j \in R
        <5>1. log2[j] = log[j] /\ j \in DOMAIN log /\ j \in DOMAIN log2 /\ log2[i] = log[i]
          BY <1>1, <3>1
        <5> QED
          BY <5>1, Zenon
      <4>2. S \subseteq 1 .. Len(log) /\ R \subseteq 1 .. Len(log)
        BY <1>1, <3>2
      <4> HIDE DEF S, R
      <4> QED
        BY <4>1, <4>2, Zenon
    <3>4. Cardinality(R) <= most
      BY <1>1, <3>1 DEF AtMost, Within
    <3> HIDE DEF S, R
    <3> QED
      BY <2>1, <3>3, <3>4
  <2>3. CASE ~(log2[i] + span <= t)
    <3>1. S \subseteq ((Len(log) + 1) - Len(s)) + 1 .. Len(log) + 1
      <4>1. ASSUME NEW j \in 1 .. Len(log) + 1, j \in S
            PROVE  j > (Len(log) + 1) - Len(s)
        <5>1. log2[j] + span > t /\ j \in Nat
          BY <1>1, <2>3, <4>1
        <5>2. ~(log2[j] + span <= t)
          BY <1>1, <5>1
        <5>3. j \notin 1 .. Len(log) + 1 - Len(s)
          BY <1>2, <5>2
        <5> QED
          BY <1>1, <1>2, <5>1, <5>3
      <4>2. S \subseteq 1 .. Len(log) + 1
        BY <1>1
      <4> HIDE DEF S
      <4> QED
        BY <1>1, <1>2, <4>1, <4>2
    <3>2. Len(log) + 1 \in Nat
      BY <1>1
    <3> HIDE DEF S
    <3>3. Cardinality(S) \in Nat /\ Cardinality(S) <= Len(s)
      BY <1>2, <3>1, <3>2, EndCounts
    <3> QED
      BY <1>2, <2>1, <3>3
  <2> QED
    BY <2>2, <2>3
<1>4. AtMost(log2, span, most)
  BY <1>1, <1>3 DEF AtMost
<1> QED
  BY <1>4 DEF log2

LEMMA PrefixSame ==
  /\ \A S : Prefix!Cardinality(S) = Cardinality(S)
  /\ \A s, K : Prefix!FromFirst(s, K) = FromFirst(s, K)
  /\ \A l, span, most : Prefix!AtMost(l, span, most) <=> AtMost(l, span, most)
  /\ \A s, l, span, t : Prefix!Recent(s, l, span, t) <=> Recent(s, l, span, t)
<1>1. \A S : Prefix!Cardinality(S) = Cardinality(S)
  BY DEF Prefix!Cardinality, Cardinality
<1>2. \A s, K : Prefix!FromFirst(s, K) = FromFirst(s, K)
  BY DEF Prefix!FromFirst, FromFirst
<1>3. \A l, from, span : Prefix!Within(l, from, span) = Within(l, from, span)
  BY <1>1 DEF Prefix!Within, Within
<1>4. \A l, span, most : Prefix!AtMost(l, span, most) <=> AtMost(l, span, most)
  BY <1>3 DEF Prefix!AtMost, AtMost
<1>5. \A s, l, span, t : Prefix!Recent(s, l, span, t) <=> Recent(s, l, span, t)
  BY DEF Prefix!Recent, Recent
<1> QED
  BY <1>1, <1>2, <1>4, <1>5

PrefixTypes ==
  /\ v1 \in Nat /\ v2 \in Seq(Rules) /\ v4 \in Nat /\ v3 \in Seq(Nat) /\ v6 \in Seq(Nat)
  /\ v5 \in [prefix_Callers -> 0 .. Len(v2)]

PrefixKept == Recent(v3, v6, window_secs + 1, v1)

PrefixBound(l, b) ==
  /\ v4 <= b.burst_allowance
  /\ Len(v3) <= l.requests_per_window + v4
  /\ AtMost(v6, window_secs + 1, l.requests_per_window + b.burst_allowance)

PrefixBounds == \A l, b \in Rules : Prefix!Highest(l, b) => PrefixBound(l, b)

LEMMA PrefixParts ==
  /\ Prefix!IInv <=> PrefixTypes /\ (\A i \in DOMAIN v6 : v6[i] <= v1) /\ PrefixKept /\ PrefixBounds
  /\ (Prefix!IInv <=> PrefixTypes /\ (\A i \in DOMAIN v6 : v6[i] <= v1) /\ PrefixKept /\ PrefixBounds)'
BY PrefixSame DEF Prefix!IInv, PrefixTypes, PrefixKept, PrefixBounds, PrefixBound

(* rate_limiter.rs record_and_check: what is left of the window at its time. *)
LEMMA PrefixDrops ==
  ASSUME Prefix!RulesAssumption, PrefixTypes, PrefixKept
  PROVE  /\ Prefix!unexpired \in Seq(Nat) /\ Len(Prefix!unexpired) <= Len(v3)
         /\ Recent(Prefix!unexpired, v6, window_secs + 1, v1)
<1> DEFINE K == {i \in DOMAIN v3 : v3[i] >= Prefix!Monus(v1, window_secs)}
<1>1. Prefix!unexpired = FromFirst(v3, K)
  BY PrefixSame DEF Prefix!unexpired, Prefix!DropFront
<1>2. /\ v1 \in Nat /\ v3 \in Seq(Nat) /\ v6 \in Seq(Nat) /\ window_secs \in Nat
      /\ window_secs + 1 \in Nat /\ v1 <= v1 /\ Recent(v3, v6, window_secs + 1, v1)
  BY DEF PrefixTypes, Prefix!RulesAssumption, PrefixKept
<1>3. ASSUME NEW i \in DOMAIN v3, i \notin K
      PROVE  v3[i] + (window_secs + 1) <= v1
  <2>1. v3[i] \in Nat /\ ~(v3[i] >= Prefix!Monus(v1, window_secs))
    BY <1>2, <1>3
  <2> QED
    BY <1>2, <2>1 DEF Prefix!Monus
<1>4. K \subseteq DOMAIN v3
  OBVIOUS
<1> HIDE DEF K
<1> QED
  BY <1>1, <1>2, <1>3, <1>4, RecentDropped

LEMMA PrefixRecords ==
  ASSUME Prefix!RulesAssumption, Prefix!IInv, NEW p \in prefix_Callers, Prefix!record_and_check(p)
  PROVE  Prefix!IInv'
<1> DEFINE u == Prefix!unexpired
<1> DEFINE used == Prefix!burst_so_far
<1> DEFINE r == v2[v5[p]]
<1>1. /\ PrefixTypes /\ PrefixKept /\ PrefixBounds /\ \A i \in DOMAIN v6 : v6[i] <= v1
  BY PrefixParts
<1>2. /\ u \in Seq(Nat) /\ Len(u) <= Len(v3) /\ Recent(u, v6, window_secs + 1, v1)
      /\ Len(u) \in Nat /\ Len(v3) \in Nat
  BY <1>1, PrefixDrops DEF PrefixTypes
<1>3. /\ v1 \in Nat /\ v2 \in Seq(Rules) /\ v4 \in Nat /\ v6 \in Seq(Nat) /\ window_secs + 1 \in Nat
      /\ window_secs + 1 > 0 /\ \A l \in Rules : l.requests_per_window \in Nat /\ l.burst_allowance \in Nat
  BY <1>1 DEF PrefixTypes, Prefix!RulesAssumption
<1>4. used \in Nat /\ used <= v4 /\ (u = <<>> => used = 0) /\ (u # <<>> => used = v4)
  BY <1>3 DEF Prefix!burst_so_far
<1>5. r \in Rules
  BY <1>1 DEF PrefixTypes, Prefix!record_and_check
<1>6. v1' = v1 /\ v2' = v2 /\ v5' \in [prefix_Callers -> 0 .. Len(v2)]
  <2>1. v1' = v1 /\ v2' = v2 /\ v5' = [v5 EXCEPT ![p] = 0] /\ Len(v2) \in Nat
    BY <1>3 DEF Prefix!record_and_check
  <2> QED
    BY <1>1, <2>1 DEF PrefixTypes
<1>7. \/ /\ v3' = Append(u, v1) /\ v6' = Append(v6, v1)
         /\ \/ Len(u) < r.requests_per_window /\ v4' = used
            \/ used < r.burst_allowance /\ v4' = used + 1
      \/ v3' = u /\ v6' = v6 /\ v4' = used
  BY DEF Prefix!record_and_check, Prefix!Allow
<1>8. ASSUME NEW l \in Rules, NEW b \in Rules, Prefix!Highest(l, b)
      PROVE  /\ l.requests_per_window \in Nat /\ b.burst_allowance \in Nat
             /\ r.requests_per_window <= l.requests_per_window
             /\ r.burst_allowance <= b.burst_allowance
             /\ used <= b.burst_allowance /\ Len(u) <= l.requests_per_window + used
             /\ AtMost(v6, window_secs + 1, l.requests_per_window + b.burst_allowance)
  <2>1. /\ l.requests_per_window \in Nat /\ b.burst_allowance \in Nat
        /\ r.requests_per_window <= l.requests_per_window
        /\ r.burst_allowance <= b.burst_allowance
    BY <1>3, <1>5, <1>8 DEF Prefix!Highest
  <2>2. PrefixBound(l, b)
    BY <1>1, <1>8 DEF PrefixBounds
  <2> HIDE DEF u, used
  <2>3. used <= b.burst_allowance
    BY <1>3, <1>4, <2>1, <2>2 DEF PrefixBound
  <2>4. CASE u = <<>>
    BY <1>4, <2>1, <2>2, <2>3, <2>4 DEF PrefixBound
  <2>5. CASE u # <<>>
    BY <1>2, <1>4, <2>1, <2>2, <2>3, <2>5 DEF PrefixBound
  <2> QED
    BY <2>4, <2>5
<1> HIDE DEF u, used, r
<1>9. CASE v3' = u /\ v6' = v6 /\ v4' = used
  <2>1. PrefixTypes'
    BY <1>1, <1>2, <1>3, <1>4, <1>6, <1>9 DEF PrefixTypes
  <2>2. PrefixKept'
    BY <1>2, <1>6, <1>9 DEF PrefixKept
  <2>3. \A i \in DOMAIN v6' : v6'[i] <= v1'
    BY <1>1, <1>6, <1>9
  <2>4. PrefixBounds'
    BY <1>8, <1>9 DEF PrefixBounds, PrefixBound, Prefix!Highest
  <2> QED
    BY <2>1, <2>2, <2>3, <2>4, PrefixParts
<1>10. CASE /\ v3' = Append(u, v1) /\ v6' = Append(v6, v1)
            /\ \/ Len(u) < r.requests_per_window /\ v4' = used
               \/ used < r.burst_allowance /\ v4' = used + 1
  <2>1. /\ v3' \in Seq(Nat) /\ v6' \in Seq(Nat) /\ Len(v3') = Len(u) + 1 /\ v4' \in Nat
        /\ Len(v6') = Len(v6) + 1 /\ v6'[Len(v6) + 1] = v1 /\ Len(v6) \in Nat
        /\ DOMAIN v6' = 1 .. Len(v6) + 1 /\ DOMAIN v6 = 1 .. Len(v6)
        /\ \A i \in 1 .. Len(v6) : v6'[i] = v6[i]
    BY <1>2, <1>3, <1>4, <1>10, AppendProperties
  <2>2. Recent(v3', v6', window_secs + 1, v1)
    BY <1>2, <1>3, <1>10, RecentAppended
  <2>3. \A i \in DOMAIN v6' : v6'[i] <= v1'
    <3> SUFFICES ASSUME NEW i \in 1 .. Len(v6) + 1
                 PROVE  v6'[i] <= v1
      BY <1>6, <2>1
    <3>1. CASE i = Len(v6) + 1
      BY <1>3, <2>1, <3>1
    <3>2. CASE i # Len(v6) + 1
      <4>1. i \in 1 .. Len(v6)
        BY <2>1, <3>2
      <4> QED
        BY <1>1, <2>1, <4>1
    <3> QED
      BY <3>1, <3>2
  <2>4. ASSUME NEW l \in Rules, NEW b \in Rules, Prefix!Highest(l, b)
        PROVE  PrefixBound(l, b)'
    <3>1. v4' <= b.burst_allowance /\ Len(v3') <= l.requests_per_window + v4'
      <4>1. CASE Len(u) < r.requests_per_window /\ v4' = used
        <5>1. r.requests_per_window \in Nat
          BY <1>3, <1>5
        <5>2. used <= b.burst_allowance /\ r.requests_per_window <= l.requests_per_window
          BY <1>5, <1>8, <2>4
        <5>3. l.requests_per_window \in Nat /\ Len(u) \in Nat /\ Len(v3') = Len(u) + 1
          BY <1>2, <1>3, <2>1
        <5> QED
          BY <1>4, <4>1, <5>1, <5>2, <5>3
      <4>2. CASE used < r.burst_allowance /\ v4' = used + 1
        <5>1. r.burst_allowance \in Nat /\ r.burst_allowance <= b.burst_allowance
              /\ b.burst_allowance \in Nat /\ l.requests_per_window \in Nat
              /\ Len(u) <= l.requests_per_window + used
          BY <1>3, <1>5, <1>8, <2>4
        <5>2. v4' <= b.burst_allowance
          BY <1>4, <4>2, <5>1
        <5>3. Len(u) + 1 <= l.requests_per_window + (used + 1)
          BY <1>2, <1>4, <5>1
        <5> QED
          BY <2>1, <4>2, <5>2, <5>3
      <4> QED
        BY <1>10, <4>1, <4>2
    <3> DEFINE most == l.requests_per_window + b.burst_allowance
    <3>2. most \in Nat /\ Len(v3') <= most /\ AtMost(v6, window_secs + 1, most)
      BY <1>2, <1>8, <2>1, <2>4, <3>1
    <3> HIDE DEF most
    <3>3. Recent(v3', Append(v6, v1), window_secs + 1, v1)
      BY <1>10, <2>2
    <3>4. AtMost(Append(v6, v1), window_secs + 1, most)
      BY <1>3, <2>1, <3>2, <3>3, AtMostAppended
    <3>5. AtMost(v6', window_secs + 1, most)
      BY <1>10, <3>4
    <3> QED
      BY <3>1, <3>5 DEF PrefixBound, most
  <2>5. PrefixBounds'
    BY <2>4 DEF PrefixBounds, Prefix!Highest
  <2>6. PrefixTypes' /\ PrefixKept'
    BY <1>3, <1>6, <2>1, <2>2 DEF PrefixTypes, PrefixKept
  <2> QED
    BY <2>3, <2>5, <2>6, PrefixParts
<1> QED
  BY <1>7, <1>9, <1>10

LEMMA PrefixStep ==
  ASSUME Prefix!RulesAssumption, Prefix!IInv, Prefix!Next
  PROVE  Prefix!IInv'
<1>1. /\ PrefixTypes /\ PrefixKept /\ PrefixBounds /\ \A i \in DOMAIN v6 : v6[i] <= v1
  BY PrefixParts
<1>2. CASE Prefix!Tick
  <2>1. /\ v1 \in Nat /\ v1' \in Nat /\ v1 <= v1' /\ UNCHANGED <<v2, v3, v4, v5, v6>>
        /\ v3 \in Seq(Nat) /\ v6 \in Seq(Nat) /\ window_secs \in Nat
    BY <1>1, <1>2 DEF Prefix!Tick, PrefixTypes, Prefix!RulesAssumption
  <2>2. \A i \in DOMAIN v6 : v6[i] \in Nat
    BY <2>1
  <2>3. Recent(v3, v6, window_secs + 1, v1')
    <3>1. \A i \in 1 .. Len(v6) - Len(v3) : v6[i] \in Nat
      <4>1. Len(v3) \in Nat /\ Len(v6) \in Nat /\ DOMAIN v6 = 1 .. Len(v6)
        BY <2>1
      <4> QED
        BY <2>2, <4>1
    <3> QED
      BY <1>1, <2>1, <3>1 DEF PrefixKept, Recent
  <2>4. \A i \in DOMAIN v6' : v6'[i] <= v1'
    BY <1>1, <2>1, <2>2
  <2>5. PrefixTypes' /\ PrefixKept' /\ PrefixBounds'
    BY <1>1, <2>1, <2>3 DEF PrefixTypes, PrefixKept, PrefixBounds, PrefixBound, Prefix!Highest
  <2> QED
    BY <2>4, <2>5, PrefixParts
<1>3. CASE Prefix!cleanup_expired_windows
  <2>1. v3 = <<>> /\ v4' = 0 /\ UNCHANGED <<v1, v2, v3, v5, v6>>
    BY <1>3 DEF Prefix!cleanup_expired_windows
  <2>2. PrefixTypes' /\ PrefixKept' /\ \A i \in DOMAIN v6' : v6'[i] <= v1'
    BY <1>1, <2>1 DEF PrefixTypes, PrefixKept
  <2>3. ASSUME NEW l \in Rules, NEW b \in Rules, Prefix!Highest(l, b)
        PROVE  PrefixBound(l, b)'
    <3>1. PrefixBound(l, b) /\ l.requests_per_window \in Nat /\ b.burst_allowance \in Nat
      BY <1>1, <2>3 DEF PrefixBounds, Prefix!RulesAssumption
    <3>2. Len(v3') = 0
      BY <2>1
    <3> QED
      BY <2>1, <3>1, <3>2 DEF PrefixBound
  <2> QED
    BY <2>2, <2>3, PrefixParts DEF PrefixBounds, Prefix!Highest
<1>4. ASSUME NEW r \in Rules, Prefix!add_rule(r)
      PROVE  Prefix!IInv'
  <2>1. v2' = Append(v2, r) /\ UNCHANGED <<v1, v3, v4, v5, v6>>
    BY <1>4 DEF Prefix!add_rule
  <2>2. v2' \in Seq(Rules) /\ Len(v2') = Len(v2) + 1 /\ Len(v2) \in Nat
    BY <1>1, <2>1 DEF PrefixTypes
  <2>3. 0 .. Len(v2) \subseteq 0 .. Len(v2')
    BY <2>2
  <2>4. v5' \in [prefix_Callers -> 0 .. Len(v2')]
    BY <1>1, <2>1, <2>3 DEF PrefixTypes
  <2>5. PrefixTypes' /\ PrefixKept' /\ PrefixBounds' /\ \A i \in DOMAIN v6' : v6'[i] <= v1'
    BY <1>1, <2>1, <2>2, <2>4 DEF PrefixTypes, PrefixKept, PrefixBounds, PrefixBound, Prefix!Highest
  <2> QED
    BY <2>5, PrefixParts
<1>5. ASSUME NEW p \in prefix_Callers, Prefix!Look(p)
      PROVE  Prefix!IInv'
  <2>1. v5' = [v5 EXCEPT ![p] = Len(v2)] /\ UNCHANGED <<v1, v2, v3, v4, v6>>
    BY <1>5 DEF Prefix!Look
  <2>2. Len(v2) \in 0 .. Len(v2)
    BY <1>1 DEF PrefixTypes
  <2>3. v5' \in [prefix_Callers -> 0 .. Len(v2')]
    BY <1>1, <2>1, <2>2 DEF PrefixTypes
  <2>4. PrefixTypes' /\ PrefixKept' /\ PrefixBounds' /\ \A i \in DOMAIN v6' : v6'[i] <= v1'
    BY <1>1, <2>1, <2>3 DEF PrefixTypes, PrefixKept, PrefixBounds, PrefixBound, Prefix!Highest
  <2> QED
    BY <2>4, PrefixParts
<1> QED
  BY <1>2, <1>3, <1>4, <1>5, PrefixRecords DEF Prefix!Next

LEMMA PrefixInit ==
  ASSUME Prefix!RulesAssumption, Prefix!Init
  PROVE  Prefix!IInv
<1>1. /\ v1 = 0 /\ v2 = <<>> /\ v3 = <<>> /\ v4 = 0 /\ v6 = <<>> /\ v5 = [p \in prefix_Callers |-> 0]
      /\ window_secs \in Nat
      /\ \A l \in Rules : l.requests_per_window \in Nat /\ l.burst_allowance \in Nat
  BY DEF Prefix!Init, Prefix!RulesAssumption
<1>2. DOMAIN v6 = {} /\ Len(v6) = 0 /\ Len(v3) = 0 /\ Len(v2) = 0 /\ DOMAIN v3 = {}
  BY <1>1
<1>3. PrefixTypes
  BY <1>1, <1>2 DEF PrefixTypes
<1>4. PrefixKept
  BY <1>1, <1>2 DEF PrefixKept, Recent
<1>5. PrefixBounds
  BY <1>1, <1>2 DEF PrefixBounds, PrefixBound, AtMost
<1> QED
  BY <1>2, <1>3, <1>4, <1>5, PrefixParts

(* One of the rules has the highest limit, and one the highest burst. *)
LEMMA PrefixHolds ==
  ASSUME Prefix!RulesAssumption, Prefix!IInv
  PROVE  Prefix!Held
<1>1. /\ IsFiniteSet(Rules) /\ Rules # {}
      /\ \A l \in Rules : l.requests_per_window \in Nat /\ l.burst_allowance \in Nat
  BY DEF Prefix!RulesAssumption, Prefix!IsFiniteSet, IsFiniteSet
<1> DEFINE f == [r \in Rules |-> r.requests_per_window]
<1> DEFINE g == [r \in Rules |-> r.burst_allowance]
<1>2. f \in [Rules -> Int] /\ g \in [Rules -> Int]
  BY <1>1
<1>3. /\ \E c \in Rules : \A d \in Rules : f[d] <= f[c]
      /\ \E c \in Rules : \A d \in Rules : g[d] <= g[c]
  <2> HIDE DEF f, g
  <2> QED
    BY <1>1, <1>2, SomeHighest
<1>4. PICK l \in Rules : \A d \in Rules : d.requests_per_window <= l.requests_per_window
  BY <1>3
<1>5. PICK b \in Rules : \A d \in Rules : d.burst_allowance <= b.burst_allowance
  BY <1>3
<1>6. Prefix!Highest(l, b)
  BY <1>4, <1>5 DEF Prefix!Highest
<1> QED
  BY <1>6 DEF Prefix!IInv, Prefix!Held

(* A quotient is where its multiples put it. *)
LEMMA QuotientBounds ==
  ASSUME NEW a \in Nat, NEW b \in Nat \ {0}
  PROVE  a \div b \in Nat /\ (a \div b) * b <= a /\ a < (a \div b) * b + b
OBVIOUS

LEMMA QuotientAbove ==
  ASSUME NEW a \in Nat, NEW b \in Nat \ {0}, NEW n \in Nat, n * b <= a
  PROVE  n <= a \div b
<1> DEFINE q == a \div b
<1>1. q \in Nat /\ q * b <= a /\ a < q * b + b
  BY QuotientBounds
<1> HIDE DEF q
<1>2. ASSUME q < n
      PROVE  FALSE
  <2>1. q + 1 <= n /\ q + 1 \in Nat /\ b \in Nat
    BY <1>1, <1>2
  <2>2. (q + 1) * b <= n * b
    BY <2>1, Products
  <2>3. (q + 1) * b = q * b + b
    BY <1>1
  <2> DEFINE x == q * b
  <2> DEFINE y == n * b
  <2>4. x \in Nat /\ y \in Nat
    BY <1>1
  <2> HIDE DEF x, y
  <2>5. x + b <= y /\ y <= a /\ a < x + b
    BY <1>1, <2>2, <2>3 DEF x, y
  <2> QED
    BY <2>4, <2>5
<1> QED
  BY <1>1, <1>2 DEF q

(* A step of waiting is worth one more. *)
LEMMA StepCounts ==
  ASSUME NEW sla \in Nat \ {0}, NEW b \in Nat \ {0}, NEW e \in Nat, NEW f \in Nat,
         e >= f + (sla + b - 1) \div b
  PROVE  (e * b) \div sla >= (f * b) \div sla + 1
<1> DEFINE s == (sla + b - 1) \div b
<1> DEFINE q == (f * b) \div sla
<1>1. sla + b - 1 \in Nat
  OBVIOUS
<1>2. s \in Nat /\ sla + b - 1 < s * b + b
  BY <1>1, QuotientBounds
<1>3. f * b \in Nat /\ e * b \in Nat
  OBVIOUS
<1>4. q \in Nat /\ q * sla <= f * b
  BY <1>3, QuotientBounds
<1>5. e >= f + s
  BY DEF s
<1> HIDE DEF s, q
<1>6. (f + s) * b <= e * b
  <2>1. f + s \in Nat /\ b \in Nat /\ f + s <= e
    BY <1>2, <1>5
  <2> QED
    BY <2>1, Products
<1>7. (f + s) * b = f * b + s * b /\ (q + 1) * sla = q * sla + sla
  BY <1>2, <1>4
<1> DEFINE x == f * b
<1> DEFINE y == s * b
<1> DEFINE z == e * b
<1> DEFINE w == q * sla
<1>8. x \in Nat /\ y \in Nat /\ z \in Nat /\ w \in Nat
  BY <1>2, <1>3, <1>4
<1> HIDE DEF x, y, z, w
<1>9. x + y <= z /\ sla + b - 1 < y + b /\ w <= x
  BY <1>2, <1>4, <1>6, <1>7 DEF x, y, z, w
<1>10. w + sla <= z
  BY <1>8, <1>9
<1>11. (q + 1) * sla <= z
  BY <1>7, <1>10 DEF w
<1>12. q + 1 \in Nat
  BY <1>4
<1>13. q + 1 <= z \div sla
  BY <1>8, <1>11, <1>12, QuotientAbove
<1> QED
  BY <1>13 DEF z, q

(* Within its time a job gains at most the whole boost. *)
LEMMA BoostWithin ==
  ASSUME NEW sla \in Nat \ {0}, NEW b \in Nat \ {0}, NEW e \in Nat, e <= sla
  PROVE  (e * b) \div sla <= b /\ (sla * b) \div sla >= b
<1>1. e * b \in Nat /\ sla * b \in Nat /\ sla \in Nat /\ b \in Nat
  OBVIOUS
<1>2. e * b <= sla * b
  BY <1>1, Products
<1> DEFINE q == (e * b) \div sla
<1>3. q \in Nat /\ q * sla <= e * b
  BY <1>1, QuotientBounds
<1>4. b * sla <= sla * b
  OBVIOUS
<1>5. b <= (sla * b) \div sla
  <2> DEFINE z == sla * b
  <2>1. z \in Nat /\ b * sla <= z
    BY <1>1, <1>4
  <2> HIDE DEF z
  <2>2. b <= z \div sla
    BY <1>1, <2>1, QuotientAbove
  <2> QED
    BY <2>2 DEF z
<1> HIDE DEF q
<1>6. ASSUME q > b
      PROVE  FALSE
  <2>1. b + 1 <= q /\ b + 1 \in Nat
    BY <1>3, <1>6
  <2>2. (b + 1) * sla <= q * sla
    BY <1>1, <1>3, <2>1, Products
  <2>3. (b + 1) * sla = b * sla + sla /\ b * sla = sla * b
    OBVIOUS
  <2> DEFINE x == sla * b
  <2> DEFINE y == q * sla
  <2> DEFINE z == e * b
  <2>4. x \in Nat /\ y \in Nat /\ z \in Nat
    BY <1>1, <1>3
  <2>5. x + sla <= y /\ y <= z /\ z <= x
    BY <1>2, <1>3, <2>2, <2>3
  <2> HIDE DEF x, y, z
  <2> QED
    BY <2>4, <2>5
<1> QED
  BY <1>1, <1>3, <1>5, <1>6 DEF q

LEMMA SlaStep ==
  ASSUME Sla!SlaAssumption, Sla!IInv, [Sla!Next]_(Sla!vars)
  PROVE  Sla!IInv'
<1>1. /\ v1 \in Nat /\ Sla!heap \subseteq sla_Jobs /\ Sla!heap \cap v3 = {}
      /\ \A j \in Sla!heap : v2[j] \in 0 .. v1
  BY DEF Sla!IInv
<1>2. CASE UNCHANGED Sla!vars
  BY <1>1, <1>2 DEF Sla!vars, Sla!IInv, Sla!heap
<1>3. CASE Sla!Tick
  <2>1. v1' = v1 + 1 /\ UNCHANGED <<v2, v3>>
    BY <1>3 DEF Sla!Tick
  <2> QED
    BY <1>1, <2>1 DEF Sla!IInv, Sla!heap
<1>4. ASSUME NEW gone, Sla!Without(gone), v1' = v1
      PROVE  Sla!IInv'
  <2>1. Sla!heap' = Sla!heap \ gone /\ v3' = v3 \cup gone /\ \A j \in Sla!heap' : v2'[j] = v2[j]
    BY <1>4 DEF Sla!Without, Sla!heap
  <2> QED
    BY <1>1, <1>4, <2>1 DEF Sla!IInv
<1>5. CASE Sla!expired
  BY <1>4, <1>5 DEF Sla!expired
<1>6. ASSUME NEW j \in sla_Jobs, Sla!push(j)
      PROVE  Sla!IInv'
  <2>1. /\ Sla!heap' = Sla!heap \cup {j} /\ v3' = v3 /\ v1' = v1 /\ j \notin v3
        /\ \A k \in Sla!heap' : v2'[k] = IF k = j THEN v1 ELSE v2[k]
    BY <1>6 DEF Sla!push, Sla!heap
  <2>2. \A k \in Sla!heap' : v2'[k] \in 0 .. v1
    BY <1>1, <2>1
  <2> QED
    BY <1>1, <2>1, <2>2 DEF Sla!IInv
<1>7. ASSUME NEW j \in sla_Jobs, Sla!pop(j)
      PROVE  Sla!IInv'
  BY <1>4, <1>7 DEF Sla!pop
<1> QED
  BY <1>2, <1>3, <1>5, <1>6, <1>7 DEF Sla!Next

LEMMA SlaInit ==
  ASSUME Sla!Init
  PROVE  Sla!IInv
<1>1. v1 = 0 /\ Sla!heap = {} /\ v3 = {}
  BY DEF Sla!Init, Sla!heap
<1> QED
  BY <1>1 DEF Sla!IInv

(* sla_queue.rs pop: what is owed to the jobs that stay. *)
LEMMA SlaPops ==
  ASSUME Sla!SlaAssumption, Sla!IInv, [Sla!Next]_(Sla!vars)
  PROVE  Sla!DeadlinesFirst
<1> DEFINE stepOf(k) == (sla_ms[sla_class[k]] + boost - 1) \div boost
<1> SUFFICES ASSUME NEW j \in Sla!heap, v3' = v3 \cup {j}, NEW k \in Sla!heap \ {j}
             PROVE  /\ ~(/\ ~Sla!is_expired(j) /\ Sla!elapsed(k) >= sla_ms[sla_class[k]] + stepOf(k)
                         /\ base_priority[sla_class[k]] >= base_priority[sla_class[j]])
                    /\ ~(sla_class[j] = sla_class[k] /\ v2[k] + stepOf(k) <= v2[j])
  BY DEF Sla!DeadlinesFirst
<1>1. /\ v1 \in Nat /\ Sla!heap \cap v3 = {} /\ j \notin v3 /\ j \in sla_Jobs /\ k \in sla_Jobs
      /\ v2[j] \in 0 .. v1 /\ v2[k] \in 0 .. v1
  BY DEF Sla!IInv
<1> DEFINE sj == sla_ms[sla_class[j]]
<1> DEFINE sk == sla_ms[sla_class[k]]
<1> DEFINE bj == base_priority[sla_class[j]]
<1> DEFINE bk == base_priority[sla_class[k]]
<1> DEFINE ej == v1 - v2[j]
<1> DEFINE ek == v1 - v2[k]
<1> DEFINE st == stepOf(k)
<1>2. /\ sj \in Nat \ {0} /\ sk \in Nat \ {0} /\ bj \in Nat /\ bk \in Nat /\ boost \in Nat \ {0}
      /\ ej \in Nat /\ ek \in Nat
  BY <1>1 DEF Sla!SlaAssumption
<1>3. st \in Nat
  <2>1. sk + boost - 1 \in Nat
    BY <1>2
  <2> HIDE DEF sk
  <2>2. (sk + boost - 1) \div boost \in Nat
    BY <1>2, <2>1, QuotientBounds
  <2> QED
    BY <2>2 DEF sk
<1>4. Sla!expired \/ Sla!pop(j)
  <2>1. v3' # v3
    BY <1>1
  <2>2. CASE Sla!expired
    BY <2>2
  <2>3. ASSUME NEW i \in sla_Jobs, Sla!pop(i)
        PROVE  Sla!pop(j)
    <3>1. v3' = v3 \cup {i}
      BY <2>3 DEF Sla!pop, Sla!Without
    <3>2. i = j
      BY <1>1, <3>1
    <3> QED
      BY <2>3, <3>2
  <2> QED
    BY <2>1, <2>2, <2>3 DEF Sla!Next, Sla!vars, Sla!Tick, Sla!push
<1>5. CASE Sla!expired
  <2>1. \A i \in Sla!heap : Sla!is_expired(i) <=> i = j
    BY <1>1, <1>5 DEF Sla!expired, Sla!Without
  <2>2. Sla!is_expired(j) /\ ~Sla!is_expired(k)
    BY <2>1
  <2>3. ej > sj /\ ~(ek > sk)
    BY <2>2 DEF Sla!is_expired, Sla!elapsed
  <2>4. ASSUME sla_class[j] = sla_class[k], v2[k] + st <= v2[j]
        PROVE  FALSE
    <3>1. sj = sk /\ ek >= ej
      BY <1>1, <1>3, <2>4
    <3> HIDE DEF sj, sk, ej, ek, st
    <3> QED
      BY <1>2, <2>3, <3>1
  <2> HIDE DEF sj, sk, ej, ek
  <2> QED
    BY <2>2, <2>4
<1>6. CASE Sla!pop(j)
  <2>1. bk + (ek * boost) \div sk <= bj + (ej * boost) \div sj
    BY <1>6 DEF Sla!pop, Sla!urgent, Sla!effective_priority, Sla!elapsed
  <2>2. /\ (ek * boost) \div sk \in Nat /\ (ej * boost) \div sj \in Nat
        /\ st = (sk + boost - 1) \div boost
        /\ Sla!elapsed(k) = ek /\ (Sla!is_expired(j) <=> ej > sj)
        /\ v2[k] + st <= v2[j] => ek >= ej + st
        /\ sla_class[j] = sla_class[k] => sj = sk /\ bj = bk
    <3>1. ek * boost \in Nat /\ ej * boost \in Nat
      BY <1>2
    <3>2. (ek * boost) \div sk \in Nat /\ (ej * boost) \div sj \in Nat
      <4> HIDE DEF ek, ej, sk, sj
      <4> QED
        BY <1>2, <3>1, QuotientBounds
    <3>3. v2[k] + st <= v2[j] => ek >= ej + st
      <4> HIDE DEF st
      <4> QED
        BY <1>1, <1>3
    <3> QED
      BY <3>2, <3>3 DEF Sla!elapsed, Sla!is_expired
  <2> HIDE DEF sj, sk, bj, bk, ej, ek, st, stepOf
  <2>3. ASSUME ~(ej > sj), ek >= sk + st, bk >= bj
        PROVE  FALSE
    <3>1. ej <= sj /\ sk \in Nat /\ sj <= sj /\ sk <= sk
      BY <1>2, <2>3
    <3>2. (ej * boost) \div sj <= boost
      BY <1>2, <3>1, BoostWithin
    <3>3. (sk * boost) \div sk >= boost
      BY <1>2, <3>1, BoostWithin
    <3>4. (ek * boost) \div sk >= (sk * boost) \div sk + 1
      <4>1. ek >= sk + (sk + boost - 1) \div boost
        BY <2>2, <2>3
      <4> QED
        BY <1>2, <3>1, <4>1, StepCounts
    <3> DEFINE x == (ek * boost) \div sk
    <3> DEFINE y == (ej * boost) \div sj
    <3> DEFINE z == (sk * boost) \div sk
    <3>5. z \in Nat
      <4>1. sk * boost \in Nat
        BY <1>2
      <4> QED
        BY <1>2, <4>1, QuotientBounds
    <3>6. x \in Nat /\ y \in Nat /\ boost \in Nat
      BY <1>2, <2>2
    <3> HIDE DEF x, y, z
    <3>7. y <= boost /\ z >= boost /\ x >= z + 1 /\ bk + x <= bj + y
      BY <2>1, <3>2, <3>3, <3>4 DEF x, y, z
    <3> QED
      BY <1>2, <2>3, <3>5, <3>6, <3>7
  <2>4. ASSUME sj = sk, bj = bk, ek >= ej + st
        PROVE  FALSE
    <3>1. ek >= ej + (sk + boost - 1) \div boost
      BY <2>2, <2>4
    <3>2. (ek * boost) \div sk >= (ej * boost) \div sk + 1
      BY <1>2, <3>1, StepCounts
    <3> DEFINE x == (ek * boost) \div sk
    <3> DEFINE y == (ej * boost) \div sk
    <3>3. x \in Nat /\ y \in Nat
      BY <2>2, <2>4
    <3> HIDE DEF x, y
    <3>4. x >= y + 1 /\ bk + x <= bk + y
      BY <2>1, <2>4, <3>2 DEF x, y
    <3> QED
      BY <1>2, <3>3, <3>4
  <2>5. ~(~Sla!is_expired(j) /\ Sla!elapsed(k) >= sk + st /\ bk >= bj)
    BY <2>2, <2>3
  <2>6. ~(sla_class[j] = sla_class[k] /\ v2[k] + st <= v2[j])
    BY <2>2, <2>4
  <2> QED
    BY <2>5, <2>6 DEF sk, st, bk, bj
<1> QED
  BY <1>4, <1>5, <1>6

(* One call that is not late. *)
LEMMA SpendsOne ==
  ASSUME NEW log \in Seq(Nat), NEW price \in Nat, NEW capacity \in Nat, NEW rate \in Nat,
         NEW at \in Nat, NEW tokens \in Nat, Funded(log, price, capacity, rate, at, tokens),
         tokens <= capacity, PaidFor(log, price, capacity, rate), price <= tokens,
         NEW log2 \in Seq(Nat), Len(log2) = Len(log) + 1,
         \A i \in 1 .. Len(log) : log2[i] = log[i], log2[Len(log) + 1] = at
  PROVE  /\ Funded(log2, price, capacity, rate, at, tokens - price)
         /\ PaidFor(log2, price, capacity, rate)
<1>1. 1 * price = price /\ 1 \in Nat
  OBVIOUS
<1>2. \A i \in Len(log) + 1 .. Len(log) + 1 : log2[i] = at
  <2>1. Len(log) \in Nat
    OBVIOUS
  <2> QED
    BY <2>1
<1>3. 1 * price <= tokens
  BY <1>1
<1>4. /\ Funded(log2, price, capacity, rate, at, tokens - 1 * price)
      /\ PaidFor(log2, price, capacity, rate)
  <2>1. PICK n : n = 1
    OBVIOUS
  <2>2. n * price <= tokens /\ LoggedAt(log, log2, n, at)
    BY <1>2, <1>3, <2>1 DEF LoggedAt
  <2>3. /\ Funded(log2, price, capacity, rate, at, tokens - n * price)
        /\ PaidFor(log2, price, capacity, rate)
    BY <2>2, SpendsLogged
  <2> QED
    BY <2>1, <2>3
<1> QED
  BY <1>1, <1>4

(* The calls of a kind, in the terms of any log of kinds and times. *)
KindCalls(log, k, i, j) == {m \in i .. j : log[m].kind = k}
KindCount(log, k, i, j) == Cardinality(KindCalls(log, k, i, j))

KPaidFor(log, k, r) ==
  \A i, j \in DOMAIN log : i <= j /\ log[i].kind = k /\ log[j].kind = k =>
    KindCount(log, k, i, j) * 5 <= 2 * r + r * (log[j].at - log[i].at)

KFunded(log, k, r, at, tokens) ==
  \A i \in DOMAIN log : log[i].kind = k =>
    /\ log[i].at <= at
    /\ KindCount(log, k, i, Len(log)) * 5 + tokens <= 2 * r + r * (at - log[i].at)

LEMMA KindCountType ==
  ASSUME NEW log, NEW k, NEW i \in Int, NEW j \in Int
  PROVE  IsFiniteSet(KindCalls(log, k, i, j)) /\ KindCount(log, k, i, j) \in Nat
<1>1. IsFiniteSet(i .. j) /\ KindCalls(log, k, i, j) \subseteq i .. j
  BY FS_Interval DEF KindCalls
<1>2. IsFiniteSet(KindCalls(log, k, i, j))
  BY <1>1, FS_Subset
<1> QED
  BY <1>2, FS_CardinalityType DEF KindCount

LEMMA KindCountSame ==
  ASSUME NEW log, NEW log2, NEW k, NEW i \in Int, NEW j \in Int, \A m \in i .. j : log2[m] = log[m]
  PROVE  KindCount(log2, k, i, j) = KindCount(log, k, i, j)
<1>1. KindCalls(log2, k, i, j) = KindCalls(log, k, i, j)
  BY DEF KindCalls
<1> QED
  BY <1>1 DEF KindCount

LEMMA KindCountNext ==
  ASSUME NEW log, NEW log2, NEW k, NEW i \in Int, NEW n \in Int, i <= n + 1,
         \A m \in i .. n : log2[m] = log[m]
  PROVE  /\ n + 1 \in KindCalls(log2, k, i, n + 1) =>
              KindCount(log2, k, i, n + 1) = KindCount(log, k, i, n) + 1
         /\ n + 1 \notin KindCalls(log2, k, i, n + 1) =>
              KindCount(log2, k, i, n + 1) = KindCount(log, k, i, n)
<1>1. i .. n + 1 = (i .. n) \cup {n + 1} /\ n + 1 \notin i .. n
  OBVIOUS
<1> DEFINE S == KindCalls(log, k, i, n)
<1> DEFINE T == KindCalls(log2, k, i, n + 1)
<1>2. IsFiniteSet(S) /\ n + 1 \notin S
  BY <1>1, KindCountType DEF KindCalls
<1>3. CASE n + 1 \in KindCalls(log2, k, i, n + 1)
  <2>1. T = S \cup {n + 1}
    BY <1>1, <1>3 DEF KindCalls
  <2> HIDE DEF S, T
  <2>2. Cardinality(S \cup {n + 1}) = Cardinality(S) + 1
    BY <1>2, FS_AddElement
  <2> QED
    BY <1>3, <2>1, <2>2 DEF S, T, KindCount
<1>4. CASE n + 1 \notin KindCalls(log2, k, i, n + 1)
  <2>1. T = S
    BY <1>1, <1>4 DEF KindCalls
  <2>2. KindCount(log, k, i, n) \in Nat
    BY KindCountType
  <2>3. KindCount(log2, k, i, n + 1) = KindCount(log, k, i, n)
    BY <2>1 DEF KindCount
  <2> QED
    BY <1>4, <2>3
<1> QED
  BY <1>3, <1>4

(* One more call, counted from any earlier one.                               *)
LEMMA KindCountMore ==
  ASSUME NEW log, NEW log2, NEW k, NEW n \in Nat, \A m \in 1 .. n : log2[m] = log[m]
  PROVE  /\ log2[n + 1].kind = k => \A i \in 1 .. n + 1 :
              KindCount(log2, k, i, n + 1) = KindCount(log, k, i, n) + 1
         /\ log2[n + 1].kind # k => \A i \in 1 .. n + 1 :
              KindCount(log2, k, i, n + 1) = KindCount(log, k, i, n)
<1> SUFFICES ASSUME NEW i \in 1 .. n + 1
             PROVE  /\ log2[n + 1].kind = k =>
                         KindCount(log2, k, i, n + 1) = KindCount(log, k, i, n) + 1
                    /\ log2[n + 1].kind # k =>
                         KindCount(log2, k, i, n + 1) = KindCount(log, k, i, n)
  OBVIOUS
<1>1. i \in Int /\ n \in Int /\ i <= n + 1 /\ \A m \in i .. n : log2[m] = log[m]
  OBVIOUS
<1>2. n + 1 \in KindCalls(log2, k, i, n + 1) <=> log2[n + 1].kind = k
  BY DEF KindCalls
<1> QED
  BY <1>1, <1>2, KindCountNext

LEMMA KindRefills ==
  ASSUME NEW K, NEW log \in Seq([kind : K, at : Nat]), NEW k, NEW r \in Nat, NEW at \in Nat,
         NEW tokens \in Nat, KFunded(log, k, r, at, tokens),
         NEW now \in Nat, at <= now, NEW left \in Nat, left <= tokens + (now - at) * r
  PROVE  KFunded(log, k, r, now, left)
<1> SUFFICES ASSUME NEW i \in DOMAIN log, log[i].kind = k
             PROVE  /\ log[i].at <= now
                    /\ KindCount(log, k, i, Len(log)) * 5 + left <= 2 * r + r * (now - log[i].at)
  BY DEF KFunded
<1>1. log[i].at \in Nat /\ i \in Int /\ Len(log) \in Int
  <2>1. log[i] \in [kind : K, at : Nat] /\ i \in 1 .. Len(log) /\ Len(log) \in Nat
    BY ElementOfSeq, LenProperties
  <2> QED
    BY <2>1
<1> DEFINE c == KindCount(log, k, i, Len(log))
<1>2. c \in Nat
  BY <1>1, KindCountType
<1>3. log[i].at <= at /\ c * 5 + tokens <= 2 * r + r * (at - log[i].at)
  BY DEF KFunded
<1> HIDE DEF c
<1> DEFINE p == r * (now - log[i].at)
<1> DEFINE y == (now - at) * r
<1> DEFINE z == r * (at - log[i].at)
<1>4. p = y + z
  BY <1>1
<1>5. y \in Int /\ z \in Int
  BY <1>1
<1> HIDE DEF p, y, z
<1>6. c * 5 + left <= 2 * r + (y + z)
  <2>1. left <= tokens + y
    BY DEF y
  <2>2. c * 5 + tokens <= 2 * r + z
    BY <1>3 DEF z
  <2> QED
    BY <1>2, <1>5, <2>1, <2>2
<1>7. c * 5 + left <= 2 * r + p
  BY <1>4, <1>6
<1>8. log[i].at <= now
  <2>1. log[i].at <= at
    BY <1>3
  <2> QED
    BY <1>1, <2>1
<1> QED
  BY <1>7, <1>8 DEF c, p

LEMMA KindSpends ==
  ASSUME NEW K, NEW log \in Seq([kind : K, at : Nat]), NEW k \in K, NEW r \in Nat, NEW t \in Nat,
         NEW tokens \in Nat, KFunded(log, k, r, t, tokens), KPaidFor(log, k, r),
         5 <= tokens, tokens <= 2 * r,
         NEW log2 \in Seq([kind : K, at : Nat]), Len(log2) = Len(log) + 1,
         \A m \in 1 .. Len(log) : log2[m] = log[m],
         log2[Len(log) + 1] = [kind |-> k, at |-> t]
  PROVE  KFunded(log2, k, r, t, tokens - 5) /\ KPaidFor(log2, k, r)
<1> DEFINE n == Len(log)
<1>1. /\ n \in Nat /\ DOMAIN log = 1 .. n /\ DOMAIN log2 = 1 .. n + 1 /\ Len(log2) = n + 1
      /\ log2[n + 1].kind = k /\ log2[n + 1].at = t /\ \A m \in 1 .. n : log2[m] = log[m]
      /\ \A m \in 1 .. n : log[m].at \in Nat
  <2>1. n \in Nat /\ DOMAIN log = 1 .. n /\ DOMAIN log2 = 1 .. n + 1
    BY LenProperties
  <2>2. \A m \in 1 .. n : log[m] \in [kind : K, at : Nat]
    BY ElementOfSeq
  <2>3. \A m \in 1 .. n : log[m].at \in Nat
    BY <2>2
  <2>4. log2[n + 1].kind = k /\ log2[n + 1].at = t
    OBVIOUS
  <2> QED
    BY <2>1, <2>3, <2>4
<1> HIDE DEF n
<1>2. /\ \A i, j \in 1 .. n : KindCount(log2, k, i, j) = KindCount(log, k, i, j)
      /\ \A i \in 1 .. n + 1 : KindCount(log2, k, i, n + 1) = KindCount(log, k, i, n) + 1
  <2>1. ASSUME NEW i \in 1 .. n, NEW j \in 1 .. n
        PROVE  KindCount(log2, k, i, j) = KindCount(log, k, i, j)
    <3>1. i \in Int /\ j \in Int /\ \A m \in i .. j : log2[m] = log[m]
      BY <1>1
    <3> QED
      BY <3>1, KindCountSame
  <2>2. \A i \in 1 .. n + 1 : KindCount(log2, k, i, n + 1) = KindCount(log, k, i, n) + 1
    BY <1>1, KindCountMore
  <2> QED
    BY <1>1, <2>1, <2>2
<1>3. \A i \in 1 .. n + 1 : KindCount(log, k, i, n) \in Nat
  BY <1>1, KindCountType
<1>4. ASSUME NEW i \in 1 .. n, log[i].kind = k
      PROVE  /\ log[i].at <= t /\ log[i].at \in Nat
             /\ KindCount(log, k, i, n) * 5 + tokens <= 2 * r + r * (t - log[i].at)
  BY <1>1, <1>4 DEF KFunded, n
<1>5. KindCount(log, k, n + 1, n) = 0
  <2>1. KindCalls(log, k, n + 1, n) = {}
    BY <1>1 DEF KindCalls
  <2> QED
    BY <2>1, FS_EmptySet DEF KindCount
<1>6. r * (t - t) = 0
  OBVIOUS
<1>7. ASSUME NEW i \in 1 .. n + 1, log2[i].kind = k
      PROVE  /\ log2[i].at <= t
             /\ KindCount(log2, k, i, n + 1) * 5 + (tokens - 5) <= 2 * r + r * (t - log2[i].at)
  <2>1. CASE i = n + 1
    <3>1. KindCount(log2, k, i, n + 1) = 1 /\ log2[i].at = t
      BY <1>1, <1>2, <1>5, <2>1
    <3>2. r * (t - log2[i].at) = 0
      <4>1. t - log2[i].at = 0
        BY <3>1
      <4> QED
        BY <4>1
    <3> QED
      BY <3>1, <3>2
  <2>2. CASE i # n + 1
    <3>1. i \in 1 .. n
      BY <1>1, <2>2
    <3>2. /\ log[i].at <= t /\ log[i].at \in Nat /\ log2[i] = log[i]
          /\ KindCount(log, k, i, n) * 5 + tokens <= 2 * r + r * (t - log[i].at)
      BY <1>1, <1>4, <1>7, <3>1
    <3> DEFINE c == KindCount(log, k, i, n)
    <3> DEFINE z == r * (t - log[i].at)
    <3>3. c \in Nat /\ z \in Int /\ KindCount(log2, k, i, n + 1) = c + 1
      <4>1. i \in 1 .. n + 1
        OBVIOUS
      <4>2. c \in Nat /\ KindCount(log2, k, i, n + 1) = c + 1
        BY <1>2, <1>3, <4>1
      <4> HIDE DEF c
      <4>3. t - log[i].at \in Int /\ r \in Int
        <5>1. log[i].at \in Int /\ t \in Int /\ r \in Int
          BY <3>2
        <5>2. \A a, b \in Int : a - b \in Int
          OBVIOUS
        <5> QED
          BY <5>1, <5>2, Zenon
      <4>4. \A a, b \in Int : a * b \in Int
        OBVIOUS
      <4>5. z \in Int
        BY <4>3, <4>4
      <4> QED
        BY <4>2, <4>5
    <3> HIDE DEF c, z
    <3>4. (c + 1) * 5 + (tokens - 5) <= 2 * r + z
      BY <3>2, <3>3 DEF c, z
    <3> QED
      BY <3>2, <3>3, <3>4 DEF z
  <2> QED
    BY <2>1, <2>2
<1>8. ASSUME NEW i \in 1 .. n + 1, NEW j \in 1 .. n + 1, i <= j, log2[i].kind = k, log2[j].kind = k
      PROVE  KindCount(log2, k, i, j) * 5 <= 2 * r + r * (log2[j].at - log2[i].at)
  <2>1. CASE j = n + 1
    <3>1. /\ log2[i].at <= t /\ log2[j].at = t
          /\ KindCount(log2, k, i, j) * 5 + (tokens - 5) <= 2 * r + r * (t - log2[i].at)
      BY <1>1, <1>7, <1>8, <2>1
    <3>2. KindCount(log2, k, i, j) \in Nat /\ log2[i].at \in Int
      <4>1. i \in Int /\ j \in Int
        BY <1>1
      <4>2. log2[i] \in [kind : K, at : Nat]
        BY <1>1, ElementOfSeq
      <4> QED
        BY <4>1, <4>2, KindCountType
    <3> DEFINE c == KindCount(log2, k, i, j)
    <3> DEFINE z == r * (t - log2[i].at)
    <3>3. c \in Nat /\ z \in Int
      <4> HIDE DEF c, z
      <4>1. t - log2[i].at \in Int /\ r \in Int
        BY <3>2
      <4>2. \A a, b \in Int : a * b \in Int
        OBVIOUS
      <4> QED
        BY <3>2, <4>1, <4>2 DEF c, z
    <3> HIDE DEF c, z
    <3>4. c * 5 <= 2 * r + z
      <4>1. c * 5 + (tokens - 5) <= 2 * r + z
        BY <3>1 DEF c, z
      <4> QED
        BY <3>3, <4>1
    <3> QED
      BY <3>1, <3>4 DEF c, z
  <2>2. CASE j # n + 1
    <3>1. i \in 1 .. n /\ j \in 1 .. n
      BY <1>1, <1>8, <2>2
    <3>2. log2[i] = log[i] /\ log2[j] = log[j] /\ KindCount(log2, k, i, j) = KindCount(log, k, i, j)
      BY <1>1, <1>2, <3>1
    <3> QED
      BY <1>1, <1>8, <3>1, <3>2 DEF KPaidFor
  <2> QED
    BY <2>1, <2>2
<1> QED
  BY <1>1, <1>7, <1>8 DEF KFunded, KPaidFor

(* A call of kind q has been recorded.                                        *)
Recorded(K, log, log2, q) ==
  /\ log \in Seq([kind : K, at : Nat]) /\ log2 \in Seq([kind : K, at : Nat])
  /\ Len(log2) = Len(log) + 1 /\ \A m \in 1 .. Len(log) : log2[m] = log[m]
  /\ log2[Len(log) + 1].kind = q

(* A call of another kind makes no difference. *)
LEMMA KindStays ==
  ASSUME NEW K, NEW log, NEW log2, NEW q, Recorded(K, log, log2, q),
         NEW k, NEW r, NEW at, NEW tokens, q # k,
         KFunded(log, k, r, at, tokens), KPaidFor(log, k, r)
  PROVE  KFunded(log2, k, r, at, tokens) /\ KPaidFor(log2, k, r)
<1> DEFINE n == Len(log)
<1>1. /\ n \in Nat /\ DOMAIN log = 1 .. n /\ DOMAIN log2 = 1 .. n + 1 /\ Len(log2) = n + 1
      /\ log2[n + 1].kind = q /\ \A m \in 1 .. n : log2[m] = log[m]
  BY LenProperties DEF Recorded
<1>2. /\ \A i, j \in 1 .. n : KindCount(log2, k, i, j) = KindCount(log, k, i, j)
      /\ \A i \in 1 .. n + 1 : KindCount(log2, k, i, n + 1) = KindCount(log, k, i, n)
  <2> HIDE DEF n
  <2>1. ASSUME NEW i \in 1 .. n, NEW j \in 1 .. n
        PROVE  KindCount(log2, k, i, j) = KindCount(log, k, i, j)
    <3>1. i \in Int /\ j \in Int /\ \A m \in i .. j : log2[m] = log[m]
      BY <1>1
    <3> QED
      BY <3>1, KindCountSame
  <2>2. \A i \in 1 .. n + 1 : KindCount(log2, k, i, n + 1) = KindCount(log, k, i, n)
    BY <1>1, KindCountMore
  <2> QED
    BY <1>1, <2>1, <2>2
<1>3. \A i \in 1 .. n : KindCount(log2, k, i, n + 1) = KindCount(log, k, i, n)
  <2>1. ASSUME NEW i \in 1 .. n
        PROVE  KindCount(log2, k, i, n + 1) = KindCount(log, k, i, n)
    <3>1. i \in 1 .. n + 1 /\ i \in Int /\ n \in Int
      BY <1>1
    <3>2. KindCount(log, k, i, n) \in Nat
      BY <3>1, KindCountType
    <3> QED
      BY <1>2, <3>1, <3>2
  <2> QED
    BY <2>1
<1>4. \A i \in 1 .. n + 1 : log2[i].kind = k => i \in 1 .. n
  BY <1>1
<1> HIDE DEF n
<1>5. Len(log) = n
  BY DEF n
<1> QED
  BY <1>1, <1>2, <1>3, <1>4, <1>5 DEF KFunded, KPaidFor

FlowTypes ==
  /\ v1 \in Nat /\ v3 \in Nat /\ v4 \in Nat /\ v4 <= v1 /\ v2 \in Configs
  /\ v7 \in Seq([kind : SUBSET Kinds, at : Nat])
  /\ v5 \in [Kinds -> Nat] /\ v6 \in [Kinds -> Int]

FlowBound(b, r) ==
  /\ v3 <= b.burst * 5
  /\ PaidFor(Flow!times, 5, b.burst * 5, r.global_rps)
  /\ Funded(Flow!times, 5, b.burst * 5, r.global_rps, v4, v3)

FlowBounds == \A b, r \in Configs : Flow!Highest(b, r) => FlowBound(b, r)

FlowKind(k, r) ==
  /\ v6[k] \in -1 .. v1 /\ v5[k] <= 2 * r
  /\ KPaidFor(v7, {k}, r) /\ KFunded(v7, {k}, r, v6[k], v5[k])

FlowKindsHeld ==
  \A k \in Kinds, c \in Configs : Flow!Loosest(c, k) => FlowKind(k, Flow!Limit(c, k))

LEMMA FlowCounts ==
  /\ \A k, i, j : Flow!CountOf(k, i, j) = KindCount(v7, {k}, i, j)
  /\ (\A k, i, j : Flow!CountOf(k, i, j) = KindCount(v7, {k}, i, j))'
<1>1. \A S : Flow!Cardinality(S) = Cardinality(S)
  BY DEF Flow!Cardinality, Cardinality
<1>2. \A k, i, j : Flow!CountOf(k, i, j) = KindCount(v7, {k}, i, j)
  BY <1>1 DEF Flow!CountOf, KindCount, KindCalls
<1>3. (\A k, i, j : Flow!CountOf(k, i, j) = KindCount(v7, {k}, i, j))'
  BY <1>1 DEF Flow!CountOf, KindCount, KindCalls
<1> QED
  BY <1>2, <1>3

LEMMA FlowKindParts ==
  /\ \A k, r : Flow!KindPaidFor(k, r) <=> KPaidFor(v7, {k}, r)
  /\ \A k, r : Flow!KindFunded(k, r) <=> KFunded(v7, {k}, r, v6[k], v5[k])
  /\ (\A k, r : Flow!KindPaidFor(k, r) <=> KPaidFor(v7, {k}, r))'
  /\ (\A k, r : Flow!KindFunded(k, r) <=> KFunded(v7, {k}, r, v6[k], v5[k]))'
BY FlowCounts DEF Flow!KindPaidFor, Flow!KindFunded, KPaidFor, KFunded, Flow!One

LEMMA FlowParts ==
  /\ Flow!IInv <=> FlowTypes /\ FlowBounds /\ FlowKindsHeld
  /\ (Flow!IInv <=> FlowTypes /\ FlowBounds /\ FlowKindsHeld)'
<1>1. \A l, p, c, r : Flow!PaidFor(l, p, c, r) <=> PaidFor(l, p, c, r)
  BY DEF Flow!PaidFor, PaidFor
<1>2. \A l, p, c, r, a, t : Flow!Funded(l, p, c, r, a, t) <=> Funded(l, p, c, r, a, t)
  BY DEF Flow!Funded, Funded
<1> QED
  BY <1>1, <1>2, FlowKindParts
  DEF Flow!IInv, FlowTypes, FlowBounds, FlowBound, FlowKindsHeld, FlowKind, Flow!One, Flow!NoBucket

LEMMA FlowTimes ==
  ASSUME FlowTypes
  PROVE  Flow!times \in Seq(Nat) /\ Len(Flow!times) = Len(v7)
<1>1. v7 \in Seq([kind : SUBSET Kinds, at : Nat])
  BY DEF FlowTypes
<1>2. Len(v7) \in Nat /\ DOMAIN v7 = 1 .. Len(v7) /\ \A i \in 1 .. Len(v7) : v7[i].at \in Nat
  <2>1. \A i \in 1 .. Len(v7) : v7[i] \in [kind : SUBSET Kinds, at : Nat]
    BY <1>1, ElementOfSeq
  <2> QED
    BY <1>1, <2>1, LenProperties
<1>3. Flow!times \in [1 .. Len(v7) -> Nat]
  BY <1>2 DEF Flow!times
<1> QED
  BY <1>2, <1>3

(* flow_control.rs: the global bucket as a call finds it. *)
LEMMA FlowRefills ==
  ASSUME Flow!FlowAssumption, FlowTypes, FlowBounds
  PROVE  /\ Flow!refill_global \in Nat
         /\ \A b, r \in Configs : Flow!Highest(b, r) =>
              /\ Flow!refill_global <= b.burst * 5
              /\ Funded(Flow!times, 5, b.burst * 5, r.global_rps, v1, Flow!refill_global)
<1> DEFINE T == Flow!refill_global
<1> DEFINE g == v2.global_rps
<1> DEFINE u == v3 + (v1 - v4) * g
<1>1. /\ v1 \in Nat /\ v3 \in Nat /\ v4 \in Nat /\ v4 <= v1 /\ g \in Nat /\ v2.burst \in Nat
      /\ v2 \in Configs
  BY DEF FlowTypes, Flow!FlowAssumption
<1>2. u \in Nat
  <2>1. v1 - v4 \in Nat
    BY <1>1
  <2> QED
    BY <1>1, <2>1
<1>3. T = Flow!Least(u, v2.burst * 5)
  BY DEF Flow!refill_global, Flow!One
<1>4. T \in Nat /\ T <= u /\ T <= v2.burst * 5
  <2> HIDE DEF u, T
  <2> QED
    BY <1>1, <1>2, <1>3 DEF Flow!Least
<1>5. ASSUME NEW b \in Configs, NEW r \in Configs, Flow!Highest(b, r)
      PROVE  /\ T <= b.burst * 5
             /\ Funded(Flow!times, 5, b.burst * 5, r.global_rps, v1, T)
  <2>1. /\ v2.burst <= b.burst /\ g <= r.global_rps
        /\ b.burst \in Nat /\ r.global_rps \in Nat
    BY <1>1, <1>5 DEF Flow!Highest, Flow!FlowAssumption
  <2>2. T <= b.burst * 5
    <3> HIDE DEF T
    <3> QED
      BY <1>1, <1>4, <2>1
  <2>3. Funded(Flow!times, 5, b.burst * 5, r.global_rps, v4, v3)
    BY <1>5 DEF FlowBounds, FlowBound
  <2>4. Flow!times \in Seq(Nat) /\ 5 \in Nat /\ b.burst * 5 \in Nat
    BY <2>1, FlowTimes
  <2> HIDE DEF T, g
  <2>5. T <= v3 + (v1 - v4) * g
    BY <1>4
  <2>6. Funded(Flow!times, 5, b.burst * 5, r.global_rps, v1, T)
    BY <1>1, <1>4, <2>1, <2>3, <2>4, <2>5, Refills
  <2> QED
    BY <2>2, <2>6
<1> QED
  BY <1>4, <1>5

LEMMA FlowAppends ==
  ASSUME FlowTypes, NEW q \in SUBSET Kinds, v7' = Append(v7, [kind |-> q, at |-> v1])
  PROVE  /\ v7' \in Seq([kind : SUBSET Kinds, at : Nat]) /\ Len(v7') = Len(v7) + 1 /\ Len(v7) \in Nat
         /\ \A i \in 1 .. Len(v7) : v7'[i] = v7[i]
         /\ v7'[Len(v7) + 1] = [kind |-> q, at |-> v1]
         /\ Flow!times' \in Seq(Nat) /\ Len(Flow!times') = Len(Flow!times) + 1
         /\ Len(Flow!times) \in Nat
         /\ \A i \in 1 .. Len(Flow!times) : Flow!times'[i] = Flow!times[i]
         /\ Flow!times'[Len(Flow!times) + 1] = v1
<1>1. v7 \in Seq([kind : SUBSET Kinds, at : Nat]) /\ [kind |-> q, at |-> v1] \in [kind : SUBSET Kinds, at : Nat]
  BY DEF FlowTypes
<1>2. /\ v7' \in Seq([kind : SUBSET Kinds, at : Nat]) /\ Len(v7') = Len(v7) + 1 /\ Len(v7) \in Nat
      /\ \A i \in 1 .. Len(v7) : v7'[i] = v7[i]
      /\ v7'[Len(v7) + 1] = [kind |-> q, at |-> v1]
      /\ DOMAIN v7 = 1 .. Len(v7) /\ DOMAIN v7' = 1 .. Len(v7) + 1
  BY <1>1, AppendProperties, LenProperties
<1>3. Flow!times \in Seq(Nat) /\ Len(Flow!times) = Len(v7)
  BY FlowTimes
<1>4. \A i \in 1 .. Len(v7) + 1 : v7'[i].at \in Nat
  <2>1. \A i \in 1 .. Len(v7) + 1 : v7'[i] \in [kind : SUBSET Kinds, at : Nat]
    BY <1>2, ElementOfSeq
  <2> QED
    BY <2>1
<1>5. Flow!times' = [i \in 1 .. Len(v7) + 1 |-> v7'[i].at]
  BY <1>2 DEF Flow!times
<1>6. Flow!times = [i \in 1 .. Len(v7) |-> v7[i].at]
  BY <1>2 DEF Flow!times
<1>7. Flow!times' \in Seq(Nat) /\ Len(Flow!times') = Len(v7) + 1
  <2>1. Flow!times' \in [1 .. Len(v7) + 1 -> Nat] /\ Len(v7) + 1 \in Nat
    BY <1>2, <1>4, <1>5
  <2> HIDE DEF Flow!times
  <2> QED
    BY <2>1
<1>8. \A i \in 1 .. Len(v7) : Flow!times'[i] = Flow!times[i]
  <2> SUFFICES ASSUME NEW i \in 1 .. Len(v7)
               PROVE  Flow!times'[i] = Flow!times[i]
    OBVIOUS
  <2>1. i \in 1 .. Len(v7) + 1
    BY <1>2
  <2> QED
    BY <1>2, <1>5, <1>6, <2>1
<1>9. Flow!times'[Len(v7) + 1] = v1
  <2>1. Len(v7) + 1 \in 1 .. Len(v7) + 1 /\ v7'[Len(v7) + 1].at = v1
    BY <1>2
  <2> QED
    BY <1>5, <2>1
<1> QED
  BY <1>2, <1>3, <1>7, <1>8, <1>9

(* flow_control.rs try_admit, as the global bucket takes it. *)
LEMMA FlowAdmits ==
  ASSUME Flow!FlowAssumption, FlowTypes, FlowBounds, NEW k \in Kinds, Flow!try_admit(k)
  PROVE  FlowBounds' /\ v3' \in Nat
<1> DEFINE q == {k} \cap DOMAIN v2.per_kind_rps
<1> DEFINE T == Flow!refill_global
<1>1. /\ T \in Nat
      /\ \A b, r \in Configs : Flow!Highest(b, r) =>
           T <= b.burst * 5 /\ Funded(Flow!times, 5, b.burst * 5, r.global_rps, v1, T)
  BY FlowRefills
<1>2. v4' = v1 /\ v1 \in Nat
  BY DEF Flow!try_admit, FlowTypes
<1>3. \/ v3' = T /\ v7' = v7
      \/ T >= 5 /\ v3' = T - 5 /\ v7' = Append(v7, [kind |-> q, at |-> v1])
  BY DEF Flow!try_admit, Flow!admits, Flow!One
<1>6. q \in SUBSET Kinds
  OBVIOUS
<1> HIDE DEF T, q
<1>4. CASE v3' = T /\ v7' = v7
  <2>1. Flow!times' = Flow!times
    BY <1>4 DEF Flow!times
  <2> QED
    BY <1>1, <1>2, <1>4, <2>1 DEF FlowBounds, FlowBound, Flow!Highest
<1>5. CASE T >= 5 /\ v3' = T - 5 /\ v7' = Append(v7, [kind |-> q, at |-> v1])
  <2>1. ASSUME NEW b \in Configs, NEW r \in Configs, Flow!Highest(b, r)
        PROVE  FlowBound(b, r)'
    <3> DEFINE s == Flow!times
    <3> DEFINE s2 == Flow!times'
    <3> DEFINE m == b.burst * 5
    <3> DEFINE g == r.global_rps
    <3>1. /\ Funded(s, 5, m, g, v1, T) /\ T <= m /\ PaidFor(s, 5, m, g)
          /\ m \in Nat /\ g \in Nat /\ s \in Seq(Nat)
      BY <1>1, <2>1, FlowTimes DEF FlowBounds, FlowBound, Flow!FlowAssumption
    <3>2. /\ s2 \in Seq(Nat) /\ Len(s2) = Len(s) + 1 /\ Len(s) \in Nat
          /\ \A i \in 1 .. Len(s) : s2[i] = s[i]
          /\ s2[Len(s) + 1] = v1
      BY <1>5, <1>6, FlowAppends
    <3> HIDE DEF s, s2, m, g
    <3>3. 5 <= T /\ 5 \in Nat
      BY <1>1, <1>5
    <3>4. Funded(s2, 5, m, g, v1, T - 5) /\ PaidFor(s2, 5, m, g)
      BY <1>1, <1>2, <3>1, <3>2, <3>3, SpendsOne
    <3>5. T - 5 = v3' /\ v3' <= m
      BY <1>1, <1>5, <3>1
    <3>6. Funded(s2, 5, m, g, v4', v3') /\ PaidFor(s2, 5, m, g) /\ v3' <= m
      BY <1>2, <3>4, <3>5
    <3> QED
      BY <3>6 DEF FlowBound, s2, m, g
  <2>2. v3' \in Nat
    BY <1>1, <1>5
  <2> QED
    BY <2>1, <2>2 DEF FlowBounds, Flow!Highest
<1> QED
  BY <1>3, <1>4, <1>5

(* The limits of every configuration are below the loosest. *)
LEMMA FlowLimits ==
  ASSUME Flow!FlowAssumption, NEW c \in Configs, NEW k
  PROVE  /\ Flow!Limit(c, k) \in Nat
         /\ k \in DOMAIN c.per_kind_rps => Flow!Limit(c, k) = c.per_kind_rps[k]
<1>1. c.per_kind_rps \in [DOMAIN c.per_kind_rps -> Nat]
  BY DEF Flow!FlowAssumption
<1> DEFINE f == c.per_kind_rps
<1> HIDE DEF f
<1>2. f \in [DOMAIN f -> Nat]
  BY <1>1 DEF f
<1>3. k \in DOMAIN f => f[k] \in Nat
  BY <1>2
<1> QED
  BY <1>3 DEF Flow!Limit, f

LEMMA FlowLoosest ==
  ASSUME Flow!FlowAssumption, NEW k
  PROVE  \E c \in Configs : Flow!Loosest(c, k)
<1>1. IsFiniteSet(Configs) /\ Configs # {}
  BY DEF Flow!FlowAssumption, Flow!IsFiniteSet, IsFiniteSet
<1> DEFINE f == [c \in Configs |-> Flow!Limit(c, k)]
<1>2. \A c \in Configs : Flow!Limit(c, k) \in Nat
  BY FlowLimits
<1>3. f \in [Configs -> Int]
  BY <1>2
<1>4. \E c \in Configs : \A d \in Configs : f[d] <= f[c]
  <2> HIDE DEF f
  <2> QED
    BY <1>1, <1>3, SomeHighest
<1> QED
  BY <1>4 DEF Flow!Loosest

(* flow_control.rs refill_kind: what a kind's bucket holds at a call is funded *)
(* at the loosest limit, whatever the limit of now is.                        *)
LEMMA FlowKindRefills ==
  ASSUME Flow!FlowAssumption, FlowTypes, NEW k \in Kinds, Flow!limited(k),
         NEW c \in Configs, Flow!Loosest(c, k), NEW r, r = Flow!Limit(c, k), FlowKind(k, r)
  PROVE  /\ Flow!refill_kind(k) \in Nat /\ Flow!refill_kind(k) <= 2 * r /\ r \in Nat
         /\ KFunded(v7, {k}, r, v1, Flow!refill_kind(k))
<1> DEFINE T == Flow!refill_kind(k)
<1> DEFINE rps == v2.per_kind_rps[k]
<1>1. /\ v1 \in Nat /\ v2 \in Configs /\ v5[k] \in Nat /\ v6[k] \in -1 .. v1
      /\ v7 \in Seq([kind : SUBSET Kinds, at : Nat])
      /\ KFunded(v7, {k}, r, v6[k], v5[k])
  BY DEF FlowTypes, FlowKind
<1>2. rps \in Nat /\ r \in Nat /\ rps <= r
  <2>1. Flow!Limit(v2, k) = rps /\ Flow!Limit(v2, k) \in Nat
    BY <1>1, FlowLimits DEF Flow!limited
  <2>2. r \in Nat /\ Flow!Limit(v2, k) <= r
    BY <1>1, FlowLimits DEF Flow!Loosest
  <2> QED
    BY <2>1, <2>2
<1>3. T = IF v6[k] = -1 THEN 2 * rps ELSE Flow!Least(v5[k] + (v1 - v6[k]) * rps, 2 * rps)
  BY DEF Flow!refill_kind, Flow!NoBucket
<1> HIDE DEF T, rps
<1>4. CASE v6[k] = -1
  <2>1. T = 2 * rps
    BY <1>3, <1>4
  <2>2. T \in Nat /\ T <= 2 * r
    BY <1>2, <2>1
  <2>3. ASSUME NEW i \in DOMAIN v7, v7[i].kind = {k}
        PROVE  FALSE
    <3>1. v7[i] \in [kind : SUBSET Kinds, at : Nat]
      BY <1>1, ElementOfSeq, LenProperties
    <3>2. v7[i].at <= -1
      BY <1>1, <1>4, <2>3 DEF KFunded
    <3> QED
      BY <3>1, <3>2
  <2>4. KFunded(v7, {k}, r, v1, T)
    BY <2>3 DEF KFunded
  <2> QED
    BY <1>2, <2>2, <2>4 DEF T
<1>5. CASE v6[k] # -1
  <2> DEFINE u == v5[k] + (v1 - v6[k]) * rps
  <2>1. v6[k] \in Nat /\ v6[k] <= v1 /\ v1 - v6[k] \in Nat
    BY <1>1, <1>5
  <2>2. (v1 - v6[k]) * rps <= (v1 - v6[k]) * r /\ (v1 - v6[k]) * rps \in Nat
    <3> DEFINE x == v1 - v6[k]
    <3>1. x \in Nat
      BY <2>1
    <3> HIDE DEF x
    <3>2. x * rps <= x * r /\ x * rps \in Nat
      BY <1>2, <3>1
    <3> QED
      BY <3>2 DEF x
  <2>3. u \in Nat
    BY <1>1, <2>2
  <2>4. T = Flow!Least(u, 2 * rps)
    BY <1>3, <1>5
  <2> HIDE DEF u
  <2>5. T \in Nat /\ T <= u /\ T <= 2 * r
    BY <1>2, <2>3, <2>4 DEF Flow!Least
  <2>6. T <= v5[k] + (v1 - v6[k]) * r
    <3> DEFINE x == (v1 - v6[k]) * rps
    <3> DEFINE y == (v1 - v6[k]) * r
    <3>1. x \in Nat /\ y \in Int /\ x <= y /\ u = v5[k] + x
      BY <1>2, <2>1, <2>2 DEF u
    <3> HIDE DEF x, y
    <3>2. T <= v5[k] + y
      BY <1>1, <2>5, <3>1
    <3> QED
      BY <3>2 DEF y
  <2>7. KFunded(v7, {k}, r, v1, T)
    BY <1>1, <1>2, <2>1, <2>5, <2>6, KindRefills
  <2> QED
    BY <1>2, <2>5, <2>7 DEF T
<1> QED
  BY <1>4, <1>5

(* flow_control.rs try_admit, as the bucket of the kind takes it: charged      *)
(* even if the call is then refused.                                          *)
LEMMA FlowCharged ==
  ASSUME Flow!FlowAssumption, FlowTypes, NEW k \in Kinds, Flow!try_admit(k), Flow!limited(k),
         v7' \in Seq([kind : SUBSET Kinds, at : Nat]),
         NEW c \in Configs, Flow!Loosest(c, k), NEW r, r = Flow!Limit(c, k), FlowKind(k, r)
  PROVE  FlowKind(k, r)' /\ v5'[k] \in Nat
<1> DEFINE T == Flow!refill_kind(k)
<1>1. /\ T \in Nat /\ T <= 2 * r /\ r \in Nat
      /\ KFunded(v7, {k}, r, v1, T)
  BY FlowKindRefills
<1>2. /\ v1 \in Nat /\ v1' = v1 /\ v7 \in Seq([kind : SUBSET Kinds, at : Nat])
      /\ v5 \in [Kinds -> Nat] /\ v6 \in [Kinds -> Int] /\ KPaidFor(v7, {k}, r)
  BY DEF FlowTypes, FlowKind, Flow!try_admit
<1>3. /\ v6' = [v6 EXCEPT ![k] = v1]
      /\ v5' = [v5 EXCEPT ![k] = IF Flow!kind_refuses(k) THEN T ELSE T - 5]
  BY DEF Flow!try_admit, Flow!charge_kind, Flow!One
<1>4. Flow!kind_refuses(k) <=> T < 5
  BY DEF Flow!kind_refuses, Flow!One
<1>5. \/ v7' = v7
      \/ ~Flow!kind_refuses(k) /\ v7' = Append(v7, [kind |-> {k}, at |-> v1])
  <2>1. {k} \cap DOMAIN v2.per_kind_rps = {k}
    BY DEF Flow!limited
  <2> QED
    BY <2>1 DEF Flow!try_admit
<1> HIDE DEF T
<1>6. v6'[k] = v1 /\ v5'[k] = (IF T < 5 THEN T ELSE T - 5)
  BY <1>2, <1>3, <1>4
<1>7. KFunded(v7', {k}, r, v1, v5'[k]) /\ KPaidFor(v7', {k}, r)
  <2>1. CASE v7' = v7 /\ T < 5
    BY <1>1, <1>2, <1>6, <2>1
  <2>2. CASE v7' = v7 /\ ~(T < 5)
    <3>1. v5'[k] \in Nat /\ v5'[k] <= T + (v1 - v1) * r /\ v1 <= v1
      <4>1. (v1 - v1) * r = 0 /\ T + 0 = T
        BY <1>1, <1>2
      <4>2. v5'[k] \in Nat /\ v5'[k] <= T + 0
        BY <1>1, <1>6, <2>2
      <4> QED
        BY <1>2, <4>1, <4>2
    <3>2. KFunded(v7, {k}, r, v1, v5'[k])
      BY <1>1, <1>2, <3>1, KindRefills
    <3> QED
      BY <1>2, <2>2, <3>2
  <2>3. CASE ~Flow!kind_refuses(k) /\ v7' = Append(v7, [kind |-> {k}, at |-> v1])
    <3>1. /\ Len(v7') = Len(v7) + 1 /\ \A i \in 1 .. Len(v7) : v7'[i] = v7[i]
          /\ v7'[Len(v7) + 1] = [kind |-> {k}, at |-> v1]
      BY <2>3, FlowAppends
    <3>2. 5 <= T /\ v5'[k] = T - 5 /\ {k} \in SUBSET Kinds
      BY <1>1, <1>4, <1>6, <2>3
    <3>3. KFunded(v7', {k}, r, v1, T - 5) /\ KPaidFor(v7', {k}, r)
      BY <1>1, <1>2, <3>1, <3>2, KindSpends
    <3> QED
      BY <3>2, <3>3
  <2> QED
    BY <1>5, <2>1, <2>2, <2>3
<1>8. v5'[k] <= 2 * r /\ v5'[k] \in Nat
  BY <1>1, <1>6
<1> QED
  BY <1>2, <1>6, <1>7, <1>8 DEF FlowKind

(* A kind whose bucket was not charged keeps what it was promised. *)
LEMMA FlowUncharged ==
  ASSUME FlowTypes, NEW k \in Kinds, NEW q \in SUBSET Kinds, q # {k},
         v7' = v7 \/ v7' = Append(v7, [kind |-> q, at |-> v1]),
         v1' = v1, v5'[k] = v5[k], v6'[k] = v6[k], NEW r, FlowKind(k, r)
  PROVE  FlowKind(k, r)'
<1>1. v1 \in Nat /\ v7 \in Seq([kind : SUBSET Kinds, at : Nat])
  BY DEF FlowTypes
<1>2. CASE v7' = v7
  BY <1>2 DEF FlowKind
<1>3. CASE v7' = Append(v7, [kind |-> q, at |-> v1])
  <2>1. /\ v7' \in Seq([kind : SUBSET Kinds, at : Nat])
        /\ Len(v7') = Len(v7) + 1 /\ \A i \in 1 .. Len(v7) : v7'[i] = v7[i]
        /\ v7'[Len(v7) + 1] = [kind |-> q, at |-> v1]
    BY <1>3, FlowAppends
  <2>2. KFunded(v7, {k}, r, v6[k], v5[k]) /\ KPaidFor(v7, {k}, r)
    BY DEF FlowKind
  <2>3. Recorded(SUBSET Kinds, v7, v7', q)
    <3>1. v7'[Len(v7) + 1].kind = q
      BY <2>1
    <3> QED
      BY <1>1, <2>1, <3>1 DEF Recorded
  <2>4. KFunded(v7', {k}, r, v6[k], v5[k]) /\ KPaidFor(v7', {k}, r)
    BY <2>2, <2>3, KindStays
  <2> QED
    BY <2>4 DEF FlowKind
<1> QED
  BY <1>2, <1>3

LEMMA FlowCharges ==
  ASSUME Flow!FlowAssumption, FlowTypes, FlowKindsHeld, NEW k \in Kinds, Flow!try_admit(k)
  PROVE  /\ FlowKindsHeld' /\ v7' \in Seq([kind : SUBSET Kinds, at : Nat])
         /\ v5' \in [Kinds -> Nat] /\ v6' \in [Kinds -> Int]
<1> DEFINE charged == {k} \cap DOMAIN v2.per_kind_rps
<1>1. /\ v1 \in Nat /\ v1' = v1 /\ v7 \in Seq([kind : SUBSET Kinds, at : Nat])
      /\ v5 \in [Kinds -> Nat] /\ v6 \in [Kinds -> Int] /\ charged \in SUBSET Kinds
  BY DEF FlowTypes, Flow!try_admit
<1>2. v7' = v7 \/ v7' = Append(v7, [kind |-> charged, at |-> v1])
  BY DEF Flow!try_admit
<1> HIDE DEF charged
<1>3. v7' \in Seq([kind : SUBSET Kinds, at : Nat])
  BY <1>1, <1>2, FlowAppends
<1>4. \A c \in Configs, q \in Kinds : Flow!Loosest(c, q)' <=> Flow!Loosest(c, q)
  BY DEF Flow!Loosest, Flow!Limit
<1>5. CASE ~Flow!limited(k)
  <2>1. v5' = v5 /\ v6' = v6 /\ charged = {}
    BY <1>5 DEF Flow!try_admit, Flow!charge_kind, Flow!limited, charged
  <2>2. ASSUME NEW q \in Kinds, NEW c \in Configs, Flow!Loosest(c, q)
        PROVE  FlowKind(q, Flow!Limit(c, q))'
    <3>1. FlowKind(q, Flow!Limit(c, q))
      BY <2>2 DEF FlowKindsHeld
    <3>2. PICK r : r = Flow!Limit(c, q)
      OBVIOUS
    <3>3. FlowKind(q, r) /\ charged # {q}
      BY <2>1, <3>1, <3>2
    <3>4. FlowKind(q, r)'
      BY <1>1, <1>2, <2>1, <3>3, FlowUncharged
    <3> QED
      BY <3>2, <3>4 DEF Flow!Limit, FlowKind
  <2> QED
    BY <1>1, <1>3, <1>4, <2>1, <2>2 DEF FlowKindsHeld
<1>6. CASE Flow!limited(k)
  <2>1. charged = {k}
    BY <1>6 DEF Flow!limited, charged
  <2>2. /\ v6' = [v6 EXCEPT ![k] = v1]
        /\ \E t : v5' = [v5 EXCEPT ![k] = t]
    BY <1>6 DEF Flow!try_admit, Flow!charge_kind
  <2>3. \A q \in Kinds : q # k => v5'[q] = v5[q] /\ v6'[q] = v6[q]
    BY <1>1, <2>2
  <2>4. ASSUME NEW q \in Kinds, NEW c \in Configs, Flow!Loosest(c, q)
        PROVE  FlowKind(q, Flow!Limit(c, q))'
    <3>1. PICK r : r = Flow!Limit(c, q)
      OBVIOUS
    <3>2. FlowKind(q, r)
      BY <2>4, <3>1 DEF FlowKindsHeld
    <3>3. FlowKind(q, r)'
      <4>1. CASE q = k
        BY <1>3, <1>6, <2>4, <3>1, <3>2, <4>1, FlowCharged
      <4>2. CASE q # k
        <5>1. charged # {q}
          BY <2>1, <4>2
        <5> QED
          BY <1>1, <1>2, <2>3, <3>2, <4>2, <5>1, FlowUncharged
      <4> QED
        BY <4>1, <4>2
    <3> QED
      BY <3>1, <3>3 DEF Flow!Limit, FlowKind
  <2>5. v5' \in [Kinds -> Nat] /\ v6' \in [Kinds -> Int]
    <3>1. PICK c \in Configs : Flow!Loosest(c, k)
      BY FlowLoosest
    <3>2. PICK r : r = Flow!Limit(c, k)
      OBVIOUS
    <3>3. FlowKind(k, r)
      BY <3>1, <3>2 DEF FlowKindsHeld
    <3>4. v5'[k] \in Nat
      BY <1>3, <1>6, <3>1, <3>2, <3>3, FlowCharged
    <3> QED
      BY <1>1, <2>2, <3>4
  <2> QED
    BY <1>3, <1>4, <2>4, <2>5 DEF FlowKindsHeld
<1> QED
  BY <1>5, <1>6

LEMMA FlowStep ==
  ASSUME Flow!FlowAssumption, Flow!IInv, Flow!Next
  PROVE  Flow!IInv'
<1>1. FlowTypes /\ FlowBounds /\ FlowKindsHeld
  BY FlowParts
<1>2. CASE Flow!Tick
  <2>1. v1' = v1 + 1 /\ UNCHANGED <<v2, v3, v4, v5, v6, v7>>
    BY <1>2 DEF Flow!Tick
  <2>2. FlowTypes'
    BY <1>1, <2>1 DEF FlowTypes
  <2>3. FlowBounds'
    BY <1>1, <2>1 DEF FlowBounds, FlowBound, Flow!Highest, Flow!times
  <2>4. FlowKindsHeld'
    <3>1. v1 \in Nat
      BY <1>1 DEF FlowTypes
    <3>2. \A k : v6[k] \in -1 .. v1 => v6[k] \in -1 .. v1'
      BY <2>1, <3>1
    <3> QED
      BY <1>1, <2>1, <3>2 DEF FlowKindsHeld, FlowKind, Flow!Loosest, Flow!Limit
  <2> QED
    BY <2>2, <2>3, <2>4, FlowParts
<1>3. ASSUME NEW k \in Kinds, Flow!try_admit(k)
      PROVE  Flow!IInv'
  <2>1. FlowBounds' /\ v3' \in Nat
    BY <1>1, <1>3, FlowAdmits
  <2>2. /\ FlowKindsHeld' /\ v7' \in Seq([kind : SUBSET Kinds, at : Nat])
        /\ v5' \in [Kinds -> Nat] /\ v6' \in [Kinds -> Int]
    BY <1>1, <1>3, FlowCharges
  <2>3. v1' = v1 /\ v2' = v2 /\ v4' = v1
    BY <1>3 DEF Flow!try_admit
  <2>4. FlowTypes'
    BY <1>1, <2>1, <2>2, <2>3 DEF FlowTypes
  <2> QED
    BY <2>1, <2>2, <2>4, FlowParts
<1>4. ASSUME NEW c \in Configs, Flow!update_config(c)
      PROVE  Flow!IInv'
  <2>1. v2' = c /\ UNCHANGED <<v1, v3, v4, v5, v6, v7>>
    BY <1>4 DEF Flow!update_config
  <2>2. FlowTypes' /\ FlowKindsHeld'
    BY <1>1, <2>1 DEF FlowTypes, FlowKindsHeld, FlowKind, Flow!Loosest, Flow!Limit
  <2>3. FlowBounds'
    BY <1>1, <2>1 DEF FlowBounds, FlowBound, Flow!Highest, Flow!times
  <2> QED
    BY <2>2, <2>3, FlowParts
<1> QED
  BY <1>2, <1>3, <1>4 DEF Flow!Next

LEMMA FlowInit ==
  ASSUME Flow!FlowAssumption, Flow!Init
  PROVE  Flow!IInv
<1>1. /\ v1 = 0 /\ v2 \in Configs /\ v3 = v2.burst * 5 /\ v4 = 0 /\ v7 = <<>>
      /\ v5 = [k \in Kinds |-> 0] /\ v6 = [k \in Kinds |-> -1]
      /\ \A c \in Configs : c.burst \in Nat /\ c.global_rps \in Nat
  BY DEF Flow!Init, Flow!FlowAssumption, Flow!One, Flow!NoBucket
<1>2. DOMAIN v7 = {} /\ DOMAIN Flow!times = {}
  BY <1>1 DEF Flow!times
<1>3. FlowTypes
  BY <1>1 DEF FlowTypes
<1>4. FlowBounds
  <2>1. ASSUME NEW b \in Configs, NEW r \in Configs, Flow!Highest(b, r)
        PROVE  v3 <= b.burst * 5
    BY <1>1, <2>1 DEF Flow!Highest
  <2> QED
    BY <1>2, <2>1 DEF FlowBounds, FlowBound, PaidFor, Funded
<1>5. FlowKindsHeld
  <2>1. ASSUME NEW k \in Kinds, NEW c \in Configs
        PROVE  FlowKind(k, Flow!Limit(c, k))
    <3>1. PICK r \in Nat : r = Flow!Limit(c, k)
      BY FlowLimits
    <3>2. v6[k] = -1 /\ v5[k] = 0 /\ v1 = 0
      BY <1>1
    <3>3. FlowKind(k, r)
      BY <1>2, <3>1, <3>2 DEF FlowKind, KPaidFor, KFunded
    <3> QED
      BY <3>1, <3>3
  <2> QED
    BY <2>1 DEF FlowKindsHeld
<1> QED
  BY <1>3, <1>4, <1>5, FlowParts

LEMMA FlowHolds ==
  ASSUME Flow!FlowAssumption, Flow!IInv
  PROVE  Flow!Held
<1>1. /\ IsFiniteSet(Configs) /\ Configs # {}
      /\ \A c \in Configs : c.burst \in Nat /\ c.global_rps \in Nat
  BY DEF Flow!FlowAssumption, Flow!IsFiniteSet, IsFiniteSet
<1> DEFINE f == [c \in Configs |-> c.burst]
<1> DEFINE g == [c \in Configs |-> c.global_rps]
<1>2. f \in [Configs -> Int] /\ g \in [Configs -> Int]
  BY <1>1
<1>3. /\ \E c \in Configs : \A d \in Configs : f[d] <= f[c]
      /\ \E c \in Configs : \A d \in Configs : g[d] <= g[c]
  <2> HIDE DEF f, g
  <2> QED
    BY <1>1, <1>2, SomeHighest
<1>4. PICK b \in Configs : \A d \in Configs : d.burst <= b.burst
  BY <1>3
<1>5. PICK r \in Configs : \A d \in Configs : d.global_rps <= r.global_rps
  BY <1>3
<1>6. Flow!Highest(b, r)
  BY <1>4, <1>5 DEF Flow!Highest
<1>7. PaidFor(Flow!times, 5, b.burst * 5, r.global_rps)
  BY <1>6, FlowParts DEF FlowBounds, FlowBound
<1>8. Flow!PaidFor(Flow!times, Flow!One, b.burst * Flow!One, r.global_rps)
  BY <1>7 DEF Flow!PaidFor, PaidFor, Flow!One
<1>9. \A k \in Kinds : \E c \in Configs :
        Flow!Loosest(c, k) /\ Flow!KindPaidFor(k, Flow!Limit(c, k))
  BY FlowLoosest DEF Flow!IInv
<1> QED
  BY <1>6, <1>8, <1>9 DEF Flow!Held

LEMMA Fits ==
  ASSUME NEW S, NEW T, IsFiniteSet(T), NEW f \in [S -> T], \A a, b \in S : f[a] = f[b] => a = b
  PROVE  IsFiniteSet(S) /\ Cardinality(S) <= Cardinality(T)
<1>1. f \in Injection(S, T)
  BY DEF Injection, IsInjective
<1> QED
  BY <1>1, FS_Injection

(* The calls of a log after a time. *)
Later(log, x) == {i \in DOMAIN log : log[i] > x}

LEMMA LaterIs ==
  ASSUME NEW log \in Seq(Nat), NEW x
  PROVE  IsFiniteSet(Later(log, x)) /\ Cardinality(Later(log, x)) \in Nat
<1>1. DOMAIN log = 1 .. Len(log) /\ Len(log) \in Nat
  BY LenProperties
<1>2. IsFiniteSet(DOMAIN log) /\ Later(log, x) \subseteq DOMAIN log
  BY <1>1, FS_Interval DEF Later
<1> QED
  BY <1>2, Fewer

LEMMA LaterMore ==
  ASSUME NEW log \in Seq(Nat), NEW log2 \in Seq(Nat), NEW n \in Nat, Len(log2) = Len(log) + n,
         \A i \in 1 .. Len(log) : log2[i] = log[i],
         NEW t \in Nat, \A i \in Len(log) + 1 .. Len(log) + n : log2[i] = t,
         NEW x \in Int, x < t
  PROVE  Cardinality(Later(log2, x)) = Cardinality(Later(log, x)) + n
<1> DEFINE m == Len(log)
<1> DEFINE N == m + 1 .. m + n
<1>1. m \in Nat /\ DOMAIN log = 1 .. m /\ DOMAIN log2 = 1 .. m + n
  BY LenProperties
<1>2. /\ \A i \in 1 .. m : log2[i] = log[i]
      /\ \A i \in N : log2[i] = t
      /\ 1 .. m + n = (1 .. m) \cup N /\ (1 .. m) \cap N = {}
  BY <1>1
<1>3. IsFiniteSet(N) /\ Cardinality(N) = n
  <2>1. m + 1 \in Int /\ m + n \in Int /\ (m + n) - (m + 1) + 1 = n
    BY <1>1
  <2>2. Cardinality(N) = IF m + 1 > m + n THEN 0 ELSE (m + n) - (m + 1) + 1
    BY <2>1, FS_Interval
  <2>3. IsFiniteSet(N)
    BY <2>1, FS_Interval
  <2> HIDE DEF m, N
  <2> QED
    BY <1>1, <2>1, <2>2, <2>3
<1> HIDE DEF m, N
<1>4. Later(log, x) \cap N = {}
  BY <1>1, <1>2 DEF Later
<1>5. Later(log2, x) = Later(log, x) \cup N
  BY <1>1, <1>2 DEF Later
<1>6. IsFiniteSet(Later(log, x))
  BY LaterIs
<1>7. Cardinality(Later(log, x) \cup N) = Cardinality(Later(log, x)) + Cardinality(N)
  BY <1>3, <1>4, <1>6, Joined
<1> QED
  BY <1>3, <1>5, <1>7

LEMMA LaterSame ==
  ASSUME NEW log \in Seq(Nat), NEW log2 \in Seq(Nat), NEW n \in Nat, Len(log2) = Len(log) + n,
         \A i \in 1 .. Len(log) : log2[i] = log[i],
         NEW t \in Nat, \A i \in Len(log) + 1 .. Len(log) + n : log2[i] = t,
         NEW x \in Int, x >= t
  PROVE  Later(log2, x) = Later(log, x)
<1>1. Len(log) \in Nat /\ DOMAIN log = 1 .. Len(log) /\ DOMAIN log2 = 1 .. Len(log) + n
  BY LenProperties
<1>2. ASSUME NEW i \in DOMAIN log2
      PROVE  \/ i \in DOMAIN log /\ log2[i] = log[i]
             \/ i \notin DOMAIN log /\ log2[i] = t
  <2>1. i \in Int /\ i >= 1 /\ i <= Len(log) + n
    BY <1>1
  <2>2. CASE i <= Len(log)
    <3>1. i \in 1 .. Len(log)
      BY <1>1, <2>1, <2>2
    <3>2. log2[i] = log[i]
      BY <3>1
    <3> QED
      BY <1>1, <3>1, <3>2
  <2>3. CASE ~(i <= Len(log))
    <3>1. i \in Len(log) + 1 .. Len(log) + n /\ i \notin 1 .. Len(log)
      BY <1>1, <2>1, <2>3
    <3>2. log2[i] = t
      BY <3>1
    <3> QED
      BY <1>1, <3>1, <3>2
  <2> QED
    BY <2>2, <2>3
<1>3. DOMAIN log \subseteq DOMAIN log2
  BY <1>1
<1> QED
  BY <1>2, <1>3 DEF Later

(* What is counted by entries of a time and a count each, one unit a call. *)
Units(s) == UNION {{i} \X (1 .. s[i].count) : i \in DOMAIN s}
UnitsAfter(s, x) == {c \in Units(s) : s[c[1]].timestamp_ms > x}

LEMMA UnitsAre ==
  ASSUME NEW s, NEW c
  PROVE  c \in Units(s) <=> \E i \in DOMAIN s : \E u \in 1 .. s[i].count : c = <<i, u>>
BY DEF Units

LEMMA UnitsShift ==
  ASSUME NEW K, NEW s \in Seq([timestamp_ms : Nat, count : K]),
         NEW d \in Seq([timestamp_ms : Nat, count : K]), NEW n \in 0 .. Len(s),
         Len(d) = Len(s) - n, \A i \in 1 .. Len(s) - n : d[i] = s[n + i], IsFiniteSet(Units(s))
  PROVE  /\ IsFiniteSet(Units(d))
         /\ \A x \in Int : (\A i \in 1 .. n : ~(s[i].timestamp_ms > x)) =>
              Cardinality(UnitsAfter(s, x)) <= Cardinality(UnitsAfter(d, x))
<1> DEFINE m == Len(s)
<1>1. m \in Nat /\ DOMAIN s = 1 .. m /\ DOMAIN d = 1 .. m - n /\ n \in Nat /\ n <= m
  BY LenProperties
<1>2. \A i \in 1 .. m - n : d[i] = s[n + i]
  OBVIOUS
<1> HIDE DEF m
<1>3. IsFiniteSet(Units(d))
  <2> DEFINE f == [c \in Units(d) |-> <<n + c[1], c[2]>>]
  <2>1. \A c \in Units(d) : <<n + c[1], c[2]>> \in Units(s) /\ c[1] \in Nat /\ c = <<c[1], c[2]>>
    <3> SUFFICES ASSUME NEW c \in Units(d)
                 PROVE  <<n + c[1], c[2]>> \in Units(s) /\ c[1] \in Nat /\ c = <<c[1], c[2]>>
      OBVIOUS
    <3>1. PICK i \in DOMAIN d : \E u \in 1 .. d[i].count : c = <<i, u>>
      BY UnitsAre
    <3>2. PICK u \in 1 .. d[i].count : c = <<i, u>>
      BY <3>1
    <3>3. n + i \in DOMAIN s /\ d[i] = s[n + i] /\ i \in Nat
      <4>1. i \in 1 .. m - n
        BY <1>1
      <4>2. n + i \in 1 .. m /\ i \in Nat
        <5>1. i \in Int /\ i >= 1 /\ i <= m - n
          BY <1>1, <4>1
        <5>2. n + i >= 1 /\ n + i <= m /\ n + i \in Int
          <6>1. n \in Int /\ n >= 0 /\ m \in Int
            BY <1>1
          <6>2. \A x, y, z \in Int : x >= 0 /\ y >= 1 /\ y <= z - x
                                     => x + y >= 1 /\ x + y <= z /\ x + y \in Int
            OBVIOUS
          <6> QED
            BY <5>1, <6>1, <6>2, Zenon
        <5> QED
          BY <1>1, <5>1, <5>2
      <4> QED
        BY <1>1, <1>2, <4>1, <4>2
    <3>4. u \in 1 .. s[n + i].count
      BY <3>3
    <3>5. <<n + i, u>> \in Units(s)
      BY <3>3, <3>4, UnitsAre
    <3> QED
      BY <3>2, <3>3, <3>5
  <2>2. f \in [Units(d) -> Units(s)]
    BY <2>1
  <2>3. \A a, b \in Units(d) : f[a] = f[b] => a = b
    <3> SUFFICES ASSUME NEW a \in Units(d), NEW b \in Units(d), f[a] = f[b]
                 PROVE  a = b
      OBVIOUS
    <3>1. n + a[1] = n + b[1] /\ a[2] = b[2]
      OBVIOUS
    <3>2. a[1] \in Nat /\ b[1] \in Nat /\ a = <<a[1], a[2]>> /\ b = <<b[1], b[2]>>
      BY <2>1
    <3>3. a[1] = b[1]
      BY <1>1, <3>1, <3>2
    <3> QED
      BY <3>1, <3>2, <3>3
  <2> HIDE DEF f
  <2> QED
    BY <2>2, <2>3, Fits
<1>4. ASSUME NEW x \in Int, \A i \in 1 .. n : ~(s[i].timestamp_ms > x)
      PROVE  Cardinality(UnitsAfter(s, x)) <= Cardinality(UnitsAfter(d, x))
  <2> DEFINE S == UnitsAfter(s, x)
  <2> DEFINE T == UnitsAfter(d, x)
  <2> DEFINE f == [c \in S |-> <<c[1] - n, c[2]>>]
  <2>1. \A c \in S : <<c[1] - n, c[2]>> \in T /\ c[1] \in Nat /\ c = <<c[1], c[2]>>
    <3> SUFFICES ASSUME NEW c \in S
                 PROVE  <<c[1] - n, c[2]>> \in T /\ c[1] \in Nat /\ c = <<c[1], c[2]>>
      OBVIOUS
    <3>1. c \in Units(s) /\ s[c[1]].timestamp_ms > x
      BY DEF UnitsAfter
    <3>2. PICK i \in DOMAIN s : \E u \in 1 .. s[i].count : c = <<i, u>>
      BY <3>1, UnitsAre
    <3>3. PICK u \in 1 .. s[i].count : c = <<i, u>>
      BY <3>2
    <3>4. c[1] = i /\ c[2] = u /\ i \in 1 .. m
      BY <1>1, <3>3
    <3>5. i \notin 1 .. n
      BY <1>4, <3>1, <3>4
    <3>6. i - n \in 1 .. m - n /\ n + (i - n) = i /\ i \in Nat
      <4>1. i \in Nat /\ i >= 1 /\ i <= m
        BY <1>1, <3>4
      <4>2. i > n
        BY <1>1, <3>5, <4>1
      <4> QED
        BY <1>1, <4>1, <4>2
    <3>7. d[i - n] = s[i] /\ i - n \in DOMAIN d
      BY <1>1, <1>2, <3>6
    <3>8. u \in 1 .. d[i - n].count /\ d[i - n].timestamp_ms > x
      BY <3>1, <3>4, <3>7
    <3>9. <<i - n, u>> \in Units(d)
      BY <3>7, <3>8, UnitsAre
    <3>10. <<i - n, u>>[1] = i - n
      OBVIOUS
    <3>11. <<i - n, u>> \in T
      BY <3>8, <3>9, <3>10 DEF UnitsAfter
    <3> QED
      BY <3>3, <3>4, <3>6, <3>11
  <2> HIDE DEF S, T
  <2>2. f \in [S -> T]
    BY <2>1
  <2>3. \A a, b \in S : f[a] = f[b] => a = b
    <3> SUFFICES ASSUME NEW a \in S, NEW b \in S, f[a] = f[b]
                 PROVE  a = b
      OBVIOUS
    <3>1. a[1] - n = b[1] - n /\ a[2] = b[2]
      OBVIOUS
    <3>2. a[1] \in Nat /\ b[1] \in Nat /\ a = <<a[1], a[2]>> /\ b = <<b[1], b[2]>>
      BY <2>1
    <3>3. a[1] = b[1]
      BY <1>1, <3>1, <3>2
    <3> QED
      BY <3>1, <3>2, <3>3
  <2> HIDE DEF f
  <2>4. IsFiniteSet(T)
    <3>1. T \subseteq Units(d)
      BY DEF T, UnitsAfter
    <3> QED
      BY <1>3, <3>1, Fewer
  <2>5. Cardinality(S) <= Cardinality(T)
    BY <2>2, <2>3, <2>4, Fits
  <2> QED
    BY <2>5 DEF S, T
<1> QED
  BY <1>3, <1>4

(* An entry of n units at t has been appended.                                *)
UnitsMore(K, s, s2, t, n) ==
  /\ s \in Seq([timestamp_ms : Nat, count : K]) /\ IsFiniteSet(Units(s))
  /\ s2 \in Seq([timestamp_ms : Nat, count : K]) /\ Len(s2) = Len(s) + 1
  /\ \A i \in 1 .. Len(s) : s2[i] = s[i]
  /\ t \in Nat /\ n \in Nat /\ s2[Len(s) + 1] = [timestamp_ms |-> t, count |-> n]

LEMMA UnitsAppended ==
  ASSUME NEW K, NEW s, NEW s2, NEW t, NEW n, UnitsMore(K, s, s2, t, n)
  PROVE  /\ IsFiniteSet(Units(s2)) /\ Cardinality(Units(s2)) = Cardinality(Units(s)) + n
         /\ \A x \in Int :
              /\ x < t => Cardinality(UnitsAfter(s2, x)) = Cardinality(UnitsAfter(s, x)) + n
              /\ x >= t => Cardinality(UnitsAfter(s2, x)) = Cardinality(UnitsAfter(s, x))
<1> DEFINE m == Len(s)
<1> DEFINE N == {m + 1} \X (1 .. n)
<1>1. /\ m \in Nat /\ DOMAIN s = 1 .. m /\ DOMAIN s2 = 1 .. m + 1
      /\ \A i \in 1 .. m : s2[i] = s[i]
      /\ s2[m + 1].timestamp_ms = t /\ s2[m + 1].count = n
      /\ t \in Nat /\ n \in Nat /\ IsFiniteSet(Units(s))
  BY LenProperties DEF UnitsMore
<1> HIDE DEF m
<1>2. IsFiniteSet(N) /\ Cardinality(N) = n
  BY <1>1, Marked
<1>3. \A c \in Units(s) : c[1] \in 1 .. m
  BY <1>1, UnitsAre
<1>4. \A c \in N : c[1] = m + 1
  OBVIOUS
<1>5. Units(s2) = Units(s) \cup N
  <2>1. ASSUME NEW c \in Units(s2)
        PROVE  c \in Units(s) \cup N
    <3>1. PICK i \in DOMAIN s2 : \E u \in 1 .. s2[i].count : c = <<i, u>>
      BY <2>1 DEF Units
    <3>2. PICK u \in 1 .. s2[i].count : c = <<i, u>>
      BY <3>1
    <3>3. CASE i = m + 1
      BY <1>1, <3>2, <3>3
    <3>4. CASE i # m + 1
      <4>1. i \in DOMAIN s /\ u \in 1 .. s[i].count
        BY <1>1, <3>4
      <4>2. c \in Units(s)
        BY <3>2, <4>1, UnitsAre
      <4> QED
        BY <4>2
    <3> QED
      BY <3>3, <3>4
  <2>2. ASSUME NEW c \in Units(s)
        PROVE  c \in Units(s2)
    <3>1. PICK i \in DOMAIN s : \E u \in 1 .. s[i].count : c = <<i, u>>
      BY <2>2, UnitsAre
    <3>2. PICK u \in 1 .. s[i].count : c = <<i, u>>
      BY <3>1
    <3>3. i \in DOMAIN s2 /\ u \in 1 .. s2[i].count
      BY <1>1
    <3> QED
      BY <3>2, <3>3, UnitsAre
  <2>3. ASSUME NEW c \in N
        PROVE  c \in Units(s2)
    <3>1. PICK u \in 1 .. n : c = <<m + 1, u>>
      OBVIOUS
    <3>2. m + 1 \in DOMAIN s2 /\ u \in 1 .. s2[m + 1].count
      BY <1>1
    <3> QED
      BY <3>1, <3>2, UnitsAre
  <2> HIDE DEF N
  <2> QED
    BY <2>1, <2>2, <2>3
<1> HIDE DEF N
<1>6. Units(s) \cap N = {}
  BY <1>1, <1>3, <1>4
<1>7. IsFiniteSet(Units(s2)) /\ Cardinality(Units(s2)) = Cardinality(Units(s)) + n
  BY <1>1, <1>2, <1>5, <1>6, Joined
<1>8. ASSUME NEW x \in Int
      PROVE  /\ x < t => Cardinality(UnitsAfter(s2, x)) = Cardinality(UnitsAfter(s, x)) + n
             /\ x >= t => Cardinality(UnitsAfter(s2, x)) = Cardinality(UnitsAfter(s, x))
  <2> DEFINE S == UnitsAfter(s, x)
  <2>1. S \subseteq Units(s)
    BY DEF UnitsAfter
  <2>2. IsFiniteSet(S) /\ S \cap N = {}
    BY <1>1, <1>6, <2>1, Fewer
  <2>3. /\ \A c \in Units(s) : s2[c[1]] = s[c[1]]
        /\ \A c \in N : s2[c[1]].timestamp_ms = t
    BY <1>1, <1>3, <1>4
  <2>4. CASE x < t
    <3>1. UnitsAfter(s2, x) = S \cup N
      BY <1>1, <1>5, <2>3, <2>4 DEF UnitsAfter
    <3> HIDE DEF S
    <3>2. Cardinality(S \cup N) = Cardinality(S) + Cardinality(N)
      BY <1>2, <2>2, Joined
    <3>3. Cardinality(UnitsAfter(s2, x)) = Cardinality(S) + n
      BY <1>2, <3>1, <3>2
    <3> QED
      BY <1>1, <2>4, <3>3 DEF S
  <2>5. CASE x >= t
    <3>1. UnitsAfter(s2, x) = S
      BY <1>1, <1>5, <2>3, <2>5 DEF UnitsAfter
    <3> QED
      BY <1>1, <2>5, <3>1
  <2> QED
    BY <1>1, <2>4, <2>5
<1> QED
  BY <1>7, <1>8

(* No span holds more calls than before if none that reaches the new ones does. *)
LEMMA WindowStays ==
  ASSUME NEW log \in Seq(Nat), NEW log2 \in Seq(Nat), NEW n \in Nat, Len(log2) = Len(log) + n,
         \A i \in 1 .. Len(log) : log2[i] = log[i],
         NEW t \in Nat, \A i \in Len(log) + 1 .. Len(log) + n : log2[i] = t,
         NEW span \in Int, NEW most \in Nat, AtMost(log, span, most),
         \A a \in Nat : t < a + span => Within(log2, a, span) <= most
  PROVE  AtMost(log2, span, most)
<1>1. /\ Len(log) \in Nat /\ DOMAIN log = 1 .. Len(log) /\ DOMAIN log2 = 1 .. Len(log) + n
      /\ \A i \in 1 .. Len(log) + n : log2[i] \in Nat
  BY LenProperties, ElementOfSeq
<1>2. ASSUME NEW i \in 1 .. Len(log) + n
      PROVE  Within(log2, log2[i], span) <= most
  <2> DEFINE a == log2[i]
  <2> DEFINE S == {j \in DOMAIN log2 : log2[j] >= a /\ log2[j] < a + span}
  <2>1. Within(log2, a, span) = Cardinality(S) /\ a \in Nat
    BY <1>1 DEF Within
  <2>2. CASE t < a + span
    BY <2>1, <2>2
  <2>3. CASE ~(t < a + span) /\ i \in 1 .. Len(log)
    <3>1. a = log[i] /\ i \in DOMAIN log
      BY <1>1, <2>3
    <3> DEFINE R == {j \in DOMAIN log : log[j] >= log[i] /\ log[j] < log[i] + span}
    <3>2. ASSUME NEW j \in S
          PROVE  j \in R
      <4>1. j \in 1 .. Len(log) + n /\ log2[j] # t /\ log2[j] >= a /\ log2[j] < a + span
        BY <1>1, <2>3
      <4>2. j \in 1 .. Len(log)
        BY <1>1, <4>1
      <4>3. log2[j] = log[j]
        BY <4>2
      <4> QED
        BY <1>1, <3>1, <4>1, <4>2, <4>3
    <3>3. Cardinality(R) <= most
      BY <3>1 DEF AtMost, Within
    <3>4. R \subseteq 1 .. Len(log) /\ IsFiniteSet(1 .. Len(log))
      BY <1>1, FS_Interval
    <3> HIDE DEF S, R, a
    <3>5. S \subseteq R
      BY <3>2
    <3>6. IsFiniteSet(R)
      BY <3>4, Fewer
    <3>7. Cardinality(S) <= Cardinality(R) /\ Cardinality(S) \in Nat /\ Cardinality(R) \in Nat
      BY <3>5, <3>6, Fewer
    <3>8. Within(log2, a, span) <= most
      BY <2>1, <3>3, <3>7
    <3> QED
      BY <3>8 DEF a
  <2>4. CASE ~(t < a + span) /\ i \notin 1 .. Len(log)
    <3>1. i \in Len(log) + 1 .. Len(log) + n
      BY <1>1, <2>4
    <3>2. a = t /\ span <= 0
      BY <2>1, <2>4, <3>1
    <3>3. ASSUME NEW j \in S
          PROVE  FALSE
      <4>1. j \in 1 .. Len(log) + n /\ log2[j] >= a /\ log2[j] < a + span
        BY <1>1
      <4>2. log2[j] \in Nat
        BY <1>1, <4>1
      <4> HIDE DEF a, S
      <4> QED
        BY <2>1, <3>2, <4>1, <4>2
    <3> HIDE DEF a, S
    <3>4. S = {}
      BY <3>3
    <3>5. Within(log2, a, span) <= most
      BY <2>1, <3>4, FS_EmptySet
    <3> QED
      BY <3>5 DEF a
  <2> QED
    BY <2>2, <2>3, <2>4
<1> QED
  BY <1>1, <1>2 DEF AtMost

HybridTypes ==
  /\ v1 \in Nat /\ v3 \in Nat /\ v4 \in Nat /\ v5 \in Seq(Nat) /\ v4 <= v1 /\ v3 <= hybrid_capacity
  /\ v2 \in Seq([timestamp_ms : Nat, count : Tokens]) /\ IsFiniteSet(Units(v2))

HybridPaid ==
  /\ Funded(v5, 1, hybrid_capacity, hybrid_refill, v4, v3)
  /\ PaidFor(v5, 1, hybrid_capacity + hybrid_refill * hybrid_MaxLate, hybrid_refill)

HybridWindow == AtMost(v5, hybrid_window_ms - hybrid_MaxLate, window_max)

HybridCounted ==
  \A x \in v1 - hybrid_window_ms .. v1 :
    Cardinality(Later(v5, x)) <= Cardinality(UnitsAfter(v2, x))

LEMMA HybridSame ==
  /\ \A S : Hybrid!Cardinality(S) = Cardinality(S)
  /\ \A S : Hybrid!IsFiniteSet(S) <=> IsFiniteSet(S)
  /\ \A s, K : Hybrid!FromFirst(s, K) = FromFirst(s, K)
  /\ \A l, span, most : Hybrid!AtMost(l, span, most) <=> AtMost(l, span, most)
  /\ \A s : Hybrid!Calls(s) = Units(s)
<1>1. \A S : Hybrid!Cardinality(S) = Cardinality(S)
  BY DEF Hybrid!Cardinality, Cardinality
<1>2. \A s, K : Hybrid!FromFirst(s, K) = FromFirst(s, K)
  BY DEF Hybrid!FromFirst, FromFirst
<1>3. \A l, from, span : Hybrid!Within(l, from, span) = Within(l, from, span)
  BY <1>1 DEF Hybrid!Within, Within
<1>4. \A l, span, most : Hybrid!AtMost(l, span, most) <=> AtMost(l, span, most)
  BY <1>3 DEF Hybrid!AtMost, AtMost
<1>5. \A S : Hybrid!IsFiniteSet(S) <=> IsFiniteSet(S)
  BY DEF Hybrid!IsFiniteSet, IsFiniteSet
<1>6. \A s : Hybrid!Calls(s) = Units(s)
  BY DEF Hybrid!Calls, Units
<1> QED
  BY <1>1, <1>2, <1>4, <1>5, <1>6

LEMMA HybridParts ==
  /\ Hybrid!IInv <=> HybridTypes /\ HybridPaid /\ HybridWindow /\ HybridCounted
  /\ (Hybrid!IInv <=> HybridTypes /\ HybridPaid /\ HybridWindow /\ HybridCounted)'
<1>1. \A x : Hybrid!After(x) = UnitsAfter(v2, x)
  BY HybridSame DEF Hybrid!After, UnitsAfter
<1>2. (\A x : Hybrid!After(x) = UnitsAfter(v2, x))'
  BY HybridSame DEF Hybrid!After, UnitsAfter
<1>3. \A l, p, c, r : Hybrid!PaidFor(l, p, c, r) <=> PaidFor(l, p, c, r)
  BY DEF Hybrid!PaidFor, PaidFor
<1>4. \A l, p, c, r, a, t : Hybrid!Funded(l, p, c, r, a, t) <=> Funded(l, p, c, r, a, t)
  BY DEF Hybrid!Funded, Funded
<1>5. Hybrid!IInv <=> HybridTypes /\ HybridPaid /\ HybridWindow /\ HybridCounted
  BY <1>1, <1>3, <1>4, HybridSame
  DEF Hybrid!IInv, Hybrid!Held, HybridTypes, HybridPaid, HybridWindow, HybridCounted, Later
<1>6. (Hybrid!IInv <=> HybridTypes /\ HybridPaid /\ HybridWindow /\ HybridCounted)'
  BY <1>2, <1>3, <1>4, HybridSame
  DEF Hybrid!IInv, Hybrid!Held, HybridTypes, HybridPaid, HybridWindow, HybridCounted, Later
<1> QED
  BY <1>5, <1>6

LEMMA HybridConstants ==
  ASSUME Hybrid!HybridAssumption
  PROVE  /\ hybrid_capacity \in Nat /\ hybrid_refill \in Nat /\ hybrid_window_ms \in Nat
         /\ window_max \in Nat /\ hybrid_MaxLate \in Nat /\ Tokens \subseteq Nat
BY DEF Hybrid!HybridAssumption

(* rate_limiter_v2.rs evict: none of the last window is dropped. *)
LEMMA HybridDrops ==
  ASSUME Hybrid!HybridAssumption, HybridTypes, HybridCounted, NEW t \in Nat, t <= v1
  PROVE  /\ Hybrid!evict(v2, t) \in Seq([timestamp_ms : Nat, count : Tokens])
         /\ IsFiniteSet(Units(Hybrid!evict(v2, t)))
         /\ \A x \in v1 - hybrid_window_ms .. v1 :
              Cardinality(Later(v5, x)) <= Cardinality(UnitsAfter(Hybrid!evict(v2, t), x))
<1> DEFINE E == [timestamp_ms : Nat, count : Tokens]
<1> DEFINE K == {i \in DOMAIN v2 : v2[i].timestamp_ms + hybrid_window_ms > t}
<1> DEFINE d == Hybrid!evict(v2, t)
<1>1. d = FromFirst(v2, K)
  BY HybridSame DEF Hybrid!evict, Hybrid!DropFront
<1>2. /\ v1 \in Nat /\ v2 \in Seq(E) /\ hybrid_window_ms \in Nat /\ IsFiniteSet(Units(v2))
  BY HybridConstants DEF HybridTypes
<1>3. \A i \in DOMAIN v2 : v2[i].timestamp_ms \in Nat
  <2>1. DOMAIN v2 = 1 .. Len(v2) /\ \A i \in 1 .. Len(v2) : v2[i] \in E
    BY <1>2, ElementOfSeq, LenProperties
  <2> QED
    BY <2>1
<1>4. K \subseteq DOMAIN v2
  OBVIOUS
<1>5. \A i \in DOMAIN v2 : i \notin K => v2[i].timestamp_ms + hybrid_window_ms <= t
  BY <1>2, <1>3
<1> HIDE DEF K, E
<1>6. PICK n \in 0 .. Len(v2) :
        /\ FromFirst(v2, K) \in Seq(E) /\ Len(FromFirst(v2, K)) = Len(v2) - n
        /\ \A i \in 1 .. Len(v2) - n : FromFirst(v2, K)[i] = v2[n + i]
        /\ \A i \in 1 .. n : i \notin K
  BY <1>2, <1>4, FrontDropped
<1> HIDE DEF d
<1>7. /\ d \in Seq(E) /\ Len(d) = Len(v2) - n /\ \A i \in 1 .. Len(v2) - n : d[i] = v2[n + i]
  BY <1>1, <1>6
<1>8. \A i \in 1 .. n : i \in DOMAIN v2 /\ i \notin K
  BY <1>2, <1>6, LenProperties
<1>9. /\ IsFiniteSet(Units(d))
      /\ \A x \in Int : (\A i \in 1 .. n : ~(v2[i].timestamp_ms > x)) =>
           Cardinality(UnitsAfter(v2, x)) <= Cardinality(UnitsAfter(d, x))
  BY <1>2, <1>7, UnitsShift DEF E
<1>10. ASSUME NEW x \in v1 - hybrid_window_ms .. v1
       PROVE  Cardinality(Later(v5, x)) <= Cardinality(UnitsAfter(d, x))
  <2>1. \A i \in 1 .. n : ~(v2[i].timestamp_ms > x)
    <3> SUFFICES ASSUME NEW i \in 1 .. n
                 PROVE  ~(v2[i].timestamp_ms > x)
      OBVIOUS
    <3>1. v2[i].timestamp_ms + hybrid_window_ms <= t /\ v2[i].timestamp_ms \in Nat
      BY <1>3, <1>5, <1>8
    <3> QED
      BY <1>2, <3>1
  <2>2. x \in Int
    BY <1>2
  <2>3. Cardinality(Later(v5, x)) <= Cardinality(UnitsAfter(v2, x))
    BY DEF HybridCounted
  <2>4. Cardinality(UnitsAfter(v2, x)) <= Cardinality(UnitsAfter(d, x))
    BY <1>9, <2>1, <2>2
  <2>5. /\ Cardinality(UnitsAfter(v2, x)) \in Nat /\ Cardinality(UnitsAfter(d, x)) \in Nat
        /\ Cardinality(Later(v5, x)) \in Nat
    <3>1. UnitsAfter(v2, x) \subseteq Units(v2) /\ UnitsAfter(d, x) \subseteq Units(d)
      BY DEF UnitsAfter
    <3>2. Cardinality(UnitsAfter(v2, x)) \in Nat /\ Cardinality(UnitsAfter(d, x)) \in Nat
      BY <1>2, <1>9, <3>1, Fewer
    <3>3. v5 \in Seq(Nat)
      BY DEF HybridTypes
    <3>4. IsFiniteSet(DOMAIN v5) /\ Later(v5, x) \subseteq DOMAIN v5
      BY <3>3, LenProperties, FS_Interval DEF Later
    <3>5. Cardinality(Later(v5, x)) \in Nat
      BY <3>4, Fewer
    <3> QED
      BY <3>2, <3>5
  <2> QED
    BY <2>3, <2>4, <2>5
<1> QED
  BY <1>7, <1>9, <1>10 DEF d, E

(* rate_limiter_v2.rs TokenBucket: what a call at t finds. *)
LEMMA HybridRefills ==
  ASSUME Hybrid!HybridAssumption, HybridTypes, HybridPaid, NEW t \in Nat, t <= v1
  PROVE  /\ Hybrid!refilled(t) \in Nat /\ Hybrid!refilled(t) <= hybrid_capacity
         /\ Funded(v5, 1, hybrid_capacity, hybrid_refill, IF t > v4 THEN t ELSE v4,
                   Hybrid!refilled(t))
<1>1. /\ v1 \in Nat /\ v3 \in Nat /\ v4 \in Nat /\ v5 \in Seq(Nat) /\ v3 <= hybrid_capacity
      /\ hybrid_capacity \in Nat /\ hybrid_refill \in Nat
      /\ Funded(v5, 1, hybrid_capacity, hybrid_refill, v4, v3)
  BY HybridConstants DEF HybridTypes, HybridPaid
<1>2. CASE t > v4
  <2> DEFINE u == v3 + hybrid_refill * (t - v4)
  <2> DEFINE T == Hybrid!refilled(t)
  <2>1. u \in Nat
    <3>1. t - v4 \in Nat
      BY <1>1, <1>2
    <3> QED
      BY <1>1, <3>1
  <2>2. T = Hybrid!Least(u, hybrid_capacity)
    BY <1>2 DEF Hybrid!refilled
  <2>3. T \in Nat /\ T <= u /\ T <= hybrid_capacity
    <3> HIDE DEF u, T
    <3> QED
      BY <1>1, <2>1, <2>2 DEF Hybrid!Least
  <2>4. u = v3 + (t - v4) * hybrid_refill
    BY <1>1
  <2> HIDE DEF T
  <2>5. /\ T <= v3 + (t - v4) * hybrid_refill /\ v4 <= t /\ hybrid_refill <= hybrid_refill
        /\ 1 \in Nat
    BY <1>1, <1>2, <2>3, <2>4
  <2>6. Funded(v5, 1, hybrid_capacity, hybrid_refill, t, T)
    BY <1>1, <2>3, <2>5, Refills
  <2> QED
    BY <1>2, <2>3, <2>6 DEF T
<1>3. CASE ~(t > v4)
  BY <1>1, <1>3 DEF Hybrid!refilled
<1> QED
  BY <1>2, <1>3

LEMMA HybridCallTimes ==
  ASSUME Hybrid!HybridAssumption, HybridTypes, NEW t \in Hybrid!Monus(v1, hybrid_MaxLate) .. v1
  PROVE  t \in Nat /\ t <= v1 /\ v1 <= t + hybrid_MaxLate
BY HybridConstants DEF HybridTypes, Hybrid!Monus

(* The sequences of a call that is let through. *)
LEMMA HybridAppends ==
  ASSUME HybridTypes, NEW t \in Nat, NEW n \in Tokens, n \in Nat,
         NEW d \in Seq([timestamp_ms : Nat, count : Tokens])
  PROVE  /\ v2' = Append(d, [timestamp_ms |-> t, count |-> n]) =>
              /\ v2' \in Seq([timestamp_ms : Nat, count : Tokens]) /\ Len(v2') = Len(d) + 1
              /\ \A i \in 1 .. Len(d) : v2'[i] = d[i]
              /\ v2'[Len(d) + 1] = [timestamp_ms |-> t, count |-> n]
         /\ v5' = v5 \o [i \in 1 .. n |-> t] =>
              /\ v5' \in Seq(Nat) /\ Len(v5') = Len(v5) + n
              /\ \A i \in 1 .. Len(v5) : v5'[i] = v5[i]
              /\ \A i \in Len(v5) + 1 .. Len(v5) + n : v5'[i] = t
<1> DEFINE e == [timestamp_ms |-> t, count |-> n]
<1> DEFINE g == [i \in 1 .. n |-> t]
<1>1. e \in [timestamp_ms : Nat, count : Tokens]
  OBVIOUS
<1> HIDE DEF e
<1>2. /\ Append(d, e) \in Seq([timestamp_ms : Nat, count : Tokens])
      /\ Len(Append(d, e)) = Len(d) + 1
      /\ \A i \in 1 .. Len(d) : Append(d, e)[i] = d[i]
      /\ Append(d, e)[Len(d) + 1] = e
  BY <1>1, AppendProperties
<1>3. g \in Seq(Nat) /\ Len(g) = n /\ \A i \in 1 .. n : g[i] = t
  OBVIOUS
<1> HIDE DEF g
<1>4. v5 \in Seq(Nat) /\ Len(v5) \in Nat
  BY DEF HybridTypes
<1> DEFINE l == v5 \o g
<1>5. /\ l \in Seq(Nat) /\ Len(l) = Len(v5) + n
      /\ \A i \in 1 .. Len(v5) + n : l[i] = IF i <= Len(v5) THEN v5[i] ELSE g[i - Len(v5)]
  BY <1>3, <1>4, ConcatProperties
<1> HIDE DEF l
<1>6. ASSUME NEW i \in 1 .. Len(v5)
      PROVE  l[i] = v5[i]
  <2>1. i \in 1 .. Len(v5) + n /\ i <= Len(v5)
    BY <1>4
  <2> QED
    BY <1>5, <2>1
<1>7. ASSUME NEW i \in Len(v5) + 1 .. Len(v5) + n
      PROVE  l[i] = t
  <2>1. i \in 1 .. Len(v5) + n /\ ~(i <= Len(v5)) /\ i - Len(v5) \in 1 .. n
    BY <1>4
  <2> QED
    BY <1>3, <1>5, <2>1
<1>8. /\ l \in Seq(Nat) /\ Len(l) = Len(v5) + n
      /\ \A i \in 1 .. Len(v5) : l[i] = v5[i]
      /\ \A i \in Len(v5) + 1 .. Len(v5) + n : l[i] = t
  BY <1>5, <1>6, <1>7
<1> QED
  BY <1>2, <1>8 DEF e, g, l

HybridTakes(d, n, t) ==
  /\ v2' \in Seq([timestamp_ms : Nat, count : Tokens]) /\ Len(v2') = Len(d) + 1
  /\ \A i \in 1 .. Len(d) : v2'[i] = d[i]
  /\ v2'[Len(d) + 1] = [timestamp_ms |-> t, count |-> n]
  /\ v5' \in Seq(Nat) /\ Len(v5') = Len(v5) + n
  /\ \A i \in 1 .. Len(v5) : v5'[i] = v5[i]
  /\ \A i \in Len(v5) + 1 .. Len(v5) + n : v5'[i] = t

(* rate_limiter_v2.rs: the calls that both limits let through. *)
LEMMA HybridAllows ==
  ASSUME Hybrid!HybridAssumption, HybridTypes, HybridPaid, HybridWindow, HybridCounted,
         NEW n \in Tokens, NEW t \in Hybrid!Monus(v1, hybrid_MaxLate) .. v1,
         Hybrid!window_ok(t, n), Hybrid!try_consume(t, n), Hybrid!refilled(t) >= n,
         HybridTakes(Hybrid!evict(v2, t), n, t), v1' = v1
  PROVE  HybridTypes' /\ HybridPaid' /\ HybridWindow' /\ HybridCounted'
<1> DEFINE E == [timestamp_ms : Nat, count : Tokens]
<1> DEFINE d == Hybrid!evict(v2, t)
<1> DEFINE T == Hybrid!refilled(t)
<1> DEFINE W == hybrid_window_ms
<1> DEFINE L == hybrid_MaxLate
<1> DEFINE at == IF t > v4 THEN t ELSE v4
<1>1. t \in Nat /\ t <= v1 /\ v1 <= t + L /\ n \in Nat
  BY HybridCallTimes, HybridConstants
<1>2. /\ v1 \in Nat /\ v4 \in Nat /\ v5 \in Seq(Nat) /\ v4 <= v1 /\ W \in Nat /\ L \in Nat
      /\ hybrid_capacity \in Nat /\ hybrid_refill \in Nat /\ window_max \in Nat
  BY HybridConstants DEF HybridTypes
<1>3. /\ d \in Seq(E) /\ IsFiniteSet(Units(d))
      /\ \A x \in v1 - W .. v1 : Cardinality(Later(v5, x)) <= Cardinality(UnitsAfter(d, x))
  BY <1>1, HybridDrops
<1>4. /\ T \in Nat /\ T <= hybrid_capacity
      /\ Funded(v5, 1, hybrid_capacity, hybrid_refill, at, T)
  BY <1>1, HybridRefills
<1>5. v4' = at /\ v3' = T - n /\ n <= T
  BY <1>1, <1>4 DEF Hybrid!try_consume
<1>6. Cardinality(Units(d)) + n <= window_max
  BY HybridSame DEF Hybrid!window_ok, Hybrid!sum_counts
<1>7. /\ v2' \in Seq(E) /\ Len(v2') = Len(d) + 1 /\ \A i \in 1 .. Len(d) : v2'[i] = d[i]
      /\ v2'[Len(d) + 1] = [timestamp_ms |-> t, count |-> n]
  BY DEF HybridTakes
<1>8. /\ v5' \in Seq(Nat) /\ Len(v5') = Len(v5) + n /\ Len(v5) \in Nat
      /\ DOMAIN v5 = 1 .. Len(v5) /\ DOMAIN v5' = 1 .. Len(v5) + n
      /\ \A i \in 1 .. Len(v5) : v5'[i] = v5[i]
      /\ \A i \in Len(v5) + 1 .. Len(v5) + n : v5'[i] = t
  BY <1>2, LenProperties DEF HybridTakes
<1> HIDE DEF d, T, E, W, L, at
<1>9. /\ IsFiniteSet(Units(v2')) /\ Cardinality(Units(v2')) = Cardinality(Units(d)) + n
      /\ \A x \in Int :
           /\ x < t => Cardinality(UnitsAfter(v2', x)) = Cardinality(UnitsAfter(d, x)) + n
           /\ x >= t => Cardinality(UnitsAfter(v2', x)) = Cardinality(UnitsAfter(d, x))
  <2>1. PICK s, s2 : s = d /\ s2 = v2'
    OBVIOUS
  <2>2. UnitsMore(Tokens, s, s2, t, n)
    BY <1>1, <1>3, <1>7, <2>1 DEF E, UnitsMore
  <2>3. /\ IsFiniteSet(Units(s2)) /\ Cardinality(Units(s2)) = Cardinality(Units(s)) + n
        /\ \A x \in Int :
             /\ x < t => Cardinality(UnitsAfter(s2, x)) = Cardinality(UnitsAfter(s, x)) + n
             /\ x >= t => Cardinality(UnitsAfter(s2, x)) = Cardinality(UnitsAfter(s, x))
    BY <2>2, UnitsAppended
  <2> QED
    BY <2>1, <2>3
<1>10. \A x \in Int :
         /\ Cardinality(Later(v5, x)) \in Nat /\ Cardinality(Later(v5', x)) \in Nat
         /\ IsFiniteSet(Later(v5', x))
         /\ x < t => Cardinality(Later(v5', x)) = Cardinality(Later(v5, x)) + n
         /\ x >= t => Cardinality(Later(v5', x)) = Cardinality(Later(v5, x))
  <2> SUFFICES ASSUME NEW x \in Int
               PROVE  /\ Cardinality(Later(v5, x)) \in Nat /\ Cardinality(Later(v5', x)) \in Nat
                      /\ IsFiniteSet(Later(v5', x))
                      /\ x < t => Cardinality(Later(v5', x)) = Cardinality(Later(v5, x)) + n
                      /\ x >= t => Cardinality(Later(v5', x)) = Cardinality(Later(v5, x))
    OBVIOUS
  <2>1. PICK l, l2 : l = v5 /\ l2 = v5'
    OBVIOUS
  <2>2. /\ l \in Seq(Nat) /\ l2 \in Seq(Nat) /\ n \in Nat /\ Len(l2) = Len(l) + n
        /\ \A i \in 1 .. Len(l) : l2[i] = l[i]
        /\ t \in Nat /\ \A i \in Len(l) + 1 .. Len(l) + n : l2[i] = t
    BY <1>1, <1>2, <1>8, <2>1
  <2>3. /\ IsFiniteSet(Later(l2, x)) /\ Cardinality(Later(l2, x)) \in Nat
        /\ Cardinality(Later(l, x)) \in Nat
    BY <2>2, LaterIs
  <2>4. x < t => Cardinality(Later(l2, x)) = Cardinality(Later(l, x)) + n
    BY <2>2, LaterMore
  <2>5. x >= t => Later(l2, x) = Later(l, x)
    BY <2>2, LaterSame
  <2> QED
    BY <2>1, <2>3, <2>4, <2>5
<1>11. \A x \in Int : /\ Cardinality(UnitsAfter(d, x)) \in Nat
                      /\ Cardinality(UnitsAfter(v2', x)) \in Nat
                      /\ Cardinality(UnitsAfter(v2', x)) <= Cardinality(Units(v2'))
                      /\ Cardinality(Units(v2')) \in Nat /\ Cardinality(Units(d)) \in Nat
  <2> SUFFICES ASSUME NEW x \in Int
               PROVE  /\ Cardinality(UnitsAfter(d, x)) \in Nat
                      /\ Cardinality(UnitsAfter(v2', x)) \in Nat
                      /\ Cardinality(UnitsAfter(v2', x)) <= Cardinality(Units(v2'))
                      /\ Cardinality(Units(v2')) \in Nat /\ Cardinality(Units(d)) \in Nat
    OBVIOUS
  <2>1. UnitsAfter(d, x) \subseteq Units(d) /\ UnitsAfter(v2', x) \subseteq Units(v2')
    BY DEF UnitsAfter
  <2> QED
    BY <1>3, <1>9, <2>1, Fewer
<1>12. ASSUME NEW x \in v1 - W .. v1
       PROVE  Cardinality(Later(v5', x)) <= Cardinality(UnitsAfter(v2', x))
  <2>1. x \in Int /\ Cardinality(Later(v5, x)) <= Cardinality(UnitsAfter(d, x))
    BY <1>2, <1>3
  <2>2. CASE x < t
    <3>1. /\ Cardinality(Later(v5', x)) = Cardinality(Later(v5, x)) + n
          /\ Cardinality(UnitsAfter(v2', x)) = Cardinality(UnitsAfter(d, x)) + n
          /\ Cardinality(Later(v5, x)) \in Nat /\ Cardinality(UnitsAfter(d, x)) \in Nat
      BY <1>9, <1>10, <1>11, <2>1, <2>2
    <3> QED
      BY <1>1, <2>1, <3>1
  <2>3. CASE x >= t
    BY <1>9, <1>10, <2>1, <2>3
  <2> QED
    BY <1>1, <2>1, <2>2, <2>3
<1>13. HybridCounted'
  BY <1>12 DEF HybridCounted, W
<1>14. ASSUME NEW a \in Nat, t < a + (W - L)
       PROVE  Within(v5', a, W - L) <= window_max
  <2> DEFINE S == {j \in DOMAIN v5' : v5'[j] >= a /\ v5'[j] < a + (W - L)}
  <2> DEFINE x == v1 - W
  <2>1. Within(v5', a, W - L) = Cardinality(S)
    BY DEF Within
  <2>2. \A j \in 1 .. Len(v5) + n : v5'[j] \in Nat
    BY <1>8, ElementOfSeq
  <2>3. x \in v1 - W .. v1 /\ x \in Int /\ a > x
    BY <1>1, <1>2, <1>14
  <2>4. S \subseteq Later(v5', x)
    BY <1>8, <2>2, <2>3 DEF Later
  <2> HIDE DEF S, x
  <2>5. IsFiniteSet(Later(v5', x)) /\ Cardinality(Later(v5', x)) \in Nat
    BY <1>10, <2>3
  <2>6. Cardinality(S) <= Cardinality(Later(v5', x)) /\ Cardinality(S) \in Nat
    BY <2>4, <2>5, Fewer
  <2>7. Cardinality(Later(v5', x)) <= Cardinality(UnitsAfter(v2', x))
    BY <1>12, <2>3
  <2>8. /\ Cardinality(UnitsAfter(v2', x)) <= Cardinality(Units(v2'))
        /\ Cardinality(UnitsAfter(v2', x)) \in Nat /\ Cardinality(Units(v2')) \in Nat
    BY <1>11, <2>3
  <2>9. Cardinality(Units(v2')) <= window_max
    BY <1>6, <1>9
  <2> QED
    BY <1>2, <2>1, <2>5, <2>6, <2>7, <2>8, <2>9
<1>15. HybridWindow'
  <2>1. PICK l, l2 : l = v5 /\ l2 = v5'
    OBVIOUS
  <2>2. /\ l \in Seq(Nat) /\ l2 \in Seq(Nat) /\ n \in Nat /\ Len(l2) = Len(l) + n
        /\ \A i \in 1 .. Len(l) : l2[i] = l[i]
        /\ t \in Nat /\ \A i \in Len(l) + 1 .. Len(l) + n : l2[i] = t
    BY <1>1, <1>2, <1>8, <2>1
  <2>3. W - L \in Int /\ window_max \in Nat /\ AtMost(l, W - L, window_max)
    BY <1>2, <2>1 DEF HybridWindow, W, L
  <2>4. \A a \in Nat : t < a + (W - L) => Within(l2, a, W - L) <= window_max
    BY <1>14, <2>1
  <2>5. AtMost(l2, W - L, window_max)
    BY <2>2, <2>3, <2>4, WindowStays
  <2> QED
    BY <2>1, <2>5 DEF HybridWindow, W, L
<1>16. HybridPaid'
  <2>1. /\ PaidFor(v5, 1, hybrid_capacity + hybrid_refill * L, hybrid_refill)
        /\ at \in Nat /\ t <= at /\ at <= t + L /\ n * 1 <= T /\ 1 \in Nat /\ n * 1 = n
    BY <1>1, <1>2, <1>5 DEF HybridPaid, L, at
  <2>2. /\ Funded(v5', 1, hybrid_capacity, hybrid_refill, at, T - n * 1)
        /\ PaidFor(v5', 1, hybrid_capacity + hybrid_refill * L, hybrid_refill)
    <3>1. PICK l, l2 : l = v5 /\ l2 = v5'
      OBVIOUS
    <3>2. /\ l \in Seq(Nat) /\ l2 \in Seq(Nat) /\ Len(l2) = Len(l) + n /\ n \in Nat
          /\ \A i \in 1 .. Len(l) : l2[i] = l[i]
          /\ \A i \in Len(l) + 1 .. Len(l) + n : l2[i] = t
          /\ t \in Nat /\ L \in Nat /\ hybrid_capacity \in Nat /\ hybrid_refill \in Nat
          /\ T \in Nat /\ T <= hybrid_capacity
          /\ Funded(l, 1, hybrid_capacity, hybrid_refill, at, T)
          /\ PaidFor(l, 1, hybrid_capacity + hybrid_refill * L, hybrid_refill)
      BY <1>1, <1>2, <1>4, <1>8, <2>1, <3>1
    <3>3. /\ Funded(l2, 1, hybrid_capacity, hybrid_refill, at, T - n * 1)
          /\ PaidFor(l2, 1, hybrid_capacity + hybrid_refill * L, hybrid_refill)
      BY <2>1, <3>2, Spends
    <3> QED
      BY <3>1, <3>3
  <2> QED
    BY <1>5, <2>1, <2>2 DEF HybridPaid, L
<1>17. HybridTypes'
  <2>1. v4' \in Nat /\ v4' <= v1' /\ v3' \in Nat /\ v3' <= hybrid_capacity
    <3>1. at \in Nat /\ at <= v1
      BY <1>1, <1>2 DEF at
    <3>2. v1' = v1
      OBVIOUS
    <3>3. T - n \in Nat /\ T - n <= hybrid_capacity
      BY <1>1, <1>2, <1>4, <1>5
    <3> QED
      BY <1>5, <3>1, <3>2, <3>3
  <2> QED
    BY <1>2, <1>7, <1>8, <1>9, <2>1 DEF HybridTypes, E
<1> QED
  BY <1>13, <1>15, <1>16, <1>17

(* rate_limiter_v2.rs try_allow: refused by the window or by the bucket, or   *)
(* let through by both.                                                       *)
LEMMA HybridChecks ==
  ASSUME Hybrid!HybridAssumption, HybridTypes, HybridPaid, HybridWindow, HybridCounted,
         NEW n \in Tokens, NEW t \in Hybrid!Monus(v1, hybrid_MaxLate) .. v1, Hybrid!check(t, n)
  PROVE  HybridTypes' /\ HybridPaid' /\ HybridWindow' /\ HybridCounted'
<1> DEFINE d == Hybrid!evict(v2, t)
<1> DEFINE at == IF t > v4 THEN t ELSE v4
<1>1. t \in Nat /\ t <= v1 /\ n \in Nat /\ v1' = v1 /\ v4 \in Nat /\ v4 <= v1
  BY HybridCallTimes, HybridConstants DEF Hybrid!check, HybridTypes
<1>2. /\ d \in Seq([timestamp_ms : Nat, count : Tokens]) /\ IsFiniteSet(Units(d))
      /\ \A x \in v1 - hybrid_window_ms .. v1 :
           Cardinality(Later(v5, x)) <= Cardinality(UnitsAfter(d, x))
  BY <1>1, HybridDrops
<1>3. /\ Hybrid!refilled(t) \in Nat /\ Hybrid!refilled(t) <= hybrid_capacity
      /\ Funded(v5, 1, hybrid_capacity, hybrid_refill, at, Hybrid!refilled(t))
  BY <1>1, HybridRefills
<1>4. at \in Nat /\ at <= v1
  BY <1>1
<1> HIDE DEF d, at
<1>5. ASSUME v2' = d, v5' = v5
      PROVE  HybridWindow' /\ HybridCounted'
  BY <1>1, <1>2, <1>5 DEF HybridWindow, HybridCounted
<1>6. CASE ~Hybrid!window_ok(t, n)
  <2>1. v2' = d /\ v5' = v5 /\ v3' = v3 /\ v4' = v4
    BY <1>6 DEF Hybrid!check, d
  <2>2. HybridTypes' /\ HybridPaid'
    BY <1>1, <1>2, <2>1 DEF HybridTypes, HybridPaid
  <2> QED
    BY <1>5, <2>1, <2>2
<1>7. CASE Hybrid!window_ok(t, n) /\ Hybrid!refilled(t) < n
  <2>1. v2' = d /\ v5' = v5 /\ v3' = Hybrid!refilled(t) /\ v4' = at
    BY <1>1, <1>3, <1>7 DEF Hybrid!check, Hybrid!try_consume, d, at
  <2>2. HybridTypes' /\ HybridPaid'
    BY <1>1, <1>2, <1>3, <1>4, <2>1 DEF HybridTypes, HybridPaid
  <2> QED
    BY <1>5, <2>1, <2>2
<1>8. CASE Hybrid!window_ok(t, n) /\ ~(Hybrid!refilled(t) < n)
  <2>1. /\ Hybrid!try_consume(t, n) /\ Hybrid!refilled(t) >= n
        /\ v2' = Append(d, [timestamp_ms |-> t, count |-> n])
        /\ v5' = v5 \o [i \in 1 .. n |-> t]
    BY <1>8 DEF Hybrid!check, d
  <2>2. HybridTakes(d, n, t)
    <3>1. /\ v2' \in Seq([timestamp_ms : Nat, count : Tokens]) /\ Len(v2') = Len(d) + 1
          /\ \A i \in 1 .. Len(d) : v2'[i] = d[i]
          /\ v2'[Len(d) + 1] = [timestamp_ms |-> t, count |-> n]
      BY <1>1, <1>2, <2>1, HybridAppends
    <3>2. /\ v5' \in Seq(Nat) /\ Len(v5') = Len(v5) + n
          /\ \A i \in 1 .. Len(v5) : v5'[i] = v5[i]
          /\ \A i \in Len(v5) + 1 .. Len(v5) + n : v5'[i] = t
      BY <1>1, <1>2, <2>1, HybridAppends
    <3> QED
      BY <3>1, <3>2 DEF HybridTakes
  <2> QED
    BY <1>1, <1>8, <2>1, <2>2, HybridAllows DEF d
<1> QED
  BY <1>6, <1>7, <1>8

LEMMA HybridTicks ==
  ASSUME Hybrid!HybridAssumption, HybridTypes, HybridPaid, HybridWindow, HybridCounted,
         v1' = v1 + 1, v2' = v2, v3' = v3, v4' = v4, v5' = v5
  PROVE  HybridTypes' /\ HybridPaid' /\ HybridWindow' /\ HybridCounted'
<1>1. /\ v1 \in Nat /\ v4 \in Nat /\ v4 <= v1 /\ v5 \in Seq(Nat) /\ hybrid_window_ms \in Nat
      /\ IsFiniteSet(Units(v2))
  BY HybridConstants DEF HybridTypes
<1>2. HybridTypes' /\ HybridPaid' /\ HybridWindow'
  BY <1>1 DEF HybridTypes, HybridPaid, HybridWindow
<1>3. ASSUME NEW x \in (v1 + 1) - hybrid_window_ms .. v1 + 1
      PROVE  Cardinality(Later(v5, x)) <= Cardinality(UnitsAfter(v2, x))
  <2>1. CASE x <= v1
    <3>1. x \in v1 - hybrid_window_ms .. v1
      BY <1>1, <2>1
    <3> QED
      BY <3>1 DEF HybridCounted
  <2>2. CASE ~(x <= v1)
    <3>1. x = v1 + 1
      BY <1>1, <2>2
    <3>2. \A i \in DOMAIN v5 : v5[i] <= v4 /\ v5[i] \in Nat
      <4>1. \A i \in DOMAIN v5 : v5[i] \in Nat
        BY <1>1, ElementOfSeq, LenProperties
      <4> QED
        BY <4>1 DEF HybridPaid, Funded
    <3>3. Later(v5, x) = {}
      BY <1>1, <3>1, <3>2 DEF Later
    <3>4. UnitsAfter(v2, x) \subseteq Units(v2)
      BY DEF UnitsAfter
    <3>5. Cardinality(UnitsAfter(v2, x)) \in Nat
      BY <1>1, <3>4, Fewer
    <3>6. Cardinality(Later(v5, x)) = 0
      BY <3>3, FS_EmptySet
    <3> QED
      BY <3>5, <3>6
  <2> QED
    BY <2>1, <2>2
<1>4. HybridCounted'
  BY <1>3 DEF HybridCounted
<1> QED
  BY <1>2, <1>4

LEMMA HybridStarts ==
  ASSUME Hybrid!HybridAssumption
  PROVE  /\ v1 \in Nat /\ v2 = <<>> /\ v3 = hybrid_capacity /\ v4 = 0 /\ v5 = <<>> =>
              HybridTypes /\ HybridPaid /\ HybridWindow /\ HybridCounted
         /\ (v1 \in Nat /\ v2 = <<>> /\ v3 = hybrid_capacity /\ v4 = 0 /\ v5 = <<>> =>
              HybridTypes /\ HybridPaid /\ HybridWindow /\ HybridCounted)'
<1>1. ASSUME v1 \in Nat, v2 = <<>>, v3 = hybrid_capacity, v4 = 0, v5 = <<>>
      PROVE  HybridTypes /\ HybridPaid /\ HybridWindow /\ HybridCounted
  <2>1. v5 \in Seq(Nat) /\ DOMAIN v5 = {} /\ Len(v5) = 0
    BY <1>1, EmptySeq
  <2>2. v2 \in Seq([timestamp_ms : Nat, count : Tokens]) /\ DOMAIN v2 = {}
    BY <1>1, EmptySeq
  <2>3. Units(v2) = {}
    BY <2>2 DEF Units
  <2>4. IsFiniteSet(Units(v2))
    BY <2>3, FS_EmptySet
  <2>5. HybridTypes
    BY <1>1, <2>1, <2>2, <2>4, HybridConstants DEF HybridTypes
  <2>6. HybridPaid /\ HybridWindow
    BY <2>1 DEF HybridPaid, HybridWindow, Funded, PaidFor, AtMost
  <2>7. \A x : Later(v5, x) = {} /\ UnitsAfter(v2, x) = {}
    BY <2>1, <2>3 DEF Later, UnitsAfter
  <2>8. HybridCounted
    BY <2>7, FS_EmptySet DEF HybridCounted
  <2> QED
    BY <2>5, <2>6, <2>8
<1>2. v1 \in Nat /\ v2 = <<>> /\ v3 = hybrid_capacity /\ v4 = 0 /\ v5 = <<>> =>
        HybridTypes /\ HybridPaid /\ HybridWindow /\ HybridCounted
  BY <1>1
<1> QED
  BY <1>2, PTL

LEMMA HybridInit ==
  ASSUME Hybrid!HybridAssumption, Hybrid!Init
  PROVE  Hybrid!IInv
<1>1. v1 \in Nat /\ v2 = <<>> /\ v3 = hybrid_capacity /\ v4 = 0 /\ v5 = <<>>
  BY DEF Hybrid!Init
<1> QED
  BY <1>1, HybridStarts, HybridParts

LEMMA HybridStep ==
  ASSUME Hybrid!HybridAssumption, Hybrid!IInv, [Hybrid!Next]_(Hybrid!vars)
  PROVE  Hybrid!IInv'
<1>1. HybridTypes /\ HybridPaid /\ HybridWindow /\ HybridCounted
  BY HybridParts
<1>2. CASE UNCHANGED Hybrid!vars
  <2>1. v1' = v1 /\ v2' = v2 /\ v3' = v3 /\ v4' = v4 /\ v5' = v5
    BY <1>2 DEF Hybrid!vars
  <2>2. HybridTypes' /\ HybridPaid' /\ HybridWindow' /\ HybridCounted'
    BY <1>1, <2>1 DEF HybridTypes, HybridPaid, HybridWindow, HybridCounted
  <2> QED
    BY <2>2, HybridParts
<1>3. CASE Hybrid!Tick
  <2>1. v1' = v1 + 1 /\ v2' = v2 /\ v3' = v3 /\ v4' = v4 /\ v5' = v5
    BY <1>3 DEF Hybrid!Tick
  <2> QED
    BY <1>1, <2>1, HybridTicks, HybridParts
<1>4. CASE Hybrid!register_client
  <2>1. v1' \in Nat /\ v2' = <<>> /\ v3' = hybrid_capacity /\ v4' = 0 /\ v5' = <<>>
    BY <1>1, <1>4 DEF Hybrid!register_client, HybridTypes
  <2>2. HybridTypes' /\ HybridPaid' /\ HybridWindow' /\ HybridCounted'
    BY <2>1, HybridStarts
  <2> QED
    BY <2>2, HybridParts
<1>5. ASSUME NEW n \in Tokens, NEW t \in Hybrid!Monus(v1, hybrid_MaxLate) .. v1,
             Hybrid!check(t, n)
      PROVE  Hybrid!IInv'
  BY <1>1, <1>5, HybridChecks, HybridParts
<1> QED
  BY <1>2, <1>3, <1>4, <1>5 DEF Hybrid!Next

(* What the buckets count, one unit a call. *)
Tally(c) == UNION {{b} \X (1 .. c[b]) : b \in DOMAIN c}
TallyAfter(c, x) == {u \in Tally(c) : u[1] > x}

LEMMA TallyIs ==
  ASSUME NEW c, NEW u
  PROVE  u \in Tally(c) <=> \E b \in DOMAIN c : \E k \in 1 .. c[b] : u = <<b, k>>
BY DEF Tally

LEMMA TallyAdded ==
  ASSUME NEW c, NEW r, NEW b \in Nat, NEW m \in Nat, DOMAIN r = DOMAIN c \cup {b},
         \A x \in DOMAIN c : x # b => r[x] = c[x], r[b] = m + 1,
         IF b \in DOMAIN c THEN c[b] = m ELSE m = 0
  PROVE  Tally(r) = Tally(c) \cup {<<b, m + 1>>} /\ <<b, m + 1>> \notin Tally(c)
<1> DEFINE e == <<b, m + 1>>
<1>1. e \notin Tally(c)
  <2> SUFFICES ASSUME e \in Tally(c)
               PROVE  FALSE
    OBVIOUS
  <2>1. PICK y \in DOMAIN c : \E k \in 1 .. c[y] : e = <<y, k>>
    BY TallyIs
  <2>2. PICK k \in 1 .. c[y] : e = <<y, k>>
    BY <2>1
  <2>3. y = b /\ k = m + 1
    BY <2>2
  <2>4. c[b] = m /\ m + 1 \in 1 .. c[b]
    BY <2>3
  <2> QED
    BY <2>4
<1>2. ASSUME NEW u \in Tally(r)
      PROVE  u \in Tally(c) \cup {e}
  <2>1. PICK y \in DOMAIN r : \E k \in 1 .. r[y] : u = <<y, k>>
    BY TallyIs
  <2>2. PICK k \in 1 .. r[y] : u = <<y, k>>
    BY <2>1
  <2>3. CASE y # b
    <3>1. y \in DOMAIN c /\ k \in 1 .. c[y]
      BY <2>3
    <3> QED
      BY <2>2, <3>1, TallyIs
  <2>4. CASE y = b /\ k = m + 1
    BY <2>2, <2>4
  <2>5. CASE y = b /\ k # m + 1
    <3>1. k \in 1 .. m + 1
      BY <2>5
    <3>2. k \in 1 .. m
      BY <2>5, <3>1
    <3>3. b \in DOMAIN c /\ k \in 1 .. c[b] /\ u = <<b, k>>
      BY <2>2, <2>5, <3>2
    <3> QED
      BY <3>3, TallyIs
  <2> QED
    BY <2>3, <2>4, <2>5
<1>3. ASSUME NEW u \in Tally(c)
      PROVE  u \in Tally(r)
  <2>1. PICK y \in DOMAIN c : \E k \in 1 .. c[y] : u = <<y, k>>
    BY TallyIs
  <2>2. PICK k \in 1 .. c[y] : u = <<y, k>>
    BY <2>1
  <2>3. y \in DOMAIN r /\ k \in 1 .. r[y]
    <3>1. CASE y # b
      BY <3>1
    <3>2. CASE y = b
      <4>1. k \in 1 .. m /\ r[y] = m + 1
        BY <3>2
      <4> QED
        BY <4>1
    <3> QED
      BY <3>1, <3>2
  <2> QED
    BY <2>2, <2>3, TallyIs
<1>4. e \in Tally(r)
  <2>1. b \in DOMAIN r /\ m + 1 \in 1 .. r[b]
    OBVIOUS
  <2> QED
    BY <2>1, TallyIs
<1> HIDE DEF e
<1>5. Tally(r) = Tally(c) \cup {e}
  BY <1>2, <1>3, <1>4
<1> QED
  BY <1>1, <1>5 DEF e

LEMMA OneMore ==
  ASSUME NEW S, IsFiniteSet(S), NEW e, e \notin S
  PROVE  IsFiniteSet(S \cup {e}) /\ Cardinality(S \cup {e}) = Cardinality(S) + 1
         /\ Cardinality(S) \in Nat
BY FS_AddElement, FS_CardinalityType

CounterStart(t) == (t \div Counter!bucket_ms) * Counter!bucket_ms
Begun(log, x) == {i \in DOMAIN log : CounterStart(log[i]) > x}

CounterTypes ==
  /\ v1 \in Nat /\ v3 \in Seq(Nat)
  /\ v2 = [b \in DOMAIN v2 |-> v2[b]] /\ DOMAIN v2 \subseteq Nat
  /\ \A b \in DOMAIN v2 : v2[b] \in Nat
  /\ IsFiniteSet(Tally(v2))
  /\ \A i \in DOMAIN v3 : v3[i] \in Counter!bucket_ms .. v1

CounterSpan == counter_window_ms - Counter!bucket_ms + 1 - counter_MaxLate

CounterWindow == AtMost(v3, CounterSpan, counter_max_requests)

CounterCounted ==
  \A x \in Counter!Monus(v1, counter_window_ms) .. v1 :
    Cardinality(Begun(v3, x)) <= Cardinality(TallyAfter(v2, x))

LEMMA CounterSame ==
  /\ \A S : Counter!Cardinality(S) = Cardinality(S)
  /\ \A S : Counter!IsFiniteSet(S) <=> IsFiniteSet(S)
  /\ \A l, span, most : Counter!AtMost(l, span, most) <=> AtMost(l, span, most)
  /\ \A c : Counter!Calls(c) = Tally(c)
<1>1. \A S : Counter!Cardinality(S) = Cardinality(S)
  BY DEF Counter!Cardinality, Cardinality
<1>2. \A l, from, span : Counter!Within(l, from, span) = Within(l, from, span)
  BY <1>1 DEF Counter!Within, Within
<1>3. \A l, span, most : Counter!AtMost(l, span, most) <=> AtMost(l, span, most)
  BY <1>2 DEF Counter!AtMost, AtMost
<1>4. \A S : Counter!IsFiniteSet(S) <=> IsFiniteSet(S)
  BY DEF Counter!IsFiniteSet, IsFiniteSet
<1>5. \A c : Counter!Calls(c) = Tally(c)
  BY DEF Counter!Calls, Tally
<1> QED
  BY <1>1, <1>3, <1>4, <1>5

LEMMA CounterParts ==
  /\ Counter!IInv <=> CounterTypes /\ CounterWindow /\ CounterCounted
  /\ (Counter!IInv <=> CounterTypes /\ CounterWindow /\ CounterCounted)'
<1>1. Counter!IInv <=> CounterTypes /\ CounterWindow /\ CounterCounted
  BY CounterSame DEF Counter!IInv, Counter!Held, CounterTypes, CounterWindow, CounterCounted,
     CounterSpan, Begun, TallyAfter, CounterStart, Counter!bucket_start
<1> QED
  BY <1>1, PTL

LEMMA CounterConstants ==
  ASSUME Counter!CounterAssumption
  PROVE  /\ counter_window_ms \in Nat /\ counter_max_requests \in Nat
         /\ counter_MaxLate \in Nat /\ Counter!bucket_ms \in Nat /\ Counter!bucket_ms > 0
<1>1. /\ counter_window_ms \in Nat /\ counter_max_requests \in Nat
      /\ counter_MaxLate \in Nat /\ sub_windows \in Nat \ {0}
  BY DEF Counter!CounterAssumption
<1> DEFINE w == counter_window_ms \div sub_windows
<1>2. w \in Nat
  BY <1>1, QuotientBounds
<1>3. Counter!bucket_ms = IF w = 0 THEN 1 ELSE w
  BY DEF Counter!bucket_ms
<1> HIDE DEF w
<1> QED
  BY <1>1, <1>2, <1>3

LEMMA CounterStarts ==
  ASSUME Counter!CounterAssumption, NEW t \in Nat
  PROVE  CounterStart(t) \in Nat /\ CounterStart(t) <= t /\ t < CounterStart(t) + Counter!bucket_ms
<1> DEFINE B == Counter!bucket_ms
<1>1. B \in Nat \ {0}
  BY CounterConstants
<1> HIDE DEF B
<1>2. t \div B \in Nat /\ (t \div B) * B <= t /\ t < (t \div B) * B + B
  BY <1>1, QuotientBounds
<1> DEFINE q == t \div B
<1> HIDE DEF q
<1>3. q \in Nat /\ q * B <= t /\ t < q * B + B /\ q * B \in Nat
  <2>1. q \in Nat /\ q * B <= t /\ t < q * B + B
    BY <1>2 DEF q
  <2> QED
    BY <1>1, <2>1
<1> QED
  BY <1>3 DEF CounterStart, q, B

(* sliding_window_counter.rs evict_stale: no bucket of the last window is     *)
(* dropped.                                                                   *)
LEMMA CounterDrops ==
  ASSUME Counter!CounterAssumption, CounterTypes, NEW t \in Nat, t <= v1
  PROVE  /\ DOMAIN Counter!evict_stale(t) \subseteq DOMAIN v2
         /\ \A b \in DOMAIN Counter!evict_stale(t) : Counter!evict_stale(t)[b] = v2[b]
         /\ Counter!evict_stale(t)
              = [b \in DOMAIN Counter!evict_stale(t) |-> Counter!evict_stale(t)[b]]
         /\ IsFiniteSet(Tally(Counter!evict_stale(t)))
         /\ \A x \in Counter!Monus(v1, counter_window_ms) .. v1 :
              TallyAfter(Counter!evict_stale(t), x) = TallyAfter(v2, x)
<1> DEFINE d == Counter!evict_stale(t)
<1> DEFINE D == {x \in DOMAIN v2 : x > Counter!Monus(t, counter_window_ms)}
<1>1. d = [b \in D |-> v2[b]]
  BY DEF Counter!evict_stale
<1>2. DOMAIN d = D /\ \A b \in D : d[b] = v2[b]
  BY <1>1
<1>3. d = [b \in DOMAIN d |-> d[b]]
  BY <1>1
<1>4. D \subseteq DOMAIN v2
  OBVIOUS
<1>5. v1 \in Nat /\ counter_window_ms \in Nat /\ DOMAIN v2 \subseteq Nat /\ IsFiniteSet(Tally(v2))
  BY CounterConstants DEF CounterTypes
<1>6. \A x \in Int : x >= Counter!Monus(v1, counter_window_ms) =>
        \A b \in DOMAIN v2 : b > x => b \in D
  BY <1>5 DEF Counter!Monus
<1>7. Counter!Monus(v1, counter_window_ms) \in Nat
  BY <1>5 DEF Counter!Monus
<1> HIDE DEF d, D
<1>8. Tally(d) \subseteq Tally(v2)
  <2> SUFFICES ASSUME NEW u \in Tally(d)
               PROVE  u \in Tally(v2)
    OBVIOUS
  <2>1. PICK b \in DOMAIN d : \E k \in 1 .. d[b] : u = <<b, k>>
    BY TallyIs
  <2>2. PICK k \in 1 .. d[b] : u = <<b, k>>
    BY <2>1
  <2>3. b \in DOMAIN v2 /\ k \in 1 .. v2[b]
    BY <1>2, <1>4
  <2> QED
    BY <2>2, <2>3, TallyIs
<1>9. IsFiniteSet(Tally(d))
  BY <1>5, <1>8, Fewer
<1>10. ASSUME NEW x \in Counter!Monus(v1, counter_window_ms) .. v1
       PROVE  TallyAfter(d, x) = TallyAfter(v2, x)
  <2>1. x \in Int /\ x >= Counter!Monus(v1, counter_window_ms)
    BY <1>5, <1>7
  <2>2. ASSUME NEW u \in Tally(v2), u[1] > x
        PROVE  u \in Tally(d)
    <3>1. PICK b \in DOMAIN v2 : \E k \in 1 .. v2[b] : u = <<b, k>>
      BY TallyIs
    <3>2. PICK k \in 1 .. v2[b] : u = <<b, k>>
      BY <3>1
    <3>3. b > x
      BY <2>2, <3>2
    <3>4. b \in D
      BY <1>6, <2>1, <3>3
    <3>5. b \in DOMAIN d /\ k \in 1 .. d[b]
      BY <1>2, <3>4
    <3> QED
      BY <3>2, <3>5, TallyIs
  <2> QED
    BY <1>8, <2>2 DEF TallyAfter
<1> QED
  BY <1>2, <1>3, <1>4, <1>9, <1>10 DEF d

(* sliding_window_counter.rs record: one unit more, in the bucket of the time. *)
LEMMA CounterRecords ==
  ASSUME Counter!CounterAssumption, CounterTypes, NEW t \in Nat,
         NEW c, IsFiniteSet(Tally(c)), DOMAIN c \subseteq Nat, \A b \in DOMAIN c : c[b] \in Nat
  PROVE  /\ Counter!record(c, t) = [b \in DOMAIN Counter!record(c, t) |-> Counter!record(c, t)[b]]
         /\ DOMAIN Counter!record(c, t) \subseteq Nat
         /\ \A b \in DOMAIN Counter!record(c, t) : Counter!record(c, t)[b] \in Nat
         /\ IsFiniteSet(Tally(Counter!record(c, t)))
         /\ Cardinality(Tally(Counter!record(c, t))) = Cardinality(Tally(c)) + 1
         /\ \A x \in Int : Cardinality(TallyAfter(Counter!record(c, t), x))
                             = Cardinality(TallyAfter(c, x)) + (IF CounterStart(t) > x THEN 1 ELSE 0)
<1> DEFINE b == CounterStart(t)
<1> DEFINE r == Counter!record(c, t)
<1> DEFINE m == IF b \in DOMAIN c THEN c[b] ELSE 0
<1> DEFINE e == <<b, m + 1>>
<1>1. b \in Nat
  BY CounterStarts
<1>2. r = [x \in DOMAIN c \cup {b} |->
             IF x # b THEN c[x] ELSE IF b \in DOMAIN c THEN c[b] + 1 ELSE 1]
  BY DEF Counter!record, Counter!bucket_start, CounterStart
<1> HIDE DEF b, r
<1>3. /\ DOMAIN r = DOMAIN c \cup {b} /\ \A x \in DOMAIN c : x # b => r[x] = c[x]
      /\ r = [x \in DOMAIN r |-> r[x]]
  BY <1>2
<1>4. r[b] = m + 1 /\ m \in Nat
  BY <1>2
<1>5. IF b \in DOMAIN c THEN c[b] = m ELSE m = 0
  OBVIOUS
<1> HIDE DEF m
<1>6. Tally(r) = Tally(c) \cup {<<b, m + 1>>} /\ <<b, m + 1>> \notin Tally(c)
  BY <1>1, <1>3, <1>4, <1>5, TallyAdded
<1>7. Tally(r) = Tally(c) \cup {e} /\ e \notin Tally(c) /\ e[1] = b
  BY <1>6
<1> HIDE DEF e
<1>8. IsFiniteSet(Tally(r)) /\ Cardinality(Tally(r)) = Cardinality(Tally(c)) + 1
  BY <1>7, OneMore
<1>9. DOMAIN r \subseteq Nat /\ \A x \in DOMAIN r : r[x] \in Nat
  <2>1. ASSUME NEW x \in DOMAIN r
        PROVE  r[x] \in Nat
    <3>1. CASE x = b
      BY <1>4, <3>1
    <3>2. CASE x # b
      BY <1>3, <3>2
    <3> QED
      BY <3>1, <3>2
  <2> QED
    BY <1>1, <1>3, <2>1
<1>10. ASSUME NEW x \in Int
       PROVE  Cardinality(TallyAfter(r, x))
                = Cardinality(TallyAfter(c, x)) + (IF b > x THEN 1 ELSE 0)
  <2> DEFINE S == TallyAfter(c, x)
  <2>1. S \subseteq Tally(c) /\ e \notin S
    BY <1>7 DEF TallyAfter
  <2>2. IsFiniteSet(S)
    BY <2>1, Fewer
  <2>3. CASE b > x
    <3>1. TallyAfter(r, x) = S \cup {e}
      BY <1>7, <2>3 DEF TallyAfter
    <3> HIDE DEF S
    <3>2. Cardinality(S \cup {e}) = Cardinality(S) + 1
      BY <2>1, <2>2, OneMore
    <3> QED
      BY <2>3, <3>1, <3>2 DEF S
  <2>4. CASE ~(b > x)
    <3>1. TallyAfter(r, x) = S
      BY <1>7, <2>4 DEF TallyAfter
    <3>2. Cardinality(S) \in Nat
      BY <2>2, FS_CardinalityType
    <3> HIDE DEF S
    <3>3. Cardinality(TallyAfter(r, x)) = Cardinality(S) + 0
      BY <3>1, <3>2
    <3> QED
      BY <2>4, <3>3 DEF S
  <2> QED
    BY <2>3, <2>4
<1> QED
  BY <1>3, <1>8, <1>9, <1>10 DEF b, r

LEMMA BegunIs ==
  ASSUME NEW log \in Seq(Nat), NEW x
  PROVE  IsFiniteSet(Begun(log, x)) /\ Cardinality(Begun(log, x)) \in Nat
<1>1. DOMAIN log = 1 .. Len(log) /\ Len(log) \in Nat
  BY LenProperties
<1>2. IsFiniteSet(DOMAIN log) /\ Begun(log, x) \subseteq DOMAIN log
  BY <1>1, FS_Interval DEF Begun
<1> QED
  BY <1>2, Fewer

LEMMA BegunAppended ==
  ASSUME NEW log \in Seq(Nat), NEW log2 \in Seq(Nat), Len(log2) = Len(log) + 1,
         \A i \in 1 .. Len(log) : log2[i] = log[i],
         NEW t \in Nat, log2[Len(log) + 1] = t, NEW x \in Int
  PROVE  Cardinality(Begun(log2, x))
           = Cardinality(Begun(log, x)) + (IF CounterStart(t) > x THEN 1 ELSE 0)
<1> DEFINE m == Len(log)
<1>1. /\ m \in Nat /\ DOMAIN log = 1 .. m /\ DOMAIN log2 = 1 .. m + 1
      /\ \A i \in 1 .. m : log2[i] = log[i]
      /\ log2[m + 1] = t /\ m + 1 \notin 1 .. m /\ 1 .. m + 1 = (1 .. m) \cup {m + 1}
  BY LenProperties
<1> HIDE DEF m
<1> DEFINE S == Begun(log, x)
<1>2. S \subseteq 1 .. m /\ IsFiniteSet(1 .. m)
  BY <1>1, FS_Interval DEF Begun
<1>3. IsFiniteSet(S) /\ Cardinality(S) \in Nat /\ m + 1 \notin S
  BY <1>1, <1>2, Fewer
<1>4. CASE CounterStart(t) > x
  <2>1. Begun(log2, x) = S \cup {m + 1}
    BY <1>1, <1>4 DEF Begun
  <2> HIDE DEF S
  <2>2. /\ IsFiniteSet(S \cup {m + 1}) /\ Cardinality(S \cup {m + 1}) = Cardinality(S) + 1
    BY <1>3, OneMore
  <2> QED
    BY <1>3, <1>4, <2>1, <2>2 DEF S
<1>5. CASE ~(CounterStart(t) > x)
  <2>1. Begun(log2, x) = S
    BY <1>1, <1>5 DEF Begun
  <2> HIDE DEF S
  <2>2. Cardinality(Begun(log2, x)) = Cardinality(S) + 0
    BY <1>3, <2>1
  <2> QED
    BY <1>3, <1>5, <2>1, <2>2 DEF S
<1> QED
  BY <1>4, <1>5

LEMMA CounterCallTimes ==
  ASSUME Counter!CounterAssumption, CounterTypes,
         NEW t \in Counter!Monus(v1, counter_MaxLate) .. v1
  PROVE  t \in Nat /\ t <= v1 /\ v1 <= t + counter_MaxLate
BY CounterConstants DEF CounterTypes, Counter!Monus

(* A call that is let through: as many calls as units more after every time,  *)
(* and no span that reaches it holds more than the buckets do.                *)
CounterTakes(c, t) ==
  /\ v2' = [b \in DOMAIN v2' |-> v2'[b]] /\ DOMAIN v2' \subseteq Nat
  /\ \A b \in DOMAIN v2' : v2'[b] \in Nat
  /\ IsFiniteSet(Tally(v2')) /\ Cardinality(Tally(v2')) = Cardinality(Tally(c)) + 1
  /\ \A x \in Int : Cardinality(TallyAfter(v2', x))
                      = Cardinality(TallyAfter(c, x)) + (IF CounterStart(t) > x THEN 1 ELSE 0)
  /\ v3' \in Seq(Nat) /\ Len(v3') = Len(v3) + 1 /\ \A i \in 1 .. Len(v3) : v3'[i] = v3[i]
  /\ v3'[Len(v3) + 1] = t

LEMMA CounterAllows ==
  ASSUME Counter!CounterAssumption, CounterTypes, CounterWindow, CounterCounted,
         NEW t \in Counter!Monus(v1, counter_MaxLate) .. v1,
         NEW c, IsFiniteSet(Tally(c)), Cardinality(Tally(c)) < counter_max_requests,
         \A x \in Counter!Monus(v1, counter_window_ms) .. v1 : TallyAfter(c, x) = TallyAfter(v2, x),
         CounterTakes(c, t), v1' = v1, t >= Counter!bucket_ms
  PROVE  CounterTypes' /\ CounterWindow' /\ CounterCounted'
<1> DEFINE B == Counter!bucket_ms
<1> DEFINE W == counter_window_ms
<1> DEFINE L == counter_MaxLate
<1> DEFINE low == Counter!Monus(v1, W)
<1>1. t \in Nat /\ t <= v1 /\ v1 <= t + L /\ t >= B
  BY CounterCallTimes DEF B, L
<1>2. /\ W \in Nat /\ L \in Nat /\ B \in Nat /\ counter_max_requests \in Nat /\ v1 \in Nat
      /\ v3 \in Seq(Nat)
  BY CounterConstants DEF CounterTypes
<1>3. low \in Nat /\ low <= v1 /\ (low = 0 \/ low = v1 - W)
  BY <1>2 DEF Counter!Monus
<1>4. /\ v3' \in Seq(Nat) /\ Len(v3') = Len(v3) + 1 /\ \A i \in 1 .. Len(v3) : v3'[i] = v3[i]
      /\ v3'[Len(v3) + 1] = t
  BY DEF CounterTakes
<1>5. /\ IsFiniteSet(Tally(v2')) /\ Cardinality(Tally(v2')) = Cardinality(Tally(c)) + 1
      /\ \A x \in Int : Cardinality(TallyAfter(v2', x))
                      = Cardinality(TallyAfter(c, x)) + (IF CounterStart(t) > x THEN 1 ELSE 0)
  BY DEF CounterTakes
<1> HIDE DEF B, W, L, low
<1>6. \A i \in 1 .. Len(v3) + 1 : v3'[i] \in B .. v1
  <2> SUFFICES ASSUME NEW i \in 1 .. Len(v3) + 1
               PROVE  v3'[i] \in B .. v1
    OBVIOUS
  <2>1. DOMAIN v3 = 1 .. Len(v3) /\ Len(v3) \in Nat
    BY <1>2, LenProperties
  <2>2. CASE i \in 1 .. Len(v3)
    <3>1. v3'[i] = v3[i] /\ i \in DOMAIN v3
      BY <1>4, <2>1, <2>2
    <3> QED
      BY <3>1 DEF CounterTypes, B
  <2>3. CASE i \notin 1 .. Len(v3)
    <3>1. i = Len(v3) + 1
      BY <2>1, <2>3
    <3>2. v3'[i] = t
      BY <1>4, <3>1
    <3> QED
      BY <1>1, <1>2, <3>2
  <2> QED
    BY <2>2, <2>3
<1>7. DOMAIN v3' = 1 .. Len(v3) + 1
  BY <1>4, LenProperties
<1>8. CounterTypes'
  <2>1. v1' \in Nat /\ v3' \in Seq(Nat)
    BY <1>2, <1>4
  <2>2. \A i \in DOMAIN v3' : v3'[i] \in B .. v1'
    BY <1>6, <1>7
  <2> QED
    BY <2>1, <2>2 DEF CounterTypes, CounterTakes, B
<1>9. \A x \in Int : /\ IsFiniteSet(Begun(v3', x)) /\ Cardinality(Begun(v3, x)) \in Nat
                     /\ Cardinality(Begun(v3', x))
                          = Cardinality(Begun(v3, x)) + (IF CounterStart(t) > x THEN 1 ELSE 0)
  <2>1. PICK l, l2 : l = v3 /\ l2 = v3'
    OBVIOUS
  <2>2. /\ l \in Seq(Nat) /\ l2 \in Seq(Nat) /\ Len(l2) = Len(l) + 1
        /\ \A i \in 1 .. Len(l) : l2[i] = l[i]
        /\ t \in Nat /\ l2[Len(l) + 1] = t
    BY <1>1, <1>2, <1>4, <2>1
  <2>3. \A x \in Int : IsFiniteSet(Begun(l2, x)) /\ Cardinality(Begun(l, x)) \in Nat
    BY <2>2, BegunIs
  <2>4. \A x \in Int : Cardinality(Begun(l2, x))
                         = Cardinality(Begun(l, x)) + (IF CounterStart(t) > x THEN 1 ELSE 0)
    BY <2>2, BegunAppended
  <2> QED
    BY <2>1, <2>3, <2>4
<1>10. ASSUME NEW x \in low .. v1
       PROVE  Cardinality(Begun(v3', x)) <= Cardinality(TallyAfter(v2', x))
  <2>1. x \in Int /\ Cardinality(Begun(v3, x)) <= Cardinality(TallyAfter(c, x))
    BY <1>2, <1>3 DEF CounterCounted, low, W
  <2>2. TallyAfter(c, x) \subseteq Tally(c)
    BY DEF TallyAfter
  <2>3. Cardinality(TallyAfter(c, x)) \in Nat
    BY <2>2, Fewer
  <2>4. /\ Cardinality(TallyAfter(v2', x))
             = Cardinality(TallyAfter(c, x)) + (IF CounterStart(t) > x THEN 1 ELSE 0)
        /\ Cardinality(Begun(v3', x))
             = Cardinality(Begun(v3, x)) + (IF CounterStart(t) > x THEN 1 ELSE 0)
        /\ Cardinality(Begun(v3, x)) \in Nat
    BY <1>5, <1>9, <2>1
  <2> QED
    BY <2>1, <2>3, <2>4
<1>11. CounterCounted'
  BY <1>10 DEF CounterCounted, low, W
<1>12. ASSUME NEW a \in Nat, t < a + CounterSpan
       PROVE  Within(v3', a, CounterSpan) <= counter_max_requests
  <2> DEFINE S == {j \in DOMAIN v3' : v3'[j] >= a /\ v3'[j] < a + CounterSpan}
  <2>1. Within(v3', a, CounterSpan) = Cardinality(S)
    BY DEF Within
  <2>2. a > v1 - W + B - 1
    BY <1>1, <1>2, <1>12 DEF CounterSpan, B, W, L
  <2>3. ASSUME NEW j \in S
        PROVE  j \in Begun(v3', low)
    <3>1. j \in 1 .. Len(v3) + 1 /\ v3'[j] >= a
      BY <1>7
    <3>2. v3'[j] \in Nat /\ v3'[j] >= B
      BY <1>2, <1>6, <3>1
    <3> HIDE DEF S
    <3>3. CounterStart(v3'[j]) \in Nat /\ v3'[j] < CounterStart(v3'[j]) + B
      BY <3>2, CounterStarts DEF B
    <3>4. CounterStart(v3'[j]) > low
      BY <1>2, <1>3, <2>2, <3>1, <3>2, <3>3
    <3> QED
      BY <1>7, <3>1, <3>4 DEF Begun
  <2> HIDE DEF S
  <2>4. S \subseteq Begun(v3', low)
    BY <2>3
  <2>5. low \in low .. v1 /\ low \in Int
    BY <1>2, <1>3
  <2>6. IsFiniteSet(Begun(v3', low))
    BY <1>9, <2>5
  <2>7. /\ Cardinality(S) <= Cardinality(Begun(v3', low)) /\ Cardinality(S) \in Nat
        /\ Cardinality(Begun(v3', low)) \in Nat
    BY <2>4, <2>6, Fewer
  <2>8. Cardinality(Begun(v3', low)) <= Cardinality(TallyAfter(v2', low))
    BY <1>10, <2>5
  <2>9. TallyAfter(v2', low) \subseteq Tally(v2')
    BY DEF TallyAfter
  <2>10. /\ Cardinality(TallyAfter(v2', low)) <= Cardinality(Tally(v2'))
         /\ Cardinality(TallyAfter(v2', low)) \in Nat /\ Cardinality(Tally(v2')) \in Nat
    BY <1>5, <2>9, Fewer
  <2>11. Cardinality(Tally(c)) \in Nat
    BY FS_CardinalityType
  <2>12. Cardinality(Tally(v2')) <= counter_max_requests
    BY <1>2, <1>5, <2>11
  <2> QED
    BY <1>2, <2>1, <2>7, <2>8, <2>10, <2>12
<1>13. CounterWindow'
  <2>1. PICK l, l2 : l = v3 /\ l2 = v3'
    OBVIOUS
  <2>2. /\ l \in Seq(Nat) /\ l2 \in Seq(Nat) /\ 1 \in Nat /\ Len(l2) = Len(l) + 1
        /\ \A i \in 1 .. Len(l) : l2[i] = l[i]
        /\ t \in Nat
    BY <1>1, <1>2, <1>4, <2>1
  <2>3. \A i \in Len(l) + 1 .. Len(l) + 1 : l2[i] = t
    <3>1. Len(l) \in Nat /\ l2[Len(l) + 1] = t
      BY <1>4, <2>1, <2>2, LenProperties
    <3> QED
      BY <3>1
  <2>4. CounterSpan \in Int /\ counter_max_requests \in Nat
        /\ AtMost(l, CounterSpan, counter_max_requests)
    BY <1>2, <2>1 DEF CounterWindow, CounterSpan, W, L, B
  <2>5. \A a \in Nat : t < a + CounterSpan => Within(l2, a, CounterSpan) <= counter_max_requests
    BY <1>12, <2>1
  <2>6. AtMost(l2, CounterSpan, counter_max_requests)
    BY <2>2, <2>3, <2>4, <2>5, WindowStays
  <2> QED
    BY <2>1, <2>6 DEF CounterWindow, CounterSpan
<1> QED
  BY <1>8, <1>11, <1>13

(* sliding_window_counter.rs try_increment: denied, or counted once. *)
LEMMA CounterCalls ==
  ASSUME Counter!CounterAssumption, CounterTypes, CounterWindow, CounterCounted,
         NEW t \in Counter!Monus(v1, counter_MaxLate) .. v1, Counter!try_increment(t)
  PROVE  CounterTypes' /\ CounterWindow' /\ CounterCounted'
<1> DEFINE d == Counter!evict_stale(t)
<1>1. t \in Nat /\ t <= v1 /\ v1' = v1
  BY CounterCallTimes DEF Counter!try_increment
<1>2. /\ DOMAIN d \subseteq DOMAIN v2 /\ \A b \in DOMAIN d : d[b] = v2[b]
      /\ d = [b \in DOMAIN d |-> d[b]] /\ IsFiniteSet(Tally(d))
      /\ \A x \in Counter!Monus(v1, counter_window_ms) .. v1 :
           TallyAfter(d, x) = TallyAfter(v2, x)
  BY <1>1, CounterDrops
<1>3. DOMAIN d \subseteq Nat /\ \A b \in DOMAIN d : d[b] \in Nat
  BY <1>2 DEF CounterTypes
<1>4. CASE Counter!sum_counts(d) >= counter_max_requests
  <2>1. counter_max_requests \in Nat /\ Counter!sum_counts(d) \in Nat
    BY <1>2, CounterConstants, CounterSame, FS_CardinalityType DEF Counter!sum_counts
  <2>2. v2' = d /\ v3' = v3
    <3> HIDE DEF d
    <3>1. \/ v2' = d /\ v3' = v3
          \/ Counter!sum_counts(d) < counter_max_requests
      BY DEF Counter!try_increment, d
    <3> QED
      BY <1>4, <2>1, <3>1
  <2> HIDE DEF d
  <2>3. CounterTypes' /\ CounterWindow'
    BY <1>1, <1>2, <1>3, <2>2 DEF CounterTypes, CounterWindow
  <2>4. CounterCounted'
    BY <1>1, <1>2, <2>2 DEF CounterCounted
  <2> QED
    BY <2>3, <2>4
<1>5. CASE ~(Counter!sum_counts(d) >= counter_max_requests)
  <2>1. /\ v2' = Counter!record(d, t)
        /\ v3' = IF t >= Counter!bucket_ms THEN Append(v3, t) ELSE v3
    BY <1>5 DEF Counter!try_increment
  <2>2. Cardinality(Tally(d)) < counter_max_requests
    <3>1. counter_max_requests \in Nat /\ Counter!sum_counts(d) = Cardinality(Tally(d))
          /\ Cardinality(Tally(d)) \in Nat
      BY <1>2, CounterConstants, CounterSame, FS_CardinalityType DEF Counter!sum_counts
    <3> QED
      BY <1>5, <3>1
  <2> HIDE DEF d
  <2>3. /\ v2' = [b \in DOMAIN v2' |-> v2'[b]] /\ DOMAIN v2' \subseteq Nat
        /\ \A b \in DOMAIN v2' : v2'[b] \in Nat
        /\ IsFiniteSet(Tally(v2')) /\ Cardinality(Tally(v2')) = Cardinality(Tally(d)) + 1
        /\ \A x \in Int : Cardinality(TallyAfter(v2', x))
                            = Cardinality(TallyAfter(d, x)) + (IF CounterStart(t) > x THEN 1 ELSE 0)
    <3>1. PICK r : r = Counter!record(d, t)
      OBVIOUS
    <3>2. /\ r = [b \in DOMAIN r |-> r[b]] /\ DOMAIN r \subseteq Nat
          /\ \A b \in DOMAIN r : r[b] \in Nat
          /\ IsFiniteSet(Tally(r)) /\ Cardinality(Tally(r)) = Cardinality(Tally(d)) + 1
          /\ \A x \in Int : Cardinality(TallyAfter(r, x))
                              = Cardinality(TallyAfter(d, x)) + (IF CounterStart(t) > x THEN 1 ELSE 0)
      BY <1>1, <1>2, <1>3, <3>1, CounterRecords
    <3>3. v2' = r
      BY <2>1, <3>1
    <3> QED
      BY <3>2, <3>3
  <2>4. CASE t >= Counter!bucket_ms
    <3>1. /\ v3' \in Seq(Nat) /\ Len(v3') = Len(v3) + 1 /\ \A i \in 1 .. Len(v3) : v3'[i] = v3[i]
          /\ v3'[Len(v3) + 1] = t
      <4>1. v3 \in Seq(Nat) /\ v3' = Append(v3, t)
        BY <2>1, <2>4 DEF CounterTypes
      <4> QED
        BY <1>1, <4>1, AppendProperties
    <3>2. CounterTakes(d, t)
      BY <2>3, <3>1 DEF CounterTakes
    <3> QED
      BY <1>1, <1>2, <2>2, <2>4, <3>2, CounterAllows
  <2>5. CASE ~(t >= Counter!bucket_ms)
    <3>1. v3' = v3
      BY <2>1, <2>5
    <3>2. CounterTypes' /\ CounterWindow'
      BY <1>1, <2>3, <3>1 DEF CounterTypes, CounterWindow
    <3>3. ASSUME NEW x \in Counter!Monus(v1, counter_window_ms) .. v1
          PROVE  Cardinality(Begun(v3, x)) <= Cardinality(TallyAfter(v2', x))
      <4>1. x \in Int /\ TallyAfter(d, x) = TallyAfter(v2, x)
        BY <1>2
      <4>2. Cardinality(Begun(v3, x)) <= Cardinality(TallyAfter(d, x))
        BY <4>1 DEF CounterCounted
      <4>3. TallyAfter(d, x) \subseteq Tally(d)
        BY DEF TallyAfter
      <4>4. Cardinality(TallyAfter(d, x)) \in Nat
        BY <1>2, <4>3, Fewer
      <4>5. Cardinality(TallyAfter(v2', x))
              = Cardinality(TallyAfter(d, x)) + (IF CounterStart(t) > x THEN 1 ELSE 0)
        BY <2>3, <4>1
      <4>6. IsFiniteSet(Begun(v3, x)) /\ Cardinality(Begun(v3, x)) \in Nat
        <5>1. v3 \in Seq(Nat)
          BY DEF CounterTypes
        <5> QED
          BY <4>1, <5>1, BegunIs
      <4> QED
        BY <4>2, <4>4, <4>5, <4>6
    <3>4. CounterCounted'
      BY <1>1, <3>1, <3>3 DEF CounterCounted
    <3> QED
      BY <3>2, <3>4
  <2> QED
    BY <2>4, <2>5
<1> QED
  BY <1>4, <1>5

LEMMA CounterTicks ==
  ASSUME Counter!CounterAssumption, CounterTypes, CounterWindow, CounterCounted,
         v1' = v1 + 1, v2' = v2, v3' = v3
  PROVE  CounterTypes' /\ CounterWindow' /\ CounterCounted'
<1>1. /\ v1 \in Nat /\ v3 \in Seq(Nat) /\ counter_window_ms \in Nat /\ IsFiniteSet(Tally(v2))
      /\ Counter!bucket_ms \in Nat
  BY CounterConstants DEF CounterTypes
<1>2. \A i \in DOMAIN v3 : v3[i] \in Counter!bucket_ms .. v1
  BY DEF CounterTypes
<1>3. CounterTypes'
  <2>1. v1' \in Nat
    BY <1>1
  <2>2. \A i \in DOMAIN v3 : v3[i] \in Counter!bucket_ms .. v1'
    BY <1>1, <1>2
  <2> QED
    BY <2>1, <2>2 DEF CounterTypes
<1>4. CounterWindow'
  BY DEF CounterWindow
<1>5. ASSUME NEW x \in Counter!Monus(v1 + 1, counter_window_ms) .. v1 + 1
      PROVE  Cardinality(Begun(v3, x)) <= Cardinality(TallyAfter(v2, x))
  <2>1. /\ Counter!Monus(v1, counter_window_ms) <= Counter!Monus(v1 + 1, counter_window_ms)
        /\ Counter!Monus(v1, counter_window_ms) \in Nat
        /\ Counter!Monus(v1 + 1, counter_window_ms) \in Nat
    BY <1>1 DEF Counter!Monus
  <2>2. x \in Int /\ x <= v1 + 1 /\ x >= Counter!Monus(v1, counter_window_ms)
    BY <1>1, <2>1
  <2>3. CASE x <= v1
    <3>1. x \in Counter!Monus(v1, counter_window_ms) .. v1
      BY <1>1, <2>1, <2>2, <2>3
    <3> QED
      BY <3>1 DEF CounterCounted
  <2>4. CASE ~(x <= v1)
    <3>1. ASSUME NEW i \in DOMAIN v3
          PROVE  ~(CounterStart(v3[i]) > x)
      <4>1. v3[i] \in Nat /\ v3[i] <= v1
        BY <1>1, <1>2
      <4>2. CounterStart(v3[i]) \in Nat /\ CounterStart(v3[i]) <= v3[i]
        BY <4>1, CounterStarts
      <4> QED
        BY <1>1, <2>2, <2>4, <4>1, <4>2
    <3>2. Begun(v3, x) = {}
      BY <3>1 DEF Begun
    <3>3. TallyAfter(v2, x) \subseteq Tally(v2)
      BY DEF TallyAfter
    <3>4. Cardinality(TallyAfter(v2, x)) \in Nat
      BY <1>1, <3>3, Fewer
    <3>5. Cardinality(Begun(v3, x)) = 0
      BY <3>2, FS_EmptySet
    <3> QED
      BY <3>4, <3>5
  <2> QED
    BY <2>3, <2>4
<1>6. CounterCounted'
  BY <1>5 DEF CounterCounted
<1> QED
  BY <1>3, <1>4, <1>6

LEMMA CounterResets ==
  ASSUME Counter!CounterAssumption
  PROVE  /\ v1 \in Nat /\ v2 = <<>> /\ v3 = <<>> =>
              CounterTypes /\ CounterWindow /\ CounterCounted
         /\ (v1 \in Nat /\ v2 = <<>> /\ v3 = <<>> =>
              CounterTypes /\ CounterWindow /\ CounterCounted)'
<1>1. ASSUME v1 \in Nat, v2 = <<>>, v3 = <<>>
      PROVE  CounterTypes /\ CounterWindow /\ CounterCounted
  <2>1. v3 \in Seq(Nat) /\ DOMAIN v3 = {}
    BY <1>1, EmptySeq
  <2>2. DOMAIN v2 = {} /\ v2 = [b \in DOMAIN v2 |-> v2[b]]
    <3>1. <<>> \in Seq(Nat) /\ DOMAIN <<>> = {} /\ <<>> = [b \in {} |-> 0]
      OBVIOUS
    <3> QED
      BY <1>1, <3>1
  <2>3. Tally(v2) = {}
    BY <2>2 DEF Tally
  <2>4. IsFiniteSet(Tally(v2))
    BY <2>3, FS_EmptySet
  <2>5. CounterTypes
    BY <1>1, <2>1, <2>2, <2>4 DEF CounterTypes
  <2>6. CounterWindow
    BY <2>1 DEF CounterWindow, AtMost
  <2>7. \A x : Begun(v3, x) = {} /\ TallyAfter(v2, x) = {}
    BY <2>1, <2>3 DEF Begun, TallyAfter
  <2>8. CounterCounted
    BY <2>7, FS_EmptySet DEF CounterCounted
  <2> QED
    BY <2>5, <2>6, <2>8
<1>2. v1 \in Nat /\ v2 = <<>> /\ v3 = <<>> =>
        CounterTypes /\ CounterWindow /\ CounterCounted
  BY <1>1
<1> QED
  BY <1>2, PTL

LEMMA CounterInit ==
  ASSUME Counter!CounterAssumption, Counter!Init
  PROVE  Counter!IInv
<1>1. v1 \in Nat /\ v2 = <<>> /\ v3 = <<>>
  BY CounterConstants DEF Counter!Init
<1> QED
  BY <1>1, CounterResets, CounterParts

LEMMA CounterStep ==
  ASSUME Counter!CounterAssumption, Counter!IInv, [Counter!Next]_(Counter!vars)
  PROVE  Counter!IInv'
<1>1. CounterTypes /\ CounterWindow /\ CounterCounted
  BY CounterParts
<1>2. CASE UNCHANGED Counter!vars
  <2>1. v1' = v1 /\ v2' = v2 /\ v3' = v3
    BY <1>2 DEF Counter!vars
  <2>2. CounterTypes' /\ CounterWindow' /\ CounterCounted'
    BY <1>1, <2>1 DEF CounterTypes, CounterWindow, CounterCounted
  <2> QED
    BY <2>2, CounterParts
<1>3. CASE Counter!Tick
  <2>1. v1' = v1 + 1 /\ v2' = v2 /\ v3' = v3
    BY <1>3 DEF Counter!Tick
  <2> QED
    BY <1>1, <2>1, CounterTicks, CounterParts
<1>4. CASE Counter!reset
  <2>1. v1' \in Nat /\ v2' = <<>> /\ v3' = <<>>
    BY <1>1, <1>4 DEF Counter!reset, CounterTypes
  <2>2. CounterTypes' /\ CounterWindow' /\ CounterCounted'
    BY <2>1, CounterResets
  <2> QED
    BY <2>2, CounterParts
<1>5. ASSUME NEW t \in Counter!Monus(v1, counter_MaxLate) .. v1, Counter!try_increment(t)
      PROVE  Counter!IInv'
  BY <1>1, <1>5, CounterCalls, CounterParts
<1>6. ASSUME NEW t \in Counter!Monus(v1, counter_MaxLate) .. v1, Counter!current_count(t)
      PROVE  Counter!IInv'
  <2> DEFINE d == Counter!evict_stale(t)
  <2>1. t \in Nat /\ t <= v1 /\ v1' = v1 /\ v2' = d /\ v3' = v3
    BY <1>1, <1>6, CounterCallTimes DEF Counter!current_count
  <2>2. /\ DOMAIN d \subseteq DOMAIN v2 /\ \A b \in DOMAIN d : d[b] = v2[b]
        /\ d = [b \in DOMAIN d |-> d[b]] /\ IsFiniteSet(Tally(d))
        /\ \A x \in Counter!Monus(v1, counter_window_ms) .. v1 :
             TallyAfter(d, x) = TallyAfter(v2, x)
    BY <1>1, <2>1, CounterDrops
  <2>3. DOMAIN d \subseteq Nat /\ \A b \in DOMAIN d : d[b] \in Nat
    BY <1>1, <2>2 DEF CounterTypes
  <2> HIDE DEF d
  <2>4. CounterTypes' /\ CounterWindow'
    BY <1>1, <2>1, <2>2, <2>3 DEF CounterTypes, CounterWindow
  <2>5. CounterCounted'
    BY <1>1, <2>1, <2>2 DEF CounterCounted
  <2> QED
    BY <2>4, <2>5, CounterParts
<1> QED
  BY <1>2, <1>3, <1>4, <1>5, <1>6 DEF Counter!Next

LEMMA CounterHolds ==
  ASSUME Counter!IInv
  PROVE  Counter!Held
BY DEF Counter!IInv

InSpan(log, x) == {i \in DOMAIN log : log[i] >= x /\ log[i] < x + sliding_window_ms}
Recording(step, at, x) ==
  {p \in sliding_Callers : step[p] = "record" /\ at[p] >= x /\ at[p] < x + sliding_window_ms}
Unspent(log, t) == {i \in DOMAIN log : log[i] + sliding_window_ms > t}

SlidingTypes ==
  /\ v1 \in Nat /\ v5 \in Nat /\ v2 \in Seq(Nat) /\ v6 \in Seq(Nat)
  /\ v3 \in [sliding_Callers -> {"idle", "record"}] /\ v4 \in [sliding_Callers -> Nat]

SlidingKept == Recent(v2, v6, sliding_window_ms, v1)

SlidingTimes ==
  /\ \A i \in DOMAIN v6 : v6[i] <= v1
  /\ \A p \in sliding_Callers : v3[p] = "record" => v4[p] <= v1

SlidingRoom ==
  \A x \in 0 .. v1 :
    Cardinality(InSpan(v6, x)) + Cardinality(Recording(v3, v4, x))
      <= Sliding!most + Cardinality(sliding_Callers) - 1

SlidingTold == v5 > 0 => Cardinality(Unspent(v6, v5)) < Sliding!most

LEMMA SlidingSame ==
  /\ \A S : Sliding!Cardinality(S) = Cardinality(S)
  /\ \A S : Sliding!IsFiniteSet(S) <=> IsFiniteSet(S)
  /\ \A s, K : Sliding!FromFirst(s, K) = FromFirst(s, K)
  /\ \A s, l, span, t : Sliding!Recent(s, l, span, t) <=> Recent(s, l, span, t)
<1>1. \A S : Sliding!Cardinality(S) = Cardinality(S)
  BY DEF Sliding!Cardinality, Cardinality
<1>2. \A s, K : Sliding!FromFirst(s, K) = FromFirst(s, K)
  BY DEF Sliding!FromFirst, FromFirst
<1>3. \A s, l, span, t : Sliding!Recent(s, l, span, t) <=> Recent(s, l, span, t)
  BY DEF Sliding!Recent, Recent
<1>4. \A S : Sliding!IsFiniteSet(S) <=> IsFiniteSet(S)
  BY DEF Sliding!IsFiniteSet, IsFiniteSet
<1> QED
  BY <1>1, <1>2, <1>3, <1>4

LEMMA SlidingParts ==
  /\ Sliding!IInv <=> SlidingTypes /\ SlidingKept /\ SlidingTimes /\ SlidingRoom /\ SlidingTold
  /\ (Sliding!IInv <=> SlidingTypes /\ SlidingKept /\ SlidingTimes /\ SlidingRoom /\ SlidingTold)'
<1>1. Sliding!IInv <=> SlidingTypes /\ SlidingKept /\ SlidingTimes /\ SlidingRoom /\ SlidingTold
  BY SlidingSame DEF Sliding!IInv, SlidingTypes, SlidingKept, SlidingTimes, SlidingRoom, SlidingTold,
     Sliding!Entered, Sliding!Entering, Sliding!Unexpired, InSpan, Recording, Unspent
<1> QED
  BY <1>1, PTL

LEMMA SlidingConstants ==
  ASSUME Sliding!SlidingAssumption
  PROVE  /\ sliding_window_ms \in Nat
         /\ sliding_max_requests \in Nat /\ sliding_max_requests > 0
         /\ Sliding!burst_limit \in Nat
         /\ Sliding!most \in Nat /\ Sliding!most > 0
         /\ Sliding!most = IF sliding_max_requests <= Sliding!burst_limit
                           THEN Sliding!burst_limit ELSE sliding_max_requests
         /\ IsFiniteSet(sliding_Callers) /\ Cardinality(sliding_Callers) \in Nat
         /\ sliding_Steps \subseteq Nat
<1>1. /\ sliding_window_ms \in Nat
      /\ sliding_max_requests \in Nat /\ sliding_max_requests > 0 /\ burst_tenths \in Nat
      /\ IsFiniteSet(sliding_Callers) /\ sliding_Steps \subseteq Nat
  BY SlidingSame DEF Sliding!SlidingAssumption
<1>2. Cardinality(sliding_Callers) \in Nat
  BY <1>1, FS_CardinalityType
<1> DEFINE m == sliding_max_requests * burst_tenths
<1>3. m \in Nat
  <2>1. \A a, b \in Nat : a * b \in Nat
    OBVIOUS
  <2> QED
    BY <1>1, <2>1
<1>4. Sliding!burst_limit = m \div 10
  BY DEF Sliding!burst_limit
<1> HIDE DEF m
<1>5. m \div 10 \in Nat
  <2>1. 10 \in Nat \ {0}
    OBVIOUS
  <2> QED
    BY <1>3, <2>1, QuotientBounds
<1>6. Sliding!most = IF sliding_max_requests <= Sliding!burst_limit
                     THEN Sliding!burst_limit ELSE sliding_max_requests
  BY DEF Sliding!most
<1>7. Sliding!burst_limit \in Nat
  BY <1>4, <1>5
<1>8. Sliding!most \in Nat /\ Sliding!most > 0
  BY <1>1, <1>6, <1>7
<1> QED
  BY <1>1, <1>2, <1>6, <1>7, <1>8

(* The window holds every call that has not expired. *)
LEMMA RecentCounts ==
  ASSUME NEW s \in Seq(Nat), NEW log \in Seq(Nat), NEW t0 \in Nat, NEW t \in Nat, t0 <= t,
         sliding_window_ms \in Nat, Recent(s, log, sliding_window_ms, t0)
  PROVE  Cardinality(Unspent(s, t)) = Cardinality(Unspent(log, t))
<1> DEFINE k == Len(log) - Len(s)
<1>1. /\ Len(s) \in Nat /\ Len(log) \in Nat /\ k \in Nat /\ Len(log) = Len(s) + k
      /\ DOMAIN s = 1 .. Len(s) /\ DOMAIN log = 1 .. Len(log)
      /\ \A i \in 1 .. Len(log) : log[i] \in Nat
      /\ \A i \in 1 .. Len(s) : s[i] = log[k + i]
      /\ \A i \in 1 .. k : log[i] + sliding_window_ms <= t0
  <2>1. /\ Len(s) \in Nat /\ Len(log) \in Nat /\ DOMAIN s = 1 .. Len(s) /\ DOMAIN log = 1 .. Len(log)
        /\ \A i \in 1 .. Len(log) : log[i] \in Nat
    BY LenProperties, ElementOfSeq
  <2>2. /\ Len(s) <= Len(log) /\ \A i \in 1 .. Len(s) : s[i] = log[k + i]
        /\ \A i \in 1 .. k : log[i] + sliding_window_ms <= t0
    BY <2>1 DEF Recent
  <2>3. k \in Nat /\ Len(log) = Len(s) + k
    BY <2>1, <2>2
  <2> QED
    BY <2>1, <2>2, <2>3
<1> HIDE DEF k
<1> DEFINE S == Unspent(s, t)
<1> DEFINE T == Unspent(log, t)
<1>2. S \subseteq 1 .. Len(s) /\ T \subseteq 1 .. Len(log)
  BY <1>1 DEF Unspent
<1>3. IsFiniteSet(S) /\ IsFiniteSet(T)
  <2>1. IsFiniteSet(1 .. Len(s)) /\ IsFiniteSet(1 .. Len(log))
    BY <1>1, FS_Interval
  <2> HIDE DEF S, T
  <2> QED
    BY <1>2, <2>1, Fewer
<1>4. ASSUME NEW i \in S
      PROVE  k + i \in T /\ i \in Nat
  <2>1. i \in 1 .. Len(s) /\ s[i] + sliding_window_ms > t
    BY <1>1 DEF Unspent
  <2>2. k + i \in 1 .. Len(log) /\ i \in Nat
    BY <1>1, <2>1
  <2>3. s[i] = log[k + i]
    BY <1>1, <2>1
  <2> QED
    BY <1>1, <2>1, <2>2, <2>3 DEF Unspent
<1>5. ASSUME NEW i \in T
      PROVE  i - k \in S /\ i \in Nat
  <2>1. i \in 1 .. Len(log) /\ log[i] + sliding_window_ms > t
    BY <1>1 DEF Unspent
  <2>2. log[i] \in Nat /\ ~(log[i] + sliding_window_ms <= t0)
    <3>1. log[i] \in Nat
      BY <1>1, <2>1
    <3> QED
      BY <2>1, <3>1
  <2>3. i \notin 1 .. k
    BY <1>1, <2>2
  <2>4. i - k \in 1 .. Len(s) /\ k + (i - k) = i /\ i \in Nat
    <3>1. i \in Nat /\ i > k /\ i <= Len(s) + k
      BY <1>1, <2>1, <2>3
    <3> QED
      BY <1>1, <3>1
  <2>5. s[i - k] = log[i]
    BY <1>1, <2>4
  <2> QED
    BY <1>1, <2>1, <2>4, <2>5 DEF Unspent
<1> HIDE DEF S, T
<1>6. Cardinality(S) <= Cardinality(T)
  <2> DEFINE f == [i \in S |-> k + i]
  <2>1. f \in [S -> T]
    BY <1>4
  <2>2. \A a, b \in S : f[a] = f[b] => a = b
    BY <1>1, <1>4
  <2> HIDE DEF f
  <2> QED
    BY <1>3, <2>1, <2>2, Fits
<1>7. Cardinality(T) <= Cardinality(S)
  <2> DEFINE f == [i \in T |-> i - k]
  <2>1. f \in [T -> S]
    BY <1>5
  <2>2. \A a, b \in T : f[a] = f[b] => a = b
    BY <1>1, <1>5
  <2> HIDE DEF f
  <2> QED
    BY <1>3, <2>1, <2>2, Fits
<1>8. Cardinality(S) \in Nat /\ Cardinality(T) \in Nat
  BY <1>3, FS_CardinalityType
<1> QED
  BY <1>6, <1>7, <1>8 DEF S, T

(* sliding_rate_limiter.rs evict_old, before or at the present. *)
LEMMA SlidingDrops ==
  ASSUME Sliding!SlidingAssumption, NEW s \in Seq(Nat), NEW log \in Seq(Nat), NEW now \in Nat,
         Recent(s, log, sliding_window_ms, now), NEW t \in Nat, NEW t2 \in Nat, now <= t2, t <= t2
  PROVE  /\ Sliding!evict_old(s, t) \in Seq(Nat)
         /\ Recent(Sliding!evict_old(s, t), log, sliding_window_ms, t2)
<1> DEFINE K == {i \in DOMAIN s : s[i] + sliding_window_ms > t}
<1>1. Sliding!evict_old(s, t) = FromFirst(s, K)
  BY SlidingSame DEF Sliding!evict_old, Sliding!DropFront
<1>2. sliding_window_ms \in Nat /\ \A i \in DOMAIN s : s[i] \in Nat
  BY SlidingConstants, ElementOfSeq, LenProperties
<1>3. \A i \in DOMAIN s : i \notin K => s[i] + sliding_window_ms <= t2
  BY <1>2
<1>4. K \subseteq DOMAIN s
  OBVIOUS
<1> HIDE DEF K
<1>5. FromFirst(s, K) \in Seq(Nat) /\ Recent(FromFirst(s, K), log, sliding_window_ms, t2)
  BY <1>2, <1>3, <1>4, RecentDropped
<1> QED
  BY <1>1, <1>5

(* sliding_rate_limiter.rs check lets a call through exactly when fewer than  *)
(* most calls have not expired.                                               *)
LEMMA SlidingAllows ==
  ASSUME Sliding!SlidingAssumption, NEW s \in Seq(Nat), NEW log \in Seq(Nat), NEW now \in Nat,
         Recent(s, log, sliding_window_ms, now), NEW t \in Nat, now <= t
  PROVE  Sliding!is_allowed(s, t) <=> Cardinality(Unspent(log, t)) < Sliding!most
<1> DEFINE d == Sliding!evict_old(s, t)
<1> DEFINE c == Cardinality(Unspent(log, t))
<1> DEFINE L == Sliding!burst_limit
<1> DEFINE b == Sliding!count_in(d, t, Sliding!burst_window_ms)
<1>1. /\ sliding_window_ms \in Nat /\ L \in Nat /\ sliding_max_requests \in Nat
      /\ Sliding!most = IF sliding_max_requests <= L THEN L ELSE sliding_max_requests
  BY SlidingConstants
<1>2. d \in Seq(Nat) /\ Recent(d, log, sliding_window_ms, t)
  BY SlidingDrops
<1> HIDE DEF d
<1>3. Cardinality(Unspent(d, t)) = c
  <2>1. t <= t
    OBVIOUS
  <2> QED
    BY <1>1, <1>2, <2>1, RecentCounts
<1>4. Sliding!count_in(d, t, sliding_window_ms) = c
  BY <1>3, SlidingSame DEF Sliding!count_in, Unspent
<1>5. DOMAIN d = 1 .. Len(d) /\ Len(d) \in Nat /\ \A i \in DOMAIN d : d[i] \in Nat
  BY <1>2, LenProperties, ElementOfSeq
<1>6. Sliding!burst_window_ms \in Nat /\ Sliding!burst_window_ms <= sliding_window_ms
  <2> DEFINE q == sliding_window_ms \div 10
  <2>1. 10 \in Nat \ {0}
    OBVIOUS
  <2>2. q \in Nat /\ q * 10 <= sliding_window_ms
    BY <1>1, <2>1, QuotientBounds
  <2> HIDE DEF q
  <2>3. q <= sliding_window_ms
    BY <1>1, <2>2
  <2> QED
    BY <2>2, <2>3 DEF q, Sliding!burst_window_ms
<1>7. b \in Nat /\ b <= c /\ c \in Nat
  <2> DEFINE S == {i \in DOMAIN d : d[i] + Sliding!burst_window_ms > t}
  <2>1. b = Cardinality(S)
    BY SlidingSame DEF Sliding!count_in
  <2>2. S \subseteq Unspent(d, t)
    BY <1>1, <1>5, <1>6 DEF Unspent
  <2>3. Unspent(d, t) \subseteq 1 .. Len(d) /\ IsFiniteSet(1 .. Len(d))
    BY <1>5, FS_Interval DEF Unspent
  <2> HIDE DEF S
  <2>4. IsFiniteSet(Unspent(d, t))
    BY <2>3, Fewer
  <2>5. /\ Cardinality(S) <= Cardinality(Unspent(d, t)) /\ Cardinality(S) \in Nat
        /\ Cardinality(Unspent(d, t)) \in Nat
    BY <2>2, <2>4, Fewer
  <2> QED
    BY <1>3, <2>1, <2>5
<1>8. Sliding!is_allowed(s, t)
        <=> c < (IF b < L /\ c < L THEN L ELSE sliding_max_requests)
  <2>1. Sliding!is_allowed(s, t)
          <=> Sliding!count_in(d, t, sliding_window_ms) < Sliding!effective_limit(d, t)
    BY DEF Sliding!is_allowed, d
  <2>2. Sliding!effective_limit(d, t) = IF b < L /\ c < L THEN L ELSE sliding_max_requests
    BY <1>4 DEF Sliding!effective_limit
  <2> QED
    BY <1>4, <2>1, <2>2
<1> HIDE DEF b, c, L
<1>9. Sliding!is_allowed(s, t) <=> c < Sliding!most
  BY <1>1, <1>7, <1>8
<1> QED
  BY <1>9 DEF c, L

(* sliding_rate_limiter.rs record: one call more, and one caller fewer who is *)
(* about to record.                                                           *)
LEMMA InSpanAppended ==
  ASSUME NEW log \in Seq(Nat), NEW log2 \in Seq(Nat), Len(log2) = Len(log) + 1,
         \A i \in 1 .. Len(log) : log2[i] = log[i],
         NEW t \in Nat, log2[Len(log) + 1] = t, NEW x \in Nat
  PROVE  /\ t >= x /\ t < x + sliding_window_ms =>
              Cardinality(InSpan(log2, x)) = Cardinality(InSpan(log, x)) + 1
         /\ ~(t >= x /\ t < x + sliding_window_ms) => InSpan(log2, x) = InSpan(log, x)
<1> DEFINE m == Len(log)
<1>1. /\ m \in Nat /\ DOMAIN log = 1 .. m /\ DOMAIN log2 = 1 .. m + 1
      /\ \A i \in 1 .. m : log2[i] = log[i]
      /\ log2[m + 1] = t /\ m + 1 \notin 1 .. m /\ 1 .. m + 1 = (1 .. m) \cup {m + 1}
  BY LenProperties
<1> HIDE DEF m
<1> DEFINE S == InSpan(log, x)
<1>2. S \subseteq 1 .. m /\ IsFiniteSet(1 .. m)
  BY <1>1, FS_Interval DEF InSpan
<1>3. IsFiniteSet(S) /\ m + 1 \notin S
  BY <1>1, <1>2, Fewer
<1>4. CASE t >= x /\ t < x + sliding_window_ms
  <2>1. InSpan(log2, x) = S \cup {m + 1}
    BY <1>1, <1>4 DEF InSpan
  <2> HIDE DEF S
  <2>2. Cardinality(S \cup {m + 1}) = Cardinality(S) + 1
    BY <1>3, OneMore
  <2> QED
    BY <1>4, <2>1, <2>2 DEF S
<1>5. CASE ~(t >= x /\ t < x + sliding_window_ms)
  <2>1. InSpan(log2, x) = S
    BY <1>1, <1>5 DEF InSpan
  <2> QED
    BY <1>5, <2>1
<1> QED
  BY <1>4, <1>5

LEMMA InSpanIs ==
  ASSUME NEW log \in Seq(Nat), NEW x
  PROVE  IsFiniteSet(InSpan(log, x)) /\ Cardinality(InSpan(log, x)) \in Nat
<1>1. DOMAIN log = 1 .. Len(log) /\ Len(log) \in Nat
  BY LenProperties
<1>2. IsFiniteSet(DOMAIN log) /\ InSpan(log, x) \subseteq DOMAIN log
  BY <1>1, FS_Interval DEF InSpan
<1> QED
  BY <1>2, Fewer

LEMMA UnspentIs ==
  ASSUME NEW log \in Seq(Nat), NEW t
  PROVE  IsFiniteSet(Unspent(log, t)) /\ Cardinality(Unspent(log, t)) \in Nat
         /\ DOMAIN log = 1 .. Len(log) /\ Len(log) \in Nat /\ \A i \in DOMAIN log : log[i] \in Nat
<1>1. /\ DOMAIN log = 1 .. Len(log) /\ Len(log) \in Nat /\ \A i \in DOMAIN log : log[i] \in Nat
  BY LenProperties, ElementOfSeq
<1>2. IsFiniteSet(DOMAIN log) /\ Unspent(log, t) \subseteq DOMAIN log
  BY <1>1, FS_Interval DEF Unspent
<1> QED
  BY <1>1, <1>2, Fewer

LEMMA RecordingIs ==
  ASSUME Sliding!SlidingAssumption, NEW step, NEW at, NEW x
  PROVE  /\ IsFiniteSet(Recording(step, at, x)) /\ Cardinality(Recording(step, at, x)) \in Nat
         /\ Cardinality(Recording(step, at, x)) <= Cardinality(sliding_Callers)
<1>1. Recording(step, at, x) \subseteq sliding_Callers
  BY DEF Recording
<1> QED
  BY <1>1, SlidingConstants, Fewer

LEMMA SlidingAdmits ==
  ASSUME Sliding!SlidingAssumption, SlidingTypes, SlidingKept, SlidingTimes, SlidingRoom, SlidingTold,
         NEW p \in sliding_Callers, v3[p] = "idle", Sliding!is_allowed(v2, v1),
         v1' = v1, v2' = Sliding!evict_old(v2, v1), v3' = [v3 EXCEPT ![p] = "record"],
         v4' = [v4 EXCEPT ![p] = v1], v5' = v5, v6' = v6
  PROVE  SlidingTypes' /\ SlidingKept' /\ SlidingTimes' /\ SlidingRoom' /\ SlidingTold'
<1> DEFINE W == sliding_window_ms
<1> DEFINE L == Sliding!most
<1> DEFINE N == Cardinality(sliding_Callers)
<1>1. /\ v1 \in Nat /\ v2 \in Seq(Nat) /\ v6 \in Seq(Nat) /\ W \in Nat /\ L \in Nat /\ N \in Nat
      /\ v1 <= v1 /\ Recent(v2, v6, W, v1)
      /\ v3 \in [sliding_Callers -> {"idle", "record"}] /\ v4 \in [sliding_Callers -> Nat]
  BY SlidingConstants DEF SlidingTypes, SlidingKept
<1>2. v2' \in Seq(Nat) /\ Recent(v2', v6, W, v1)
  BY <1>1, SlidingDrops
<1>3. Cardinality(Unspent(v6, v1)) < L
  BY <1>1, SlidingAllows
<1>4. /\ v3'[p] = "record" /\ v4'[p] = v1
      /\ \A q \in sliding_Callers : q # p => v3'[q] = v3[q] /\ v4'[q] = v4[q]
      /\ v3' \in [sliding_Callers -> {"idle", "record"}] /\ v4' \in [sliding_Callers -> Nat]
  BY <1>1
<1>5. SlidingTypes' /\ SlidingKept' /\ SlidingTold'
  BY <1>2, <1>4 DEF SlidingTypes, SlidingKept, SlidingTold
<1>6. SlidingTimes'
  <2>1. \A q \in sliding_Callers : v3'[q] = "record" => v4'[q] <= v1
    <3> SUFFICES ASSUME NEW q \in sliding_Callers, v3'[q] = "record"
                 PROVE  v4'[q] <= v1
      OBVIOUS
    <3>1. CASE q = p
      BY <1>1, <1>4, <3>1
    <3>2. CASE q # p
      BY <1>4, <3>2 DEF SlidingTimes
    <3> QED
      BY <3>1, <3>2
  <2> QED
    BY <2>1 DEF SlidingTimes
<1> HIDE DEF W, L, N
<1>7. ASSUME NEW x \in 0 .. v1
      PROVE  Cardinality(InSpan(v6, x)) + Cardinality(Recording(v3', v4', x)) <= L + N - 1
  <2>1. /\ Cardinality(InSpan(v6, x)) \in Nat /\ Cardinality(Recording(v3', v4', x)) \in Nat
        /\ Cardinality(Recording(v3, v4, x)) \in Nat /\ IsFiniteSet(Recording(v3, v4, x))
        /\ Cardinality(Recording(v3', v4', x)) <= N
    BY <1>1, InSpanIs, RecordingIs DEF N
  <2>2. CASE v1 < x + W
    <3>1. InSpan(v6, x) \subseteq Unspent(v6, v1)
      <4>1. \A i \in DOMAIN v6 : v6[i] \in Nat
        BY <1>1, UnspentIs
      <4> QED
        BY <1>1, <2>2, <4>1 DEF InSpan, Unspent, W
    <3>2. IsFiniteSet(Unspent(v6, v1))
      BY <1>1, UnspentIs
    <3>3. /\ Cardinality(InSpan(v6, x)) <= Cardinality(Unspent(v6, v1))
          /\ Cardinality(Unspent(v6, v1)) \in Nat
      BY <3>1, <3>2, Fewer
    <3> QED
      BY <1>1, <1>3, <2>1, <3>3 DEF L
  <2>3. CASE ~(v1 < x + W)
    <3>1. Recording(v3', v4', x) \subseteq Recording(v3, v4, x)
      <4>1. ASSUME NEW q \in Recording(v3', v4', x)
            PROVE  q \in Recording(v3, v4, x)
        <5>1. q # p
          BY <1>4, <2>3 DEF Recording, W
        <5> QED
          BY <1>4, <5>1 DEF Recording
      <4> QED
        BY <4>1
    <3>2. Cardinality(Recording(v3', v4', x)) <= Cardinality(Recording(v3, v4, x))
      BY <2>1, <3>1, Fewer
    <3>3. Cardinality(InSpan(v6, x)) + Cardinality(Recording(v3, v4, x)) <= L + N - 1
      BY DEF SlidingRoom, L, N
    <3> QED
      BY <1>1, <2>1, <3>2, <3>3
  <2> QED
    BY <2>2, <2>3
<1>8. SlidingRoom'
  BY <1>7 DEF SlidingRoom, L, N
<1> QED
  BY <1>5, <1>6, <1>8

(* sliding_rate_limiter.rs check, refused: with no more calls kept than the   *)
(* check goes up to, every one counts, and the first is gone when it says.     *)
LEMMA SlidingRefuses ==
  ASSUME Sliding!SlidingAssumption, NEW s \in Seq(Nat), NEW log \in Seq(Nat), NEW now \in Nat,
         Recent(s, log, sliding_window_ms, now),
         Cardinality(Unspent(log, now)) >= Sliding!most, Len(s) <= Sliding!most
  PROVE  /\ s # <<>> /\ s[1] + sliding_window_ms \in Nat
         /\ Cardinality(Unspent(log, s[1] + sliding_window_ms)) < Sliding!most
<1> DEFINE W == sliding_window_ms
<1> DEFINE L == Sliding!most
<1>1. W \in Nat /\ L \in Nat /\ L > 0 /\ now <= now
  BY SlidingConstants
<1>2. Cardinality(Unspent(s, now)) = Cardinality(Unspent(log, now))
  BY <1>1, RecentCounts
<1>3. /\ IsFiniteSet(Unspent(s, now)) /\ Cardinality(Unspent(s, now)) \in Nat
      /\ DOMAIN s = 1 .. Len(s) /\ Len(s) \in Nat /\ \A i \in DOMAIN s : s[i] \in Nat
  BY UnspentIs
<1> HIDE DEF W, L
<1>4. Len(s) > 0 /\ 1 \in Unspent(s, now)
  <2> SUFFICES ASSUME ~(Len(s) > 0) \/ 1 \notin Unspent(s, now)
               PROVE  FALSE
    BY <1>1
  <2>1. Unspent(s, now) \subseteq 2 .. Len(s)
    <3>1. Unspent(s, now) \subseteq 1 .. Len(s)
      BY <1>3 DEF Unspent
    <3> QED
      BY <1>3, <3>1
  <2>2. /\ IsFiniteSet(2 .. Len(s))
        /\ Cardinality(2 .. Len(s)) = IF 2 > Len(s) THEN 0 ELSE Len(s) - 2 + 1
    <3>1. 2 \in Int /\ Len(s) \in Int
      BY <1>3
    <3> QED
      BY <3>1, FS_Interval
  <2>3. Cardinality(Unspent(s, now)) <= Cardinality(2 .. Len(s))
    BY <2>1, <2>2, Fewer
  <2>4. Cardinality(Unspent(s, now)) >= L /\ Len(s) <= L
    BY <1>2 DEF L
  <2> QED
    BY <1>1, <1>3, <2>2, <2>3, <2>4
<1> DEFINE u == s[1] + W
<1>5. 1 \in DOMAIN s /\ s[1] \in Nat /\ u \in Nat /\ u > now
  BY <1>1, <1>3, <1>4 DEF Unspent, W
<1> HIDE DEF u
<1>6. now <= u
  BY <1>5
<1>7. Cardinality(Unspent(s, u)) = Cardinality(Unspent(log, u))
  BY <1>1, <1>5, <1>6, RecentCounts DEF W
<1>8. Cardinality(Unspent(s, u)) < L
  <2>1. 1 \notin Unspent(s, u)
    BY <1>1, <1>5 DEF Unspent, u, W
  <2>2. Unspent(s, u) \subseteq 2 .. Len(s)
    <3>1. Unspent(s, u) \subseteq 1 .. Len(s)
      BY <1>3 DEF Unspent
    <3> QED
      BY <1>3, <2>1, <3>1
  <2>3. /\ IsFiniteSet(2 .. Len(s))
        /\ Cardinality(2 .. Len(s)) = IF 2 > Len(s) THEN 0 ELSE Len(s) - 2 + 1
    <3>1. 2 \in Int /\ Len(s) \in Int
      BY <1>3
    <3> QED
      BY <3>1, FS_Interval
  <2>4. Cardinality(Unspent(s, u)) <= Cardinality(2 .. Len(s)) /\ Cardinality(Unspent(s, u)) \in Nat
    BY <2>2, <2>3, Fewer
  <2>5. Len(s) <= L
    BY DEF L
  <2> QED
    BY <1>1, <1>3, <1>4, <2>3, <2>4, <2>5
<1>9. s # <<>>
  BY <1>4
<1> QED
  BY <1>5, <1>7, <1>8, <1>9 DEF u, W, L

(* A step in which nobody records, and in which the window drops what has     *)
(* expired.                                                                   *)
LEMMA SlidingForgets ==
  ASSUME Sliding!SlidingAssumption, SlidingTypes, SlidingKept, SlidingTimes, SlidingRoom,
         v1' = v1, v2' \in Seq(Nat), Recent(v2', v6, sliding_window_ms, v1),
         v3' = v3, v6' = v6, NEW p \in sliding_Callers, v4' = v4 \/ v3[p] = "idle",
         v4' = v4 \/ v4' = [v4 EXCEPT ![p] = v1],
         v5' \in Nat, v5' > 0 => Cardinality(Unspent(v6, v5')) < Sliding!most
  PROVE  SlidingTypes' /\ SlidingKept' /\ SlidingTimes' /\ SlidingRoom' /\ SlidingTold'
<1>1. /\ v1 \in Nat /\ v4 \in [sliding_Callers -> Nat]
      /\ v3 \in [sliding_Callers -> {"idle", "record"}]
  BY DEF SlidingTypes
<1>2. v4' \in [sliding_Callers -> Nat]
      /\ \A q \in sliding_Callers : v3[q] = "record" => v4'[q] = v4[q]
  <2>1. CASE v4' = v4
    BY <1>1, <2>1
  <2>2. CASE v4' # v4
    BY <1>1, <2>2
  <2> QED
    BY <2>1, <2>2
<1>3. SlidingTypes' /\ SlidingKept' /\ SlidingTold'
  BY <1>2 DEF SlidingTypes, SlidingKept, SlidingTold
<1>4. SlidingTimes'
  BY <1>2 DEF SlidingTimes
<1>5. \A x : Recording(v3, v4', x) = Recording(v3, v4, x)
  BY <1>2 DEF Recording
<1>6. SlidingRoom'
  BY <1>5 DEF SlidingRoom
<1> QED
  BY <1>3, <1>4, <1>6

LEMMA SlidingChecks ==
  ASSUME Sliding!SlidingAssumption, SlidingTypes, SlidingKept, SlidingTimes, SlidingRoom, SlidingTold,
         NEW p \in sliding_Callers, Sliding!check(p)
  PROVE  SlidingTypes' /\ SlidingKept' /\ SlidingTimes' /\ SlidingRoom' /\ SlidingTold'
<1> DEFINE d == Sliding!evict_old(v2, v1)
<1>1. /\ v1 \in Nat /\ v2 \in Seq(Nat) /\ v6 \in Seq(Nat) /\ v1 <= v1 /\ v5 \in Nat
      /\ Recent(v2, v6, sliding_window_ms, v1)
      /\ sliding_window_ms \in Nat /\ Sliding!most \in Nat
  BY SlidingConstants DEF SlidingTypes, SlidingKept
<1>2. d \in Seq(Nat) /\ Recent(d, v6, sliding_window_ms, v1)
  BY <1>1, SlidingDrops
<1>3. /\ v3[p] = "idle" /\ v2' = d /\ v4' = [v4 EXCEPT ![p] = v1] /\ v1' = v1 /\ v6' = v6
      /\ \/ Sliding!is_allowed(v2, v1) /\ v3' = [v3 EXCEPT ![p] = "record"] /\ v5' = v5
         \/ /\ ~Sliding!is_allowed(v2, v1) /\ v3' = v3
            /\ v5' = IF Len(d) > Sliding!most THEN 0
                     ELSE IF d = <<>> THEN v1 + sliding_window_ms ELSE d[1] + sliding_window_ms
  BY DEF Sliding!check
<1>4. CASE Sliding!is_allowed(v2, v1)
  <2>1. v3' = [v3 EXCEPT ![p] = "record"] /\ v5' = v5
    BY <1>3, <1>4
  <2> QED
    BY <1>3, <1>4, <2>1, SlidingAdmits
<1>5. CASE ~Sliding!is_allowed(v2, v1)
  <2> HIDE DEF d
  <2>1. /\ v3' = v3
        /\ v5' = IF Len(d) > Sliding!most THEN 0
                 ELSE IF d = <<>> THEN v1 + sliding_window_ms ELSE d[1] + sliding_window_ms
    BY <1>3, <1>5
  <2>2. Cardinality(Unspent(v6, v1)) >= Sliding!most
    <3>1. ~(Cardinality(Unspent(v6, v1)) < Sliding!most)
      BY <1>1, <1>5, SlidingAllows
    <3>2. Cardinality(Unspent(v6, v1)) \in Nat
      BY <1>1, UnspentIs
    <3> QED
      BY <1>1, <3>1, <3>2
  <2>3. Len(d) \in Nat
    BY <1>2, LenProperties
  <2>4. v5' \in Nat /\ (v5' > 0 => Cardinality(Unspent(v6, v5')) < Sliding!most)
    <3>1. CASE Len(d) > Sliding!most
      BY <2>1, <3>1
    <3>2. CASE ~(Len(d) > Sliding!most)
      <4>1. Len(d) <= Sliding!most
        BY <1>1, <2>3, <3>2
      <4>2. /\ d # <<>> /\ d[1] + sliding_window_ms \in Nat
            /\ Cardinality(Unspent(v6, d[1] + sliding_window_ms)) < Sliding!most
        BY <1>1, <1>2, <2>2, <4>1, SlidingRefuses
      <4>3. v5' = d[1] + sliding_window_ms
        BY <2>1, <3>2, <4>2
      <4> QED
        BY <4>2, <4>3
    <3> QED
      BY <3>1, <3>2
  <2>5. v2' \in Seq(Nat) /\ Recent(v2', v6, sliding_window_ms, v1)
    BY <1>2, <1>3
  <2> QED
    BY <1>3, <2>1, <2>4, <2>5, SlidingForgets
<1> QED
  BY <1>4, <1>5

LEMMA SlidingRecords ==
  ASSUME Sliding!SlidingAssumption, SlidingTypes, SlidingKept, SlidingTimes, SlidingRoom,
         NEW p \in sliding_Callers, Sliding!record(p)
  PROVE  SlidingTypes' /\ SlidingKept' /\ SlidingTimes' /\ SlidingRoom' /\ SlidingTold'
<1> DEFINE W == sliding_window_ms
<1> DEFINE L == Sliding!most
<1> DEFINE N == Cardinality(sliding_Callers)
<1> DEFINE t == v4[p]
<1> DEFINE d == Sliding!evict_old(v2, t)
<1>1. /\ v1 \in Nat /\ v2 \in Seq(Nat) /\ v6 \in Seq(Nat) /\ W \in Nat /\ L \in Nat /\ N \in Nat
      /\ v1 <= v1 /\ Recent(v2, v6, W, v1)
      /\ v3 \in [sliding_Callers -> {"idle", "record"}] /\ v4 \in [sliding_Callers -> Nat]
      /\ t \in Nat
  BY SlidingConstants DEF SlidingTypes, SlidingKept
<1>2. /\ v3[p] = "record" /\ v2' = Append(d, t) /\ v3' = [v3 EXCEPT ![p] = "idle"]
      /\ v6' = Append(v6, t) /\ v5' = 0 /\ v1' = v1 /\ v4' = v4
  BY DEF Sliding!record
<1>3. t <= v1
  BY <1>2 DEF SlidingTimes
<1> HIDE DEF t, d
<1>4. d \in Seq(Nat) /\ Recent(d, v6, W, v1)
  BY <1>1, <1>3, SlidingDrops DEF d
<1>5. v2' \in Seq(Nat) /\ Recent(v2', v6', W, v1)
  <2>1. Append(d, t) \in Seq(Nat)
    BY <1>1, <1>4, AppendProperties
  <2>2. Recent(Append(d, t), Append(v6, t), W, v1)
    BY <1>1, <1>4, RecentAppended
  <2> QED
    BY <1>2, <2>1, <2>2
<1>6. /\ v6' \in Seq(Nat) /\ Len(v6') = Len(v6) + 1 /\ \A i \in 1 .. Len(v6) : v6'[i] = v6[i]
      /\ v6'[Len(v6) + 1] = t /\ Len(v6) \in Nat
      /\ DOMAIN v6 = 1 .. Len(v6) /\ DOMAIN v6' = 1 .. Len(v6) + 1
  <2>1. /\ Append(v6, t) \in Seq(Nat) /\ Len(Append(v6, t)) = Len(v6) + 1
        /\ \A i \in 1 .. Len(v6) : Append(v6, t)[i] = v6[i]
        /\ Append(v6, t)[Len(v6) + 1] = t
    BY <1>1, AppendProperties
  <2>2. Len(v6) \in Nat /\ DOMAIN v6 = 1 .. Len(v6)
    BY <1>1, LenProperties
  <2>3. DOMAIN Append(v6, t) = 1 .. Len(v6) + 1
    BY <2>1, LenProperties
  <2> QED
    BY <1>2, <2>1, <2>2, <2>3
<1>7. /\ v3'[p] = "idle" /\ v3' \in [sliding_Callers -> {"idle", "record"}]
      /\ \A q \in sliding_Callers : q # p => v3'[q] = v3[q]
  BY <1>1, <1>2
<1>8. SlidingTypes' /\ SlidingKept' /\ SlidingTold'
  BY <1>1, <1>2, <1>5, <1>6, <1>7 DEF SlidingTypes, SlidingKept, SlidingTold
<1>9. \A i \in 1 .. Len(v6) : v6[i] \in Nat /\ v6[i] <= v1
  BY <1>1, <1>6, UnspentIs DEF SlidingTimes
<1>10. SlidingTimes'
  <2>1. ASSUME NEW i \in 1 .. Len(v6) + 1
        PROVE  v6'[i] \in Nat /\ v6'[i] <= v1
    <3>1. CASE i \in 1 .. Len(v6)
      BY <1>6, <1>9, <3>1
    <3>2. CASE i \notin 1 .. Len(v6)
      <4>1. i = Len(v6) + 1
        BY <1>6, <3>2
      <4> QED
        BY <1>1, <1>3, <1>6, <4>1
    <3> QED
      BY <3>1, <3>2
  <2>3. \A q \in sliding_Callers : v3'[q] = "record" => v4[q] <= v1
    <3> SUFFICES ASSUME NEW q \in sliding_Callers, v3'[q] = "record"
                 PROVE  v4[q] <= v1
      OBVIOUS
    <3>1. q # p
      BY <1>7
    <3> QED
      BY <1>7, <3>1 DEF SlidingTimes
  <2>4. \A i \in DOMAIN v6' : v6'[i] <= v1'
    BY <1>2, <1>6, <2>1
  <2> QED
    BY <1>2, <2>3, <2>4 DEF SlidingTimes
<1> HIDE DEF W, L, N
<1>11. ASSUME NEW x \in 0 .. v1
       PROVE  Cardinality(InSpan(v6', x)) + Cardinality(Recording(v3', v4, x)) <= L + N - 1
  <2> DEFINE R == Recording(v3, v4, x)
  <2> DEFINE R2 == Recording(v3', v4, x)
  <2>1. x \in Nat /\ Cardinality(InSpan(v6, x)) + Cardinality(R) <= L + N - 1
    BY <1>1 DEF SlidingRoom, L, N
  <2>2. /\ Cardinality(InSpan(v6, x)) \in Nat /\ IsFiniteSet(R) /\ Cardinality(R) \in Nat
        /\ IsFiniteSet(R2) /\ Cardinality(R2) \in Nat
    BY <1>1, InSpanIs, RecordingIs
  <2>3. R2 \subseteq R /\ p \notin R2
    BY <1>7 DEF Recording
  <2>4. CASE t >= x /\ t < x + W
    <3>1. Cardinality(InSpan(v6', x)) = Cardinality(InSpan(v6, x)) + 1
      <4>1. PICK l, l2 : l = v6 /\ l2 = v6'
        OBVIOUS
      <4>2. /\ l \in Seq(Nat) /\ l2 \in Seq(Nat) /\ Len(l2) = Len(l) + 1
            /\ \A i \in 1 .. Len(l) : l2[i] = l[i]
            /\ t \in Nat /\ l2[Len(l) + 1] = t
        BY <1>1, <1>6, <4>1
      <4>3. t >= x /\ t < x + sliding_window_ms =>
              Cardinality(InSpan(l2, x)) = Cardinality(InSpan(l, x)) + 1
        BY <2>1, <4>2, InSpanAppended
      <4> QED
        BY <2>4, <4>1, <4>3 DEF W
    <3>2. R = R2 \cup {p}
      BY <1>1, <1>2, <1>7, <2>4 DEF Recording, W, t
    <3> HIDE DEF R, R2
    <3>3. Cardinality(R2 \cup {p}) = Cardinality(R2) + 1
      BY <2>2, <2>3, OneMore
    <3> QED
      BY <1>1, <2>1, <2>2, <3>1, <3>2, <3>3 DEF R2
  <2>5. CASE ~(t >= x /\ t < x + W)
    <3>1. InSpan(v6', x) = InSpan(v6, x)
      <4>1. PICK l, l2 : l = v6 /\ l2 = v6'
        OBVIOUS
      <4>2. /\ l \in Seq(Nat) /\ l2 \in Seq(Nat) /\ Len(l2) = Len(l) + 1
            /\ \A i \in 1 .. Len(l) : l2[i] = l[i]
            /\ t \in Nat /\ l2[Len(l) + 1] = t
        BY <1>1, <1>6, <4>1
      <4>3. ~(t >= x /\ t < x + sliding_window_ms) => InSpan(l2, x) = InSpan(l, x)
        BY <2>1, <4>2, InSpanAppended
      <4> QED
        BY <2>5, <4>1, <4>3 DEF W
    <3> HIDE DEF R, R2
    <3>2. Cardinality(R2) <= Cardinality(R)
      BY <2>2, <2>3, Fewer
    <3> QED
      BY <1>1, <2>1, <2>2, <3>1, <3>2 DEF R2
  <2> QED
    BY <2>4, <2>5
<1>12. SlidingRoom'
  BY <1>2, <1>11 DEF SlidingRoom, L, N
<1> QED
  BY <1>8, <1>10, <1>12

(* sliding_rate_limiter.rs cleanup_stale, when the last time recorded is old  *)
(* and calls that count are forgotten with it: the log starts again.          *)
LEMMA SlidingRestarts ==
  ASSUME Sliding!SlidingAssumption, SlidingTypes, SlidingTimes, SlidingTold,
         v1' = v1, v2' = <<>>, v3' = v3, v4' = v4, v5' = v5, v6' = <<>>
  PROVE  SlidingTypes' /\ SlidingKept' /\ SlidingTimes' /\ SlidingRoom' /\ SlidingTold'
<1>1. <<>> \in Seq(Nat) /\ Len(<<>>) = 0 /\ DOMAIN <<>> = {}
  BY EmptySeq
<1>2. SlidingTypes' /\ SlidingTimes'
  BY <1>1 DEF SlidingTypes, SlidingTimes
<1>3. SlidingKept'
  BY <1>1 DEF SlidingKept, Recent
<1>4. Cardinality({}) = 0
  BY FS_EmptySet
<1>5. SlidingTold'
  <2>1. \A t : Unspent(<<>>, t) = {}
    BY <1>1 DEF Unspent
  <2>2. \A t : Cardinality(Unspent(<<>>, t)) = 0
    BY <1>4, <2>1
  <2> QED
    BY <2>2, SlidingConstants DEF SlidingTold
<1>6. ASSUME NEW x
      PROVE  Cardinality(InSpan(<<>>, x)) + Cardinality(Recording(v3, v4, x))
               <= Sliding!most + Cardinality(sliding_Callers) - 1
  <2>1. InSpan(<<>>, x) = {}
    BY <1>1 DEF InSpan
  <2>2. /\ Cardinality(Recording(v3, v4, x)) \in Nat
        /\ Cardinality(Recording(v3, v4, x)) <= Cardinality(sliding_Callers)
    BY RecordingIs
  <2>3. Cardinality(InSpan(<<>>, x)) = 0
    BY <1>4, <2>1
  <2>4. PICK r, c, k : /\ r = Cardinality(Recording(v3, v4, x)) /\ k = Cardinality(sliding_Callers)
                       /\ c = Cardinality(InSpan(<<>>, x))
    OBVIOUS
  <2>5. r \in Nat /\ k \in Nat /\ r <= k /\ c = 0 /\ Sliding!most \in Nat /\ Sliding!most > 0
    BY <2>2, <2>3, <2>4, SlidingConstants
  <2>6. c + r <= Sliding!most + k - 1
    BY <2>5
  <2> QED
    BY <2>4, <2>6
<1>7. SlidingRoom'
  BY <1>6 DEF SlidingRoom
<1> QED
  BY <1>2, <1>3, <1>5, <1>7

(* A sweep that finds no call that counts forgets none. *)
LEMMA SlidingEmpties ==
  ASSUME NEW s \in Seq(Nat), NEW log \in Seq(Nat), NEW now \in Nat, sliding_window_ms \in Nat,
         Recent(s, log, sliding_window_ms, now),
         ~(Cardinality(Unspent(s, now)) > 0)
  PROVE  Recent(<<>>, log, sliding_window_ms, now)
<1>1. /\ DOMAIN log = 1 .. Len(log) /\ Len(log) \in Nat /\ \A i \in DOMAIN log : log[i] \in Nat
      /\ IsFiniteSet(Unspent(log, now)) /\ Cardinality(Unspent(log, now)) \in Nat
  BY UnspentIs
<1>2. now <= now
  OBVIOUS
<1>3. Cardinality(Unspent(s, now)) = Cardinality(Unspent(log, now))
  BY <1>2, RecentCounts
<1>4. Cardinality(Unspent(log, now)) = 0
  BY <1>1, <1>3
<1>5. Unspent(log, now) = {}
  BY <1>1, <1>4, FS_EmptySet
<1>6. ASSUME NEW i \in 1 .. Len(log)
      PROVE  log[i] + sliding_window_ms <= now
  <2>1. i \notin Unspent(log, now)
    BY <1>5
  <2>2. i \in DOMAIN log /\ log[i] \in Nat
    BY <1>1
  <2>3. ~(log[i] + sliding_window_ms > now)
    BY <2>1, <2>2 DEF Unspent
  <2> QED
    BY <2>2, <2>3
<1>7. <<>> \in Seq(Nat) /\ Len(<<>>) = 0 /\ DOMAIN <<>> = {}
  BY EmptySeq
<1> QED
  BY <1>1, <1>6, <1>7 DEF Recent

LEMMA SlidingCleans ==
  ASSUME Sliding!SlidingAssumption, SlidingTypes, SlidingKept, SlidingTimes, SlidingRoom, SlidingTold,
         Sliding!cleanup_stale
  PROVE  SlidingTypes' /\ SlidingKept' /\ SlidingTimes' /\ SlidingRoom' /\ SlidingTold'
<1> DEFINE W == sliding_window_ms
<1>1. /\ v1 \in Nat /\ v2 \in Seq(Nat) /\ v6 \in Seq(Nat) /\ W \in Nat /\ v1 <= v1
      /\ Recent(v2, v6, W, v1)
  BY SlidingConstants DEF SlidingTypes, SlidingKept
<1>2. /\ v1' = v1 /\ v3' = v3 /\ v4' = v4 /\ v5' = v5
      /\ \/ v2' = Sliding!evict_old(v2, v1) /\ v6' = v6
         \/ /\ v2' = <<>>
            /\ v6' = IF Sliding!count_in(v2, v1, W) > 0 THEN <<>> ELSE v6
  BY DEF Sliding!cleanup_stale
<1>3. CASE v2' = Sliding!evict_old(v2, v1) /\ v6' = v6
  <2>1. v2' \in Seq(Nat) /\ Recent(v2', v6, W, v1)
    BY <1>1, <1>3, SlidingDrops
  <2> QED
    BY <1>2, <1>3, <2>1
    DEF SlidingTypes, SlidingKept, SlidingTimes, SlidingRoom, SlidingTold
<1>4. CASE v2' = <<>> /\ v6' = IF Sliding!count_in(v2, v1, W) > 0 THEN <<>> ELSE v6
  <2>1. Sliding!count_in(v2, v1, W) = Cardinality(Unspent(v2, v1))
    BY SlidingSame DEF Sliding!count_in, Unspent
  <2>2. CASE Cardinality(Unspent(v2, v1)) > 0
    <3>1. v6' = <<>> /\ v2' = <<>>
      BY <1>4, <2>1, <2>2
    <3> QED
      BY <1>2, <3>1, SlidingRestarts
  <2>3. CASE ~(Cardinality(Unspent(v2, v1)) > 0)
    <3>1. v6' = v6 /\ v2' = <<>>
      BY <1>4, <2>1, <2>3
    <3>2. Recent(<<>>, v6, W, v1)
      BY <1>1, <2>3, SlidingEmpties
    <3>3. <<>> \in Seq(Nat)
      BY EmptySeq
    <3> QED
      BY <1>2, <3>1, <3>2, <3>3
      DEF SlidingTypes, SlidingKept, SlidingTimes, SlidingRoom, SlidingTold
  <2> QED
    BY <2>2, <2>3
<1> QED
  BY <1>2, <1>3, <1>4

LEMMA SlidingTicks ==
  ASSUME Sliding!SlidingAssumption, SlidingTypes, SlidingKept, SlidingTimes, SlidingRoom, SlidingTold,
         Sliding!Tick
  PROVE  SlidingTypes' /\ SlidingKept' /\ SlidingTimes' /\ SlidingRoom' /\ SlidingTold'
<1>1. /\ v1 \in Nat /\ v2 \in Seq(Nat) /\ v6 \in Seq(Nat) /\ sliding_window_ms \in Nat
      /\ v4 \in [sliding_Callers -> Nat]
      /\ \A i \in DOMAIN v6 : v6[i] \in Nat
      /\ DOMAIN v6 = 1 .. Len(v6) /\ Len(v6) \in Nat /\ DOMAIN v2 = 1 .. Len(v2) /\ Len(v2) \in Nat
  BY SlidingConstants, UnspentIs DEF SlidingTypes
<1>2. PICK e \in sliding_Steps : v1' = v1 + e
  BY DEF Sliding!Tick
<1>3. v1' \in Nat /\ v1 <= v1'
  BY <1>1, <1>2, SlidingConstants
<1>4. v2' = v2 /\ v3' = v3 /\ v4' = v4 /\ v5' = v5 /\ v6' = v6
  BY DEF Sliding!Tick
<1>5. SlidingTypes' /\ SlidingTold'
  BY <1>3, <1>4 DEF SlidingTypes, SlidingTold
<1>6. SlidingKept'
  <2>1. /\ Len(v2) <= Len(v6) /\ \A i \in DOMAIN v2 : v2[i] = v6[Len(v6) - Len(v2) + i]
        /\ \A i \in 1 .. Len(v6) - Len(v2) : v6[i] + sliding_window_ms <= v1
    BY DEF SlidingKept, Recent
  <2>2. ASSUME NEW i \in 1 .. Len(v6) - Len(v2)
        PROVE  v6[i] + sliding_window_ms <= v1'
    <3>1. i \in DOMAIN v6
      BY <1>1, <2>1
    <3>2. v6[i] \in Nat /\ v6[i] + sliding_window_ms <= v1
      BY <1>1, <2>1, <3>1
    <3> QED
      BY <1>1, <1>3, <3>2
  <2> QED
    BY <1>4, <2>1, <2>2 DEF SlidingKept, Recent
<1>7. SlidingTimes'
  <2>1. ASSUME NEW i \in DOMAIN v6
        PROVE  v6[i] <= v1'
    <3>1. v6[i] \in Nat /\ v6[i] <= v1
      BY <1>1 DEF SlidingTimes
    <3> QED
      BY <1>1, <1>3, <3>1
  <2>2. ASSUME NEW p \in sliding_Callers, v3[p] = "record"
        PROVE  v4[p] <= v1'
    <3>1. v4[p] \in Nat /\ v4[p] <= v1
      BY <1>1, <2>2 DEF SlidingTimes
    <3> QED
      BY <1>1, <1>3, <1>4, <2>2, <3>1
  <2> QED
    BY <1>4, <2>1, <2>2 DEF SlidingTimes
<1>8. ASSUME NEW x \in 0 .. v1'
      PROVE  Cardinality(InSpan(v6, x)) + Cardinality(Recording(v3, v4, x))
               <= Sliding!most + Cardinality(sliding_Callers) - 1
  <2>1. CASE x <= v1
    <3>1. x \in 0 .. v1
      BY <1>1, <1>3, <2>1
    <3> QED
      BY <3>1 DEF SlidingRoom
  <2>2. CASE ~(x <= v1)
    <3>1. \A i \in DOMAIN v6 : ~(v6[i] >= x)
      BY <1>1, <1>3, <2>2 DEF SlidingTimes
    <3>2. InSpan(v6, x) = {}
      BY <3>1 DEF InSpan
    <3>3. \A p \in sliding_Callers : v3[p] = "record" => ~(v4[p] >= x)
      <4> SUFFICES ASSUME NEW p \in sliding_Callers, v3[p] = "record"
                   PROVE  ~(v4[p] >= x)
        OBVIOUS
      <4>1. v4[p] \in Nat /\ v4[p] <= v1
        BY <1>1 DEF SlidingTimes
      <4> QED
        BY <1>1, <1>3, <2>2, <4>1
    <3>4. Recording(v3, v4, x) = {}
      BY <3>3 DEF Recording
    <3>5. Cardinality(InSpan(v6, x)) = 0 /\ Cardinality(Recording(v3, v4, x)) = 0
      BY <3>2, <3>4, FS_EmptySet
    <3> QED
      BY <3>5, SlidingConstants
  <2> QED
    BY <2>1, <2>2
<1>9. SlidingRoom'
  BY <1>4, <1>8 DEF SlidingRoom
<1> QED
  BY <1>5, <1>6, <1>7, <1>9

LEMMA SlidingInit ==
  ASSUME Sliding!SlidingAssumption, Sliding!Init
  PROVE  Sliding!IInv
<1>1. /\ v1 = 0 /\ v2 = <<>> /\ v5 = 0 /\ v6 = <<>>
      /\ v3 = [p \in sliding_Callers |-> "idle"] /\ v4 = [p \in sliding_Callers |-> 0]
  BY DEF Sliding!Init
<1>2. <<>> \in Seq(Nat) /\ Len(<<>>) = 0 /\ DOMAIN <<>> = {}
  BY EmptySeq
<1>3. SlidingTypes /\ SlidingTimes /\ SlidingTold
  BY <1>1, <1>2 DEF SlidingTypes, SlidingTimes, SlidingTold
<1>4. SlidingKept
  BY <1>1, <1>2 DEF SlidingKept, Recent
<1>5. \A x : InSpan(v6, x) = {} /\ Recording(v3, v4, x) = {}
  BY <1>1, <1>2 DEF InSpan, Recording
<1>6. \A x : Cardinality(InSpan(v6, x)) = 0 /\ Cardinality(Recording(v3, v4, x)) = 0
  BY <1>5, FS_EmptySet
<1>7. SlidingRoom
  BY <1>6, SlidingConstants DEF SlidingRoom
<1> QED
  BY <1>3, <1>4, <1>7, SlidingParts

LEMMA SlidingStep ==
  ASSUME Sliding!SlidingAssumption, Sliding!IInv, [Sliding!Next]_(Sliding!vars)
  PROVE  Sliding!IInv'
<1>1. SlidingTypes /\ SlidingKept /\ SlidingTimes /\ SlidingRoom /\ SlidingTold
  BY SlidingParts
<1>2. CASE UNCHANGED Sliding!vars
  <2>1. v1' = v1 /\ v2' = v2 /\ v3' = v3 /\ v4' = v4 /\ v5' = v5 /\ v6' = v6
    BY <1>2 DEF Sliding!vars
  <2>2. SlidingTypes' /\ SlidingKept' /\ SlidingTimes' /\ SlidingRoom' /\ SlidingTold'
    BY <1>1, <2>1 DEF SlidingTypes, SlidingKept, SlidingTimes, SlidingRoom, SlidingTold
  <2> QED
    BY <2>2, SlidingParts
<1>3. CASE Sliding!Tick
  BY <1>1, <1>3, SlidingTicks, SlidingParts
<1>4. CASE Sliding!cleanup_stale
  BY <1>1, <1>4, SlidingCleans, SlidingParts
<1>5. ASSUME NEW p \in sliding_Callers, Sliding!check(p)
      PROVE  Sliding!IInv'
  BY <1>1, <1>5, SlidingChecks, SlidingParts
<1>6. ASSUME NEW p \in sliding_Callers, Sliding!record(p)
      PROVE  Sliding!IInv'
  BY <1>1, <1>6, SlidingRecords, SlidingParts
<1> QED
  BY <1>2, <1>3, <1>4, <1>5, <1>6 DEF Sliding!Next

LEMMA SlidingHolds ==
  ASSUME Sliding!SlidingAssumption, Sliding!IInv
  PROVE  Sliding!Held /\ Sliding!RetryHonest
<1>1. SlidingTypes /\ SlidingKept /\ SlidingTimes /\ SlidingRoom /\ SlidingTold
  BY SlidingParts
<1>2. /\ v1 \in Nat /\ v5 \in Nat /\ v2 \in Seq(Nat) /\ v6 \in Seq(Nat)
      /\ Recent(v2, v6, sliding_window_ms, v1)
      /\ sliding_window_ms \in Nat /\ Sliding!most \in Nat
      /\ Cardinality(sliding_Callers) \in Nat
  BY <1>1, SlidingConstants DEF SlidingTypes, SlidingKept
<1>3. ASSUME NEW i \in DOMAIN v6
      PROVE  Sliding!Within(v6, v6[i], sliding_window_ms)
               <= Sliding!most + Cardinality(sliding_Callers) - 1
  <2>1. v6[i] \in 0 .. v1
    <3>1. v6[i] \in Nat /\ v6[i] <= v1
      BY <1>1, <1>2, UnspentIs DEF SlidingTimes
    <3> QED
      BY <1>2, <3>1
  <2>2. Sliding!Within(v6, v6[i], sliding_window_ms) = Cardinality(InSpan(v6, v6[i]))
    BY SlidingSame DEF Sliding!Within, InSpan
  <2>3. Cardinality(InSpan(v6, v6[i])) \in Nat /\ Cardinality(Recording(v3, v4, v6[i])) \in Nat
    BY <1>2, InSpanIs, RecordingIs
  <2>4. Cardinality(InSpan(v6, v6[i])) + Cardinality(Recording(v3, v4, v6[i]))
          <= Sliding!most + Cardinality(sliding_Callers) - 1
    BY <1>1, <2>1 DEF SlidingRoom
  <2> QED
    BY <1>2, <2>2, <2>3, <2>4
<1>4. Sliding!Held
  BY <1>3, SlidingSame DEF Sliding!Held, Sliding!AtMost
<1>5. ASSUME v5 > 0
      PROVE  Sliding!is_allowed(v2, IF v5 >= v1 THEN v5 ELSE v1)
  <2> DEFINE t == IF v5 >= v1 THEN v5 ELSE v1
  <2>1. t \in Nat /\ v1 <= t /\ v5 <= t
    BY <1>2
  <2> HIDE DEF t
  <2>2. Unspent(v6, t) \subseteq Unspent(v6, v5)
    <3>1. \A i \in DOMAIN v6 : v6[i] \in Nat
      BY <1>2, UnspentIs
    <3> QED
      BY <1>2, <2>1, <3>1 DEF Unspent
  <2>3. /\ IsFiniteSet(Unspent(v6, v5)) /\ Cardinality(Unspent(v6, v5)) \in Nat
        /\ Cardinality(Unspent(v6, t)) \in Nat
    BY <1>2, UnspentIs
  <2>4. Cardinality(Unspent(v6, t)) <= Cardinality(Unspent(v6, v5))
    BY <2>2, <2>3, Fewer
  <2>5. Cardinality(Unspent(v6, v5)) < Sliding!most
    BY <1>1, <1>5 DEF SlidingTold
  <2>6. Cardinality(Unspent(v6, t)) < Sliding!most
    BY <1>2, <2>3, <2>4, <2>5
  <2>7. Sliding!is_allowed(v2, t)
    BY <1>2, <2>1, <2>6, SlidingAllows
  <2> QED
    BY <2>7 DEF t
<1>6. Sliding!RetryHonest
  BY <1>5 DEF Sliding!RetryHonest
<1> QED
  BY <1>4, <1>6

-----------------------------------------------------------------------------
(* The theorems.                                                              *)

(* A limiter stays as it is while nothing of it moves. *)
LEMMA LimitersStay ==
  /\ Gate!IInv /\ UNCHANGED Gate!vars => Gate!IInv'
  /\ Shaper!IInv /\ UNCHANGED Shaper!vars => Shaper!IInv'
  /\ Shed!IInv /\ UNCHANGED Shed!vars => Shed!IInv'
  /\ Reserved!IInv /\ UNCHANGED Reserved!vars => Reserved!IInv'
  /\ Prefix!IInv /\ UNCHANGED Prefix!vars => Prefix!IInv'
  /\ Flow!IInv /\ UNCHANGED Flow!vars => Flow!IInv'
<1>1. Gate!IInv /\ UNCHANGED Gate!vars => Gate!IInv'
  <2> SUFFICES ASSUME Gate!IInv, UNCHANGED Gate!vars
               PROVE  Gate!IInv'
    OBVIOUS
  <2>1. v1' = v1 /\ v2' = v2 /\ v3' = v3 /\ v4' = v4 /\ v5' = v5 /\ v6' = v6
    BY DEF Gate!vars
  <2>2. GateNumbers /\ GatePaid /\ v6 <= GateGift /\ GateFunded /\ GateGathered
    BY GateParts
  <2>3. GateNumbers' /\ GateGathered'
    BY <2>1, <2>2 DEF GateNumbers, GateGathered, Gate!Least
  <2>4. GatePaid' /\ GateFunded'
    BY <2>1, <2>2 DEF GatePaid, GateFunded
  <2>5. v6' <= GateGift' /\ GateGift' = GateGift
    BY <2>1, <2>2 DEF GateGift, Gate!Monus
  <2> QED
    BY <2>3, <2>4, <2>5, GateParts
<1>2. Shaper!IInv /\ UNCHANGED Shaper!vars => Shaper!IInv'
  <2> SUFFICES ASSUME Shaper!IInv, UNCHANGED Shaper!vars
               PROVE  Shaper!IInv'
    OBVIOUS
  <2>1. v1' = v1 /\ v2' = v2 /\ v3' = v3 /\ v4' = v4 /\ v5' = v5 /\ v6' = v6 /\ v7' = v7
    BY DEF Shaper!vars
  <2>2. ShaperTypes /\ ShaperPaid /\ ShaperWanted
    BY ShaperParts
  <2>3. ShaperTypes'
    BY <2>1, <2>2 DEF ShaperTypes
  <2>4. ShaperPaid'
    BY <2>1, <2>2 DEF ShaperPaid
  <2>5. ShaperWanted'
    BY <2>1, <2>2 DEF ShaperWanted, WantedCapacity, WantedRefill
  <2> QED
    BY <2>3, <2>4, <2>5, ShaperParts
<1>3. Shed!IInv /\ UNCHANGED Shed!vars => Shed!IInv'
  BY DEF Shed!IInv, Shed!vars, Shed!Held, Shed!In
<1>4. Reserved!IInv /\ UNCHANGED Reserved!vars => Reserved!IInv'
  BY DEF Reserved!IInv, Reserved!vars, Reserved!Tenths, Reserved!reserved_fraction
<1>5. Prefix!IInv /\ UNCHANGED Prefix!vars => Prefix!IInv'
  BY DEF Prefix!IInv, Prefix!vars
<1>6. Flow!IInv /\ UNCHANGED Flow!vars => Flow!IInv'
  BY DEF Flow!IInv, Flow!vars, Flow!times, Flow!KindPaidFor, Flow!KindFunded,
     Flow!CountOf
<1> QED
  BY <1>1, <1>2, <1>3, <1>4, <1>5, <1>6

(* The limiters keep their invariants in every step of them. *)
LEMMA LimitersStep ==
  ASSUME LimitsAssumption
  PROVE  /\ Sliding!IInv /\ [Sliding!Next]_(Sliding!vars) => Sliding!IInv'
         /\ Prefix!IInv /\ [Prefix!Next]_(Prefix!vars) => Prefix!IInv'
         /\ Hybrid!IInv /\ [Hybrid!Next]_(Hybrid!vars) => Hybrid!IInv'
         /\ Counter!IInv /\ [Counter!Next]_(Counter!vars) => Counter!IInv'
         /\ Flow!IInv /\ [Flow!Next]_(Flow!vars) => Flow!IInv'
         /\ Shaper!IInv /\ [Shaper!Next]_(Shaper!vars) => Shaper!IInv'
         /\ Gate!IInv /\ [Gate!Next]_(Gate!vars) => Gate!IInv'
         /\ Shed!IInv /\ [Shed!Next]_(Shed!vars) => Shed!IInv'
         /\ Reserved!IInv /\ [Reserved!Next]_(Reserved!vars) => Reserved!IInv'
<1>1. /\ Sliding!SlidingAssumption /\ Prefix!RulesAssumption /\ Hybrid!HybridAssumption
      /\ Counter!CounterAssumption /\ Flow!FlowAssumption /\ Shaper!ShaperAssumption
      /\ Gate!GateAssumption /\ Shed!ShedAssumption /\ Reserved!ReservationAssumption
  BY DEF LimitsAssumption
<1>2. /\ Sliding!IInv /\ [Sliding!Next]_(Sliding!vars) => Sliding!IInv'
      /\ Hybrid!IInv /\ [Hybrid!Next]_(Hybrid!vars) => Hybrid!IInv'
      /\ Counter!IInv /\ [Counter!Next]_(Counter!vars) => Counter!IInv'
  BY <1>1, SlidingStep, HybridStep, CounterStep
<1>3. /\ Prefix!IInv /\ [Prefix!Next]_(Prefix!vars) => Prefix!IInv'
      /\ Flow!IInv /\ [Flow!Next]_(Flow!vars) => Flow!IInv'
  BY <1>1, LimitersStay, PrefixStep, FlowStep
<1>4. /\ Shaper!IInv /\ [Shaper!Next]_(Shaper!vars) => Shaper!IInv'
      /\ Gate!IInv /\ [Gate!Next]_(Gate!vars) => Gate!IInv'
  BY <1>1, LimitersStay, ShaperStep, GateStep
<1>5. /\ Shed!IInv /\ [Shed!Next]_(Shed!vars) => Shed!IInv'
      /\ Reserved!IInv /\ [Reserved!Next]_(Reserved!vars) => Reserved!IInv'
  BY <1>1, LimitersStay, ShedStep, ReservedStep
<1> QED
  BY <1>2, <1>3, <1>4, <1>5

(* In every step one part moves, or none does.                                *)
LEMMA OneLimitMoves ==
  ASSUME [LimitsNext]_allVars
  PROVE  /\ part' = part
         /\ [Next]_vars
         /\ part = "service" => [Service!Next]_(Service!vars)
         /\ part = "pool" => [Pool!Next]_(Pool!vars)
         /\ part = "sliding" => [Sliding!Next]_(Sliding!vars)
         /\ part = "prefix" => [Prefix!Next]_(Prefix!vars)
         /\ part = "hybrid" => [Hybrid!Next]_(Hybrid!vars)
         /\ part = "counter" => [Counter!Next]_(Counter!vars)
         /\ part = "flow" => [Flow!Next]_(Flow!vars)
         /\ part = "shaper" => [Shaper!Next]_(Shaper!vars)
         /\ part = "gate" => [Gate!Next]_(Gate!vars)
         /\ part = "shed" => [Shed!Next]_(Shed!vars)
         /\ part = "reserved" => [Reserved!Next]_(Reserved!vars)
         /\ part = "sla" => [Sla!Next]_(Sla!vars)
         /\ part = "settings" => [Settings!Next]_(Settings!vars)
<1>1. CASE UNCHANGED allVars
  <2>1. UNCHANGED <<part, vars>> /\ UNCHANGED others
    BY <1>1 DEF allVars
  <2>2. /\ UNCHANGED Service!vars /\ UNCHANGED Pool!vars /\ UNCHANGED Settings!vars
        /\ UNCHANGED Sla!vars
    BY <2>1 DEF others, Service!vars, Pool!vars, Settings!vars, Sla!vars
  <2>3. /\ UNCHANGED Sliding!vars /\ UNCHANGED Prefix!vars /\ UNCHANGED Hybrid!vars
        /\ UNCHANGED Counter!vars /\ UNCHANGED Flow!vars
    BY <2>1 DEF others, Sliding!vars, Prefix!vars, Hybrid!vars, Counter!vars, Flow!vars
  <2>4. /\ UNCHANGED Shaper!vars /\ UNCHANGED Gate!vars /\ UNCHANGED Shed!vars
        /\ UNCHANGED Reserved!vars
    BY <2>1 DEF others, Shaper!vars, Gate!vars, Shed!vars, Reserved!vars
  <2> QED
    BY <2>1, <2>2, <2>3, <2>4
<1>2. CASE LimitsNext
  BY <1>2 DEF LimitsNext, OtherNext
<1> QED
  BY <1>1, <1>2

(* try_execute keeps its gauges, totals and permits exact, though the atomics *)
(* and the semaphore are moved apart.                                         *)
THEOREM CountsExact ==
  LimitsSpec => []BulkheadExact
<1> USE LimitsAssumption
<1>1. LimitsInit => IInv
  BY InitIInv DEF LimitsInit
<1>2. IInv /\ [LimitsNext]_allVars => IInv'
  BY OneLimitMoves, NextIInv
<1>3. IInv => BulkheadExact
  BY DEF IInv
<1> QED
  BY <1>1, <1>2, <1>3, PTL DEF LimitsSpec

(* try_execute refuses nobody unless callers that came before have filled its *)
(* limits.                                                                    *)
THEOREM RefusalsJust ==
  LimitsSpec => []RefusedForOthers
<1> USE LimitsAssumption
<1>1. LimitsInit => IInv
  BY InitIInv DEF LimitsInit
<1>2. IInv /\ [LimitsNext]_allVars => IInv'
  BY OneLimitMoves, NextIInv
<1>3. IInv => RefusedForOthers
  BY DEF IInv
<1> QED
  BY <1>1, <1>2, <1>3, PTL DEF LimitsSpec

(* execute of a service loses no permit and refuses nobody for want of room   *)
(* that was there; and no connection of the pool is shared or lost, whatever  *)
(* is evicted under its holder.                                               *)
THEOREM PoolsStayExact ==
  LimitsSpec => []PoolExact
<1> USE LimitsAssumption
<1> DEFINE Inv == (part = "service" => Service!IInv) /\ (part = "pool" => Pool!IInv)
<1>1. LimitsInit => Inv
  BY ServiceInit, PoolInit DEF LimitsInit, OtherInit
<1>2. Inv /\ [LimitsNext]_allVars => Inv'
  BY OneLimitMoves, ServiceStep, PoolStep
<1>3. Inv => PoolExact
  BY DEF PoolExact, Service!IInv, Pool!IInv
<1> QED
  BY <1>1, <1>2, <1>3, PTL DEF LimitsSpec

(* Whatever set and reload overlap, what the store holds has passed the       *)
(* schema, and a subscriber that read after the last announcement has what is *)
(* held now.                                                                  *)
THEOREM SettingsStayCovered ==
  LimitsSpec => []SettingsHeld
<1> USE LimitsAssumption
<1> DEFINE Inv == part = "settings" => Settings!IInv
<1>1. LimitsInit => Inv
  BY StoreInit DEF LimitsInit, OtherInit
<1>2. Inv /\ [LimitsNext]_allVars => Inv'
  BY OneLimitMoves, StoreStep
<1>3. Inv => SettingsHeld
  BY DEF SettingsHeld, Settings!IInv
<1> QED
  BY <1>1, <1>2, <1>3, PTL DEF LimitsSpec

(* Whatever callers, late clocks, late recordings, evictions and changes of   *)
(* configuration overlap, no limiter lets more through than what it held,     *)
(* gained and gave away pays for: the windows, the buckets, the queue and the *)
(* shares of rate_limiter.rs, sliding_rate_limiter.rs, rate_limiter_v2.rs,    *)
(* sliding_window_counter.rs, flow_control.rs, traffic_shaper.rs,             *)
(* admission.rs, load_shed.rs and reservation.rs.                             *)
THEOREM RatesStayHeld ==
  LimitsSpec => []RatesHeld
<1> USE LimitsAssumption
<1> DEFINE Inv == /\ part = "sliding" => Sliding!IInv
                  /\ part = "prefix" => Prefix!IInv
                  /\ part = "hybrid" => Hybrid!IInv
                  /\ part = "counter" => Counter!IInv
                  /\ part = "flow" => Flow!IInv
                  /\ part = "shaper" => Shaper!IInv
                  /\ part = "gate" => Gate!IInv
                  /\ part = "shed" => Shed!IInv
                  /\ part = "reserved" => Reserved!IInv
<1>1. /\ Sliding!SlidingAssumption /\ Prefix!RulesAssumption /\ Hybrid!HybridAssumption
      /\ Counter!CounterAssumption /\ Flow!FlowAssumption /\ Shaper!ShaperAssumption
      /\ Gate!GateAssumption /\ Shed!ShedAssumption /\ Reserved!ReservationAssumption
  BY DEF LimitsAssumption
<1>2. LimitsInit => Inv
  <2> SUFFICES ASSUME LimitsInit
               PROVE  Inv
    OBVIOUS
  <2>1. /\ part = "sliding" => Sliding!Init
        /\ part = "prefix" => Prefix!Init
        /\ part = "hybrid" => Hybrid!Init
        /\ part = "counter" => Counter!Init
        /\ part = "flow" => Flow!Init
        /\ part = "shaper" => Shaper!Init
        /\ part = "gate" => Gate!Init
        /\ part = "shed" => Shed!Init
        /\ part = "reserved" => Reserved!Init
    BY DEF LimitsInit, OtherInit
  <2> QED
    BY <1>1, <2>1, SlidingInit, PrefixInit, HybridInit, CounterInit, FlowInit, ShaperInit, GateInit,
       ShedInit, ReservedInit
<1>3. Inv /\ [LimitsNext]_allVars => Inv'
  BY OneLimitMoves, LimitersStep
<1>4. Inv => RatesHeld
  <2> SUFFICES ASSUME Inv
               PROVE  RatesHeld
    OBVIOUS
  <2>1. /\ part = "sliding" => Sliding!Held /\ Sliding!RetryHonest
        /\ part = "prefix" => Prefix!Held
        /\ part = "flow" => Flow!Held
        /\ part = "reserved" => Reserved!Held
    BY <1>1, SlidingHolds, PrefixHolds, FlowHolds, ReservedHolds
  <2>2. /\ part = "hybrid" => Hybrid!Held
        /\ part = "counter" => Counter!Held
    BY DEF Hybrid!IInv, Counter!IInv
  <2>3. /\ part = "shaper" => Shaper!Held
        /\ part = "gate" => Gate!Held
        /\ part = "shed" => Shed!Held
    BY DEF Shaper!IInv, Gate!IInv, Shed!IInv
  <2> QED
    BY <2>1, <2>2, <2>3 DEF RatesHeld
<1> QED
  BY <1>2, <1>3, <1>4, PTL DEF LimitsSpec

(* sla_queue.rs pop: no job with time to spare is handed out before one as    *)
(* urgent or more that is late by more than the rounding of the boost, nor    *)
(* before one of its own class that came a rounding step earlier.             *)
THEOREM DeadlinesStayFirst ==
  LimitsSpec => DeadlinesFirst
<1> USE LimitsAssumption
<1> DEFINE Inv == part = "sla" => Sla!IInv
<1>1. Sla!SlaAssumption
  BY DEF LimitsAssumption
<1>2. LimitsInit => Inv
  BY SlaInit DEF LimitsInit, OtherInit
<1>3. Inv /\ [LimitsNext]_allVars => Inv'
  BY <1>1, OneLimitMoves, SlaStep
<1>4. Inv /\ [LimitsNext]_allVars => [part = "sla" => Sla!DeadlinesFirst]_allVars
  BY <1>1, OneLimitMoves, SlaPops
<1> QED
  BY <1>2, <1>3, <1>4, PTL DEF LimitsSpec, DeadlinesFirst

=============================================================================
