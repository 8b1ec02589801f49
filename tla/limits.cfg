SPECIFICATION LimitsSpec
CONSTANTS
  c1 = c1  c2 = c2  c3 = c3  c4 = c4
  MaxTime <- TimeBounds  MaxLog <- LogBounds
  Callers = {c1, c2, c3, c4}  Cancellable = {c1, c2}
  max_concurrent = 1  max_queue_size = 1
  service_Callers = {c1, c2, c3, c4}  service_Cancellable = {c1, c2}
  service_max_concurrent = 2  service_max_queue_size = 1
  pool_Callers = {c1, c2, c3}  max_connections = 2  MaxId = 5
  sliding_Callers = {c1, c2}  sliding_window_ms = 10  sliding_max_requests = 2
  burst_tenths = 15  sliding_Steps = {4, 7}
  prefix_Callers = {c1, c2}  Rules <- PrefixRules  window_secs = 3  prefix_Steps = {1, 3}
  hybrid_capacity = 3  hybrid_refill = 1  hybrid_window_ms = 3  window_max = 4  Tokens = {1, 2}
  hybrid_MaxLate = 1
  counter_window_ms = 5  counter_max_requests = 2  sub_windows = 2
  counter_MaxLate = 1
  Kinds = {c1, c2}  Configs <- FlowConfigs
  Requests = {c1, c2, c3, c4}  MaxWanted = 2  shaper_capacity = 2  shaper_refill = 1
  strict_priority = FALSE
  bucket_capacity = 4  refill_rate = 1  bucket_ttl = 2  soft_ceiling = 80  hard_ceiling = 95
  Loads = {50, 90, 100}
  shed_Callers = {c1, c2, c3, c4}  Low = {c1, c2}  shed_capacity = 2  threshold = 1
  reserved_Callers = {c1, c2}  reserved_Ids = {1, 2, 3}  Fractions = {3, 6}
  max_reserved_fraction = 8  free_tier_threshold = 5
  sla_Jobs = {1, 2, 3, 4}  sla_class <- JobClasses  sla_ms <- ClassTimes
  base_priority <- ClassPriorities  boost = 4
  Writers = {c1, c2}  Readers = {c3}  Keys = {"rate", "name"}  Values <- TriedValues
  Valid <- ValidValues  Required = {"rate"}  MaxWrites = 3
INVARIANTS BulkheadExact RefusedForOthers PoolExact RatesHeld SequencesHeld SettingsHeld
PROPERTY DeadlinesFirst
CHECK_DEADLOCK FALSE
