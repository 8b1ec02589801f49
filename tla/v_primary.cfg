SPECIFICATION ElectionSpec
CONSTANTS
  c1 = c1  c2 = c2  c3 = c3
  r1 = r1  r2 = r2
  Callers = {c1, c2}  Routes = {r1, r2}  dependencies <- SecondOnFirst
  failure_threshold = 1  success_threshold = 2  always_probe = FALSE
  cascade_threshold = 1  Leavers = {c1}
  registry_Callers = {c1, c2, c3}  registry_Cancellable = {c1}
  registry_failure_threshold = 2  registry_success_threshold = 2  half_open_max_calls = 2
  Recorders = {c1, c2, c3}  healthy_consecutive = 2  unhealthy_consecutive = 3
  Requests = {c1, c2}  Advancers = {r1, r2}  min_requests_before_promote = 2
  error_pct = 40  MaxSent = 4
  Tickers = {c1, c2}  initial_pct = 10  step_pct = 40  auto_promote = TRUE
  streams_Jobs = {c1, c2}  JobId <- OneId  Late = {r1}  Outcomes <- MaybeDropped
  channel_capacity = 2  chunks_per_job = 2
  Adders = {c1, c2, c3}  Workers = {r1, r2}  Id <- SharedId
  max_connections = 1  proxy_MaxCalls = 2
  cache_Callers = {c1, c2}  Keys = {r1, r2, c3}  hash <- SharedHash
  Ttls = {1}  max_size = 1  MaxPuts = 3  cache_MaxCalls = 3
  Jobs = {1, 2, 3}  deadline <- Deadlines  priority <- Priorities
  Drainers = {c1, c2}  MaxTime = 3
  Nodes = {c1, c2, c3}  Strategies = {"Inline"}  LEADER_TTL = 3  LEADER_REFRESH = 1
  MaxTasks = 2  MaxCalls = 3
PROPERTY OnePrimary
CHECK_DEADLOCK FALSE
