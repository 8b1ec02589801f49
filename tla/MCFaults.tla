------------------------------- MODULE MCFaults -------------------------------
(* The components that go on while services, calls, tasks and connections     *)
(* fail, end or come back, each on its own: part says which of them moves in  *)
(* a behaviour.  The mesh of CircuitMesh has its own variables; v1, v2, ...   *)
(* stand for those of any other.                                              *)
EXTENDS CircuitMesh, Integers

CONSTANTS
  c1, c2, c3, r1, r2,           \* callers, routes and whatever else has an identity
  registry_Callers, registry_Cancellable,
  registry_failure_threshold, registry_success_threshold, half_open_max_calls,
  Recorders, healthy_consecutive, unhealthy_consecutive,
  Requests, Advancers, min_requests_before_promote, error_pct, MaxSent,
  Tickers, initial_pct, step_pct, auto_promote,
  streams_Jobs, JobId, Late, Outcomes, channel_capacity, chunks_per_job,
  Adders, Workers, Id, max_connections, proxy_MaxCalls,
  cache_Callers, Keys, hash, Ttls, max_size, MaxPuts, cache_MaxCalls,
  Jobs, deadline, priority, Drainers, MaxTime,
  Nodes, Strategies, LEADER_TTL, LEADER_REFRESH, MaxTasks, MaxCalls

(* The second route depends on the first. *)
SecondOnFirst == [r \in Routes |-> IF r = r2 THEN {r1} ELSE {}]

(* Two jobs that stream under one id; two connections that do, and another;   *)
(* two requests whose hashes are the same, and another.                       *)
OneId == [j \in streams_Jobs |-> r1]
SharedId == [a \in Adders |-> IF a = c3 THEN r2 ELSE r1]
SharedHash == [k \in Keys |-> IF k = r2 THEN 2 ELSE 1]
MaybeDropped == {-1, 0, 3}
Deadlines == <<1, 2, 2>>
Priorities == <<0, 1, 9>>

VARIABLES part, v1, v2, v3, v4, v5, v6, v7, v8, v9, v10

others == <<v1, v2, v3, v4, v5, v6, v7, v8, v9, v10>>
still == <<part, vars>>
allVars == <<still, others>>

Registry == INSTANCE BreakerRegistry WITH
  Callers <- registry_Callers, Cancellable <- registry_Cancellable,
  failure_threshold <- registry_failure_threshold,
  success_threshold <- registry_success_threshold,
  state <- v1, failure_count <- v2, test_count <- v3, half_open_successes <- v4, pc <- v5,
  test <- v6

Adaptive == INSTANCE AdaptiveBreaker WITH
  base_threshold <- 2, base_timeout <- 2, cap <- 12, RECENT <- 1, KEPT <- 2, Delays <- {0, 15},
  MaxCalls <- 1, MaxFailures <- 3, MaxSuccesses <- 10,
  state <- v1, failure_count <- v2, cooldown <- v3, probe_count <- v4, success_count <- v5,
  load_pct <- v6, recovery_times <- v7, failures <- v8, successes <- v9, calls <- v10

Group == INSTANCE Failover WITH
  Callers <- {c1, c2}, Endpoints <- 1 .. 3, priority <- <<1, 0, 1>>,
  failure_threshold <- 2, recovery_timeout <- 2,
  healthy <- v1, failure_count <- v2, failed <- v3, age <- v4, current_primary_idx <- v5,
  looking <- v6, aged <- v7, at <- v8

Checks == INSTANCE HealthChecks WITH
  consecutive_success <- v1, consecutive_failure <- v2, healthy <- v3, last_result <- v4,
  pc <- v5, success <- v6, streak <- v7, raced <- v8

Controller == INSTANCE CanaryController WITH
  state <- v1, requests_sent <- v2, errors <- v3, route <- v4, decision <- v5

Deployer == INSTANCE CanaryDeployer WITH
  stage <- v1, pct <- v2, due <- v3, pc <- v4

Streams == INSTANCE Streaming WITH
  Jobs <- streams_Jobs,
  phase <- v1, registry <- v2, total <- v3, sent <- v4, chan <- v5, joined <- v6, pos <- v7,
  status <- v8

Proxy == INSTANCE WsProxy WITH
  MaxCalls <- proxy_MaxCalls,
  connections <- v1, state <- v2, messages_sent <- v3, total_messages_routed <- v4,
  subscriptions <- v5, pc <- v6, todo <- v7, delivered <- v8, calls <- v9, racing <- v10

Graph == INSTANCE Dag WITH
  Nodes <- 1 .. 4, MaxEdges <- 4,
  depends_on <- v1, answer <- v2, phase <- v3, remaining <- v4, wave <- v5, completed <- v6,
  nodes_dropped <- v7

Again == INSTANCE Retrying WITH
  Policies <- {[max_attempts |-> n, base |-> 2, max |-> 5, backoff |-> b, jitter |-> j] :
                 n \in {0, 1, 4}, b \in {"Fixed", "Linear", "Exponential"}, j \in BOOLEAN},
  multiplier <- 2, Jitters <- {5, 10, 15}, Errors <- {"retryable", "fatal"},
  Methods <- {"GET", "POST"}, Builds <- {"debug", "release"}, MaxJobs <- 2,
  loop <- v1, policy <- v2, method <- v3, calls <- v4, attempts <- v5, delay <- v6,
  status <- v7, stats <- v8, executed <- v9, lost <- v10

Responses == INSTANCE ResponseCache WITH
  Callers <- cache_Callers, MaxCalls <- cache_MaxCalls,
  map <- v1, puts <- v2, pc <- v3, arg <- v4, todo <- v5, since <- v6, stats <- v7, calls <- v8,
  racing <- v9, swept <- v10

Scheduler == INSTANCE Deadline WITH
  now <- v1, place <- v2, pc <- v3, at <- v4, to_run <- v5, counts <- v6

Cluster == INSTANCE DistributedRouter WITH
  holder <- v1, age <- v2, is_primary <- v3, due <- v4, late <- v5, strategy_override <- v6,
  inbox <- v7, pc <- v8, stale <- v9, sent <- v10

rest7 == <<v7, v8, v9, v10>>
rest9 == <<v9, v10>>
rest5 == <<v5, v6, v7, v8, v9, v10>>

(* The proofs in FaultsProofs rest on this.                                   *)
ASSUME FaultsAssumption ==
  /\ MeshAssumption
  /\ Registry!RegistryAssumption
  /\ Checks!ChecksAssumption
  /\ Deployer!DeployerAssumption
  /\ Streams!StreamAssumption
  /\ Proxy!ProxyAssumption
  /\ Responses!CacheAssumption
  /\ Scheduler!SchedulerAssumption
  /\ Cluster!RouterAssumption

OtherInit ==
  \/ /\ part = "mesh"
     /\ v1 = 0 /\ v2 = 0 /\ v3 = 0 /\ v4 = 0 /\ v5 = 0
     /\ v6 = 0 /\ v7 = 0 /\ v8 = 0 /\ v9 = 0 /\ v10 = 0
  \/ part = "registry" /\ Registry!Init /\ v7 = 0 /\ v8 = 0 /\ v9 = 0 /\ v10 = 0
  \/ part = "adaptive" /\ Adaptive!Init
  \/ part = "failover" /\ Group!Init /\ v9 = 0 /\ v10 = 0
  \/ part = "checks" /\ Checks!Init /\ v9 = 0 /\ v10 = 0
  \/ /\ part = "controller" /\ Controller!Init
     /\ v6 = 0 /\ v7 = 0 /\ v8 = 0 /\ v9 = 0 /\ v10 = 0
  \/ /\ part = "deployer" /\ Deployer!Init
     /\ v5 = 0 /\ v6 = 0 /\ v7 = 0 /\ v8 = 0 /\ v9 = 0 /\ v10 = 0
  \/ part = "streams" /\ Streams!Init /\ v9 = 0 /\ v10 = 0
  \/ part = "proxy" /\ Proxy!Init
  \/ part = "graph" /\ Graph!Init /\ v8 = 0 /\ v9 = 0 /\ v10 = 0
  \/ part = "again" /\ Again!Init
  \/ part = "responses" /\ Responses!Init
  \/ part = "deadlines" /\ Scheduler!Init /\ v7 = 0 /\ v8 = 0 /\ v9 = 0 /\ v10 = 0
  \/ part \in {"election", "overrides"} /\ Cluster!Init

OtherNext ==
  /\ UNCHANGED still
  /\ \/ part = "registry" /\ Registry!Next /\ UNCHANGED rest7
     \/ part = "adaptive" /\ Adaptive!Next
     \/ part = "failover" /\ Group!Next /\ UNCHANGED rest9
     \/ part = "checks" /\ Checks!Next /\ UNCHANGED rest9
     \/ part = "controller" /\ Controller!Next /\ UNCHANGED <<v6, rest7>>
     \/ part = "deployer" /\ Deployer!Next /\ UNCHANGED rest5
     \/ part = "streams" /\ Streams!Next /\ UNCHANGED rest9
     \/ part = "proxy" /\ Proxy!Next
     \/ part = "graph" /\ Graph!Next /\ UNCHANGED <<v8, rest9>>
     \/ part = "again" /\ Again!Next
     \/ part = "responses" /\ Responses!Next
     \/ part = "deadlines" /\ Scheduler!Next /\ UNCHANGED rest7
     \/ part = "election" /\ Cluster!ElectionNext
     \/ part = "overrides" /\ Cluster!OverrideNext

(* Which routes nobody has called yet is of no matter to the others. *)
FaultsInit ==
  /\ Init /\ OtherInit
  /\ part # "mesh" => \A c \in Callers : at[c] = r1

FaultsNext ==
  \/ part = "mesh" /\ Next /\ UNCHANGED <<part, others>>
  \/ OtherNext

(* The maintenance loop of the failover group sleeps for an interval, and the *)
(* mutex of tokio is fair.  A streaming task runs to its end once submit      *)
(* returns, as the router's jobs do, and a reader is polled.  Drains and      *)
(* refresh tasks go on, and time passes.                                      *)
Fairness ==
  /\ \A d \in Drainers : WF_allVars(part = "deadlines" /\ Scheduler!Drain(d) /\ UNCHANGED <<still, rest7>>)
  /\ \A n \in Nodes, t \in Cluster!Tasks :
       WF_allVars(part = "election" /\ Cluster!Refresh(n, t) /\ UNCHANGED still)
  /\ WF_allVars(part = "election" /\ Cluster!Second /\ UNCHANGED still)
  /\ WF_allVars(part = "failover" /\ Group!Tick /\ UNCHANGED <<still, rest9>>)
  /\ WF_allVars(part = "failover" /\ Group!Wake /\ UNCHANGED <<still, rest9>>)
  /\ WF_allVars(part = "failover" /\ Group!check_recovery /\ UNCHANGED <<still, rest9>>)
  /\ \A j \in streams_Jobs :
       /\ WF_allVars(part = "streams" /\ Streams!TaskStep(j) /\ UNCHANGED <<still, rest9>>)
       /\ WF_allVars(part = "streams" /\ Streams!Recv(j) /\ UNCHANGED <<still, rest9>>)
  /\ \A r \in Late : WF_allVars(part = "streams" /\ Streams!Recv(r) /\ UNCHANGED <<still, rest9>>)

FaultsSpec == FaultsInit /\ [][FaultsNext]_allVars /\ Fairness
ElectionSpec == part = "election" /\ FaultsSpec
MeshSpec == part = "mesh" /\ FaultsSpec

(* See the modules. *)
BreakersSound == part = "registry" => Registry!TestsBounded
StreaksExclusive == part = "checks" => Checks!StreaksExclusive
StreamsWhole == part = "streams" => Streams!StreamsWhole
RoomHeld ==
  /\ part = "proxy" => Proxy!RoomHeld
  /\ part = "responses" => Responses!CacheHeld
WrappersSound ==
  /\ part = "deadlines" => Scheduler!DeadlinesKept
  /\ part = "overrides" => Cluster!OverridesAgree
  /\ part = "election" => Cluster!RoleHeld
RetriesHeld ==
  /\ part = "again" => Again!RetriesHeld
  /\ part = "adaptive" => Adaptive!RampSound
  /\ part = "graph" => Graph!WavesSound
  /\ part = "proxy" => Proxy!RoutedHeld
ReleasesEnd ==
  [][/\ part = "controller" => Controller!Settles
     /\ part = "deployer" => Deployer!StaysOff]_allVars

(* failover.rs: no endpoint is taken out for good.  Whatever calls report,    *)
(* late successes included, it is tried again and again.                      *)
NeverLost == \A e \in 1 .. 3 : []<>(part = "failover" => e \in Group!Healthy)

(* streaming.rs: every reader comes to an end, whatever ids jobs share and    *)
(* whichever jobs the router drops.  deadline.rs: every job that was pushed   *)
(* is reported, as long as a drain is left.                                   *)
AnswersCome ==
  /\ \A r \in streams_Jobs \cup Late : []<>(part = "streams" => Streams!Ended(r))
  /\ \A j \in Jobs :
       []<>(part = "deadlines" => Scheduler!Reported(j) \/ \A d \in Drainers : v3[d] = "gone")

(* distributed_router.rs: is_primary says whether a node holds the role now,  *)
(* so that two nodes that both say so do not go on for good.                  *)
OnePrimary == []<>(part = "election" => \A m, n \in Nodes : v3[m] /\ v3[n] => m = n)

Types ==
  /\ TypeOK
  /\ part = "registry" => Registry!TypeOK
  /\ part = "adaptive" => Adaptive!TypeOK
  /\ part = "failover" => Group!TypeOK
  /\ part = "checks" => Checks!TypeOK
  /\ part = "controller" => Controller!TypeOK
  /\ part = "deployer" => Deployer!TypeOK
  /\ part = "streams" => Streams!TypeOK
  /\ part = "proxy" => Proxy!TypeOK
  /\ part = "graph" => Graph!TypeOK
  /\ part = "again" => Again!TypeOK
  /\ part = "responses" => Responses!TypeOK
  /\ part = "deadlines" => Scheduler!TypeOK
  /\ part \in {"election", "overrides"} => Cluster!TypeOK
=============================================================================
