-------------------------------- MODULE Retrying --------------------------------
(* retry.rs, retry_policy.rs and retry_middleware.rs: three ways to call      *)
(* again what failed.  RetryManager sleeps between calls and keeps statistics *)
(* over its jobs, RetryExecutor only adds up delays, and RetryMiddleware      *)
(* answers whether and when its client is to send a request again.            *)
EXTENDS Integers, FiniteSetsExt

CONSTANTS
  Policies,            \* [max_attempts, base, max, backoff, jitter]
  multiplier,          \* backoff_multiplier
  Jitters,             \* what rand makes of 10 in RetryManager: within 5 .. 15
  Errors,              \* "retryable", "fatal"
  Methods,             \* "GET", "POST"
  Builds,              \* "debug": an arithmetic overflow panics; "release": it wraps
  MaxJobs

VARIABLES
  loop, policy,        \* which of the three a job is in, and its policy
  method,
  calls,               \* of the executor for this job
  attempts,            \* RetryState's
  delay,               \* next_backoff, or the last delay computed
  status,              \* "idle", "calling", "deciding", "waiting", and how it ended
  stats,               \* RetryManager's: total_attempts, total_successes, total_failures
  executed, lost       \* calls of RetryManager ever, and of runs that were dropped
vars == <<loop, policy, method, calls, attempts, delay, status, stats, executed, lost>>

least(a, b) == IF a < b THEN a ELSE b
jobs == stats.total_successes + stats.total_failures

Begin(l) ==
  /\ status \in {"idle", "ok", "failed", "dropped"} /\ jobs + lost < MaxJobs
  /\ loop' = l /\ status' = "calling" /\ calls' = 0 /\ attempts' = 0
  /\ policy' \in Policies /\ delay' = policy'.base
  /\ method' \in IF l = "middleware" THEN Methods ELSE {"GET"}
  /\ UNCHANGED <<stats, executed, lost>>

(* The executor is called, and answers.                                       *)
Succeed ==
  /\ status = "calling" /\ status' = "ok" /\ calls' = calls + 1
  /\ stats' = IF loop # "manager" THEN stats
              ELSE [stats EXCEPT !.total_attempts = @ + attempts + 1, !.total_successes = @ + 1]
  /\ executed' = executed + IF loop = "manager" THEN 1 ELSE 0
  /\ UNCHANGED <<loop, policy, method, attempts, delay, lost>>

(* RetryState::advance.                                                       *)
raw == least(delay * multiplier, policy.max)
jittered_Uncapped(j) == (2 * raw * j + 10) \div 20
jittered(j) == least((2 * raw * j + 10) \div 20, policy.max)

run_Err ==
  /\ loop = "manager" /\ status = "calling"
  /\ calls' = calls + 1 /\ executed' = executed + 1 /\ attempts' = attempts + 1
  /\ \E j \in Jitters : delay' = IF policy.jitter THEN jittered(j) ELSE raw
  /\ IF attempts' >= policy.max_attempts
     THEN /\ status' = "failed"
          /\ stats' = [stats EXCEPT !.total_attempts = @ + attempts', !.total_failures = @ + 1]
     ELSE status' = "waiting" /\ UNCHANGED stats
  /\ UNCHANGED <<loop, policy, method, lost>>

Slept ==
  /\ status = "waiting" /\ status' = "calling"
  /\ UNCHANGED <<loop, policy, method, calls, attempts, delay, stats, executed, lost>>

(* The future of run is dropped while it sleeps.                              *)
Cancel ==
  /\ loop = "manager" /\ status = "waiting" /\ status' = "dropped" /\ lost' = lost + calls
  /\ UNCHANGED <<loop, policy, method, calls, attempts, delay, stats, executed>>

(* retry_policy.rs: next_delay_ms.  attempt has been counted already.         *)
raw_delay(attempt) ==
  CASE policy.backoff = "Fixed" -> policy.base
    [] policy.backoff = "Linear" -> policy.base * attempt
    [] policy.backoff = "Exponential" -> policy.base * 2 ^ (attempt - 1)
clamped(attempt) == least(raw_delay(attempt), policy.max)

(* execute_sync: it does not sleep; jitter, a tenth of it for every step of   *)
(* t, comes after the clamp.                                                  *)
execute_sync_Err(error) ==
  /\ loop = "executor" /\ status = "calling" /\ calls' = calls + 1
  /\ IF error = "fatal" \/ calls' >= policy.max_attempts
     THEN status' = "failed" /\ UNCHANGED <<attempts, delay>>
     ELSE /\ status' = "calling" /\ attempts' = attempts + 1
          /\ \E t \in IF policy.jitter THEN -5 .. 4 ELSE {0} :
               delay' = (clamped(attempts') * (10 + t)) \div 10
  /\ UNCHANGED <<loop, policy, method, stats, executed, lost>>

(* retry_middleware.rs: the client reports a status, with attempt 1 after the *)
(* first.  error stands for the status codes that are worth another try.      *)
Reported(error) ==
  /\ loop = "middleware" /\ status = "calling" /\ calls' = calls + 1
  /\ attempts' = attempts + 1
  /\ status' = IF error = "fatal" THEN "failed" ELSE "deciding"
  /\ UNCHANGED <<loop, policy, method, delay, stats, executed, lost>>

is_idempotent == method = "GET"

(* attempt * 6364136223846793005 in 64 bits.                                  *)
SeedOverflows == attempts >= 3

(* compute_delay_ms: jitter comes before the second cap, but only the         *)
(* exponential policy has one.                                                *)
compute_delay_ms(jitter_val) ==
  CASE policy.backoff = "Fixed" -> policy.base
    [] policy.backoff = "Exponential" ->
         least(least(policy.base * 2 ^ (attempts - 1), policy.max) + jitter_val, policy.max)
    [] policy.backoff = "Linear" -> policy.base + policy.base * (attempts - 1)

should_retry_request(build) ==
  /\ loop = "middleware" /\ status = "deciding"
  /\ \/ /\ ~is_idempotent \/ attempts >= policy.max_attempts
        /\ status' = "failed" /\ UNCHANGED delay
     \/ /\ is_idempotent /\ attempts < policy.max_attempts
        /\ SeedOverflows /\ build = "debug" /\ status' = "panicked" /\ UNCHANGED delay
     \/ /\ is_idempotent /\ attempts < policy.max_attempts
        /\ ~SeedOverflows \/ build = "release"
        /\ status' = "waiting"
        /\ \E jitter_val \in IF policy.jitter /\ policy.base > 1
                             THEN 0 .. policy.base \div 2 - 1 ELSE {0} :
             delay' = compute_delay_ms(jitter_val)
  /\ UNCHANGED <<loop, policy, method, calls, attempts, stats, executed, lost>>

Init ==
  /\ loop = "manager" /\ policy \in Policies /\ method = "GET" /\ calls = 0 /\ attempts = 0
  /\ delay = 0 /\ status = "idle" /\ executed = 0 /\ lost = 0
  /\ stats = [total_attempts |-> 0, total_successes |-> 0, total_failures |-> 0]

Next ==
  \/ \E l \in {"manager", "executor", "middleware"} : Begin(l)
  \/ Succeed \/ run_Err \/ Slept \/ Cancel
  \/ \E e \in Errors : execute_sync_Err(e) \/ Reported(e)
  \/ \E b \in Builds : should_retry_request(b)

Spec == Init /\ [][Next]_vars

TypeOK ==
  /\ loop \in {"manager", "executor", "middleware"} /\ policy \in Policies
  /\ calls \in Nat /\ attempts \in Nat /\ delay \in Nat /\ executed \in Nat /\ lost \in Nat
  /\ status \in {"idle", "calling", "deciding", "waiting", "ok", "failed", "dropped", "panicked"}

(* retry*.rs: over any interleaving of answers, sleeps and dropped runs,      *)
(* nothing is called more often than its policy allows and what must not be   *)
(* repeated is not; RetryManager gives up at its last attempt and not before, *)
(* sleeps no longer than the policy's maximum, and its statistics account for *)
(* every call of a run that was not dropped; and RetryMiddleware's            *)
(* exponential delays stay below their maximum, jitter included.  Nothing is  *)
(* claimed of RetryExecutor's delays, which are clamped before their jitter   *)
(* (retry_policy.rs:40 and 122 promise a bound that 145-149 do not keep), of  *)
(* the middleware's linear ones, which have no maximum, nor that it answers a *)
(* third attempt in a debug build, where its seed overflows.                  *)
Tries == Max({1, policy.max_attempts})
RetriesHeld ==
  /\ calls <= Tries /\ (method = "POST" => calls <= 1)
  /\ loop = "manager" /\ status = "failed" => calls = Tries
  /\ loop = "manager" /\ attempts > 0 => delay <= policy.max
  /\ loop = "middleware" /\ status = "waiting" /\ policy.backoff = "Exponential"
       => delay <= policy.max
  /\ executed = stats.total_attempts + lost
       + IF loop = "manager" /\ status \in {"calling", "waiting"} THEN calls ELSE 0
=============================================================================
