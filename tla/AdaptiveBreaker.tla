--------------------------- MODULE AdaptiveBreaker ---------------------------
(***************************************************************************)
(* adaptive_circuit_breaker.rs: AdaptiveCircuitBreaker, whose methods take *)
(* &mut self.  Durations are whole units.  The outcomes of the last minute *)
(* are two counts, from which any may have expired; a request may be       *)
(* reported long after it was permitted.                                   *)
(***************************************************************************)
EXTENDS Naturals, Sequences, SequencesExt

CONSTANTS
  base_threshold, base_timeout,
  cap,            \* five minutes
  RECENT, KEPT,   \* the recovery times that are averaged and kept: 10 and 20
  Delays,         \* how long after its cooldown an open breaker may be asked
  MaxCalls,       \* bound on the requests that are under way
  MaxFailures, MaxSuccesses   \* bounds on the outcomes of a minute

VARIABLES
  state, failure_count, cooldown, probe_count, success_count,
  load_pct,         \* in hundredths
  recovery_times,
  failures, successes,  \* the failure_history of the last minute
  calls                 \* requests permitted and not reported

vars == <<state, failure_count, cooldown, probe_count, success_count, load_pct,
          recovery_times, failures, successes, calls>>

history == <<failures, successes>>
halfOpen == <<probe_count, success_count, load_pct>>

AtLeast(a, b) == IF a >= b THEN a ELSE b
AtMost(a, b) == IF a <= b THEN a ELSE b

(* The failure rate against 50 % and 10 %. *)
adaptive_threshold(f, s) ==
  CASE 2 * f > f + s -> AtLeast(base_threshold \div 2, 1)
    [] 10 * f < f + s -> 2 * base_threshold
    [] OTHER -> base_threshold

(* The mean of the recent recoveries, between one and five times the base. *)
adaptive_timeout ==
  LET n == AtMost(Len(recovery_times), RECENT)
      recent == SubSeq(recovery_times, Len(recovery_times) - n + 1, Len(recovery_times))
  IN IF n = 0 THEN base_timeout
     ELSE AtMost(AtLeast(FoldSeq(LAMBDA x, y : x + y, 0, recent) \div n, base_timeout),
                 5 * base_timeout)

(* Not the last cooldown times 1.5, as line 23 says, but what the next one    *)
(* would be, times 1.5 (last_cooldown_or_base, 372-376).                      *)
reopen_timeout == AtMost((3 * adaptive_timeout) \div 2, cap)

HalfOpen(pct) ==
  /\ state' = "halfOpen" /\ probe_count' = 0 /\ success_count' = 0 /\ load_pct' = pct

(* Mutant: a breaker that reopens keeps the ramp it had reached. *)
maybe_transition_KeepsRamp ==
  \/ /\ state = "open" /\ HalfOpen(AtLeast(load_pct, 10))
     /\ \E late \in Delays :
          LET all == Append(recovery_times, cooldown + late)
          IN recovery_times' = IF Len(all) > KEPT THEN Tail(all) ELSE all
  \/ state # "open" /\ UNCHANGED <<state, recovery_times, halfOpen>>

(* An open breaker whose cooldown is over becomes half open; one that stays *)
(* open changes nothing.                                                    *)
maybe_transition_open_to_half_open ==
  \/ /\ state = "open" /\ HalfOpen(10)
     /\ \E late \in Delays :
          LET all == Append(recovery_times, cooldown + late)
          IN recovery_times' = IF Len(all) > KEPT THEN Tail(all) ELSE all
  \/ state # "open" /\ UNCHANGED <<state, recovery_times, halfOpen>>

(* A half-open breaker permits a fraction of the requests, by a             *)
(* pseudo-random number that may be either here.                            *)
permit ==
  /\ maybe_transition_open_to_half_open
  /\ \/ calls' = calls + 1 /\ calls < MaxCalls
     \/ state # "closed" /\ UNCHANGED calls
  /\ UNCHANGED <<failure_count, cooldown, history>>

(* push_history: an outcome joins what is left of the last minute. *)
push_history(f, s) ==
  \E f0 \in 0 .. failures, s0 \in 0 .. successes :
    /\ f0 + f <= MaxFailures /\ s0 + s <= MaxSuccesses
    /\ failures' = f0 + f /\ successes' = s0 + s

record_success ==
  /\ calls > 0 /\ calls' = calls - 1
  /\ push_history(0, 1)
  /\ CASE state = "closed" -> failure_count' = 0 /\ UNCHANGED <<state, halfOpen>>
       [] state = "halfOpen" ->
            LET steady == 5 * (success_count + 1) >= 4 * (probe_count + 1)
            IN /\ probe_count' = probe_count + 1 /\ success_count' = success_count + 1
               /\ IF steady /\ load_pct >= 90
                  THEN state' = "closed" /\ failure_count' = 0 /\ UNCHANGED load_pct
                  ELSE /\ load_pct' = IF steady THEN AtMost(load_pct + 20, 100) ELSE load_pct
                       /\ UNCHANGED <<state, failure_count>>
       [] state = "open" -> UNCHANGED <<state, failure_count, halfOpen>>
  /\ UNCHANGED <<cooldown, recovery_times>>

record_failure ==
  /\ calls > 0 /\ calls' = calls - 1
  /\ push_history(1, 0)
  /\ CASE state = "closed" ->
            /\ failure_count' = failure_count + 1
            /\ IF failure_count' >= adaptive_threshold(failures', successes')
               THEN state' = "open" /\ cooldown' = adaptive_timeout
               ELSE UNCHANGED <<state, cooldown>>
       [] state = "halfOpen" ->
            state' = "open" /\ cooldown' = reopen_timeout /\ UNCHANGED failure_count
       [] state = "open" -> UNCHANGED <<state, failure_count, cooldown>>
  /\ UNCHANGED <<halfOpen, recovery_times>>

Init ==
  /\ state = "closed" /\ failure_count = 0 /\ cooldown = 0
  /\ probe_count = 0 /\ success_count = 0 /\ load_pct = 0
  /\ recovery_times = <<>>
  /\ failures = 0 /\ successes = 0 /\ calls = 0

Next == permit \/ record_success \/ record_failure

Spec == Init /\ [][Next]_vars

-----------------------------------------------------------------------------
TypeOK ==
  /\ state \in {"closed", "open", "halfOpen"}
  /\ {failure_count, cooldown, probe_count, success_count, load_pct, calls} \subseteq Nat
  /\ recovery_times \in Seq(Nat) /\ Len(recovery_times) <= KEPT
  /\ failures \in 0 .. MaxFailures /\ successes \in 0 .. MaxSuccesses

(* However late outcomes are reported and however long a breaker stays open,  *)
(* cooldowns neither die out nor grow without bound (though they need not     *)
(* grow: see reopen_timeout); a half-open breaker lets                        *)
(* more through only for successes since it half opened, all of its probes    *)
(* having succeeded, so that it is closed by the fifth; and a closed one      *)
(* never tolerates twice base_threshold failures in a row.                    *)
RampSound ==
  /\ state = "open" => cooldown \in AtMost(base_timeout, cap) .. AtLeast(5 * base_timeout, cap)
  /\ state = "halfOpen" =>
       success_count = probe_count /\ success_count <= 4 /\ load_pct = 10 + 20 * success_count
  /\ state = "closed" => failure_count < 2 * base_threshold
=============================================================================
