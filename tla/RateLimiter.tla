------------------------------ MODULE RateLimiter ------------------------------
(* rate_limiter.rs, the window of one rule prefix and one client.  A request  *)
(* reads the rules under one lock and counts itself under another; rules with *)
(* the same prefix can be added meanwhile, and the last one wins.             *)
EXTENDS Admissions

CONSTANTS
  Callers,
  Rules,             \* what add_rule can add: records of the requests_per_window
                     \* and burst_allowance of a rule
  window_secs,       \* of all of them
  Steps, MaxTime, MaxLog

VARIABLES
  now, rules, timestamps, burst_used,
  rule,              \* where the rule is that a request read, or 0 before that
  log                \* the calls let through by a rule
vars == <<now, rules, timestamps, burst_used, rule, log>>

add_rule(r) ==
  /\ \A i \in DOMAIN rules : rules[i] # r
  /\ rules' = Append(rules, r)
  /\ UNCHANGED <<now, timestamps, burst_used, rule, log>>

(* max_by_key: the last of the rules with the longest matching prefix.  With  *)
(* none the call is let through uncounted.                                    *)
Look(p) ==
  /\ rule[p] = 0 /\ rules # <<>> /\ Len(log) < MaxLog
  /\ rule' = [rule EXCEPT ![p] = Len(rules)]
  /\ UNCHANGED <<now, rules, timestamps, burst_used, log>>

(* ClientWindow::record_and_check: what it keeps, and whether it lets the     *)
(* call through, within the limit or within what is left of the burst.        *)
unexpired ==
  LET Kept(ts) == ts >= Monus(now, window_secs) IN DropFront(timestamps, Kept)

burst_so_far == IF unexpired = <<>> THEN 0 ELSE burst_used

Allow == timestamps' = Append(unexpired, now) /\ log' = Append(log, now)

record_and_check(p) ==
  /\ rule[p] # 0
  /\ LET r == rules[rule[p]]
         within == Len(unexpired) < r.requests_per_window
     IN
     \/ within /\ Allow /\ burst_used' = burst_so_far
     \/ ~within /\ burst_so_far < r.burst_allowance /\ Allow /\ burst_used' = burst_so_far + 1
     \/ /\ ~within /\ burst_so_far >= r.burst_allowance
        /\ timestamps' = unexpired /\ burst_used' = burst_so_far /\ UNCHANGED log
  /\ rule' = [rule EXCEPT ![p] = 0]
  /\ UNCHANGED <<now, rules>>

(* cleanup_expired_windows drops the windows that hold no time, but evicts no *)
(* time: a window that once let a call through stays.                         *)
cleanup_expired_windows ==
  /\ timestamps = <<>> /\ burst_used' = 0
  /\ UNCHANGED <<now, rules, timestamps, rule, log>>

Tick ==
  /\ \E d \in Steps : now' = now + d /\ now' <= MaxTime
  /\ UNCHANGED <<rules, timestamps, burst_used, rule, log>>

Init ==
  /\ now = 0 /\ rules = <<>> /\ timestamps = <<>> /\ burst_used = 0 /\ log = <<>>
  /\ rule = [p \in Callers |-> 0]

Next ==
  \/ Tick \/ cleanup_expired_windows
  \/ \E r \in Rules : add_rule(r)
  \/ \E p \in Callers : Look(p) \/ record_and_check(p)

Spec == Init /\ [][Next]_vars

TypeOK ==
  /\ now \in 0 .. MaxTime /\ rules \in Seq(Rules) /\ burst_used \in Nat
  /\ rule \in [Callers -> 0 .. Cardinality(Rules)]
  /\ \A i \in DOMAIN timestamps : timestamps[i] \in 0 .. MaxTime

Highest(l, b) ==
  \A r \in Rules : r.requests_per_window <= l.requests_per_window
                  /\ r.burst_allowance <= b.burst_allowance

RulesAssumption ==
  /\ IsFiniteSet(Rules) /\ Rules # {} /\ window_secs \in Nat /\ Steps \subseteq Nat
  /\ \A r \in Rules : r.requests_per_window \in Nat /\ r.burst_allowance \in Nat

(* rate_limiter.rs: no window, ends included, holds more than the highest     *)
(* limit and the highest burst of the rules, under a steady load that never   *)
(* lets the window empty and for requests that read a rule since replaced.    *)
Held ==
  \E l, b \in Rules :
    /\ Highest(l, b)
    /\ AtMost(log, window_secs + 1, l.requests_per_window + b.burst_allowance)

(* With what the proof of Held needs: the window holds the recent calls, and  *)
(* what it holds beyond the limit was taken from the burst.                   *)
IInv ==
  /\ now \in Nat /\ rules \in Seq(Rules) /\ burst_used \in Nat
  /\ timestamps \in Seq(Nat) /\ log \in Seq(Nat)
  /\ rule \in [Callers -> 0 .. Len(rules)]
  /\ \A i \in DOMAIN log : log[i] <= now
  /\ Recent(timestamps, log, window_secs + 1, now)
  /\ \A l, b \in Rules : Highest(l, b) =>
       /\ burst_used <= b.burst_allowance
       /\ Len(timestamps) <= l.requests_per_window + burst_used
       /\ AtMost(log, window_secs + 1, l.requests_per_window + b.burst_allowance)
=============================================================================
