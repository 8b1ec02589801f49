----------------------------- MODULE RateLimiterV2 -----------------------------
(* rate_limiter_v2.rs, one registered client: a sliding window and a token    *)
(* bucket that both must agree.  The limiter is taken by &mut, so that a call *)
(* is one step; the time it gets is the caller's, who may have read it before *)
(* another caller who got in first.                                           *)
EXTENDS Admissions

CONSTANTS
  capacity, refill,          \* tokens; tokens per unit of time
  window_ms, window_max,
  Tokens,                    \* what a call asks for
  MaxLate,                   \* how old the time of a call can be
  MaxTime, MaxLog

VARIABLES now, entries, tokens, last_ms, log
vars == <<now, entries, tokens, last_ms, log>>

evict(s, t) == LET Kept(e) == e.timestamp_ms + window_ms > t IN DropFront(s, Kept)

(* What the entries count: the sum of the counts is how many.                 *)
Calls(s) == UNION {{i} \X (1 .. s[i].count) : i \in DOMAIN s}

sum_counts(s) == Cardinality(Calls(s))

(* SlidingWindowLimiter::try_allow, and the same test in HybridLimiter.       *)
window_ok(t, n) == sum_counts(evict(entries, t)) + n <= window_max

refilled(t) == IF t > last_ms THEN Least(tokens + refill * (t - last_ms), capacity) ELSE tokens

try_consume(t, n) ==
  /\ last_ms' = IF t > last_ms THEN t ELSE last_ms
  /\ tokens' = IF refilled(t) >= n THEN refilled(t) - n ELSE refilled(t)

check(t, n) ==
  /\ Len(log) + n <= MaxLog
  /\ \/ /\ ~window_ok(t, n)
        /\ entries' = evict(entries, t)
        /\ UNCHANGED <<tokens, last_ms, log>>
     \/ /\ window_ok(t, n)
        /\ try_consume(t, n)
        /\ \/ /\ refilled(t) >= n
              /\ entries' = Append(evict(entries, t), [timestamp_ms |-> t, count |-> n])
              /\ log' = log \o [i \in 1 .. n |-> t]
           \/ /\ refilled(t) < n
              /\ entries' = evict(entries, t) /\ UNCHANGED log
  /\ UNCHANGED now

(* register_client again: both limits start afresh, what was let through      *)
(* before is forgotten.                                                       *)
register_client ==
  /\ entries' = <<>> /\ tokens' = capacity /\ last_ms' = 0 /\ log' = <<>>
  /\ UNCHANGED now

Tick == now < MaxTime /\ now' = now + 1 /\ UNCHANGED <<entries, tokens, last_ms, log>>

Init == now = 0 /\ entries = <<>> /\ tokens = capacity /\ last_ms = 0 /\ log = <<>>

Next ==
  \/ Tick \/ register_client
  \/ \E n \in Tokens, t \in Monus(now, MaxLate) .. now : check(t, n)

Spec == Init /\ [][Next]_vars

TypeOK ==
  /\ now \in 0 .. MaxTime /\ last_ms \in 0 .. MaxTime /\ tokens \in 0 .. capacity
  /\ entries \in Seq([timestamp_ms : 0 .. MaxTime, count : Tokens])

HybridAssumption ==
  {capacity, refill, window_ms, window_max, MaxLate} \subseteq Nat /\ Tokens \subseteq Nat

After(x) == {c \in Calls(entries) : entries[c[1]].timestamp_ms > x}

(* rate_limiter_v2.rs HybridLimiter::try_allow: no window holds more than     *)
(* window_max, short of what late clocks cost it, and no stretch of time more *)
(* than the bucket's capacity and its refill; refused calls cost nothing.     *)
Held ==
  /\ AtMost(log, window_ms - MaxLate, window_max)
  /\ PaidFor(log, 1, capacity + refill * MaxLate, refill)

(* With what the proof of Held needs: the rest of the bucket is funded, and   *)
(* no call of the last window is missing among those the entries count.       *)
IInv ==
  /\ {now, last_ms, tokens} \subseteq Nat /\ log \in Seq(Nat)
  /\ last_ms <= now /\ tokens <= capacity
  /\ entries \in Seq([timestamp_ms : Nat, count : Tokens]) /\ IsFiniteSet(Calls(entries))
  /\ Held
  /\ Funded(log, 1, capacity, refill, last_ms, tokens)
  /\ \A x \in now - window_ms .. now :
       Cardinality({i \in DOMAIN log : log[i] > x}) <= Cardinality(After(x))
=============================================================================
