-------------------------- MODULE SlidingRateLimiter --------------------------
(* sliding_rate_limiter.rs, one client (clients share nothing).  A caller     *)
(* reads the clock, asks check, which counts nothing, and then calls record   *)
(* with the same time; the client's window is locked in each call and free    *)
(* between the two.                                                           *)
EXTENDS Admissions

CONSTANTS
  Callers, window_ms, max_requests,
  burst_tenths,      \* burst_multiplier * 10
  Steps, MaxTime, MaxLog

VARIABLES
  now, timestamps, pc,
  at,                \* the time a caller passes
  limited,           \* when the last Limited answer said to come back; 0 after another
                     \* call was recorded, and if the limit had been overshot
  log                \* the calls since cleanup_stale last forgot one that counts
vars == <<now, timestamps, pc, at, limited, log>>

burst_limit == (max_requests * burst_tenths) \div 10
burst_window_ms == window_ms \div 10

(* What check goes up to: max_requests where the multiplier is below 1.       *)
most == IF max_requests <= burst_limit THEN burst_limit ELSE max_requests

evict_old(s, t) ==
  LET Kept(ts) == ts + window_ms > t IN DropFront(s, Kept)

count_in(s, t, span) == Cardinality({i \in DOMAIN s : s[i] + span > t})

(* The limit check compares the count with, evicted window s at time t.       *)
effective_limit(s, t) ==
  IF /\ count_in(s, t, burst_window_ms) < burst_limit
     /\ count_in(s, t, window_ms) < burst_limit
  THEN burst_limit ELSE max_requests

is_allowed(s, t) ==
  LET kept == evict_old(s, t) IN count_in(kept, t, window_ms) < effective_limit(kept, t)

check(p) ==
  LET kept == evict_old(timestamps, now) IN
  /\ pc[p] = "idle" /\ Len(log) < MaxLog
  /\ timestamps' = kept /\ at' = [at EXCEPT ![p] = now]
  /\ \/ /\ is_allowed(timestamps, now)
        /\ pc' = [pc EXCEPT ![p] = "record"] /\ UNCHANGED limited
     \/ /\ ~is_allowed(timestamps, now)
        /\ limited' = IF Len(kept) > most THEN 0
                      ELSE IF kept = <<>> THEN now + window_ms ELSE kept[1] + window_ms
        /\ UNCHANGED pc
  /\ UNCHANGED <<now, log>>

record(p) ==
  /\ pc[p] = "record"
  /\ timestamps' = Append(evict_old(timestamps, at[p]), at[p])
  /\ pc' = [pc EXCEPT ![p] = "idle"]
  /\ log' = Append(log, at[p]) /\ limited' = 0
  /\ UNCHANGED <<now, at>>

(* It goes by the last time recorded, which a late caller makes an old one,   *)
(* and then forgets calls that still count: the log starts again there.       *)
cleanup_stale ==
  /\ timestamps # <<>>
  /\ \/ /\ timestamps[Len(timestamps)] >= Monus(now, 2 * window_ms)
        /\ timestamps' = evict_old(timestamps, now) /\ UNCHANGED log
     \/ /\ timestamps[Len(timestamps)] < Monus(now, 2 * window_ms)
        /\ timestamps' = <<>>
        /\ log' = IF count_in(timestamps, now, window_ms) > 0 THEN <<>> ELSE log
  /\ UNCHANGED <<now, pc, at, limited>>

Tick ==
  /\ \E d \in Steps : now' = now + d /\ now' <= MaxTime
  /\ UNCHANGED <<timestamps, pc, at, limited, log>>

Init ==
  /\ now = 0 /\ timestamps = <<>> /\ limited = 0 /\ log = <<>>
  /\ pc = [p \in Callers |-> "idle"] /\ at = [p \in Callers |-> 0]

Next == Tick \/ cleanup_stale \/ \E p \in Callers : check(p) \/ record(p)

Spec == Init /\ [][Next]_vars

TypeOK ==
  /\ now \in 0 .. MaxTime /\ at \in [Callers -> 0 .. MaxTime] /\ limited \in Nat
  /\ pc \in [Callers -> {"idle", "record"}]
  /\ \A i \in DOMAIN timestamps : timestamps[i] \in 0 .. MaxTime

SlidingAssumption ==
  /\ IsFiniteSet(Callers) /\ {window_ms, burst_tenths} \subseteq Nat
  /\ max_requests \in Nat \ {0} /\ Steps \subseteq Nat

(* sliding_rate_limiter.rs check, record, cleanup_stale: callers who asked    *)
(* before the others recorded overshoot what check goes up to by at most one  *)
(* each, however late they record.  That is all a window holds until a sweep  *)
(* forgets calls that count, and after each such sweep, from none.  (The doc  *)
(* of max_requests, line 37, says a window holds no more than that.)          *)
Held == AtMost(log, window_ms, most + Cardinality(Callers) - 1)

(* check: a caller told to come back in retry_after_ms is let through then if *)
(* nobody recorded since and the limit had not been overshot.                 *)
RetryHonest ==
  limited > 0 => is_allowed(timestamps, IF limited >= now THEN limited ELSE now)

Entered(x) == {i \in DOMAIN log : log[i] >= x /\ log[i] < x + window_ms}
Entering(x) == {p \in Callers : pc[p] = "record" /\ at[p] >= x /\ at[p] < x + window_ms}
Unexpired(t) == {i \in DOMAIN log : log[i] + window_ms > t}

(* With what the proof of Held needs: the window holds the recent calls, and  *)
(* who is about to record counts as recorded.                                 *)
IInv ==
  /\ {now, limited} \subseteq Nat /\ timestamps \in Seq(Nat) /\ log \in Seq(Nat)
  /\ pc \in [Callers -> {"idle", "record"}] /\ at \in [Callers -> Nat]
  /\ Recent(timestamps, log, window_ms, now)
  /\ \A i \in DOMAIN log : log[i] <= now
  /\ \A p \in Callers : pc[p] = "record" => at[p] <= now
  /\ \A x \in 0 .. now :
       Cardinality(Entered(x)) + Cardinality(Entering(x)) <= most + Cardinality(Callers) - 1
  /\ limited > 0 => Cardinality(Unexpired(limited)) < most
=============================================================================
