------------------------- MODULE SlidingWindowCounter -------------------------
(* sliding_window_counter.rs: DistributedCounter, one key.  A call locks the  *)
(* map, so that it is one step; the time it passes may have been read before  *)
(* another call got in.  A bucket counts the calls since its start, and is    *)
(* dropped when that start leaves the window.                                 *)
EXTENDS Admissions

CONSTANTS
  window_ms, max_requests, sub_windows, MaxLate, MaxTime, MaxLog

VARIABLES
  now, buckets,
  log        \* the times of the counted calls whose bucket can be kept
vars == <<now, buckets, log>>

bucket_ms == LET w == window_ms \div sub_windows IN IF w = 0 THEN 1 ELSE w

bucket_start(t) == (t \div bucket_ms) * bucket_ms

(* buckets: the count of every start that has a bucket.                       *)
evict_stale(t) ==
  [b \in {x \in DOMAIN buckets : x > Monus(t, window_ms)} |-> buckets[b]]

(* What the buckets count: the sum of the counts is how many.                 *)
Calls(c) == UNION {{b} \X (1 .. c[b]) : b \in DOMAIN c}

sum_counts(c) == Cardinality(Calls(c))

record(c, t) ==
  LET b == bucket_start(t) IN
  [x \in DOMAIN c \cup {b} |-> IF x # b THEN c[x] ELSE IF b \in DOMAIN c THEN c[b] + 1 ELSE 1]

(* A bucket that starts at 0 is dropped by the next call, inside the window   *)
(* or not: the calls of the clock's first bucket are counted for nothing.     *)
try_increment(t) ==
  LET kept == evict_stale(t) IN
  /\ Len(log) < MaxLog
  /\ \/ /\ sum_counts(kept) >= max_requests
        /\ buckets' = kept /\ UNCHANGED log
     \/ /\ sum_counts(kept) < max_requests
        /\ buckets' = record(kept, t)
        /\ log' = IF t >= bucket_ms THEN Append(log, t) ELSE log
  /\ UNCHANGED now

(* check, current_count, top_consumers: count, which evicts.                  *)
current_count(t) == buckets' = evict_stale(t) /\ UNCHANGED <<now, log>>

(* The calls counted so far no longer count.                                  *)
reset == buckets' = <<>> /\ log' = <<>> /\ UNCHANGED now

Tick == now < MaxTime /\ now' = now + 1 /\ UNCHANGED <<buckets, log>>

Init == now = 0 /\ buckets = <<>> /\ log = <<>>

Next ==
  \/ Tick
  \/ reset
  \/ \E t \in Monus(now, MaxLate) .. now : try_increment(t) \/ current_count(t)

Spec == Init /\ [][Next]_vars

TypeOK ==
  /\ now \in 0 .. MaxTime /\ DOMAIN buckets \subseteq 0 .. MaxTime
  /\ \A b \in DOMAIN buckets : buckets[b] \in 1 .. max_requests

CounterAssumption ==
  {window_ms, max_requests, MaxLate} \subseteq Nat /\ sub_windows \in Nat \ {0}

(* sliding_window_counter.rs: past the clock's first bucket, a window as      *)
(* short as a bucket's rounding and the late clocks leave of it never holds   *)
(* more than max_requests: the whole window of line 31 may.                   *)
Held == AtMost(log, window_ms - bucket_ms + 1 - MaxLate, max_requests)

(* With what the proof of Held needs: no call of a bucket that starts in the  *)
(* last window is missing among those the buckets count.                      *)
IInv ==
  /\ now \in Nat /\ log \in Seq(Nat)
  /\ buckets = [b \in DOMAIN buckets |-> buckets[b]] /\ DOMAIN buckets \subseteq Nat
  /\ \A b \in DOMAIN buckets : buckets[b] \in Nat
  /\ IsFiniteSet(Calls(buckets))
  /\ Held
  /\ \A i \in DOMAIN log : log[i] \in bucket_ms .. now
  /\ \A x \in Monus(now, window_ms) .. now :
       Cardinality({i \in DOMAIN log : bucket_start(log[i]) > x})
         <= Cardinality({c \in Calls(buckets) : c[1] > x})
=============================================================================
