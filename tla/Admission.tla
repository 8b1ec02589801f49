------------------------------- MODULE Admission -------------------------------
(* admission.rs, one caller id (ids share nothing): the load the router       *)
(* reports decides first, then the caller's token bucket, which is dropped    *)
(* after a time without an admitted call.                                     *)
EXTENDS Admissions

CONSTANTS
  bucket_capacity, refill_rate, bucket_ttl,
  soft_ceiling, hard_ceiling, Loads,   \* Router::stats_snapshot's pressure_score
  MaxTime, MaxLog

VARIABLES
  now, tokens, last_refill, last_used,
  log,               \* the calls since a bucket was last dropped before it was full
  given              \* the most tokens a caller was given by dropping its bucket
vars == <<now, tokens, last_refill, last_used, log, given>>

Priorities == {"low", "normal", "high"}

Overloaded(priority, load) ==
  \/ priority = "low" /\ load > soft_ceiling
  \/ priority = "normal" /\ load > hard_ceiling

(* A dropped bucket is made anew, full: last_used = -1 says there is none.    *)
available ==
  IF last_used = -1 THEN bucket_capacity
  ELSE Least(tokens + (now - last_refill) * refill_rate, bucket_capacity)

(* TokenBucket::try_consume, inside submit: a refused call leaves last_used,  *)
(* which TokenBucket::new sets to now.                                        *)
submit(priority, load) ==
  /\ Len(log) < MaxLog /\ ~Overloaded(priority, load)
  /\ last_refill' = now
  /\ \/ /\ available >= 1
        /\ tokens' = available - 1 /\ last_used' = now /\ log' = Append(log, now)
     \/ /\ available < 1
        /\ tokens' = available /\ UNCHANGED log
        /\ last_used' = IF last_used = -1 THEN now ELSE last_used
  /\ UNCHANGED <<now, given>>

(* As a bug would have it: idle a moment early.                              *)
is_idle_AtTtl == now - last_used >= bucket_ttl

is_idle == now - last_used > bucket_ttl

(* Whatever the bucket has gathered: who comes back finds a full one.         *)
evict_idle_buckets ==
  /\ last_used # -1 /\ is_idle
  /\ last_used' = -1 /\ tokens' = 0 /\ last_refill' = 0
  /\ given' = IF bucket_capacity - available > given THEN bucket_capacity - available ELSE given
  /\ log' = IF available < bucket_capacity THEN <<>> ELSE log
  /\ UNCHANGED now

Tick == now < MaxTime /\ now' = now + 1 /\ UNCHANGED <<tokens, last_refill, last_used, log, given>>

Init == now = 0 /\ tokens = 0 /\ last_refill = 0 /\ last_used = -1 /\ log = <<>> /\ given = 0

Next ==
  \/ Tick \/ evict_idle_buckets
  \/ \E priority \in Priorities, load \in Loads : submit(priority, load)

Spec == Init /\ [][Next]_vars

TypeOK ==
  /\ now \in 0 .. MaxTime /\ tokens \in 0 .. bucket_capacity
  /\ last_refill \in 0 .. MaxTime /\ last_used \in -1 .. MaxTime
  /\ given \in 0 .. bucket_capacity

GateAssumption == {bucket_capacity, refill_rate, bucket_ttl} \subseteq Nat

(* admission.rs: dropping an idle bucket gives its caller no more than it     *)
(* could not have gathered since it was last let through, refused calls in    *)
(* between or not; and until that happens every stretch of calls is paid for. *)
Held ==
  /\ PaidFor(log, 1, bucket_capacity, refill_rate)
  /\ given <= Monus(bucket_capacity, refill_rate * (bucket_ttl + 1))

(* What a bucket gathers from its last call on, or more.                      *)
Gathered ==
  Least((last_refill - last_used) * refill_rate, bucket_capacity) <= tokens

(* With what the proof of Held needs: what is left is funded, and has been    *)
(* gathered since the last call let through.                                  *)
IInv ==
  /\ {now, tokens, last_refill, given} \subseteq Nat /\ log \in Seq(Nat)
  /\ tokens <= bucket_capacity /\ last_refill <= now /\ last_used \in -1 .. now
  /\ Held
  /\ IF last_used = -1 THEN Funded(log, 1, bucket_capacity, refill_rate, now, bucket_capacity)
     ELSE /\ Funded(log, 1, bucket_capacity, refill_rate, last_refill, tokens)
          /\ last_used <= last_refill /\ Gathered
=============================================================================
