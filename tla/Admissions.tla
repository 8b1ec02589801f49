------------------------------ MODULE Admissions ------------------------------
(* What the limiters are judged by: the times at which calls were let         *)
(* through, in a sequence no limiter reads.                                   *)
EXTENDS Integers, FiniteSets, Sequences

(* Calls let through in the span of the given length that starts at from.     *)
Within(log, from, span) ==
  Cardinality({i \in DOMAIN log : log[i] >= from /\ log[i] < from + span})

(* No span of that length holds more than most calls; one that does can be    *)
(* moved to start at a call.                                                  *)
AtMost(log, span, most) ==
  \A i \in DOMAIN log : Within(log, log[i], span) <= most

(* Every stretch of calls was paid for, each with price, out of a bucket that *)
(* holds capacity and is refilled at the rate.                                *)
PaidFor(log, price, capacity, rate) ==
  \A i, j \in DOMAIN log : i <= j =>
    (j - i + 1) * price <= capacity + rate * (log[j] - log[i])

(* What is left of the bucket at a time can still be spent: with it, every    *)
(* stretch of calls that ends now is paid for.                                *)
Funded(log, price, capacity, rate, at, tokens) ==
  \A i \in DOMAIN log :
    /\ log[i] <= at
    /\ (Len(log) - i + 1) * price + tokens <= capacity + rate * (at - log[i])

(* A limiter that keeps the calls of a span has kept the end s of the log,    *)
(* and what it forgot is older than the span.                                 *)
Recent(s, log, span, t) ==
  /\ Len(s) <= Len(log)
  /\ \A i \in DOMAIN s : s[i] = log[Len(log) - Len(s) + i]
  /\ \A i \in 1 .. Len(log) - Len(s) : log[i] + span <= t

(* VecDeque::pop_front while the front is not to be kept: what is left starts *)
(* at the first position that is.                                             *)
FromFirst(s, kept) ==
  IF kept = {} THEN <<>>
  ELSE SubSeq(s, CHOOSE i \in kept : \A j \in kept : i <= j, Len(s))

DropFront(s, Kept(_)) == FromFirst(s, {i \in DOMAIN s : Kept(s[i])})

Least(a, b) == IF a <= b THEN a ELSE b
Monus(a, b) == IF a <= b THEN 0 ELSE a - b
=============================================================================
