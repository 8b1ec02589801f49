----------------------------- MODULE TrafficShaper -----------------------------
(* traffic_shaper.rs, one traffic class (classes share nothing): a token      *)
(* bucket and the queue of the requests it could not pay for.  The shaper is  *)
(* taken by &mut, so that a call is one step.                                 *)
EXTENDS Admissions

CONSTANTS
  Requests,
  MaxWanted,         \* the most tokens a request asks for
  capacity, refill, strict_priority, MaxTime

VARIABLES
  now, tokens, last_refill, queue,
  asked,             \* what each request asked for, 0 before it did
  spent,             \* when a token was spent
  log                \* when a token was let through that a request had asked for
vars == <<now, tokens, last_refill, queue, asked, spent, log>>

refilled == Least(tokens + (now - last_refill) * refill, capacity)

Times(n) == [i \in 1 .. n |-> now]

(* What the requests of a sequence have asked for.                            *)
Asked(s) ==
  Cardinality({e \in (1 .. Len(s)) \X (1 .. MaxWanted) : e[2] <= asked[s[e[1]]]})

admit(r, n) ==
  /\ asked[r] = 0 /\ asked' = [asked EXCEPT ![r] = n]
  /\ last_refill' = now
  /\ \/ /\ refilled >= n /\ tokens' = refilled - n
        /\ spent' = spent \o Times(n) /\ log' = log \o Times(n)
        /\ UNCHANGED queue
     \/ /\ refilled < n /\ tokens' = refilled
        /\ queue' = IF strict_priority THEN queue ELSE Append(queue, r)
        /\ UNCHANGED <<spent, log>>
  /\ UNCHANGED now

(* One token for each request taken from the queue, whatever it asked for.    *)
drain_queue ==
  LET n == Least(refilled, Len(queue)) IN
  /\ queue # <<>>
  /\ last_refill' = now /\ tokens' = refilled - n
  /\ queue' = SubSeq(queue, n + 1, Len(queue))
  /\ spent' = spent \o Times(n) /\ log' = log \o Times(Asked(SubSeq(queue, 1, n)))
  /\ UNCHANGED <<now, asked>>

Tick == now < MaxTime /\ now' = now + 1 /\ UNCHANGED <<tokens, last_refill, queue, asked, spent, log>>

Init ==
  /\ now = 0 /\ tokens = capacity /\ last_refill = 0 /\ queue = <<>> /\ spent = <<>> /\ log = <<>>
  /\ asked = [r \in Requests |-> 0]

Next == Tick \/ drain_queue \/ \E r \in Requests, n \in 1 .. MaxWanted : admit(r, n)

Spec == Init /\ [][Next]_vars

TypeOK ==
  /\ now \in 0 .. MaxTime /\ last_refill \in 0 .. MaxTime /\ tokens \in 0 .. capacity
  /\ queue \in Seq(Requests) /\ asked \in [Requests -> 0 .. MaxWanted]

ShaperAssumption == {capacity, refill, MaxWanted} \subseteq Nat

(* traffic_shaper.rs: draining and admitting spend the same tokens, no more   *)
(* than the bucket was given.  What is let through is another matter: a       *)
(* queued request pays one token (223), not what it asked for, though the doc *)
(* (203-206) has it evaluated against the bucket again; all that bounds the   *)
(* tokens asked for is a bucket larger by the most a request asks for.        *)
Held ==
  /\ PaidFor(spent, 1, capacity, refill)
  /\ PaidFor(log, 1, MaxWanted * capacity, MaxWanted * refill)

(* With what the proof of Held needs: what is left of the bucket is funded.   *)
IInv ==
  /\ {now, tokens, last_refill} \subseteq Nat /\ last_refill <= now /\ tokens <= capacity
  /\ spent \in Seq(Nat) /\ log \in Seq(Nat) /\ queue \in Seq(Requests)
  /\ asked \in [Requests -> 0 .. MaxWanted]
  /\ Held
  /\ Funded(spent, 1, capacity, refill, last_refill, tokens)
  /\ Funded(log, 1, MaxWanted * capacity, MaxWanted * refill, last_refill, MaxWanted * tokens)
=============================================================================
