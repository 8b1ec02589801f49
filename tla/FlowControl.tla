------------------------------ MODULE FlowControl ------------------------------
(* flow_control.rs: a global token bucket and one for each kind with a limit  *)
(* of its own, behind one mutex.  Tokens are counted in fifths, and rates in  *)
(* fifths per unit of time.                                                   *)
EXTENDS Admissions

CONSTANTS
  Kinds,
  Configs,           \* records of global_rps, burst and per_kind_rps, which
                     \* gives some of the kinds a limit
  MaxTime, MaxLog

One == 5

VARIABLES
  now, config, tokens, last_refill, kind_tokens, kind_last_refill,
  log                \* when each admitted call came, and the kind charged for
                     \* it: {} if its kind had no limit then
vars == <<now, config, tokens, last_refill, kind_tokens, kind_last_refill, log>>

refill_global ==
  Least(tokens + (now - last_refill) * config.global_rps, config.burst * One)

limited(k) == k \in DOMAIN config.per_kind_rps

NoBucket == -1

(* A kind's bucket holds two units' worth at the limit of now, and is made,   *)
(* full, by its first call under a limit.                                     *)
refill_kind(k) ==
  LET rps == config.per_kind_rps[k]
  IN  IF kind_last_refill[k] = NoBucket THEN 2 * rps
      ELSE Least(kind_tokens[k] + (now - kind_last_refill[k]) * rps, 2 * rps)

(* The kind's bucket is charged before the global one decides.                *)
kind_refuses(k) == limited(k) /\ refill_kind(k) < One

charge_kind(k) ==
  IF ~limited(k) THEN UNCHANGED <<kind_tokens, kind_last_refill>>
  ELSE /\ kind_last_refill' = [kind_last_refill EXCEPT ![k] = now]
       /\ kind_tokens' = [kind_tokens EXCEPT ![k] =
            IF kind_refuses(k) THEN refill_kind(k) ELSE refill_kind(k) - One]

(* Above a fifth of the burst a call is admitted, below it is told to retry.  *)
admits(t) == t >= One /\ t > config.burst

try_admit(k) ==
  /\ Len(log) < MaxLog
  /\ last_refill' = now /\ charge_kind(k)
  /\ \/ /\ kind_refuses(k) \/ ~admits(refill_global)
        /\ tokens' = refill_global /\ UNCHANGED log
     \/ /\ ~kind_refuses(k) /\ admits(refill_global)
        /\ tokens' = refill_global - One
        /\ log' = Append(log, [kind |-> {k} \cap DOMAIN config.per_kind_rps, at |-> now])
  /\ UNCHANGED <<now, config>>

(* The time since the last refill will count at the new rate, and what was    *)
(* gathered by a kind stays until a call of it finds a limit again.           *)
update_config(c) ==
  /\ c # config /\ config' = c
  /\ UNCHANGED <<now, tokens, last_refill, kind_tokens, kind_last_refill, log>>

Tick ==
  /\ now < MaxTime /\ now' = now + 1
  /\ UNCHANGED <<config, tokens, last_refill, kind_tokens, kind_last_refill, log>>

Init ==
  /\ config \in Configs /\ tokens = config.burst * One /\ log = <<>>
  /\ now = 0 /\ last_refill = 0
  /\ kind_tokens = [k \in Kinds |-> 0] /\ kind_last_refill = [k \in Kinds |-> NoBucket]

Next ==
  \/ Tick
  \/ \E k \in Kinds : try_admit(k)
  \/ \E c \in Configs : update_config(c)

Spec == Init /\ [][Next]_vars

TypeOK ==
  /\ now \in 0 .. MaxTime /\ config \in Configs /\ tokens \in Nat
  /\ last_refill \in 0 .. MaxTime /\ kind_tokens \in [Kinds -> Nat]
  /\ kind_last_refill \in [Kinds -> NoBucket .. MaxTime]

times == [i \in DOMAIN log |-> log[i].at]

CountOf(k, i, j) == Cardinality({m \in i .. j : log[m].kind = {k}})

(* PaidFor, of the calls charged to one kind.                                 *)
KindPaidFor(k, r) ==
  \A i, j \in DOMAIN log : i <= j /\ log[i].kind = {k} /\ log[j].kind = {k} =>
    CountOf(k, i, j) * One <= 2 * r + r * (log[j].at - log[i].at)

KindFunded(k, r) ==
  \A i \in DOMAIN log : log[i].kind = {k} =>
    /\ log[i].at <= kind_last_refill[k]
    /\ CountOf(k, i, Len(log)) * One + kind_tokens[k]
         <= 2 * r + r * (kind_last_refill[k] - log[i].at)

Highest(b, r) == \A c \in Configs : c.burst <= b.burst /\ c.global_rps <= r.global_rps

Limit(c, k) == IF k \in DOMAIN c.per_kind_rps THEN c.per_kind_rps[k] ELSE 0

Loosest(c, k) == \A d \in Configs : Limit(d, k) <= Limit(c, k)

FlowAssumption ==
  /\ IsFiniteSet(Configs) /\ Configs # {}
  /\ \A c \in Configs :
       /\ c.burst \in Nat /\ c.global_rps \in Nat
       /\ c.per_kind_rps \in [DOMAIN c.per_kind_rps -> Nat]

(* flow_control.rs try_admit: whatever is refused, throttled or reconfigured  *)
(* in between, and however long a kind had no limit meanwhile, no stretch of  *)
(* time holds more admitted calls than the largest burst and the highest rate *)
(* pay for, nor more calls charged to a kind than its loosest limit does.     *)
Held ==
  /\ \E b, r \in Configs :
       Highest(b, r) /\ PaidFor(times, One, b.burst * One, r.global_rps)
  /\ \A k \in Kinds : \E c \in Configs : Loosest(c, k) /\ KindPaidFor(k, Limit(c, k))

(* With what the proof of Held needs: the rest of every bucket is funded.     *)
IInv ==
  /\ {now, tokens, last_refill} \subseteq Nat /\ last_refill <= now /\ config \in Configs
  /\ log \in Seq([kind : SUBSET Kinds, at : Nat])
  /\ kind_tokens \in [Kinds -> Nat] /\ kind_last_refill \in [Kinds -> Int]
  /\ \A b, r \in Configs : Highest(b, r) =>
       /\ tokens <= b.burst * One
       /\ PaidFor(times, One, b.burst * One, r.global_rps)
       /\ Funded(times, One, b.burst * One, r.global_rps, last_refill, tokens)
  /\ \A k \in Kinds : \A c \in Configs : Loosest(c, k) =>
       /\ kind_last_refill[k] \in NoBucket .. now /\ kind_tokens[k] <= 2 * Limit(c, k)
       /\ KindPaidFor(k, Limit(c, k)) /\ KindFunded(k, Limit(c, k))
=============================================================================
