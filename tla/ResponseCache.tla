----------------------------- MODULE ResponseCache -----------------------------
(* response_cache.rs: responses by the hash of their request, with a time to  *)
(* live, room for max_size and invalidation by tag or path.  Every operation  *)
(* is several steps on a sharded map: a look or a scan, and removals or an    *)
(* insertion by key later.                                                    *)
EXTENDS Naturals, FiniteSets, SequencesExt

CONSTANTS
  Callers, Keys, hash, \* Keys -> the place of their entry
  Ttls, max_size, MaxPuts, MaxCalls

None == [stamp |-> 0, key |-> "none", tag |-> FALSE, ttl |-> 0]
Places == {hash[k] : k \in Keys}

VARIABLES
  map,                 \* place -> entry; stamp numbers the puts
  puts,
  pc, arg, todo,       \* of a call: where it is, what it puts, the places it removes
  since,               \* of an invalidation: the puts before it
  stats, calls,
  racing,              \* the most putters past their check at a time since the cache was within its size
  swept                \* the latest invalidation done
vars == <<map, puts, pc, arg, todo, since, stats, calls, racing, swept>>

present == {p \in Places : map[p] # None}
is_expired(e) == e.ttl = 0
Go(c, where) == pc' = [pc EXCEPT ![c] = where]
Starts(c) == pc[c] = "idle" /\ calls < MaxCalls /\ calls' = calls + 1

inserting == {c \in Callers : pc[c] = "insert"}

(* The cache and what is about to enter it fit again, or a race goes on.      *)
Fits == Cardinality(present) + Cardinality(inserting) <= max_size
Raced ==
  racing' = IF Fits' THEN Cardinality(inserting') ELSE Max({racing, Cardinality(inserting')})

Hit == stats' = [stats EXCEPT !.total_hits = @ + 1]
Miss == stats' = [stats EXCEPT !.total_misses = @ + 1]

(* The time to live of an entry runs out.                                     *)
Expire(p) ==
  /\ map[p] # None /\ map[p].ttl > 0 /\ map' = [map EXCEPT ![p].ttl = 0]
  /\ UNCHANGED <<puts, pc, arg, todo, since, stats, calls, racing, swept>>

get(c, k) ==
  LET e == map[hash[k]] IN
  /\ Starts(c)
  /\ IF e = None THEN pc' = pc /\ Miss /\ UNCHANGED todo
     ELSE IF is_expired(e)
     THEN Go(c, "get") /\ todo' = [todo EXCEPT ![c] = <<hash[k]>>]
          /\ UNCHANGED stats
     ELSE pc' = pc /\ Hit /\ UNCHANGED todo
  /\ UNCHANGED <<map, puts, arg, since, racing, swept>>

(* get removes what is there by then.                                         *)
get_Remove(c) ==
  /\ pc[c] = "get" /\ Go(c, "idle")
  /\ map' = [map EXCEPT ![Head(todo[c])] = None] /\ todo' = [todo EXCEPT ![c] = <<>>]
  /\ Miss /\ Raced
  /\ UNCHANGED <<puts, arg, since, calls, swept>>

(* put: with room it inserts, without it evicts what has expired first.       *)
HasRoom_Inclusive == Cardinality(present) <= max_size
HasRoom == Cardinality(present) < max_size
Admitted(c) == Go(c, "insert") /\ UNCHANGED map /\ Raced

expired == {p \in present : is_expired(map[p])}
put(c, k, tag, ttl) ==
  /\ Starts(c) /\ puts < MaxPuts /\ arg' = [arg EXCEPT ![c] = [key |-> k, tag |-> tag, ttl |-> ttl]]
  /\ IF HasRoom THEN Admitted(c) /\ UNCHANGED todo
     ELSE Go(c, "evict") /\ todo' = [todo EXCEPT ![c] = SetToSeq(expired)] /\ UNCHANGED <<map, racing>>
  /\ UNCHANGED <<puts, since, stats, swept>>

put_Recheck(c) ==
  /\ pc[c] = "evict" /\ todo[c] = <<>>
  /\ IF HasRoom THEN Admitted(c) ELSE Go(c, "idle") /\ UNCHANGED <<map, racing>>
  /\ UNCHANGED <<puts, arg, todo, since, stats, calls, swept>>

insert(c) ==
  /\ pc[c] = "insert" /\ Go(c, "idle") /\ puts' = puts + 1
  /\ map' = [map EXCEPT ![hash[arg[c].key]] =
               [stamp |-> puts', key |-> arg[c].key, tag |-> arg[c].tag, ttl |-> arg[c].ttl]]
  /\ Raced
  /\ UNCHANGED <<arg, todo, since, stats, calls, swept>>

(* invalidate and invalidate_by_tag: the scan of the headers they go by,      *)
(* "X-Cache-Path" or "Cache-Tag"; an entry without it is passed over, ...     *)
tagged == {p \in present : map[p].tag}
invalidate_by_tag(c) ==
  /\ Starts(c) /\ Go(c, "invalidate") /\ todo' = [todo EXCEPT ![c] = SetToSeq(tagged)]
  /\ since' = [since EXCEPT ![c] = puts]
  /\ UNCHANGED <<map, puts, arg, stats, racing, swept>>

evict_expired(c) ==
  /\ Starts(c) /\ expired # {} /\ Go(c, "sweep") /\ todo' = [todo EXCEPT ![c] = SetToSeq(expired)]
  /\ UNCHANGED <<map, puts, arg, since, stats, racing, swept>>

(* ... and the removals, one by one.                                          *)
remove(c) ==
  /\ pc[c] \in {"evict", "invalidate", "sweep"} /\ todo[c] # <<>>
  /\ map' = [map EXCEPT ![Head(todo[c])] = None] /\ todo' = [todo EXCEPT ![c] = Tail(@)]
  /\ UNCHANGED <<puts, pc, arg, since, stats, calls, swept>>
  /\ Raced

Return(c) ==
  /\ pc[c] \in {"invalidate", "sweep"} /\ todo[c] = <<>> /\ Go(c, "idle")
  /\ swept' = IF pc[c] = "invalidate" THEN Max({swept, since[c]}) ELSE swept
  /\ UNCHANGED <<map, puts, arg, todo, since, stats, calls, racing>>

Init ==
  /\ map = [p \in Places |-> None] /\ puts = 0 /\ pc = [c \in Callers |-> "idle"]
  /\ arg = [c \in Callers |-> None] /\ todo = [c \in Callers |-> <<>>]
  /\ since = [c \in Callers |-> 0]
  /\ stats = [total_hits |-> 0, total_misses |-> 0] /\ calls = 0 /\ racing = 0 /\ swept = 0

Next ==
  \/ \E p \in Places : Expire(p)
  \/ \E c \in Callers :
       \/ \E k \in Keys : get(c, k) \/ \E tag \in BOOLEAN, ttl \in Ttls : put(c, k, tag, ttl)
       \/ get_Remove(c) \/ put_Recheck(c) \/ insert(c) \/ invalidate_by_tag(c) \/ evict_expired(c)
       \/ remove(c) \/ Return(c)

Spec == Init /\ [][Next]_vars

TypeOK ==
  /\ puts \in 0 .. MaxPuts + Cardinality(Callers) /\ calls \in 0 .. MaxCalls
  /\ pc \in [Callers -> {"idle", "get", "evict", "insert", "invalidate", "sweep"}]
  /\ todo \in [Callers -> Seq(Places)] /\ stats.total_hits \in Nat /\ stats.total_misses \in Nat

(* response_cache.rs: the cache outgrows max_size by no more than the putters *)
(* that were past the check at one time with the first, since it was last     *)
(* within its size, and what an invalidation finds by its header is gone when *)
(* it returns, whatever expiries, evictions and puts it overlaps: only what   *)
(* was put since may be there.  The docs say more, and the code does not keep *)
(* it: that there are at most max_size entries (183), and that invalidate     *)
(* takes all entries of a path (250), where 262-272 pass over those without   *)
(* the header.  That a removal by key may take an entry put since the scan is *)
(* in the model and nothing here forbids it.                                  *)
CacheHeld ==
  /\ Cardinality(present) <= max_size + Max({racing, 1}) - 1
  /\ \A p \in tagged : map[p].stamp > swept

CacheAssumption ==
  IsFiniteSet(Callers) /\ IsFiniteSet(Places) /\ max_size \in Nat /\ Ttls \subseteq Nat

Entries == [stamp : Nat, key : Keys \cup {"none"}, tag : BOOLEAN, ttl : Nat]

(* Whoever is about to insert was counted among the racing.                   *)
RoomInv ==
  /\ Cardinality(inserting) <= racing
  /\ Cardinality(present) + Cardinality(inserting) <= max_size + Max({racing, 1}) - 1

(* An invalidation has yet to remove whatever was there when it began.        *)
SweepInv ==
  /\ \A p \in present : map[p].stamp \in 1 .. puts
  /\ \A c \in Callers : pc[c] = "invalidate" =>
       /\ since[c] <= puts
       /\ \A p \in tagged : map[p].stamp <= since[c] => p \in ToSet(todo[c])
  /\ swept <= puts
  /\ \A p \in tagged : map[p].stamp > swept

(* CacheHeld, strengthened to what every step keeps.                          *)
IInv ==
  /\ map \in [Places -> Entries] /\ puts \in Nat /\ racing \in Nat /\ swept \in Nat
  /\ pc \in [Callers -> {"idle", "get", "evict", "insert", "invalidate", "sweep"}]
  /\ DOMAIN arg = Callers
  /\ \A c \in Callers :
       arg[c].key \in Keys \cup {"none"} /\ arg[c].tag \in BOOLEAN /\ arg[c].ttl \in Nat
  /\ todo \in [Callers -> Seq(Places)] /\ since \in [Callers -> Nat]
  /\ RoomInv /\ SweepInv
=============================================================================
