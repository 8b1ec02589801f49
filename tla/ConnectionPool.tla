--------------------------- MODULE ConnectionPool ---------------------------
(***************************************************************************)
(* connection_pool.rs: ConnectionPool, whose methods are one step each     *)
(* under the mutex.  Callers release a connection once.  Ages are left     *)
(* out: an eviction may find any idle connection idle for too long, and    *)
(* any connection too old, those in use too.  The vector of connections is *)
(* in the order of their ids.                                              *)
(***************************************************************************)
EXTENDS Naturals, FiniteSets

CONSTANTS
  Callers,
  max_connections,
  MaxId            \* bound on the connections that are made

VARIABLES
  state,         \* id -> the state of the connection, or "none" if it is not in the pool
  error_count,   \* id -> the errors that were reported of it
  next_id, evicted_total,
  held           \* the connection a caller has, or 0

vars == <<state, error_count, next_id, evicted_total, held>>

Ids == 1 .. MaxId

Pooled == {i \in Ids : state[i] # "none"}
Idle == {i \in Ids : state[i] = "idle"}

(* Give connection i to c. *)
Take(c, i) ==
  /\ state' = [state EXCEPT ![i] = "inUse"]
  /\ held' = [held EXCEPT ![c] = i]

(* Mutant: a connection is named after its place in the pool. *)
acquire_ReusesId(c) ==
  /\ held[c] = 0
  /\ \/ \E i \in Idle : (\A k \in Idle : i <= k) /\ Take(c, i) /\ UNCHANGED next_id
     \/ LET id == Cardinality(Pooled) + 1
        IN /\ Idle = {} /\ Cardinality(Pooled) < max_connections
           /\ id \in Ids
           /\ Take(c, id)
           /\ next_id' = next_id + 1
  /\ UNCHANGED <<error_count, evicted_total>>

(* The first idle connection, or a new one; without either the call returns *)
(* None and changes nothing.                                                *)
acquire(c) ==
  /\ held[c] = 0
  /\ \/ \E i \in Idle : (\A k \in Idle : i <= k) /\ Take(c, i) /\ UNCHANGED next_id
     \/ /\ Idle = {} /\ Cardinality(Pooled) < max_connections
        /\ next_id \in Ids
        /\ Take(c, next_id)
        /\ next_id' = next_id + 1
  /\ UNCHANGED <<error_count, evicted_total>>

(* The connection may have been evicted while the caller had it. *)
release(c) ==
  LET i == held[c]
  IN /\ i # 0
     /\ held' = [held EXCEPT ![c] = 0]
     /\ \E had_error \in BOOLEAN :
          IF i \notin Pooled THEN UNCHANGED <<state, error_count>>
          ELSE /\ state' = [state EXCEPT ![i] = IF had_error THEN "unhealthy" ELSE "idle"]
               /\ error_count' = [error_count EXCEPT ![i] = IF had_error THEN @ + 1 ELSE @]
     /\ UNCHANGED <<next_id, evicted_total>>

evict_stale ==
  \E stale \in SUBSET {i \in Pooled : state[i] # "unhealthy"} :
    LET gone == stale \cup {i \in Ids : state[i] = "unhealthy"}
    IN /\ gone # {}
       /\ state' = [i \in Ids |-> IF i \in gone THEN "none" ELSE state[i]]
       /\ evicted_total' = evicted_total + Cardinality(gone)
       /\ UNCHANGED <<error_count, next_id, held>>

(* The idle connections that were quiet for long and had more than three errors. *)
health_check_all ==
  \E quiet \in SUBSET Idle :
    /\ state' = [i \in Ids |-> IF i \in quiet /\ error_count[i] > 3 THEN "unhealthy" ELSE state[i]]
    /\ UNCHANGED <<error_count, next_id, evicted_total, held>>

Init ==
  /\ state = [i \in Ids |-> "none"]
  /\ error_count = [i \in Ids |-> 0]
  /\ next_id = 1 /\ evicted_total = 0
  /\ held = [c \in Callers |-> 0]

Next ==
  \/ \E c \in Callers : acquire(c) \/ release(c)
  \/ evict_stale
  \/ health_check_all

Spec == Init /\ [][Next]_vars

-----------------------------------------------------------------------------
TypeOK ==
  /\ state \in [Ids -> {"none", "idle", "inUse", "unhealthy"}]
  /\ error_count \in [Ids -> Nat]
  /\ next_id \in 1 .. MaxId + 1
  /\ evicted_total \in Nat
  /\ held \in [Callers -> Ids \cup {0}]

(* No two callers ever have one connection, though a caller may keep one that *)
(* was evicted under it and release it when its place is taken: ids are never *)
(* used again.  So connections in use are those that callers have and that    *)
(* the pool still knows; every connection made is in the pool or was counted  *)
(* as evicted; and an idle one never has an error, so that health_check_all,  *)
(* which marks idle connections with more than three, marks none.             *)
PoolExact ==
  /\ \A c, d \in Callers : held[c] # 0 /\ held[c] = held[d] => c = d
  /\ \A i \in Pooled : state[i] = "inUse" <=> \E c \in Callers : held[c] = i
  /\ Cardinality(Pooled) <= max_connections
  /\ evicted_total + Cardinality(Pooled) = next_id - 1
  /\ \A i \in Idle : error_count[i] = 0

-----------------------------------------------------------------------------
(* What makes PoolExact inductive.                                            *)

PoolAssumption == max_connections \in Nat /\ MaxId \in Nat

(* Ids that have not been given yet are nobody's and nowhere.                 *)
Unused ==
  /\ \A c \in Callers : held[c] < next_id
  /\ \A i \in Ids : i >= next_id => state[i] = "none"
  /\ \A i \in Ids : state[i] = "inUse" \/ i >= next_id => error_count[i] = 0

IInv == TypeOK /\ PoolExact /\ Unused
=============================================================================
