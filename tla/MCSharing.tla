------------------------------ MODULE MCSharing ------------------------------
(* The four components that let identical requests share one execution, each  *)
(* on its own: part says which of them moves in a behaviour.                  *)
EXTENDS Naturals, TLAPS

CONSTANTS
  Callers, Key, Nobody,
  Cancellable,           \* the callers that may go away while they wait or fetch
  Vanishing,             \* and the leaders that may go away while they execute
  MaxPrunes, MaxExpired, \* see the modules
  a1, a2, a3, b1         \* the callers of the run

(* Three requests of one content and one of another. *)
Contents == [c \in Callers |-> IF c = b1 THEN "b" ELSE "a"]

VARIABLES part,
  bpc, b_in_flight, b_leader, b_inbox, b_res,
  cpc, c_in_flight, c_waiters, c_reply, c_pruned,
  dpc, d_entries, d_id_to_key, d_waiters, d_reply, d_expired,
  rpc, r_in_flight, r_found, r_completed, r_res, r_sweep

bvars == <<bpc, b_in_flight, b_leader, b_inbox, b_res>>
cvars == <<cpc, c_in_flight, c_waiters, c_reply, c_pruned>>
dvars == <<dpc, d_entries, d_id_to_key, d_waiters, d_reply, d_expired>>
rvars == <<rpc, r_in_flight, r_found, r_completed, r_res, r_sweep>>
vars == <<part, bvars, cvars, dvars, rvars>>

Coalescer == INSTANCE RequestCoalescer WITH
  pc <- bpc, in_flight <- b_in_flight, leader <- b_leader, inbox <- b_inbox, res <- b_res

Coalescing == INSTANCE RequestCoalescing WITH
  Cancellable <- Vanishing,
  pc <- cpc, in_flight <- c_in_flight, waiters <- c_waiters, reply <- c_reply,
  pruned <- c_pruned

Deduplicator == INSTANCE Dedup WITH
  JobId <- Key, Cancellable <- Vanishing,
  pc <- dpc, entries <- d_entries, id_to_key <- d_id_to_key, waiters <- d_waiters,
  reply <- d_reply, expired <- d_expired

Requests == INSTANCE RequestDeduplicator WITH
  pc <- rpc, in_flight <- r_in_flight, found <- r_found, completed <- r_completed,
  res <- r_res, sweep <- r_sweep

(* The proofs in the modules rest on these. *)
ASSUME SharingAssumption ==
  /\ Coalescer!CoalescerAssumption
  /\ Coalescing!CoalescingAssumption
  /\ Deduplicator!DedupAssumption

Init ==
  /\ part \in {"coalescer", "coalescing", "dedup", "deduplicator"}
  /\ Coalescer!Init /\ Coalescing!Init /\ Deduplicator!Init /\ Requests!Init

Next ==
  /\ UNCHANGED part
  /\ \/ part = "coalescer" /\ Coalescer!Next /\ UNCHANGED <<cvars, dvars, rvars>>
     \/ part = "coalescing" /\ Coalescing!Next /\ UNCHANGED <<bvars, dvars, rvars>>
     \/ part = "dedup" /\ Deduplicator!Next /\ UNCHANGED <<bvars, cvars, rvars>>
     \/ part = "deduplicator" /\ Requests!Next /\ UNCHANGED <<bvars, cvars, dvars>>

(* The parts that poll or wait need a scheduler. *)
Fairness ==
  /\ part = "coalescer" => Coalescer!Fairness
  /\ part = "deduplicator" => Requests!Fairness

Spec == Init /\ [][Next]_vars /\ Fairness

(* See the modules. *)
SingleFlight == Coalescer!SingleFlight
WaitersAnswered == Coalescer!WaitersAnswered
WaitersHeld == Coalescing!WaitersHeld
FlightsBounded == Coalescing!FlightsBounded
DuplicatesHeld == Deduplicator!DuplicatesHeld
PollersReturn == Requests!PollersReturn
Types == Coalescer!TypeOK /\ Coalescing!TypeOK /\ Deduplicator!TypeOK /\ Requests!TypeOK

-----------------------------------------------------------------------------
(* A behaviour of the whole is one of each component, which stands still      *)
(* where another one moves.                                                   *)
LEMMA PartsBehave == Spec => Coalescer!Spec /\ Coalescing!Spec /\ Deduplicator!Spec
<1>1. Init => Coalescer!Init /\ Coalescing!Init /\ Deduplicator!Init
  BY DEF Init
<1>2. [Next]_vars =>
        /\ [Coalescer!Next]_(Coalescer!vars)
        /\ [Coalescing!Next]_(Coalescing!vars)
        /\ [Deduplicator!Next]_(Deduplicator!vars)
  BY DEF Next, vars, bvars, cvars, dvars, Coalescer!vars, Coalescing!vars, Deduplicator!vars
<1> QED
  BY <1>1, <1>2, PTL DEF Spec, Coalescer!Spec, Coalescing!Spec, Deduplicator!Spec

(* get_or_fetch runs one fetch of a key at a time, and no joiner's channel     *)
(* ends without a result.                                                     *)
THEOREM FetchedOnce == Spec => []SingleFlight
<1>1. Coalescer!Spec => []Coalescer!SingleFlight
  BY SharingAssumption, Coalescer!OneFlight DEF SharingAssumption
<1> QED
  BY <1>1, PartsBehave, PTL DEF SingleFlight

(* submit_or_join, complete and prune_stale answer every waiter of the        *)
(* entries they remove.                                                       *)
THEOREM AllWaitersHeld == Spec => []WaitersHeld
<1>1. Coalescing!Spec => []Coalescing!WaitersHeld
  BY SharingAssumption, Coalescing!NobodyForgotten DEF SharingAssumption
<1> QED
  BY <1>1, PartsBehave, PTL DEF WaitersHeld

(* Each prune_stale that takes an entry away lets one more leader work for    *)
(* its key at most.                                                           *)
THEOREM AllFlightsBounded == Spec => []FlightsBounded
<1>1. Coalescing!Spec => []Coalescing!FlightsBounded
  BY SharingAssumption, Coalescing!FlightsPaidFor DEF SharingAssumption
<1> QED
  BY <1>1, PartsBehave, PTL DEF FlightsBounded

(* submit and complete of the deduplicator lose no waiter, and let a job      *)
(* execute once more for each time its entry expired at most.                 *)
THEOREM AllDuplicatesHeld == Spec => []DuplicatesHeld
<1>1. Deduplicator!Spec => []Deduplicator!DuplicatesHeld
  BY SharingAssumption, Deduplicator!DuplicatesAlwaysHeld DEF SharingAssumption
<1> QED
  BY <1>1, PartsBehave, PTL DEF DuplicatesHeld
=============================================================================
