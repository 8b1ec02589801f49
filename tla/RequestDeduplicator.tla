------------------------- MODULE RequestDeduplicator -------------------------
(***************************************************************************)
(* request_deduplicator.rs: RequestDeduplicator::get_or_compute and        *)
(* cleanup_completed.  The map is looked at and written in two steps, so   *)
(* that two callers may both compute; an overwritten entry lives on with   *)
(* the callers that found it, which poll it until it is completed.  An     *)
(* entry is named after the caller that made it.  Hashes are taken as the  *)
(* keys; waiters, created_at_ms and the counters of stats() are left out.  *)
(***************************************************************************)
EXTENDS FiniteSets

CONSTANTS
  Callers,
  Key,          \* the key each caller asks for
  Cancellable,  \* the callers whose future may be dropped
  Nobody

Keys == {Key[c] : c \in Callers}

VARIABLES
  pc,         \* where each call is
  in_flight,  \* key -> the caller whose entry is in the map, or Nobody
  found,      \* the entry a polling caller holds
  completed,  \* the entries with a result
  res,        \* the caller whose computation each call returned
  sweep       \* the keys cleanup_completed has collected and not yet removed

vars == <<pc, in_flight, found, completed, res, sweep>>

Goto(c, label) == pc' = [pc EXCEPT ![c] = label]

Lookup(c) ==
  /\ pc[c] = "new"
  /\ \/ /\ in_flight[Key[c]] # Nobody
        /\ found' = [found EXCEPT ![c] = in_flight[Key[c]]]
        /\ Goto(c, "polling")
     \/ /\ in_flight[Key[c]] = Nobody
        /\ Goto(c, "creating")
        /\ UNCHANGED found
  /\ UNCHANGED <<in_flight, completed, res, sweep>>

(* The insertion does not look again: it may replace the entry of another. *)
Insert(c) ==
  /\ pc[c] = "creating"
  /\ in_flight' = [in_flight EXCEPT ![Key[c]] = c]
  /\ Goto(c, "computing")
  /\ UNCHANGED <<found, completed, res, sweep>>

(* Mutant: the entry that is in the map now is completed. *)
Compute_InMap(c) ==
  /\ pc[c] = "computing"
  /\ completed' = completed \cup ({in_flight[Key[c]]} \ {Nobody})
  /\ res' = [res EXCEPT ![c] = c]
  /\ Goto(c, "done")
  /\ UNCHANGED <<in_flight, found, sweep>>

(* The caller completes the entry it made, wherever that is now. *)
Compute(c) ==
  /\ pc[c] = "computing"
  /\ completed' = completed \cup {c}
  /\ res' = [res EXCEPT ![c] = c]
  /\ Goto(c, "done")
  /\ UNCHANGED <<in_flight, found, sweep>>

Poll(c) ==
  /\ pc[c] = "polling" /\ found[c] \in completed
  /\ res' = [res EXCEPT ![c] = found[c]]
  /\ Goto(c, "done")
  /\ UNCHANGED <<in_flight, found, completed, sweep>>

(* cleanup_completed collects keys and then removes them one by one, whatever  *)
(* entry a key has by then.  Calls of it may overlap, and an entry that is     *)
(* locked at the time is left out.                                             *)
Collect(k) ==
  /\ in_flight[k] \in completed
  /\ sweep' = sweep \cup {k}
  /\ UNCHANGED <<pc, in_flight, found, completed, res>>

CleanUp(k) ==
  /\ k \in sweep
  /\ sweep' = sweep \ {k}
  /\ in_flight' = [in_flight EXCEPT ![k] = Nobody]
  /\ UNCHANGED <<pc, found, completed, res>>

(* A dropped caller leaves its entry in the map, never to be completed. *)
Cancel(c) ==
  /\ c \in Cancellable /\ pc[c] \in {"computing", "polling"}
  /\ Goto(c, "gone")
  /\ UNCHANGED <<in_flight, found, completed, res, sweep>>

Init ==
  /\ pc = [c \in Callers |-> "new"]
  /\ in_flight = [k \in Keys |-> Nobody]
  /\ found = [c \in Callers |-> Nobody]
  /\ completed = {}
  /\ res = [c \in Callers |-> Nobody]
  /\ sweep = {}

CallerStep(c) == Lookup(c) \/ Insert(c) \/ Compute(c) \/ Poll(c)

Next ==
  \/ \E c \in Callers : CallerStep(c) \/ Cancel(c)
  \/ \E k \in Keys : Collect(k) \/ CleanUp(k)

Spec == Init /\ [][Next]_vars

(* Tokio polls every ready task, and computations end. *)
Fairness == \A c \in Callers : WF_vars(CallerStep(c))

-----------------------------------------------------------------------------
TypeOK ==
  /\ pc \in [Callers -> {"new", "creating", "computing", "polling", "done", "gone"}]
  /\ in_flight \in [Keys -> Callers \cup {Nobody}]
  /\ found \in [Callers -> Callers \cup {Nobody}]
  /\ completed \subseteq Callers
  /\ res \in [Callers -> Callers \cup {Nobody}]
  /\ sweep \subseteq Keys

(* A caller that polls an entry gets its result, though the entry may have    *)
(* been replaced in the map by a racing caller or swept out of it, unless the *)
(* caller that computes it was dropped.                                       *)
PollersReturn ==
  \A c \in Callers :
    pc[c] = "polling"
      ~> (pc[c] \in {"done", "gone"} \/ (pc[c] = "polling" /\ pc[found[c]] = "gone"))
=============================================================================
