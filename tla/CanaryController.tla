--------------------------- MODULE CanaryController ---------------------------
(***************************************************************************)
(* canary_controller.rs: the state of a canary behind a read-write lock,   *)
(* the requests it routes, and auto_advance, which evaluates under the     *)
(* read lock and applies its decision under the write lock.  The counts of *)
(* the stable endpoint and of all requests are left out.                   *)
(***************************************************************************)
EXTENDS Naturals

CONSTANTS
  Requests,           \* requests that may be under way
  Advancers,          \* calls of auto_advance that may overlap
  min_requests_before_promote,
  error_pct,          \* error_rate_threshold
  MaxSent             \* bound on the canary's requests

VARIABLES
  state, requests_sent, errors,
  route,              \* where a request was sent: "none", "stable" or "canary"
  decision            \* what an auto_advance evaluated and has not applied

vars == <<state, requests_sent, errors, route, decision>>

counts == <<requests_sent, errors>>

activate ==
  /\ state = "inactive" /\ state' = "active"
  /\ UNCHANGED <<counts, route, decision>>

(* An active canary gets the requests whose id falls under its weight. *)
Route(r) ==
  /\ route[r] = "none"
  /\ \E to \in {"stable", "canary"} :
       /\ to = "canary" => state = "active"
       /\ route' = [route EXCEPT ![r] = to]
  /\ UNCHANGED <<state, counts, decision>>

(* Results of a canary that has ended are not counted. *)
record_result(r) ==
  /\ route[r] # "none" /\ route' = [route EXCEPT ![r] = "none"]
  /\ IF route[r] = "canary" /\ state = "active"
     THEN /\ requests_sent < MaxSent /\ requests_sent' = requests_sent + 1
          /\ errors' \in {errors, errors + 1}
     ELSE UNCHANGED counts
  /\ UNCHANGED <<state, decision>>

evaluate ==
  CASE state # "active" \/ requests_sent < min_requests_before_promote -> "Continue"
    [] OTHER -> IF 100 * errors > error_pct * requests_sent THEN "Rollback" ELSE "Promote"

Evaluate(a) ==
  /\ decision[a] = "none" /\ evaluate # "Continue"
  /\ decision' = [decision EXCEPT ![a] = evaluate]
  /\ UNCHANGED <<state, counts, route>>

(* The decision is applied whatever has happened since. *)
Apply(a) ==
  /\ decision[a] # "none" /\ decision' = [decision EXCEPT ![a] = "none"]
  /\ state' = IF decision[a] = "Promote" THEN "promoted" ELSE "rolledBack"
  /\ requests_sent' = 0 /\ errors' = 0
  /\ UNCHANGED route

Init ==
  /\ state = "inactive" /\ requests_sent = 0 /\ errors = 0
  /\ route = [r \in Requests |-> "none"]
  /\ decision = [a \in Advancers |-> "none"]

Next ==
  \/ activate
  \/ \E r \in Requests : Route(r) \/ record_result(r)
  \/ \E a \in Advancers : Evaluate(a) \/ Apply(a)

Spec == Init /\ [][Next]_vars

-----------------------------------------------------------------------------
TypeOK ==
  /\ state \in {"inactive", "active", "promoted", "rolledBack"}
  /\ requests_sent \in 0 .. MaxSent /\ errors \in 0 .. requests_sent
  /\ route \in [Requests -> {"none", "stable", "canary"}]
  /\ decision \in [Advancers -> {"none", "Promote", "Rollback"}]

Ended == {"promoted", "rolledBack"}

(* "Inactive -> Active -> Promoted | RolledBack": an end is an end.  Whatever *)
(* auto_advance calls overlap, a canary that was promoted or rolled back is   *)
(* never active again, is sent no request and counts no result.  That the     *)
(* end stays the same one is not so: auto_advance evaluates under one lock    *)
(* and applies under the next, so a second decision may replace the first.    *)
Settles ==
  state \in Ended =>
    /\ state' \in Ended /\ requests_sent' = 0 /\ errors' = 0
    /\ \A r \in Requests : route'[r] = "canary" => route[r] = "canary"

(* A canary counts nothing but while it is active.                            *)
IInv == /\ state \in Ended => requests_sent = 0 /\ errors = 0
        /\ DOMAIN route = Requests
=============================================================================
