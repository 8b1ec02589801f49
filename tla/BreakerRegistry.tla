--------------------------- MODULE BreakerRegistry ---------------------------
(***************************************************************************)
(* circuit_breaker_registry.rs: the breaker of one service, whose methods  *)
(* take &mut self, and the requests it lets pass.  Requests overlap, so    *)
(* that an outcome may be reported in another state than the one in which  *)
(* its request passed; the request of a caller that went away reports      *)
(* none.  The time of an open breaker may be over whenever it is asked.    *)
(***************************************************************************)
EXTENDS Naturals, FiniteSets

CONSTANTS
  Callers,
  Cancellable,   \* the callers that may go away without reporting an outcome
  failure_threshold, success_threshold, half_open_max_calls

VARIABLES
  state,                \* "closed", "open" or "halfOpen"
  failure_count, test_count, half_open_successes,
  pc,                   \* of a caller: "idle", "passed" or "gone"
  test                  \* whether its request is a test call of this half-open period

vars == <<state, failure_count, test_count, half_open_successes, pc, test>>

States == {"closed", "open", "halfOpen"}

NoTests == test' = [c \in Callers |-> FALSE]

(* The request of c passes. *)
Pass(c) == pc' = [pc EXCEPT ![c] = "passed"]

(* Mutant: the call that makes the breaker half open is not counted. *)
can_pass_FirstFree(c) ==
  /\ pc[c] = "idle"
  /\ \/ /\ state = "closed" /\ Pass(c)
        /\ UNCHANGED <<state, test_count, half_open_successes, test>>
     \/ /\ state = "open" /\ Pass(c)
        /\ state' = "halfOpen" /\ test_count' = 0 /\ half_open_successes' = 0
        /\ test' = [d \in Callers |-> d = c]
     \/ /\ state = "halfOpen" /\ test_count < half_open_max_calls /\ Pass(c)
        /\ test_count' = test_count + 1 /\ test' = [test EXCEPT ![c] = TRUE]
        /\ UNCHANGED <<state, half_open_successes>>
  /\ UNCHANGED failure_count

(* A breaker that refuses changes nothing. *)
can_pass(c) ==
  /\ pc[c] = "idle"
  /\ \/ /\ state = "closed" /\ Pass(c)
        /\ UNCHANGED <<state, test_count, half_open_successes, test>>
     \/ /\ state = "open" /\ Pass(c)
        /\ state' = "halfOpen" /\ test_count' = 1 /\ half_open_successes' = 0
        /\ test' = [d \in Callers |-> d = c]
     \/ /\ state = "halfOpen" /\ test_count < half_open_max_calls /\ Pass(c)
        /\ test_count' = test_count + 1 /\ test' = [test EXCEPT ![c] = TRUE]
        /\ UNCHANGED <<state, half_open_successes>>
  /\ UNCHANGED failure_count

record_success(c) ==
  /\ pc[c] = "passed" /\ pc' = [pc EXCEPT ![c] = "idle"]
  /\ CASE state = "closed" ->
            failure_count' = 0 /\ UNCHANGED <<state, test_count, half_open_successes, test>>
       [] state = "halfOpen" /\ half_open_successes + 1 >= success_threshold ->
            /\ state' = "closed" /\ failure_count' = 0 /\ half_open_successes' = 0
            /\ NoTests /\ UNCHANGED test_count
       [] state = "halfOpen" /\ half_open_successes + 1 < success_threshold ->
            /\ half_open_successes' = half_open_successes + 1
            /\ test' = [test EXCEPT ![c] = FALSE]
            /\ UNCHANGED <<state, failure_count, test_count>>
       [] state = "open" ->
            UNCHANGED <<state, failure_count, test_count, half_open_successes, test>>

record_failure(c) ==
  /\ pc[c] = "passed" /\ pc' = [pc EXCEPT ![c] = "idle"]
  /\ CASE state = "closed" /\ failure_count + 1 < failure_threshold ->
            /\ failure_count' = failure_count + 1
            /\ UNCHANGED <<state, half_open_successes, test>>
       [] state = "closed" /\ failure_count + 1 >= failure_threshold ->
            state' = "open" /\ NoTests /\ UNCHANGED <<failure_count, half_open_successes>>
       [] state = "halfOpen" ->
            state' = "open" /\ half_open_successes' = 0 /\ NoTests /\ UNCHANGED failure_count
       [] state = "open" ->
            UNCHANGED <<state, failure_count, half_open_successes, test>>
  /\ UNCHANGED test_count

(* trip_all and reset_all, as they bear on this breaker. *)
force_open ==
  /\ state' = "open" /\ half_open_successes' = 0 /\ NoTests
  /\ UNCHANGED <<failure_count, test_count, pc>>

force_close ==
  /\ state' = "closed" /\ failure_count' = 0 /\ half_open_successes' = 0 /\ NoTests
  /\ UNCHANGED <<test_count, pc>>

Cancel(c) ==
  /\ c \in Cancellable /\ pc[c] = "passed"
  /\ pc' = [pc EXCEPT ![c] = "gone"]
  /\ UNCHANGED <<state, failure_count, test_count, half_open_successes, test>>

Init ==
  /\ state = "closed"
  /\ failure_count = 0 /\ test_count = 0 /\ half_open_successes = 0
  /\ pc = [c \in Callers |-> "idle"]
  /\ test = [c \in Callers |-> FALSE]

Next ==
  \/ \E c \in Callers : can_pass(c) \/ record_success(c) \/ record_failure(c) \/ Cancel(c)
  \/ force_open \/ force_close

Spec == Init /\ [][Next]_vars

-----------------------------------------------------------------------------
TypeOK ==
  /\ state \in States
  /\ failure_count \in 0 .. failure_threshold - 1
  /\ test_count \in 0 .. half_open_max_calls
  /\ half_open_successes \in 0 .. success_threshold - 1
  /\ pc \in [Callers -> {"idle", "passed", "gone"}]
  /\ test \in [Callers -> BOOLEAN]

Tests == {c \in Callers : test[c]}

(* Never more than half_open_max_calls requests test a service that is coming *)
(* back, however many were under way when it broke; and while nobody went     *)
(* away, a half-open breaker that refuses has a test call out or successes    *)
(* enough to close it: it cannot be stuck.                                    *)
TestsBounded ==
  state = "halfOpen" =>
    /\ Cardinality(Tests) <= half_open_max_calls
    /\ (\A c \in Callers : pc[c] # "gone") /\ test_count = half_open_max_calls
         => \E c \in Tests : pc[c] = "passed"

(* A breaker that asks for more successes than it lets test calls pass is     *)
(* stuck once they have all succeeded.                                        *)
RegistryAssumption ==
  /\ IsFiniteSet(Callers) /\ failure_threshold \in Nat \ {0}
  /\ half_open_max_calls \in Nat /\ success_threshold \in 1 .. half_open_max_calls

(* Test calls are those of this half-open period, and are not back.           *)
TestsOut ==
  \A c \in Callers : test[c] => state = "halfOpen" /\ pc[c] # "idle"

(* Every call that was counted is out or has succeeded; stragglers of earlier *)
(* states may have succeeded as well.                                         *)
TestsCounted ==
  state = "halfOpen" =>
    /\ Cardinality(Tests) <= test_count
    /\ test_count <= Cardinality(Tests) + half_open_successes

(* TestsBounded, strengthened to what every step keeps.                       *)
IInv == TypeOK /\ TestsOut /\ TestsCounted
=============================================================================
