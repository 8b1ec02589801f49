----------------------------- MODULE CircuitMesh -----------------------------
(***************************************************************************)
(* circuit_mesh.rs: a circuit breaker per route and the cascade that opens *)
(* the dependants of open routes.  The state of a route has a mutex, its   *)
(* streaks are atomics outside of it, and allow_request takes the mutex    *)
(* twice.  Streaks are compared with thresholds only, at which they        *)
(* saturate here; an open route may have been open for long enough at any  *)
(* time.  Routes are registered before use, and mutexes are not poisoned.  *)
(***************************************************************************)
EXTENDS Naturals, FiniteSets

CONSTANTS
  Callers, Routes,
  Leavers,            \* the callers that may be dropped during their call
  dependencies,       \* the routes each route depends on
  failure_threshold, success_threshold,
  always_probe,       \* half_open_probe_rate >= 1.0
  cascade_threshold   \* the number of open routes that is enough for a cascade

VARIABLES
  state,                  \* of a route; "probed" is HalfOpen with probe_sent
  consecutive_failures, consecutive_successes,
  pc, at,                 \* where a caller is, and the route it calls
  consec,                 \* the streak it has counted
  lost,                   \* ghost: the routes whose probe was dropped or fell short
  phase, todo, open       \* cascade_open_if_needed: what is left of a pass, what it found

vars == <<state, consecutive_failures, consecutive_successes, pc, at, consec, lost, phase, todo, open>>

streaks == <<consecutive_failures, consecutive_successes>>
cascade == <<phase, todo, open>>

States == {"closed", "open", "halfOpen", "probed"}

Goto(c, label) == pc' = [pc EXCEPT ![c] = label]

(* A caller whose call has ended is at no route; it stands for any.           *)
Home == CHOOSE r \in Routes : TRUE
Rest(c) == Goto(c, "idle") /\ at' = [at EXCEPT ![c] = Home]

Become(r, s) == state' = [state EXCEPT ![r] = s] /\ lost' = lost \ {r}

Stay == UNCHANGED <<state, lost>>

(* A call to r ends that has neither closed nor opened it. *)
Lose(r) == lost' = IF state[r] = "probed" THEN lost \cup {r} ELSE lost

Up(n, threshold) == IF n < threshold THEN n + 1 ELSE n

(* is_open: an open route whose timeout is over becomes half open. *)
Ask(c, r) ==
  /\ pc[c] = "idle"
  /\ \/ state[r] = "open" /\ Stay /\ UNCHANGED <<pc, at>>
     \/ /\ state[r] = "open" /\ Become(r, "halfOpen")
        /\ Goto(c, "asked") /\ at' = [at EXCEPT ![c] = r]
     \/ state[r] # "open" /\ Stay /\ Goto(c, "asked") /\ at' = [at EXCEPT ![c] = r]
  /\ UNCHANGED <<streaks, consec, cascade>>

(* The rest of allow_request, under a second lock. *)
Allow(c) ==
  LET s == state[at[c]]
  IN /\ pc[c] = "asked"
     /\ IF s = "halfOpen" THEN Become(at[c], "probed") ELSE Stay
     /\ IF s \in {"closed", "halfOpen"} \/ (s = "probed" /\ always_probe)
        THEN Goto(c, "calling") /\ UNCHANGED at ELSE Rest(c)
     /\ UNCHANGED <<streaks, consec, cascade>>

(* record_success and record_failure: one streak ends, the other is longer. *)
EndStreak(c) ==
  /\ pc[c] = "calling"
  /\ \/ /\ consecutive_failures' = [consecutive_failures EXCEPT ![at[c]] = 0]
        /\ Goto(c, "succeeded")
        /\ UNCHANGED consecutive_successes
     \/ /\ consecutive_successes' = [consecutive_successes EXCEPT ![at[c]] = 0]
        /\ Goto(c, "failed")
        /\ UNCHANGED consecutive_failures
  /\ UNCHANGED <<state, lost, at, consec, cascade>>

CountStreak(c) ==
  LET r == at[c]
      s == Up(consecutive_successes[r], success_threshold)
      f == Up(consecutive_failures[r], failure_threshold)
  IN /\ \/ /\ pc[c] = "succeeded" /\ Goto(c, "closing")
           /\ consecutive_successes' = [consecutive_successes EXCEPT ![r] = s]
           /\ consec' = [consec EXCEPT ![c] = s]
           /\ UNCHANGED consecutive_failures
        \/ /\ pc[c] = "failed" /\ Goto(c, "opening")
           /\ consecutive_failures' = [consecutive_failures EXCEPT ![r] = f]
           /\ consec' = [consec EXCEPT ![c] = f]
           /\ UNCHANGED consecutive_successes
     /\ UNCHANGED <<state, lost, at, cascade>>

(* Its caller is dropped before it has recorded an outcome. *)
Leave(c) ==
  /\ pc[c] = "calling" /\ c \in Leavers
  /\ Lose(at[c])
  /\ Rest(c)
  /\ UNCHANGED <<state, streaks, consec, cascade>>

(* What the streak makes of the state, under its lock. *)
Close(c) ==
  LET r == at[c]
  IN /\ pc[c] = "closing"
     /\ IF state[r] \in {"halfOpen", "probed"} /\ consec[c] >= success_threshold
        THEN /\ Become(r, "closed")
             /\ consecutive_successes' = [consecutive_successes EXCEPT ![r] = 0]
        ELSE Lose(r) /\ UNCHANGED <<state, consecutive_successes>>
     /\ Rest(c) /\ consec' = [consec EXCEPT ![c] = 0]
     /\ UNCHANGED <<consecutive_failures, cascade>>

(* Mutant: a probe that fails does not reopen its route. *)
Open_UnprobedOnly(c) ==
  LET r == at[c]
  IN /\ pc[c] = "opening"
     /\ IF (state[r] = "closed" /\ consec[c] >= failure_threshold) \/ state[r] = "halfOpen"
        THEN /\ Become(r, "open")
             /\ consecutive_failures' = [consecutive_failures EXCEPT ![r] = 0]
        ELSE Stay /\ UNCHANGED consecutive_failures
     /\ Rest(c) /\ consec' = [consec EXCEPT ![c] = 0]
     /\ UNCHANGED <<consecutive_successes, cascade>>

Open(c) ==
  LET r == at[c]
  IN /\ pc[c] = "opening"
     /\ IF \/ state[r] = "closed" /\ consec[c] >= failure_threshold
           \/ state[r] \in {"halfOpen", "probed"}
        THEN /\ Become(r, "open")
             /\ consecutive_failures' = [consecutive_failures EXCEPT ![r] = 0]
        ELSE Stay /\ UNCHANGED consecutive_failures
     /\ Rest(c) /\ consec' = [consec EXCEPT ![c] = 0]
     /\ UNCHANGED <<consecutive_successes, cascade>>

(* The least set that holds what depends on f or on one of its members. *)
dependency_impact(f) ==
  {r \in Routes : \A S \in SUBSET Routes :
     (\A x \in Routes : dependencies[x] \cap (S \cup {f}) # {} => x \in S) => r \in S}

(* cascade_open_if_needed counts the open routes, collects them, and opens  *)
(* their dependants, one route at a time.                                   *)
CascadeStart ==
  /\ phase = "idle"
  /\ phase' = "counting" /\ todo' = Routes /\ open' = {}
  /\ UNCHANGED <<state, lost, streaks, pc, at, consec>>

CascadeLook ==
  /\ phase \in {"counting", "collecting"}
  /\ \E r \in todo :
       /\ todo' = todo \ {r}
       /\ open' = IF state[r] = "open" THEN open \cup {r} ELSE open
  /\ UNCHANGED <<state, lost, streaks, pc, at, consec, phase>>

CascadeNext ==
  /\ phase # "idle" /\ todo = {}
  /\ \/ /\ phase = "counting" /\ Cardinality(open) >= cascade_threshold
        /\ phase' = "collecting" /\ todo' = Routes
     \/ /\ phase = "collecting"
        /\ phase' = "opening" /\ todo' = UNION {dependency_impact(f) : f \in open}
     \/ /\ phase = "opening" \/ (phase = "counting" /\ Cardinality(open) < cascade_threshold)
        /\ phase' = "idle" /\ UNCHANGED todo
  /\ open' = {}
  /\ UNCHANGED <<state, lost, streaks, pc, at, consec>>

(* force_open; a route that several open ones impact is opened once here. *)
CascadeOpen ==
  /\ phase = "opening"
  /\ \E r \in todo : todo' = todo \ {r} /\ Become(r, "open")
  /\ UNCHANGED <<streaks, pc, at, consec, phase, open>>

force_close(r) ==
  /\ Become(r, "closed")
  /\ consecutive_failures' = [consecutive_failures EXCEPT ![r] = 0]
  /\ consecutive_successes' = [consecutive_successes EXCEPT ![r] = 0]
  /\ UNCHANGED <<pc, at, consec, cascade>>

Init ==
  /\ state = [r \in Routes |-> "closed"]
  /\ consecutive_failures = [r \in Routes |-> 0]
  /\ consecutive_successes = [r \in Routes |-> 0]
  /\ pc = [c \in Callers |-> "idle"]
  /\ at = [c \in Callers |-> Home]
  /\ consec = [c \in Callers |-> 0]
  /\ lost = {}
  /\ phase = "idle" /\ todo = {} /\ open = {}

CallerStep(c) ==
  (\E r \in Routes : Ask(c, r)) \/ Allow(c) \/ EndStreak(c) \/ CountStreak(c)
    \/ Close(c) \/ Open(c)

Next ==
  \/ \E c \in Callers : CallerStep(c) \/ Leave(c)
  \/ CascadeStart \/ CascadeLook \/ CascadeNext \/ CascadeOpen
  \/ \E r \in Routes : force_close(r)

Spec == Init /\ [][Next]_vars

-----------------------------------------------------------------------------
TypeOK ==
  /\ state \in [Routes -> States]
  /\ consecutive_failures \in [Routes -> 0 .. failure_threshold]
  /\ consecutive_successes \in [Routes -> 0 .. success_threshold]
  /\ pc \in [Callers -> {"idle", "asked", "calling", "succeeded", "failed", "closing", "opening"}]
  /\ at \in [Callers -> Routes]
  /\ consec \in [Callers -> Nat]
  /\ lost \subseteq Routes
  /\ phase \in {"idle", "counting", "collecting", "opening"}
  /\ todo \subseteq Routes /\ open \subseteq Routes

(* A call of r that has yet to record its outcome. *)
CallOut(r) == \E c \in Callers : at[c] = r /\ pc[c] \notin {"idle", "asked"}

(* A half-open route turns everybody away only while a call is out whose      *)
(* outcome may close or reopen it, or because the call was dropped or its     *)
(* success fell short of success_threshold: a failure always reopens it.      *)
BlockedForCause ==
  \A r \in Routes : state[r] = "probed" => CallOut(r) \/ r \in lost

(* allow_request: "first probe allowed, subsequent ones blocked until the     *)
(* probe resolves": there is a probe that has not resolved.                   *)
ProbePending ==
  \A r \in Routes : state[r] = "probed" => CallOut(r)

MeshAssumption ==
  Routes # {} /\ success_threshold \in Nat /\ failure_threshold \in Nat

(* BlockedForCause, strengthened to what every step keeps.                    *)
IInv == TypeOK /\ BlockedForCause
=============================================================================
