---------------------------- MODULE CanaryDeployer ----------------------------
(***************************************************************************)
(* canary_deployer.rs: one CanaryDeployment, the passes of tick_all, which *)
(* take the lock of its stage several times, and the operator who rolls it *)
(* back or promotes it in between.  The rates that check_health compares   *)
(* may have any value, and the time of the next step may come at any time. *)
(***************************************************************************)
EXTENDS Naturals, FiniteSetsExt

CONSTANTS Tickers, initial_pct, step_pct, auto_promote

VARIABLES
  stage,    \* "running", "rollingBack", "complete" or "failed"
  pct,      \* traffic_pct of the running stage, kept when it ends
  due,      \* step_interval_secs have passed since last_step_at
  pc

vars == <<stage, pct, due, pc>>

Goto(t, label) == pc' = [pc EXCEPT ![t] = label]

(* tick_all looks at the stage, *)
Look(t) ==
  /\ pc[t] = "idle" /\ stage = "running" /\ Goto(t, "looked")
  /\ UNCHANGED <<stage, pct, due>>

(* at the clock (should_advance), *)
should_advance(t) ==
  /\ pc[t] = "looked" /\ Goto(t, IF due THEN "due" ELSE "idle")
  /\ UNCHANGED <<stage, pct, due>>

(* and at the metrics (check_health). *)
check_health(t) ==
  /\ pc[t] = "due" /\ (Goto(t, "healthy") \/ Goto(t, "unhealthy"))
  /\ UNCHANGED <<stage, pct, due>>

(* The stage it had is not looked at again. *)
Fail(t) ==
  /\ pc[t] = "unhealthy" /\ Goto(t, "idle")
  /\ stage' = "failed"
  /\ UNCHANGED <<pct, due>>

(* Mutant: advance relies on the stage that tick_all has seen. *)
advance_Unchecked(t) ==
  /\ pc[t] = "healthy"
  /\ Goto(t, "stepped") /\ stage' = "running" /\ pct' = Min({pct + step_pct, 100})
  /\ UNCHANGED due

(* advance checks again, under the lock, and returns the new percentage. *)
advance(t) ==
  /\ pc[t] = "healthy"
  /\ IF stage = "running"
     THEN /\ pct' = Min({pct + step_pct, 100})
          /\ Goto(t, IF pct' >= 100 /\ auto_promote THEN "last" ELSE "stepped")
     ELSE Goto(t, "idle") /\ UNCHANGED pct
  /\ UNCHANGED <<stage, due>>

(* It sets last_step_at afterwards. *)
Stamp(t) ==
  /\ pc[t] \in {"stepped", "last"} /\ due' = FALSE
  /\ Goto(t, IF pc[t] = "last" THEN "promoting" ELSE "idle")
  /\ UNCHANGED <<stage, pct>>

Promote(t) ==
  /\ pc[t] = "promoting" /\ Goto(t, "idle")
  /\ stage' = "complete"
  /\ UNCHANGED <<pct, due>>

(* The operator. *)
rollback == stage' = "rollingBack" /\ UNCHANGED <<pct, due, pc>>

promote == stage' = "complete" /\ UNCHANGED <<pct, due, pc>>

IntervalEnds == due' = TRUE /\ UNCHANGED <<stage, pct, pc>>

Init ==
  /\ stage = "running" /\ pct = initial_pct /\ due = FALSE
  /\ pc = [t \in Tickers |-> "idle"]

Tick(t) ==
  Look(t) \/ should_advance(t) \/ check_health(t) \/ Fail(t) \/ advance(t) \/ Stamp(t) \/ Promote(t)

Next == (\E t \in Tickers : Tick(t)) \/ rollback \/ promote \/ IntervalEnds

Spec == Init /\ [][Next]_vars

-----------------------------------------------------------------------------
TypeOK ==
  /\ stage \in {"running", "rollingBack", "complete", "failed"}
  /\ pct \in initial_pct .. 100 /\ due \in BOOLEAN
  /\ pc \in [Tickers -> {"idle", "looked", "due", "healthy", "unhealthy", "stepped", "last", "promoting"}]

(* A deployment that was rolled back, completed or failed is never running    *)
(* again, although passes that have seen it running go on; route_request then *)
(* sends it nothing, whichever end it came to.  A late pass may replace one   *)
(* end by another.  And the traffic of a running one never shrinks.           *)
StaysOff ==
  (stage # "running" => stage' # "running") /\ pct' >= pct

DeployerAssumption == initial_pct \in 0 .. 100 /\ step_pct \in Nat
=============================================================================
