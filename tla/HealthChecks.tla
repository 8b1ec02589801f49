----------------------------- MODULE HealthChecks -----------------------------
(***************************************************************************)
(* health_check_runner.rs: one CheckState, whose streaks and verdict are   *)
(* atomics that several recorders (the tasks of overlapping run_all, and   *)
(* record_custom) move one after the other.  Streaks are compared with     *)
(* thresholds only, at which they saturate here; of the history only the   *)
(* last result is kept.                                                    *)
(***************************************************************************)
EXTENDS Naturals

CONSTANTS Recorders, healthy_consecutive, unhealthy_consecutive

VARIABLES
  consecutive_success, consecutive_failure, healthy, last_result,
  pc,            \* where record_result is
  success,       \* the result being recorded
  streak,        \* the streak that fetch_add returned
  raced          \* history: whether two records have ever overlapped

vars == <<consecutive_success, consecutive_failure, healthy, last_result, pc, success, streak,
          raced>>

Up(n, threshold) == IF n < threshold THEN n + 1 ELSE n

Goto(r, label) == pc' = [pc EXCEPT ![r] = label]

(* Mutant: the other streak ends before this one is counted. *)
Count_ResetsFirst(r) ==
  \/ /\ pc[r] = "idle" /\ Goto(r, "reset")
     /\ \E ok \in BOOLEAN :
          /\ success' = [success EXCEPT ![r] = ok]
          /\ consecutive_success' = IF ok THEN consecutive_success ELSE 0
          /\ consecutive_failure' = IF ok THEN 0 ELSE consecutive_failure
     /\ raced' = (raced \/ \E q \in Recorders : pc[q] # "idle")
     /\ UNCHANGED <<healthy, last_result, streak>>
  \/ /\ pc[r] = "reset" /\ Goto(r, "judging")
     /\ LET s == Up(consecutive_success, healthy_consecutive)
            f == Up(consecutive_failure, unhealthy_consecutive)
        IN /\ streak' = [streak EXCEPT ![r] = IF success[r] THEN s ELSE f]
           /\ consecutive_success' = IF success[r] THEN s ELSE consecutive_success
           /\ consecutive_failure' = IF success[r] THEN consecutive_failure ELSE f
     /\ UNCHANGED <<healthy, last_result, success, raced>>

(* fetch_add on the streak of the result. *)
Count(r) ==
  /\ pc[r] = "idle" /\ Goto(r, "counted")
  /\ \E ok \in BOOLEAN :
       LET s == Up(consecutive_success, healthy_consecutive)
           f == Up(consecutive_failure, unhealthy_consecutive)
       IN /\ success' = [success EXCEPT ![r] = ok]
          /\ streak' = [streak EXCEPT ![r] = IF ok THEN s ELSE f]
          /\ consecutive_success' = IF ok THEN s ELSE consecutive_success
          /\ consecutive_failure' = IF ok THEN consecutive_failure ELSE f
  /\ raced' = (raced \/ \E q \in Recorders : pc[q] # "idle")
  /\ UNCHANGED <<healthy, last_result>>

(* store(0) on the other streak. *)
Reset(r) ==
  /\ pc[r] = "counted" /\ Goto(r, "judging")
  /\ consecutive_success' = IF success[r] THEN consecutive_success ELSE 0
  /\ consecutive_failure' = IF success[r] THEN 0 ELSE consecutive_failure
  /\ UNCHANGED <<healthy, last_result, success, streak, raced>>

(* The streak decides, if it is long enough. *)
Judge(r) ==
  /\ pc[r] = "judging" /\ Goto(r, "storing")
  /\ healthy' = CASE success[r] /\ streak[r] >= healthy_consecutive -> TRUE
                  [] ~success[r] /\ streak[r] >= unhealthy_consecutive -> FALSE
                  [] OTHER -> healthy
  /\ streak' = [streak EXCEPT ![r] = 0]
  /\ UNCHANGED <<consecutive_success, consecutive_failure, last_result, success, raced>>

(* The two locks of the last result and the history. *)
Store(r) ==
  /\ pc[r] = "storing" /\ Goto(r, "idle")
  /\ last_result' = IF success[r] THEN "success" ELSE "failure"
  /\ UNCHANGED <<consecutive_success, consecutive_failure, healthy, success, streak, raced>>

Init ==
  /\ consecutive_success = 0 /\ consecutive_failure = 0
  /\ healthy = TRUE /\ last_result = "none"
  /\ pc = [r \in Recorders |-> "idle"]
  /\ success = [r \in Recorders |-> FALSE]
  /\ streak = [r \in Recorders |-> 0]
  /\ raced = FALSE

Next == \E r \in Recorders : Count(r) \/ Reset(r) \/ Judge(r) \/ Store(r)

Spec == Init /\ [][Next]_vars

-----------------------------------------------------------------------------
TypeOK ==
  /\ consecutive_success \in 0 .. healthy_consecutive
  /\ consecutive_failure \in 0 .. unhealthy_consecutive
  /\ healthy \in BOOLEAN /\ last_result \in {"none", "success", "failure"}
  /\ pc \in [Recorders -> {"idle", "counted", "judging", "storing"}]
  /\ success \in [Recorders -> BOOLEAN] /\ streak \in [Recorders -> Nat] /\ raced \in BOOLEAN

(* However records overlap, when none is under way at most one streak is      *)
(* longer than zero, and it is of the kind of some result recorded last; and  *)
(* as long as none has overlapped, the verdict is what the streak says.       *)
StreaksExclusive ==
  (\A r \in Recorders : pc[r] = "idle") =>
    /\ consecutive_success = 0 \/ consecutive_failure = 0
    /\ ~raced =>
         /\ consecutive_success >= healthy_consecutive => healthy
         /\ consecutive_failure >= unhealthy_consecutive => ~healthy
         /\ consecutive_success > 0 => last_result = "success"
         /\ consecutive_failure > 0 => last_result = "failure"

(* With a threshold of 0 a streak that has ended would still decide.          *)
ChecksAssumption ==
  healthy_consecutive \in Nat \ {0} /\ unhealthy_consecutive \in Nat \ {0}

(* Both streaks last only while a record that has counted is to end one.      *)
OneEnds ==
  consecutive_success > 0 /\ consecutive_failure > 0 => \E r \in Recorders : pc[r] = "counted"

(* As long as no two have overlapped, one record is under way at most, and    *)
(* what it knows of the streaks is so.                                        *)
Alone == \A q, r \in Recorders : pc[q] # "idle" /\ pc[r] # "idle" => q = r

Sure(r) ==
  /\ pc[r] \in {"counted", "judging"} =>
       streak[r] = IF success[r] THEN consecutive_success ELSE consecutive_failure
  /\ pc[r] \in {"judging", "storing"} =>
       (IF success[r] THEN consecutive_failure ELSE consecutive_success) = 0
  /\ pc[r] = "storing" =>
       IF success[r] THEN consecutive_success >= healthy_consecutive => healthy
       ELSE consecutive_failure >= unhealthy_consecutive => ~healthy

(* StreaksExclusive, strengthened to what every step keeps.                   *)
IInv ==
  /\ TypeOK /\ OneEnds /\ StreaksExclusive
  /\ ~raced => Alone /\ \A r \in Recorders : Sure(r)
=============================================================================
