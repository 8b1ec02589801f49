----------------------------- MODULE JobService -----------------------------
(***************************************************************************)
(* What the callers of Router::submit and Router::run are promised: a call *)
(* is answered with the output of work that really ran, its own or that of *)
(* an earlier call with the same content; the work of a call runs at most  *)
(* once; and a call that was refused never runs, before or after the       *)
(* refusal, so that its caller may safely try again elsewhere.             *)
(***************************************************************************)
CONSTANTS
  Jobs,         \* the calls
  Key(_),       \* the content of a call: calls with one key are interchangeable
  Output(_),    \* what the work of a call computes
  MayPanic(_),  \* whether the work of a call may panic
  NoAnswer

VARIABLES
  phase,        \* where each call is
  answer,       \* what it was answered
  ran           \* the calls whose work has run

svars == <<phase, answer, ran>>

Init ==
  /\ phase = [j \in Jobs |-> "pending"]
  /\ answer = [j \in Jobs |-> NoAnswer]
  /\ ran = {}

(* A call whose caller went away may still run. *)
Run(j) ==
  /\ j \notin ran /\ phase[j] \in {"pending", "gone"}
  /\ ran' = ran \cup {j}
  /\ UNCHANGED <<phase, answer>>

Answer(j) ==
  /\ phase[j] = "pending"
  /\ phase' = [phase EXCEPT ![j] = "answered"]
  /\ \E o \in ran :
       /\ Key(o) = Key(j)
       /\ answer' = [answer EXCEPT ![j] = Output(o)]
  /\ UNCHANGED ran

Refuse(j) ==
  /\ phase[j] = "pending"
  /\ j \notin ran \/ MayPanic(j)
  /\ phase' = [phase EXCEPT ![j] = "refused"]
  /\ UNCHANGED <<answer, ran>>

(* The caller drops the call, or a panic unwinds it. *)
Abandon(j) ==
  /\ phase[j] = "pending"
  /\ phase' = [phase EXCEPT ![j] = "gone"]
  /\ \/ UNCHANGED ran
     \/ j \notin ran /\ MayPanic(j) /\ ran' = ran \cup {j}
  /\ UNCHANGED answer

Next == \E j \in Jobs : Run(j) \/ Answer(j) \/ Refuse(j) \/ Abandon(j)

Spec == Init /\ [][Next]_svars
=============================================================================
