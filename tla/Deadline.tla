-------------------------------- MODULE Deadline --------------------------------
(* deadline.rs: jobs with deadlines and priorities in a heap, and drains that *)
(* take all of it, report what is late already and submit the rest to the     *)
(* router one after the other.                                                *)
EXTENDS Naturals, FiniteSets, SequencesExt

CONSTANTS
  Jobs, deadline, priority,
  Drainers,            \* the background loop among them, calls of drain_ready the others
  MaxTime

VARIABLES
  now,
  place,               \* of a job: "new", "queued", a drainer that has it, or what became of it
  pc, at, to_run,      \* of a drainer: its step, the instant it goes by, the jobs it took
  counts               \* miss_count, completed_count, dropped_count
vars == <<now, place, pc, at, to_run, counts>>

queue == {j \in Jobs : place[j] = "queued"}
counted(c) == counts' = [counts EXCEPT ![c] = @ + 1]

push(j) ==
  /\ place[j] = "new" /\ place' = [place EXCEPT ![j] = "queued"]
  /\ UNCHANGED <<now, pc, at, to_run, counts>>

(* The clock is read before the queue is locked.                              *)
ReadClock(d) ==
  /\ pc[d] = "idle" /\ queue # {} /\ pc' = [pc EXCEPT ![d] = "lock"] /\ at' = [at EXCEPT ![d] = now]
  /\ UNCHANGED <<now, place, to_run, counts>>

(* HeapEntry::cmp: the top is greater than every other.                       *)
above(i, j) ==
  deadline[i] < deadline[j] \/ (deadline[i] = deadline[j] /\ priority[i] >= priority[j])

(* The heap is emptied in its order; equals come in any.                      *)
Drained(jobs) ==
  {s \in SetToSeqs(jobs) : \A k, l \in DOMAIN s : k < l => above(s[k], s[l])}

missed(d) == {j \in queue : deadline[j] <= at[d]}

TakeAll(d) ==
  /\ pc[d] = "lock"
  /\ \E s \in Drained(queue \ missed(d)) : to_run' = [to_run EXCEPT ![d] = s]
  /\ place' = [j \in Jobs |-> IF j \in missed(d) THEN "Missed"
                              ELSE IF j \in queue THEN d ELSE place[j]]
  /\ counts' = [counts EXCEPT !.miss = @ + Cardinality(missed(d))]
  /\ pc' = [pc EXCEPT ![d] = IF to_run'[d] = <<>> THEN "idle" ELSE "submit"]
  /\ UNCHANGED <<now, at>>

(* router.submit answers for the first of what is left.                       *)
Answer(d) ==
  LET j == Head(to_run[d]) IN
  /\ pc[d] = "submit"
  /\ \/ /\ counted("completed") /\ place' = [place EXCEPT ![j] = "Completed"]
     \/ /\ counted("dropped") /\ place' = [place EXCEPT ![j] = "Dropped"]
  /\ to_run' = [to_run EXCEPT ![d] = Tail(@)]
  /\ pc' = [pc EXCEPT ![d] = IF to_run'[d] = <<>> THEN "idle" ELSE "submit"]
  /\ UNCHANGED <<now, at>>

(* The task of a drain is dropped: what it has in hand goes with it.          *)
Abort(d) ==
  /\ pc[d] # "idle" /\ pc' = [pc EXCEPT ![d] = "gone"]
  /\ place' = [j \in Jobs |-> IF place[j] = d THEN "lost" ELSE place[j]]
  /\ to_run' = [to_run EXCEPT ![d] = <<>>]
  /\ UNCHANGED <<now, at, counts>>

Tick ==
  /\ now < MaxTime /\ now' = now + 1
  /\ UNCHANGED <<place, pc, at, to_run, counts>>

Init ==
  /\ now = 0 /\ place = [j \in Jobs |-> "new"] /\ pc = [d \in Drainers |-> "idle"]
  /\ at = [d \in Drainers |-> 0] /\ to_run = [d \in Drainers |-> <<>>]
  /\ counts = [miss |-> 0, completed |-> 0, dropped |-> 0]

Drain(d) == ReadClock(d) \/ TakeAll(d) \/ Answer(d)

Next ==
  \/ \E j \in Jobs : push(j)
  \/ \E d \in Drainers : ReadClock(d) \/ TakeAll(d) \/ Answer(d) \/ Abort(d)
  \/ Tick

Spec == Init /\ [][Next]_vars

Ends == {"Missed", "Completed", "Dropped"}
TypeOK ==
  /\ now \in 0 .. MaxTime
  /\ place \in [Jobs -> {"new", "queued", "lost"} \cup Ends \cup Drainers]
  /\ pc \in [Drainers -> {"idle", "lock", "submit", "gone"}]

(* deadline.rs: however many drains overlap, no job is in two hands, counted  *)
(* twice or, unless its drain was dropped, forgotten; none is called missed   *)
(* that was not late; none is submitted that was late when its drain began;   *)
(* and what a drain submits next is above the rest of what it took.  This is  *)
(* less than the module's doc: lines 9-10 promise that the job nearest its    *)
(* deadline is always the next, and 12-13 and 88 that expiry is judged when a *)
(* job leaves the queue, but a drain reads the clock before it locks the      *)
(* queue (300) and serves all it took before a nearer job pushed since.       *)
Held(c) == Cardinality({j \in Jobs : place[j] = c})
DeadlinesKept ==
  /\ Held("Missed") = counts.miss /\ Held("Completed") = counts.completed
  /\ Held("Dropped") = counts.dropped
  /\ \A d \in Drainers :
       /\ ToSet(to_run[d]) = {j \in Jobs : place[j] = d}
       /\ \A k \in DOMAIN to_run[d] :
            /\ above(Head(to_run[d]), to_run[d][k])
            /\ deadline[to_run[d][k]] > at[d]
  /\ \A j \in Jobs : place[j] = "Missed" => deadline[j] <= now

(* Every job that was pushed is reported, or was in the hands of a drain that *)
(* was dropped.                                                               *)
Reported(j) == place[j] \in Ends \cup {"new", "lost"}

SchedulerAssumption ==
  /\ IsFiniteSet(Jobs) /\ deadline \in [Jobs -> Nat] /\ priority \in [Jobs -> Nat]
  /\ Drainers \cap ({"new", "queued", "lost"} \cup Ends) = {}

(* A drain has what it took and has not answered for, each job once, in the   *)
(* order of the heap, and nothing that was late at the instant it goes by.    *)
InHands(d) ==
  /\ to_run[d] \in Seq(Jobs) /\ at[d] \in Nat /\ at[d] <= now
  /\ pc[d] = "submit" <=> to_run[d] # <<>>
  /\ ToSet(to_run[d]) = {j \in Jobs : place[j] = d}
  /\ \A k, l \in DOMAIN to_run[d] :
       k < l => above(to_run[d][k], to_run[d][l]) /\ to_run[d][k] # to_run[d][l]
  /\ \A k \in DOMAIN to_run[d] : deadline[to_run[d][k]] > at[d]

Counted ==
  /\ counts \in [miss : Nat, completed : Nat, dropped : Nat]
  /\ Held("Missed") = counts.miss /\ Held("Completed") = counts.completed
  /\ Held("Dropped") = counts.dropped

(* DeadlinesKept, strengthened to what every step keeps.                      *)
IInv ==
  /\ now \in Nat /\ pc \in [Drainers -> {"idle", "lock", "submit", "gone"}]
  /\ place \in [Jobs -> {"new", "queued", "lost"} \cup Ends \cup Drainers]
  /\ to_run \in [Drainers -> Seq(Jobs)] /\ at \in [Drainers -> Nat]
  /\ \A d \in Drainers : InHands(d)
  /\ Counted
  /\ \A j \in Jobs : place[j] = "Missed" => deadline[j] <= now
=============================================================================
