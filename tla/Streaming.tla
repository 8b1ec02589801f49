------------------------------- MODULE Streaming -------------------------------
(* streaming.rs: a task for every submitted job that forwards what the router *)
(* answers into a broadcast channel of its own, a registry that finds the     *)
(* channel by the job's id, and readers that collect a channel to its end.    *)
EXTENDS Integers, FiniteSets

CONSTANTS
  Jobs, JobId,         \* jobs can share an id
  Late,                \* readers that subscribe by id
  Outcomes,            \* router.submit: how many values, or -1: dropped
  channel_capacity, chunks_per_job

Nobody == "nobody"
Readers == Jobs \cup Late   \* submit_streaming hands a reader to its caller
Ids == {JobId[j] : j \in Jobs}

VARIABLES
  phase,               \* of a job's task: "new", "running", "emit", "remove", "done"
  registry,            \* id -> the job whose channel is found
  total,               \* partial chunks a job will send
  sent,                \* chunks in a job's channel so far, Done included
  chan, joined, pos,   \* of a reader: its channel, where it joined, how far it is
  status               \* "none", "reading", "ok", "lagged", "closed"
vars == <<phase, registry, total, sent, chan, joined, pos, status>>

ceil(a, b) == (a + b - 1) \div b

(* values.len() / chunks_per_job, at least one, and rounded up where a chunk  *)
(* is full; a job without values still sends one chunk, and with a            *)
(* chunks_per_job of zero, where no chunk is ever full, every job sends one.  *)
chunks(n) ==
  IF n = 0 \/ chunks_per_job = 0 THEN 1
  ELSE LET size == ceil(n, chunks_per_job) IN ceil(n, IF size < 1 THEN 1 ELSE size)

Join(r, j) ==
  /\ chan' = [chan EXCEPT ![r] = j] /\ joined' = [joined EXCEPT ![r] = sent[j]]
  /\ pos' = [pos EXCEPT ![r] = sent[j]] /\ status' = [status EXCEPT ![r] = "reading"]

submit_streaming(j) ==
  /\ phase[j] = "new" /\ phase' = [phase EXCEPT ![j] = "running"]
  /\ registry' = [registry EXCEPT ![JobId[j]] = j]
  /\ Join(j, j)
  /\ UNCHANGED <<total, sent>>

(* router.submit returns.                                                     *)
Return(j) ==
  /\ phase[j] = "running"
  /\ \E o \in Outcomes :
       /\ phase' = [phase EXCEPT ![j] = IF o = -1 THEN "remove" ELSE "emit"]
       /\ total' = [total EXCEPT ![j] = IF o = -1 THEN 0 ELSE chunks(o)]
  /\ UNCHANGED <<registry, sent, chan, joined, pos, status>>

Send_WithoutDone(j) ==
  /\ phase[j] = "emit"
  /\ sent' = [sent EXCEPT ![j] = @ + 1]
  /\ phase' = [phase EXCEPT ![j] = IF sent[j] + 1 = total[j] THEN "remove" ELSE "emit"]
  /\ UNCHANGED <<registry, total, chan, joined, pos, status>>

(* tx.send: the partial chunks, then Done.                                    *)
Send(j) ==
  /\ phase[j] = "emit"
  /\ sent' = [sent EXCEPT ![j] = @ + 1]
  /\ phase' = [phase EXCEPT ![j] = IF sent[j] = total[j] THEN "remove" ELSE "emit"]
  /\ UNCHANGED <<registry, total, chan, joined, pos, status>>

RemoveEntry_Kept(j) == UNCHANGED registry

(* By id: whichever job's entry it is.  The task's sender goes with the task. *)
RemoveEntry(j) == registry' = [registry EXCEPT ![JobId[j]] = Nobody]

Finish(j) ==
  /\ phase[j] = "remove" /\ phase' = [phase EXCEPT ![j] = "done"]
  /\ RemoveEntry(j)
  /\ UNCHANGED <<total, sent, chan, joined, pos, status>>

subscribe(r, id) ==
  /\ r \in Late /\ status[r] = "none" /\ registry[id] # Nobody
  /\ Join(r, registry[id])
  /\ UNCHANGED <<phase, registry, total, sent>>

(* tokio::sync::broadcast: no sender is left.                                 *)
Closed(j) == phase[j] = "done" /\ registry[JobId[j]] # j

(* collect_stream, one recv: the oldest chunks make room for new ones.        *)
Recv(r) ==
  LET j == chan[r]  IN
  /\ status[r] = "reading"
  /\ \/ /\ sent[j] - pos[r] > channel_capacity
        /\ status' = [status EXCEPT ![r] = "lagged"] /\ UNCHANGED pos
     \/ /\ sent[j] > pos[r] /\ sent[j] - pos[r] <= channel_capacity
        /\ pos' = [pos EXCEPT ![r] = @ + 1]
        /\ status' = [status EXCEPT ![r] =
             IF pos[r] = total[j] /\ phase[j] # "running" THEN "ok" ELSE "reading"]
     \/ /\ sent[j] = pos[r] /\ Closed(j)
        /\ status' = [status EXCEPT ![r] = "closed"] /\ UNCHANGED pos
  /\ UNCHANGED <<phase, registry, total, sent, chan, joined>>

Init ==
  /\ phase = [j \in Jobs |-> "new"] /\ registry = [i \in Ids |-> Nobody]
  /\ total = [j \in Jobs |-> 0] /\ sent = [j \in Jobs |-> 0]
  /\ chan = [r \in Readers |-> Nobody] /\ joined = [r \in Readers |-> 0]
  /\ pos = [r \in Readers |-> 0] /\ status = [r \in Readers |-> "none"]

TaskStep(j) == Return(j) \/ Send(j) \/ Finish(j)

Next ==
  \/ \E j \in Jobs : submit_streaming(j) \/ TaskStep(j)
  \/ \E r \in Readers : Recv(r) \/ \E id \in Ids : subscribe(r, id)

Spec == Init /\ [][Next]_vars

TypeOK ==
  /\ phase \in [Jobs -> {"new", "running", "emit", "remove", "done"}]
  /\ registry \in [Ids -> Jobs \cup {Nobody}]
  /\ total \in [Jobs -> Nat] /\ sent \in [Jobs -> Nat]
  /\ chan \in [Readers -> Jobs \cup {Nobody}] /\ pos \in [Readers -> Nat]
  /\ status \in [Readers -> {"none", "reading", "ok", "lagged", "closed"}]

(* streaming.rs: a stream that ended well is whole for who joined at its      *)
(* start, a caller of submit_streaming among them; it is cut short only for   *)
(* readers who came late; and it closes without Done only if the router       *)
(* dropped the job or the reader joined after Done.                           *)
StreamsWhole ==
  /\ \A r \in Readers : status[r] = "ok" =>
       /\ pos[r] = total[chan[r]] + 1
       /\ r \in Jobs => joined[r] = 0
  /\ \A r \in Readers : status[r] = "closed" =>
       total[chan[r]] = 0 \/ joined[r] = total[chan[r]] + 1

(* streaming.rs: every reader comes to an end, whatever ids are shared and    *)
(* jobs dropped.  Stated where the fairness is.                               *)
Ended(r) == status[r] \in {"none", "ok", "lagged", "closed"}

StreamAssumption ==
  /\ Jobs \cap Late = {} /\ Nobody \notin Jobs
  /\ Outcomes \subseteq {-1} \cup Nat /\ chunks_per_job \in Nat

(* How much of its stream a task has sent.                                    *)
TaskInv(j) ==
  /\ phase[j] \in {"new", "running"} => total[j] = 0 /\ sent[j] = 0
  /\ phase[j] = "emit" => total[j] > 0 /\ sent[j] <= total[j]
  /\ phase[j] \in {"remove", "done"} =>
       \/ total[j] = 0 /\ sent[j] = 0
       \/ total[j] > 0 /\ sent[j] = total[j] + 1

(* A reader that goes on has not had the Done of its channel, whether there   *)
(* is one yet or not.                                                         *)
ReaderInv(r) ==
  status[r] # "none" =>
    LET j == chan[r] IN
    /\ j \in Jobs /\ joined[r] <= pos[r] /\ pos[r] <= sent[j]
    /\ r \in Jobs => joined[r] = 0
    /\ status[r] = "reading" /\ joined[r] < pos[r] => pos[r] <= total[j]
    /\ status[r] = "ok" => pos[r] = total[j] + 1
    /\ status[r] = "closed" => phase[j] = "done" /\ (total[j] = 0 \/ joined[r] = total[j] + 1)

(* StreamsWhole, strengthened to what every step keeps.                       *)
IInv ==
  /\ TypeOK /\ joined \in [Readers -> Nat]
  /\ \A j \in Jobs : TaskInv(j)
  /\ \A r \in Readers : ReaderInv(r)
=============================================================================
