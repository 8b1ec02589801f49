--------------------------- MODULE RequestCoalescer ---------------------------
(***************************************************************************)
(* request_coalescer.rs: RequestCoalescer::get_or_fetch.  The first caller *)
(* of a key fetches; callers that find the key in flight subscribe to its  *)
(* broadcast channel.  The map is a DashMap, so every lookup, entry and    *)
(* removal is one step, and a joiner subscribes under the lock of its      *)
(* shard.  The counters of stats() are left out.                           *)
(***************************************************************************)
EXTENDS FiniteSets, TLAPS

CONSTANTS
  Callers,
  Key,          \* the key each caller asks for
  Cancellable,  \* the callers whose future may be dropped
  Nobody

Keys == {Key[c] : c \in Callers}

VARIABLES
  pc,         \* where each call is
  in_flight,  \* key -> the caller whose channel is in the map, or Nobody
  leader,     \* the caller on whose channel a joiner listens
  inbox,      \* what the receiver of a joiner holds
  res         \* what each call returned: a fetch of its leader, or an error

vars == <<pc, in_flight, leader, inbox, res>>

None == [by |-> Nobody, ok |-> FALSE]

Results == [by : Callers, ok : BOOLEAN]

Goto(c, label) == pc' = [pc EXCEPT ![c] = label]

(* Subscribe to the channel in the map, under its lock. *)
Join(c) ==
  /\ in_flight[Key[c]] # Nobody
  /\ leader' = [leader EXCEPT ![c] = in_flight[Key[c]]]
  /\ Goto(c, "waiting")
  /\ UNCHANGED <<in_flight, inbox, res>>

(* The first look at the map; without an entry the caller makes a channel. *)
Lookup(c) ==
  /\ pc[c] = "new"
  /\ \/ Join(c)
     \/ /\ in_flight[Key[c]] = Nobody
        /\ Goto(c, "creating")
        /\ UNCHANGED <<in_flight, leader, inbox, res>>

(* Mutant: the map is not looked at again. *)
Enter_Overwrites(c) ==
  /\ pc[c] = "creating"
  /\ in_flight' = [in_flight EXCEPT ![Key[c]] = c]
  /\ Goto(c, "fetching")
  /\ UNCHANGED <<leader, inbox, res>>

(* The entry of the map: another caller may have been faster. *)
Enter(c) ==
  /\ pc[c] = "creating"
  /\ \/ Join(c)
     \/ /\ in_flight[Key[c]] = Nobody
        /\ in_flight' = [in_flight EXCEPT ![Key[c]] = c]
        /\ Goto(c, "fetching")
        /\ UNCHANGED <<leader, inbox, res>>

Fetch(c) ==
  /\ pc[c] = "fetching"
  /\ \E ok \in BOOLEAN : res' = [res EXCEPT ![c] = [by |-> c, ok |-> ok]]
  /\ Goto(c, "fetched")
  /\ UNCHANGED <<in_flight, leader, inbox>>

Remove(c) == in_flight' = [in_flight EXCEPT ![Key[c]] = Nobody]

Listeners(c) == {w \in Callers : pc[w] = "waiting" /\ leader[w] = c}

Broadcast(c) ==
  inbox' = [w \in Callers |-> IF w \in Listeners(c) THEN res[c] ELSE inbox[w]]

(* Mutant: the result is broadcast before the entry is removed. *)
Publish_SendsFirst(c) ==
  /\ \/ pc[c] = "fetched" /\ Broadcast(c) /\ Goto(c, "removed") /\ UNCHANGED in_flight
     \/ pc[c] = "removed" /\ Remove(c) /\ Goto(c, "done") /\ UNCHANGED inbox
  /\ UNCHANGED <<leader, res>>

(* The entry is removed first, so that nobody subscribes after the send. *)
Publish(c) ==
  /\ \/ pc[c] = "fetched" /\ Remove(c) /\ Goto(c, "removed") /\ UNCHANGED inbox
     \/ pc[c] = "removed" /\ Broadcast(c) /\ Goto(c, "done") /\ UNCHANGED in_flight
  /\ UNCHANGED <<leader, res>>

(* rx.recv(): the result, or the channel closed without one. *)
Closed(l) == pc[l] \in {"done", "gone"} /\ \A k \in Keys : in_flight[k] # l

Receive(c) ==
  /\ pc[c] = "waiting"
  /\ \/ /\ inbox[c] # None
        /\ res' = [res EXCEPT ![c] = inbox[c]]
        /\ Goto(c, "done")
     \/ /\ inbox[c] = None /\ Closed(leader[c])
        /\ Goto(c, "recvError")
        /\ UNCHANGED res
  /\ UNCHANGED <<in_flight, leader, inbox>>

(* The caller drops the future: a leader's entry stays in the map. *)
Cancel(c) ==
  /\ c \in Cancellable /\ pc[c] \in {"fetching", "waiting"}
  /\ Goto(c, "gone")
  /\ UNCHANGED <<in_flight, leader, inbox, res>>

Init ==
  /\ pc = [c \in Callers |-> "new"]
  /\ in_flight = [k \in Keys |-> Nobody]
  /\ leader = [c \in Callers |-> Nobody]
  /\ inbox = [c \in Callers |-> None]
  /\ res = [c \in Callers |-> None]

CallerStep(c) == Lookup(c) \/ Enter(c) \/ Fetch(c) \/ Publish(c) \/ Receive(c)

Next == \E c \in Callers : CallerStep(c) \/ Cancel(c)

Spec == Init /\ [][Next]_vars

(* Tokio polls every ready task, and fetches end. *)
Fairness == \A c \in Callers : WF_vars(CallerStep(c))

-----------------------------------------------------------------------------
TypeOK ==
  /\ pc \in [Callers -> {"new", "creating", "fetching", "fetched", "removed", "waiting",
                         "done", "recvError", "gone"}]
  /\ in_flight \in [Keys -> Callers \cup {Nobody}]
  /\ leader \in [Callers -> Callers \cup {Nobody}]
  /\ inbox \in [Callers -> Results \cup {None}]
  /\ res \in [Callers -> Results \cup {None}]

(* "When multiple callers request the same key concurrently, only one fetch  *)
(* is executed; all waiters receive the same result": one caller fetches a   *)
(* key at a time, the channel of a fetch stays in the map until it is over,  *)
(* and no joiner ever misses the broadcast it waits for, whoever raced for   *)
(* the entry and whoever dropped its future.                                 *)
SingleFlight ==
  /\ \A c \in Callers : pc[c] \in {"fetching", "fetched"} => in_flight[Key[c]] = c
  /\ \A c \in Callers : pc[c] # "recvError"

(* A joiner is answered, unless the caller that fetched for it was dropped:  *)
(* its channel then stays in the map for good, and nothing is sent on it.    *)
WaitersAnswered ==
  \A c \in Callers :
    pc[c] = "waiting"
      ~> (pc[c] \in {"done", "gone"} \/ (pc[c] = "waiting" /\ pc[leader[c]] = "gone"))

-----------------------------------------------------------------------------
(* Proof of SingleFlight, for every set of callers and their keys. *)

CoalescerAssumption == Nobody \notin Callers

(* The channel in the map is that of a fetch of its key, which runs, has     *)
(* ended or was dropped, and every fetch that has not been removed is there. *)
FlightInv ==
  /\ \A c \in Callers : pc[c] \in {"fetching", "fetched"} => in_flight[Key[c]] = c
  /\ \A k \in Keys : in_flight[k] # Nobody =>
       Key[in_flight[k]] = k /\ pc[in_flight[k]] \in {"fetching", "fetched", "gone"}
  /\ \A c \in Callers : pc[c] \in {"fetched", "removed"} => res[c] # None

(* A joiner whose receiver is empty listens to a fetch that will still send, *)
(* or to one that was dropped and whose sender stays in the map.             *)
JoinInv ==
  \A c \in Callers :
    /\ pc[c] # "recvError"
    /\ pc[c] = "waiting" =>
         /\ leader[c] \in Callers
         /\ inbox[c] = None =>
              \/ pc[leader[c]] \in {"fetching", "fetched", "removed"}
              \/ pc[leader[c]] = "gone" /\ in_flight[Key[leader[c]]] = leader[c]

IInv == TypeOK /\ FlightInv /\ JoinInv

(* Nothing is in flight at first. *)
LEMMA InitIInv == CoalescerAssumption /\ Init => IInv
  BY DEF CoalescerAssumption, Init, IInv, TypeOK, FlightInv, JoinInv, None

(* Only a removal takes an entry, and only its own; only the send ends a      *)
(* channel, after everybody on it has got the result.                        *)
LEMMA NextIInv ==
  ASSUME CoalescerAssumption, IInv, [Next]_vars
  PROVE  IInv'
<1>1. \A c \in Callers : Key[c] \in Keys
  BY DEF Keys
<1>2. ASSUME NEW c \in Callers, pc[c] \in {"new", "creating"}, Join(c)
      PROVE  IInv'
  BY <1>1, <1>2 DEF CoalescerAssumption, Join, Goto, IInv, TypeOK, FlightInv, JoinInv
<1>3. ASSUME NEW c \in Callers, Lookup(c) PROVE IInv'
  BY <1>1, <1>2, <1>3 DEF Lookup, Goto, IInv, TypeOK, FlightInv, JoinInv
<1>4. ASSUME NEW c \in Callers, Enter(c) PROVE IInv'
  BY <1>1, <1>2, <1>4 DEF CoalescerAssumption, Enter, Goto, IInv, TypeOK, FlightInv, JoinInv
<1>5. ASSUME NEW c \in Callers, Fetch(c) PROVE IInv'
  <2>1. PICK r \in Results : r # None /\ res' = [res EXCEPT ![c] = r]
    <3>1. PICK ok \in BOOLEAN : res' = [res EXCEPT ![c] = [by |-> c, ok |-> ok]]
      BY <1>5 DEF Fetch
    <3> QED
      BY <3>1 DEF CoalescerAssumption, Results, None
  <2>2. /\ pc[c] = "fetching" /\ pc' = [pc EXCEPT ![c] = "fetched"]
        /\ UNCHANGED <<in_flight, leader, inbox>>
    BY <1>5 DEF Fetch, Goto
  <2>3. TypeOK'
    BY <2>1, <2>2 DEF IInv, TypeOK
  <2>4. FlightInv'
    BY <1>1, <2>1, <2>2 DEF IInv, TypeOK, FlightInv
  <2>5. JoinInv'
    BY <2>2 DEF IInv, TypeOK, JoinInv
  <2> QED
    BY <2>3, <2>4, <2>5 DEF IInv
<1>6. ASSUME NEW c \in Callers, Publish(c) PROVE IInv'
  <2>1. CASE pc[c] = "fetched"
    BY <1>1, <1>6, <2>1
    DEF CoalescerAssumption, Publish, Remove, Goto, IInv, TypeOK, FlightInv, JoinInv
  <2>2. CASE pc[c] = "removed"
    BY <1>1, <1>6, <2>2
    DEF Publish, Broadcast, Listeners, Goto, IInv, TypeOK, FlightInv, JoinInv
  <2> QED
    BY <1>6, <2>1, <2>2 DEF Publish
<1>7. ASSUME NEW c \in Callers, Receive(c) PROVE IInv'
  BY <1>1, <1>7 DEF Receive, Closed, Goto, IInv, TypeOK, FlightInv, JoinInv
<1>8. ASSUME NEW c \in Callers, Cancel(c) PROVE IInv'
  BY <1>1, <1>8 DEF Cancel, Goto, IInv, TypeOK, FlightInv, JoinInv
<1>9. CASE UNCHANGED vars
  BY <1>9 DEF vars, IInv, TypeOK, FlightInv, JoinInv
<1> QED
  BY <1>3, <1>4, <1>5, <1>6, <1>7, <1>8, <1>9 DEF Next, CallerStep

(* get_or_fetch runs one fetch of a key at a time, and rx.recv() never fails  *)
(* for a joiner, whoever drops its future.                                   *)
THEOREM OneFlight ==
  ASSUME CoalescerAssumption
  PROVE  Spec => []SingleFlight
<1>1. Init => IInv
  BY InitIInv
<1>2. IInv /\ [Next]_vars => IInv'
  BY NextIInv
<1>3. IInv => SingleFlight
  BY DEF IInv, FlightInv, JoinInv, SingleFlight
<1> QED
  BY <1>1, <1>2, <1>3, PTL DEF Spec
=============================================================================
