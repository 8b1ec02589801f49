-------------------------------- MODULE WsProxy --------------------------------
(* websocket_proxy.rs: connections by id, one topic and its subscribers.      *)
(* Adding checks the room before it inserts, broadcasting and evicting go     *)
(* over lists taken before, and removing takes the connection out first and   *)
(* its subscriptions after.                                                   *)
EXTENDS Naturals, FiniteSets, SequencesExt

CONSTANTS
  Adders, Workers,     \* tasks that add a connection each; tasks that do the rest
  Id,                  \* Adders -> the id of the connection they add
  max_connections, MaxCalls

Nobody == "nobody"
Ids == {Id[a] : a \in Adders}

VARIABLES
  connections,         \* id -> the adder whose connection it is
  state,               \* of a connection; "Idle" is Open and not used for too long
  messages_sent, total_messages_routed,
  subscriptions,
  pc, todo,            \* of a task; the ids its loop has left
  delivered,           \* broadcast's own count
  calls,
  racing               \* the most adders between check and insertion at a time since all fitted
vars == <<connections, state, messages_sent, total_messages_routed, subscriptions,
          pc, todo, delivered, calls, racing>>

open == {i \in Ids : connections[i] # Nobody}

(* add_connection: the check, and the insertion that may come much later.     *)
inserting == {a \in Adders : pc[a] = "insert"}
(* The connections and those about to be fit again, or a race goes on.        *)
Fits == Cardinality(open) + Cardinality(inserting) <= max_connections
Raced ==
  racing' = IF Fits' THEN Cardinality(inserting') ELSE Max({racing, Cardinality(inserting')})

HasRoom_Inclusive == Cardinality(open) <= max_connections
HasRoom == Cardinality(open) < max_connections

CheckRoom(a) ==
  /\ pc[a] = "idle"
  /\ pc' = [pc EXCEPT ![a] = IF HasRoom THEN "insert" ELSE "refused"]
  /\ UNCHANGED <<connections, state, messages_sent, total_messages_routed, subscriptions,
                 todo, delivered, calls>>
  /\ Raced

Insert(a) ==
  /\ pc[a] = "insert" /\ pc' = [pc EXCEPT ![a] = "added"]
  /\ connections' = [connections EXCEPT ![Id[a]] = a]
  /\ state' = [state EXCEPT ![a] = "Open"]
  /\ Raced
  /\ UNCHANGED <<messages_sent, total_messages_routed, subscriptions, todo, delivered, calls>>

subscribe(i) ==
  /\ i \notin subscriptions /\ subscriptions' = subscriptions \cup {i}
  /\ UNCHANGED <<connections, state, messages_sent, total_messages_routed,
                 pc, todo, delivered, calls, racing>>

(* idle_secs passes idle_timeout_secs.                                        *)
BecomeIdle(a) ==
  /\ state[a] = "Open" /\ state' = [state EXCEPT ![a] = "Idle"]
  /\ UNCHANGED <<connections, messages_sent, total_messages_routed, subscriptions,
                 pc, todo, delivered, calls, racing>>

(* A worker starts broadcast, with the subscribers of the moment, evict_idle, *)
(* with the idle connections, or remove_connection, with one.                 *)
stale == {i \in open : state[connections[i]] = "Idle"}

Start(w) ==
  /\ pc[w] = "idle" /\ calls < MaxCalls /\ calls' = calls + 1
  /\ \/ /\ subscriptions # {} /\ pc' = [pc EXCEPT ![w] = "broadcast"]
        /\ todo' = [todo EXCEPT ![w] = SetToSeq(subscriptions)]
     \/ /\ stale # {} /\ pc' = [pc EXCEPT ![w] = "evict"]
        /\ todo' = [todo EXCEPT ![w] = SetToSeq(stale)]
     \/ /\ pc' = [pc EXCEPT ![w] = "remove"]
        /\ \E i \in open : todo' = [todo EXCEPT ![w] = <<i>>]
  /\ UNCHANGED <<connections, state, messages_sent, total_messages_routed, subscriptions,
                 delivered, racing>>

is_active(c) == c # Nobody /\ state[c] \in {"Open", "Idle"}

Deliver(w) ==
  /\ pc[w] = "broadcast" /\ todo[w] # <<>>
  /\ todo' = [todo EXCEPT ![w] = Tail(@)]
  /\ LET c == connections[Head(todo[w])] IN
     IF is_active(c)
     THEN /\ messages_sent' = [messages_sent EXCEPT ![c] = @ + 1]
          /\ state' = [state EXCEPT ![c] = "Open"]
          /\ delivered' = [delivered EXCEPT ![w] = @ + 1]
     ELSE UNCHANGED <<messages_sent, state, delivered>>
  /\ UNCHANGED <<connections, total_messages_routed, subscriptions, pc, calls, racing>>

Count(w) ==
  /\ pc[w] = "broadcast" /\ todo[w] = <<>> /\ pc' = [pc EXCEPT ![w] = "idle"]
  /\ total_messages_routed' = total_messages_routed + delivered[w]
  /\ delivered' = [delivered EXCEPT ![w] = 0]
  /\ UNCHANGED <<connections, state, messages_sent, subscriptions, todo, calls, racing>>

(* evict_idle, for the next id: what is under the id now is closed ...        *)
Close(w) ==
  /\ pc[w] = "evict" /\ pc' = [pc EXCEPT ![w] = "unmap"]
  /\ LET c == connections[Head(todo[w])] IN
     state' = IF c = Nobody THEN state ELSE [state EXCEPT ![c] = "Closed"]
  /\ UNCHANGED <<connections, messages_sent, total_messages_routed, subscriptions,
                 todo, delivered, calls, racing>>

(* ... and removed like remove_connection does.                               *)
Unmap(w) ==
  /\ pc[w] \in {"remove", "unmap"}
  /\ pc' = [pc EXCEPT ![w] = IF @ = "remove" THEN "forget" ELSE "unsubscribe"]
  /\ connections' = [connections EXCEPT ![Head(todo[w])] = Nobody]
  /\ Raced
  /\ UNCHANGED <<state, messages_sent, total_messages_routed, subscriptions,
                 todo, delivered, calls>>

Unsubscribe(w) ==
  /\ pc[w] \in {"forget", "unsubscribe"}
  /\ subscriptions' = subscriptions \ {Head(todo[w])}
  /\ todo' = [todo EXCEPT ![w] = Tail(@)]
  /\ pc' = [pc EXCEPT ![w] = IF Len(todo[w]) > 1 THEN "evict" ELSE "idle"]
  /\ UNCHANGED <<connections, state, messages_sent, total_messages_routed, delivered, calls, racing>>

Init ==
  /\ connections = [i \in Ids |-> Nobody] /\ state = [a \in Adders |-> "Connecting"]
  /\ messages_sent = [a \in Adders |-> 0] /\ total_messages_routed = 0 /\ subscriptions = {}
  /\ pc = [t \in Adders \cup Workers |-> "idle"] /\ todo = [w \in Workers |-> <<>>]
  /\ delivered = [w \in Workers |-> 0] /\ calls = 0 /\ racing = 0

Next ==
  \/ \E a \in Adders : CheckRoom(a) \/ Insert(a) \/ BecomeIdle(a)
  \/ \E i \in Ids : subscribe(i)
  \/ \E w \in Workers : Start(w) \/ Deliver(w) \/ Count(w) \/ Close(w) \/ Unmap(w) \/ Unsubscribe(w)

Spec == Init /\ [][Next]_vars

TypeOK ==
  /\ connections \in [Ids -> Adders \cup {Nobody}]
  /\ state \in [Adders -> {"Connecting", "Open", "Idle", "Closed"}]
  /\ messages_sent \in [Adders -> Nat] /\ total_messages_routed \in Nat
  /\ subscriptions \subseteq Ids /\ delivered \in [Workers -> Nat] /\ calls \in 0 .. MaxCalls

(* websocket_proxy.rs: the proxy never holds more than max_connections and    *)
(* the adders that, since it was last within its size, raced with the first   *)
(* for the last place; and a connection it holds is usable unless an eviction *)
(* that found its id idle, perhaps under an older connection, is under way.   *)
Evicting(i) == \E w \in Workers : pc[w] = "unmap" /\ Head(todo[w]) = i
RoomHeld ==
  /\ Cardinality(open) + Cardinality(inserting) <= max_connections + Max({racing, 1}) - 1
  /\ \A i \in open : is_active(connections[i]) \/ Evicting(i)

(* websocket_proxy.rs: what the proxy says it routed, with what broadcasts    *)
(* have yet to say, is what connections got.                                  *)
Sum(f) == FoldSet(LAMBDA x, acc : f[x] + acc, 0, DOMAIN f)
RoutedHeld == Sum(messages_sent) = total_messages_routed + Sum(delivered)

ProxyAssumption ==
  /\ IsFiniteSet(Adders) /\ IsFiniteSet(Ids) /\ Nobody \notin Adders
  /\ max_connections \in Nat

(* Whoever is about to insert was counted among the racing.                   *)
RoomInv ==
  /\ Cardinality(inserting) <= racing
  /\ Cardinality(open) + Cardinality(inserting) <= max_connections + Max({racing, 1}) - 1

(* A connection is under its own id only, so that whoever closes it is about  *)
(* to remove it.                                                              *)
Live(i) == is_active(connections[i])
UsableInv == \A i \in open : Id[connections[i]] = i /\ (Live(i) \/ Evicting(i))

(* Loops are over ids, and who removes has one to remove.                     *)
Removing == {"evict", "unmap", "unsubscribe", "remove", "forget"}
LoopInv ==
  /\ subscriptions \subseteq Ids /\ todo \in [Workers -> Seq(Ids)]
  /\ \A w \in Workers : pc[w] \in Removing => todo[w] # <<>>

(* RoomHeld, strengthened to what every step keeps.                           *)
IInv ==
  /\ connections \in [Ids -> Adders \cup {Nobody}] /\ racing \in Nat
  /\ state \in [Adders -> {"Connecting", "Open", "Idle", "Closed"}]
  /\ DOMAIN pc = Adders \cup Workers
  /\ RoomInv /\ UsableInv /\ LoopInv
=============================================================================
