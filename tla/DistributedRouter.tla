--------------------------- MODULE DistributedRouter ---------------------------
(* distributed_router.rs: nodes that elect a primary by a key with a time to  *)
(* live in a store they share, and that broadcast strategy overrides to each  *)
(* other.  The store and the subjects are NATS's; the store's answer to a     *)
(* create or a put is one step with what it did.  A node broadcasts one       *)
(* override at a time.                                                        *)
EXTENDS Integers, FiniteSets, Sequences

CONSTANTS
  Nodes, Strategies,
  LEADER_TTL, LEADER_REFRESH,   \* 10 and 4 seconds
  MaxTasks,                     \* the refresh tasks a node may have at a time
  MaxCalls

Nobody == "nobody"
None == "none"
Off == LEADER_REFRESH + 1
TooLate == LEADER_REFRESH - LEADER_TTL
Tasks == 1 .. MaxTasks

VARIABLES
  holder, age,         \* of the key: whose it is, seconds since it was written
  is_primary,
  due,                 \* of a refresh task: seconds to its next put, none left to
                       \* wait from 0 down, or Off
  late,                \* ghost: a put has been due for LEADER_TTL - LEADER_REFRESH
  strategy_override,
  inbox,               \* override messages on their way to a node, in order
  pc,                  \* of a node's global_strategy_override: <<>> or <<strategy>> published
  stale,               \* ghost: who has yet to write an older override, or lost the last
  sent                 \* ghost: the overrides published
vars == <<holder, age, is_primary, due, late, strategy_override, inbox, pc, stale, sent>>
election == <<holder, age, is_primary, due, late>>
overrides == <<strategy_override, inbox, pc, stale, sent>>

(* elect_primary, by any node at any time: create succeeds if there is no key *)
(* and the store answers; any error makes the caller a non-primary, one that  *)
(* has the key too.  The winner gets a refresh task, whatever tasks it has.   *)
(* Mutant: put instead of create, which succeeds whoever has the key.         *)
Won_Anyway == holder \in Nodes \cup {Nobody}
Won == holder = Nobody
elect_primary(n) ==
  /\ \/ /\ Won
        /\ holder' = n /\ age' = 0 /\ is_primary' = [is_primary EXCEPT ![n] = TRUE]
        /\ \E t \in Tasks : due[n][t] = Off /\ due' = [due EXCEPT ![n][t] = 0]
     \/ is_primary' = [is_primary EXCEPT ![n] = FALSE] /\ UNCHANGED <<holder, age, due>>
  /\ UNCHANGED <<late, overrides>>

(* spawn_leader_refresh: put, whoever has the key.  A late tick does not move *)
(* the ones after it.                                                         *)
Refresh(n, t) ==
  /\ due[n][t] <= 0 /\ due' = [due EXCEPT ![n][t] = @ + LEADER_REFRESH]
  /\ holder' = n /\ age' = 0
  /\ UNCHANGED <<is_primary, late, overrides>>

RefreshFails(n, t) ==
  /\ due[n][t] <= 0 /\ due' = [due EXCEPT ![n][t] = Off]
  /\ is_primary' = [is_primary EXCEPT ![n] = FALSE]
  /\ UNCHANGED <<holder, age, late, overrides>>

(* The process of a node ends, and starts again.                              *)
Crash(n) ==
  /\ is_primary' = [is_primary EXCEPT ![n] = FALSE]
  /\ due' = [due EXCEPT ![n] = [t \in Tasks |-> Off]]
  /\ UNCHANGED <<holder, age, late, overrides>>

(* A second.  The store drops a key that was not written for its time to      *)
(* live; refresh tasks may be late by any time, counted up to TooLate.        *)
Sooner(d) == IF d \in {Off, TooLate} THEN d ELSE d - 1
Second ==
  /\ IF holder # Nobody /\ age + 1 = LEADER_TTL THEN holder' = Nobody /\ age' = 0
     ELSE age' = (IF holder = Nobody THEN 0 ELSE age + 1) /\ UNCHANGED holder
  /\ due' = [n \in Nodes |-> [t \in Tasks |-> Sooner(due[n][t])]]
  /\ late' = (late \/ \E n \in Nodes, t \in Tasks : due'[n][t] = TooLate)
  /\ UNCHANGED <<is_primary, overrides>>

(* global_strategy_override: published to all, the caller's own subscriber    *)
(* among them, and then written by the caller.                                *)
Overriding == {n \in Nodes : pc[n] # <<>>}
Publish(n, s) ==
  /\ pc[n] = <<>> /\ Len(sent) < MaxCalls /\ sent' = Append(sent, s)
  /\ pc' = [pc EXCEPT ![n] = <<s>>] /\ inbox' = [m \in Nodes |-> Append(inbox[m], s)]
  /\ stale' = Overriding
  /\ UNCHANGED <<election, strategy_override>>

Write(n) ==
  /\ pc[n] # <<>> /\ pc' = [pc EXCEPT ![n] = <<>>]
  /\ strategy_override' = [strategy_override EXCEPT ![n] = pc[n][1]]
  /\ UNCHANGED <<election, inbox, stale, sent>>

Receive(n) ==
  /\ inbox[n] # <<>> /\ inbox' = [inbox EXCEPT ![n] = Tail(@)]
  /\ strategy_override' = [strategy_override EXCEPT ![n] = Head(inbox[n])]
  /\ stale' = IF pc[n] = <<>> THEN stale \ {n} ELSE stale
  /\ UNCHANGED <<election, pc, sent>>

(* A subject delivers at most once.                                           *)
Lose(n) ==
  /\ inbox[n] # <<>> /\ inbox' = [inbox EXCEPT ![n] = Tail(@)]
  /\ stale' = IF Len(inbox[n]) = 1 THEN stale \cup {n} ELSE stale
  /\ UNCHANGED <<election, strategy_override, pc, sent>>

Init ==
  /\ holder = Nobody /\ age = 0 /\ is_primary = [n \in Nodes |-> FALSE]
  /\ due = [n \in Nodes |-> [t \in Tasks |-> Off]] /\ late = FALSE
  /\ strategy_override = [n \in Nodes |-> None] /\ inbox = [n \in Nodes |-> <<>>]
  /\ pc = [n \in Nodes |-> <<>>] /\ stale = {} /\ sent = <<>>

(* The two protocols have nothing in common but the nodes.                    *)
ElectionNext ==
  \/ \E n \in Nodes :
       elect_primary(n) \/ Crash(n) \/ \E t \in Tasks : Refresh(n, t) \/ RefreshFails(n, t)
  \/ Second
OverrideNext ==
  \E n \in Nodes :
    Write(n) \/ Receive(n) \/ Lose(n) \/ \E s \in Strategies \cup {None} : Publish(n, s)
Next == ElectionNext \/ OverrideNext

Spec == Init /\ [][Next]_vars

TypeOK ==
  /\ holder \in Nodes \cup {Nobody} /\ age \in 0 .. LEADER_TTL /\ is_primary \in [Nodes -> BOOLEAN]
  /\ due \in [Nodes -> [Tasks -> TooLate .. Off]] /\ late \in BOOLEAN
  /\ strategy_override \in [Nodes -> Strategies \cup {None}]
  /\ inbox \in [Nodes -> Seq(Strategies \cup {None})] /\ stale \subseteq Nodes

(* distributed_router.rs: a node that takes itself for the primary holds the  *)
(* key, so that there is one at most, for as long as no refresh has been late *)
(* by LEADER_TTL - LEADER_REFRESH, whatever nodes call elect_primary again,   *)
(* fail to refresh or crash.                                                  *)
RoleHeld == ~late => \A n \in Nodes : is_primary[n] => holder = n

(* distributed_router.rs: once what was published has arrived, a node has the *)
(* last override, unless its own older one was still to be written when that  *)
(* was published, or the last one was lost on its way to the node.            *)
Last == IF sent = <<>> THEN None ELSE sent[Len(sent)]
OverridesAgree ==
  \A n \in Nodes \ stale : inbox[n] = <<>> => strategy_override[n] = Last

RouterAssumption ==
  /\ Nodes # {} /\ Nobody \notin Nodes /\ MaxTasks \in Nat
  /\ LEADER_REFRESH \in Nat /\ LEADER_TTL \in Nat /\ LEADER_REFRESH < LEADER_TTL

(* Until a refresh is too late, every refresh task is the key holder's and    *)
(* writes the key before it is too old; a primary has such a task.            *)
ElectionInv ==
  /\ holder \in Nodes \cup {Nobody} /\ age \in Nat
  /\ is_primary \in [Nodes -> BOOLEAN] /\ due \in [Nodes -> [Tasks -> TooLate .. Off]]
  /\ ~late =>
       \A n \in Nodes :
         /\ is_primary[n] => \E t \in Tasks : due[n][t] # Off
         /\ \A t \in Tasks : due[n][t] # Off =>
              holder = n /\ age + due[n][t] <= LEADER_REFRESH /\ due[n][t] > TooLate

(* What a node comes to: the last override on its way, or what it has.        *)
Coming(n) ==
  IF inbox[n] = <<>> THEN strategy_override[n] ELSE inbox[n][Len(inbox[n])]
OverrideInv ==
  /\ strategy_override \in [Nodes -> Strategies \cup {None}]
  /\ inbox \in [Nodes -> Seq(Strategies \cup {None})]
  /\ pc \in [Nodes -> {<<>>} \cup {<<s>> : s \in Strategies \cup {None}}]
  /\ stale \subseteq Nodes /\ sent \in Seq(Strategies \cup {None})
  /\ \A n \in Nodes :
       /\ inbox[n] # <<>> => inbox[n][Len(inbox[n])] = Last
       /\ n \notin stale => Coming(n) = Last /\ (pc[n] # <<>> => pc[n] = <<Last>>)
=============================================================================
