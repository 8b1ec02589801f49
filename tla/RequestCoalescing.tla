-------------------------- MODULE RequestCoalescing --------------------------
(***************************************************************************)
(* request_coalescing.rs: submit_or_join, complete and prune_stale, each   *)
(* one step under the mutex.  A leader executes the request and then calls *)
(* complete with its key; every caller holds a receiver.  Content hashes   *)
(* are taken as the contents; the counters of metrics() are left out.      *)
(***************************************************************************)
EXTENDS Naturals, FiniteSets, FiniteSetTheorems, TLAPS

CONSTANTS
  Callers,
  Key,          \* the content of each caller's request
  Cancellable,  \* the leaders that may vanish without calling complete
  MaxPrunes,    \* bound on the calls of prune_stale that remove an entry of a key
  Nobody

Keys == {Key[c] : c \in Callers}

VARIABLES
  pc,         \* "new", "leading" (it executes), "joined", "completed" or "gone"
  in_flight,  \* the keys with a PendingRequest
  waiters,    \* the callers whose senders a PendingRequest holds
  reply,      \* what the receiver of a caller yields
  pruned      \* how many entries of a key were pruned

vars == <<pc, in_flight, waiters, reply, pruned>>

Replies == [by : Callers, is : {"ok", "err"}]

Open == [by |-> Nobody, is |-> "open"]
Pruned == [by |-> Nobody, is |-> "err"]

(* Send r to the waiters of the keys ks and remove their entries. *)
Settle(ks, r) ==
  /\ reply' = [c \in Callers |-> IF \E k \in ks : c \in waiters[k] THEN r ELSE reply[c]]
  /\ waiters' = [k \in Keys |-> IF k \in ks THEN {} ELSE waiters[k]]
  /\ in_flight' = in_flight \ ks

submit_or_join(c) ==
  /\ pc[c] = "new"
  /\ pc' = [pc EXCEPT ![c] = IF Key[c] \in in_flight THEN "joined" ELSE "leading"]
  /\ in_flight' = in_flight \cup {Key[c]}
  /\ waiters' = [waiters EXCEPT ![Key[c]] = @ \cup {c}]
  /\ UNCHANGED <<reply, pruned>>

(* Mutant: every entry of the map is settled. *)
complete_DrainsAll(c) ==
  /\ pc[c] = "leading"
  /\ \E is \in {"ok", "err"} : Settle(in_flight, [by |-> c, is |-> is])
  /\ pc' = [pc EXCEPT ![c] = "completed"]
  /\ UNCHANGED pruned

(* The leader is done.  After a prune, the entry may be that of a later one. *)
complete(c) ==
  /\ pc[c] = "leading"
  /\ \E is \in {"ok", "err"} : Settle({Key[c]}, [by |-> c, is |-> is])
  /\ pc' = [pc EXCEPT ![c] = "completed"]
  /\ UNCHANGED pruned

(* Mutant: the entries are removed without a word to their waiters. *)
prune_stale_Silent ==
  \E stale \in (SUBSET in_flight) \ {{}} :
    /\ \A k \in stale : pruned[k] < MaxPrunes
    /\ in_flight' = in_flight \ stale
    /\ waiters' = [k \in Keys |-> IF k \in stale THEN {} ELSE waiters[k]]
    /\ pruned' = [k \in Keys |-> IF k \in stale THEN pruned[k] + 1 ELSE pruned[k]]
    /\ UNCHANGED <<pc, reply>>

(* The entries older than some age, which may be any of them, yield an error. *)
prune_stale ==
  \E stale \in (SUBSET in_flight) \ {{}} :
    /\ \A k \in stale : pruned[k] < MaxPrunes
    /\ Settle(stale, Pruned)
    /\ pruned' = [k \in Keys |-> IF k \in stale THEN pruned[k] + 1 ELSE pruned[k]]
    /\ UNCHANGED pc

(* A leader that is dropped never calls complete. *)
Vanish(c) ==
  /\ c \in Cancellable /\ pc[c] = "leading"
  /\ pc' = [pc EXCEPT ![c] = "gone"]
  /\ UNCHANGED <<in_flight, waiters, reply, pruned>>

Init ==
  /\ pc = [c \in Callers |-> "new"]
  /\ in_flight = {}
  /\ waiters = [k \in Keys |-> {}]
  /\ reply = [c \in Callers |-> Open]
  /\ pruned = [k \in Keys |-> 0]

Next ==
  \/ \E c \in Callers : submit_or_join(c) \/ complete(c) \/ Vanish(c)
  \/ prune_stale

Spec == Init /\ [][Next]_vars

-----------------------------------------------------------------------------
TypeOK ==
  /\ pc \in [Callers -> {"new", "leading", "joined", "completed", "gone"}]
  /\ in_flight \subseteq Keys
  /\ waiters \in [Keys -> SUBSET Callers]
  /\ reply \in [Callers -> Replies \cup {Open, Pruned}]
  /\ pruned \in [Keys -> Nat]

Leading(k) == {c \in Callers : Key[c] = k /\ pc[c] = "leading"}

(* A submitted caller that has no answer is held by the entry of its own key *)
(* and by no other: none is left behind when a leader completes an entry     *)
(* that is not its own, and none is answered for another content.            *)
WaitersHeld ==
  /\ \A k \in Keys, c \in Callers :
       c \in waiters[k] <=> Key[c] = k /\ pc[c] # "new" /\ reply[c] = Open
  /\ \A k \in Keys : waiters[k] # {} => k \in in_flight
  /\ \A c \in Callers : reply[c].by # Nobody => Key[reply[c].by] = Key[c]

(* "only one backend call is made per unique content hash": each prune adds  *)
(* at most one to the calls that are made at a time, for good, though every  *)
(* later leader may complete an entry that is not its own.                   *)
FlightsBounded ==
  \A k \in Keys :
    Cardinality(Leading(k)) + (IF k \in in_flight THEN 0 ELSE 1) <= 1 + pruned[k]

-----------------------------------------------------------------------------
(* Proof of WaitersHeld and FlightsBounded, for every finite set of callers. *)

CoalescingAssumption == IsFiniteSet(Callers)

(* Nobody is answered before it submits. *)
FreshOpen == \A c \in Callers : pc[c] = "new" => reply[c] = Open

IInv == TypeOK /\ FreshOpen /\ WaitersHeld /\ FlightsBounded

(* Settling entries answers exactly the callers they hold. *)
LEMMA SettleKeeps ==
  ASSUME TypeOK, FreshOpen, WaitersHeld, NEW ks \in SUBSET Keys, NEW r, Settle(ks, r),
         r \in Replies \cup {Pruned}, TypeOK',
         \A c \in Callers : (pc[c] = "new") = (pc'[c] = "new"),
         \A k \in ks : r.by # Nobody => Key[r.by] = k
  PROVE  (FreshOpen /\ WaitersHeld)'
<1>1. r # Open
  BY DEF Replies, Pruned, Open
<1>2. FreshOpen'
  BY DEF Settle, TypeOK, FreshOpen, WaitersHeld
<1>3. WaitersHeld'
  BY <1>1 DEF Settle, TypeOK, FreshOpen, WaitersHeld, Open, Pruned, Replies
<1> QED
  BY <1>2, <1>3

(* The leaders can be counted. *)
LEMMA LeadingFinite ==
  ASSUME CoalescingAssumption, NEW k
  PROVE  IsFiniteSet(Leading(k)) /\ Cardinality(Leading(k)) \in Nat
BY FS_Subset, FS_CardinalityType DEF CoalescingAssumption, Leading

(* A leader counts until it completes or vanishes. *)
LEMMA LeaderLeaves ==
  ASSUME CoalescingAssumption, TypeOK, NEW c \in Callers, pc[c] = "leading",
         NEW l, l # "leading", pc' = [pc EXCEPT ![c] = l], NEW k \in Keys
  PROVE  /\ Cardinality(Leading(k))' \in Nat
         /\ Cardinality(Leading(k))' <= Cardinality(Leading(k))
         /\ k = Key[c] => Cardinality(Leading(k))' = Cardinality(Leading(k)) - 1
<1>1. CASE k = Key[c]
  <2>1. Leading(k)' = Leading(k) \ {c} /\ c \in Leading(k)
    BY <1>1 DEF Leading, TypeOK
  <2>2. IsFiniteSet(Leading(k)) /\ Cardinality(Leading(k)) \in Nat
    BY LeadingFinite
  <2>3. /\ Cardinality(Leading(k) \ {c}) = Cardinality(Leading(k)) - 1
        /\ Cardinality(Leading(k) \ {c}) \in Nat
    BY <2>1, <2>2, FS_RemoveElement, FS_CardinalityType
  <2> QED
    BY <1>1, <2>1, <2>2, <2>3
<1>2. CASE k # Key[c]
  <2>1. Leading(k)' = Leading(k)
    BY <1>2 DEF Leading, TypeOK
  <2> QED
    BY <1>2, <2>1, LeadingFinite
<1> QED
  BY <1>1, <1>2

(* Nobody has submitted anything at first. *)
LEMMA InitIInv == CoalescingAssumption /\ Init => IInv
<1> SUFFICES ASSUME CoalescingAssumption, Init PROVE IInv
  OBVIOUS
<1>1. TypeOK /\ FreshOpen /\ WaitersHeld
  BY DEF Init, TypeOK, FreshOpen, WaitersHeld, Open
<1>2. FlightsBounded
  <2>1. \A k \in Keys : Leading(k) = {}
    BY DEF Init, Leading
  <2> QED
    BY <2>1, FS_EmptySet DEF Init, FlightsBounded
<1> QED
  BY <1>1, <1>2 DEF IInv

(* A leader comes with a new entry and goes with one, if not always its own; *)
(* a prune takes entries and leaves their leaders.                           *)
LEMMA NextIInv ==
  ASSUME CoalescingAssumption, IInv, [Next]_vars
  PROVE  IInv'
<1> USE DEF IInv
<1>1. \A c \in Callers : Key[c] \in Keys
  BY DEF Keys
<1>2. ASSUME NEW c \in Callers, submit_or_join(c) PROVE IInv'
  <2>1. (TypeOK /\ FreshOpen /\ WaitersHeld)'
    BY <1>1, <1>2 DEF submit_or_join, TypeOK, FreshOpen, WaitersHeld
  <2>2. CASE Key[c] \in in_flight
    <3>1. \A k \in Keys : Leading(k)' = Leading(k) /\ (k \in in_flight)' = (k \in in_flight)
      BY <1>1, <1>2, <2>2 DEF submit_or_join, Leading, TypeOK
    <3> QED
      BY <1>2, <2>1, <3>1 DEF submit_or_join, FlightsBounded
  <2>3. CASE Key[c] \notin in_flight
    <3>1. \A k \in Keys \ {Key[c]} :
            Leading(k)' = Leading(k) /\ (k \in in_flight)' = (k \in in_flight)
      BY <1>1, <1>2, <2>3 DEF submit_or_join, Leading, TypeOK
    <3>2. Leading(Key[c])' = Leading(Key[c]) \cup {c} /\ c \notin Leading(Key[c])
      BY <1>1, <1>2, <2>3 DEF submit_or_join, Leading, TypeOK
    <3>3. Cardinality(Leading(Key[c]))' = Cardinality(Leading(Key[c])) + 1
      BY <3>2, LeadingFinite, FS_AddElement
    <3>4. Key[c] \in in_flight' /\ pruned' = pruned
      BY <1>2 DEF submit_or_join
    <3> QED
      BY <1>1, <2>1, <2>3, <3>1, <3>3, <3>4, LeadingFinite DEF FlightsBounded, TypeOK
  <2> QED
    BY <2>2, <2>3
<1>3. ASSUME NEW c \in Callers, complete(c) PROVE IInv'
  <2>1. TypeOK'
    BY <1>1, <1>3 DEF complete, Settle, TypeOK, Replies
  <2>2. PICK is \in {"ok", "err"} : Settle({Key[c]}, [by |-> c, is |-> is])
    BY <1>3 DEF complete
  <2>3. \A o \in Callers : (pc[o] = "new") = (pc'[o] = "new")
    BY <1>3 DEF complete, TypeOK
  <2>4. (FreshOpen /\ WaitersHeld)'
    BY <1>1, <2>1, <2>2, <2>3, SettleKeeps DEF Replies
  <2>5. \A k \in Keys : /\ Cardinality(Leading(k))' \in Nat
                        /\ Cardinality(Leading(k))' <= Cardinality(Leading(k))
                        /\ k = Key[c] => Cardinality(Leading(k))' = Cardinality(Leading(k)) - 1
    BY <1>3, LeaderLeaves DEF complete
  <2>6. pruned' = pruned /\ in_flight' = in_flight \ {Key[c]}
    BY <1>3 DEF complete, Settle
  <2> QED
    BY <2>1, <2>4, <2>5, <2>6, LeadingFinite DEF FlightsBounded, TypeOK
<1>4. ASSUME NEW c \in Callers, Vanish(c) PROVE IInv'
  <2>1. (TypeOK /\ FreshOpen /\ WaitersHeld)'
    BY <1>4 DEF Vanish, TypeOK, FreshOpen, WaitersHeld
  <2>2. \A k \in Keys : /\ Cardinality(Leading(k))' \in Nat
                        /\ Cardinality(Leading(k))' <= Cardinality(Leading(k))
    BY <1>4, LeaderLeaves DEF Vanish
  <2> QED
    BY <1>4, <2>1, <2>2, LeadingFinite DEF Vanish, FlightsBounded, TypeOK
<1>5. ASSUME prune_stale PROVE IInv'
  <2>1. PICK stale \in SUBSET in_flight :
          /\ Settle(stale, Pruned) /\ UNCHANGED pc
          /\ pruned' = [k \in Keys |-> IF k \in stale THEN pruned[k] + 1 ELSE pruned[k]]
    BY <1>5 DEF prune_stale
  <2>2. TypeOK'
    BY <2>1 DEF Settle, TypeOK
  <2>3. (FreshOpen /\ WaitersHeld)'
    BY <2>1, <2>2, SettleKeeps DEF TypeOK, Pruned
  <2>4. \A k \in Keys : Leading(k)' = Leading(k)
    BY <2>1 DEF Leading
  <2> QED
    BY <2>1, <2>2, <2>3, <2>4, LeadingFinite DEF Settle, FlightsBounded, TypeOK
<1>6. CASE UNCHANGED vars
  BY <1>6 DEF vars, TypeOK, FreshOpen, WaitersHeld, FlightsBounded, Leading
<1> QED
  BY <1>2, <1>3, <1>4, <1>5, <1>6 DEF Next

(* submit_or_join, complete and prune_stale answer every waiter of the        *)
(* entries they remove: nobody waits for a sender that is gone.               *)
THEOREM NobodyForgotten ==
  ASSUME CoalescingAssumption
  PROVE  Spec => []WaitersHeld
<1>1. IInv => WaitersHeld
  BY DEF IInv
<1> QED
  BY <1>1, InitIInv, NextIInv, PTL DEF Spec

(* Each prune_stale that takes an entry away lets one more leader work for    *)
(* its key at most.                                                           *)
THEOREM FlightsPaidFor ==
  ASSUME CoalescingAssumption
  PROVE  Spec => []FlightsBounded
<1>1. IInv => FlightsBounded
  BY DEF IInv
<1> QED
  BY <1>1, InitIInv, NextIInv, PTL DEF Spec
=============================================================================
