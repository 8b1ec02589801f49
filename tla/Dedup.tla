-------------------------------- MODULE Dedup --------------------------------
(***************************************************************************)
(* dedup.rs: JobDeduplicator, whose methods take &mut self, so that each   *)
(* is one step.  The first submission of a job is told to execute it and   *)
(* then to call complete with the job's id; later ones wait for its        *)
(* result.  The key hashes the whole job, its id included, so submissions  *)
(* are duplicates only if they agree in their id; ids are taken to name    *)
(* one content each.  The counters of stats() are left out.                *)
(***************************************************************************)
EXTENDS Naturals, FiniteSets, FiniteSetTheorems, TLAPS

CONSTANTS
  Callers,
  JobId,        \* the id of the job each caller submits
  Cancellable,  \* the executing callers that may vanish without completing
  MaxExpired,   \* bound on the entries of a job that expire
  Nobody

Ids == {JobId[c] : c \in Callers}

VARIABLES
  pc,         \* "new", "executing", "waiting", "completed" or "gone"
  entries,    \* the jobs with a DedupeEntry
  id_to_key,  \* the ids that lead to a key
  waiters,    \* the callers whose senders an entry holds
  reply,      \* what a waiter's receiver yields
  expired     \* how many entries of a job were evicted

vars == <<pc, entries, id_to_key, waiters, reply, expired>>

Open == [by |-> Nobody, is |-> "open"]
Dropped == [by |-> Nobody, is |-> "closed"]
Results == [by : Callers, is : {"result"}]

(* evict_expired: the entries past the TTL, which may be any of them, go with *)
(* the senders of their waiters.  Then the job joins a live entry or makes    *)
(* one.                                                                       *)
submit(c) ==
  \E old \in SUBSET entries :
    LET id == JobId[c]
        live == entries \ old
    IN /\ pc[c] = "new"
       /\ \A i \in old : expired[i] < MaxExpired
       /\ pc' = [pc EXCEPT ![c] = IF id \in live THEN "waiting" ELSE "executing"]
       /\ entries' = live \cup {id}
       /\ id_to_key' = IF id \in live THEN id_to_key \ old ELSE (id_to_key \ old) \cup {id}
       /\ waiters' = [i \in Ids |-> IF i \notin live THEN {}
                                    ELSE IF i = id THEN waiters[i] \cup {c} ELSE waiters[i]]
       /\ reply' = [w \in Callers |-> IF \E i \in old : w \in waiters[i] THEN Dropped
                                      ELSE reply[w]]
       /\ expired' = [i \in Ids |-> IF i \in old THEN expired[i] + 1 ELSE expired[i]]

(* Mutant: the entry stays when its job is complete. *)
complete_KeepsEntry(c) ==
  LET id == JobId[c]
  IN /\ pc[c] = "executing"
     /\ pc' = [pc EXCEPT ![c] = "completed"]
     /\ id_to_key' = id_to_key \ {id}
     /\ reply' = IF id \notin id_to_key THEN reply
                 ELSE [w \in Callers |-> IF w \in waiters[id] THEN [by |-> c, is |-> "result"]
                                         ELSE reply[w]]
     /\ waiters' = IF id \in id_to_key THEN [waiters EXCEPT ![id] = {}] ELSE waiters
     /\ UNCHANGED <<entries, expired>>

(* The id leads to a key and the key to an entry, if neither is gone; after   *)
(* an eviction the entry may be that of a later execution.                    *)
complete(c) ==
  LET id == JobId[c]
      found == id \in id_to_key /\ id \in entries
  IN /\ pc[c] = "executing"
     /\ pc' = [pc EXCEPT ![c] = "completed"]
     /\ id_to_key' = id_to_key \ {id}
     /\ entries' = IF found THEN entries \ {id} ELSE entries
     /\ reply' = IF ~found THEN reply
                 ELSE [w \in Callers |-> IF w \in waiters[id] THEN [by |-> c, is |-> "result"]
                                         ELSE reply[w]]
     /\ waiters' = IF found THEN [waiters EXCEPT ![id] = {}] ELSE waiters
     /\ UNCHANGED expired

Vanish(c) ==
  /\ c \in Cancellable /\ pc[c] = "executing"
  /\ pc' = [pc EXCEPT ![c] = "gone"]
  /\ UNCHANGED <<entries, id_to_key, waiters, reply, expired>>

Init ==
  /\ pc = [c \in Callers |-> "new"]
  /\ entries = {} /\ id_to_key = {}
  /\ waiters = [i \in Ids |-> {}]
  /\ reply = [c \in Callers |-> Open]
  /\ expired = [i \in Ids |-> 0]

Next == \E c \in Callers : submit(c) \/ complete(c) \/ Vanish(c)

Spec == Init /\ [][Next]_vars

-----------------------------------------------------------------------------
TypeOK ==
  /\ pc \in [Callers -> {"new", "executing", "waiting", "completed", "gone"}]
  /\ entries \subseteq Ids /\ id_to_key \subseteq Ids
  /\ waiters \in [Ids -> SUBSET Callers]
  /\ reply \in [Callers -> Results \cup {Open, Dropped}]
  /\ expired \in [Ids -> Nat]

Executing(i) == {c \in Callers : JobId[c] = i /\ pc[c] = "executing"}

(* A duplicate without a result is held by the live entry of its own job, so  *)
(* that a completion or an expiry reaches it; ids and entries never come      *)
(* apart, so that a live entry can be completed; and "the router should       *)
(* execute it only once" holds up to one more execution for each expiry,      *)
(* though a completion may reach the entry of a later execution.              *)
DuplicatesHeld ==
  /\ \A c \in Callers :
       pc[c] = "waiting" /\ reply[c] = Open <=> \E i \in entries : c \in waiters[i]
  /\ \A i \in Ids : \A c \in waiters[i] : JobId[c] = i
  /\ id_to_key = entries
  /\ \A i \in Ids :
       Cardinality(Executing(i)) + (IF i \in entries THEN 0 ELSE 1) <= 1 + expired[i]

-----------------------------------------------------------------------------
(* Proof of DuplicatesHeld, for every finite set of callers. *)

DedupAssumption == IsFiniteSet(Callers)

(* Nobody is answered before it submits. *)
FreshOpen == \A c \in Callers : pc[c] = "new" => reply[c] = Open

IInv == TypeOK /\ FreshOpen /\ DuplicatesHeld

(* The executions of a job can be counted. *)
LEMMA ExecutingFinite ==
  ASSUME DedupAssumption, NEW i
  PROVE  IsFiniteSet(Executing(i)) /\ Cardinality(Executing(i)) \in Nat
BY FS_Subset, FS_CardinalityType DEF DedupAssumption, Executing

(* An execution counts until it completes or vanishes. *)
LEMMA ExecutionEnds ==
  ASSUME DedupAssumption, TypeOK, NEW c \in Callers, pc[c] = "executing",
         NEW l, l # "executing", pc' = [pc EXCEPT ![c] = l], NEW i \in Ids
  PROVE  /\ Cardinality(Executing(i))' \in Nat
         /\ Cardinality(Executing(i))' <= Cardinality(Executing(i))
         /\ i = JobId[c] => Cardinality(Executing(i))' = Cardinality(Executing(i)) - 1
<1>1. CASE i = JobId[c]
  <2>1. Executing(i)' = Executing(i) \ {c} /\ c \in Executing(i)
    BY <1>1 DEF Executing, TypeOK
  <2>2. IsFiniteSet(Executing(i)) /\ Cardinality(Executing(i)) \in Nat
    BY ExecutingFinite
  <2>3. /\ Cardinality(Executing(i) \ {c}) = Cardinality(Executing(i)) - 1
        /\ Cardinality(Executing(i) \ {c}) \in Nat
    BY <2>1, <2>2, FS_RemoveElement, FS_CardinalityType
  <2> QED
    BY <1>1, <2>1, <2>2, <2>3
<1>2. CASE i # JobId[c]
  <2>1. Executing(i)' = Executing(i)
    BY <1>2 DEF Executing, TypeOK
  <2> QED
    BY <1>2, <2>1, ExecutingFinite
<1> QED
  BY <1>1, <1>2

(* Nobody has submitted anything at first. *)
LEMMA InitIInv == DedupAssumption /\ Init => IInv
<1> SUFFICES ASSUME DedupAssumption, Init PROVE IInv
  OBVIOUS
<1>1. \A i \in Ids : Executing(i) = {}
  BY DEF Init, Executing
<1> QED
  BY <1>1, FS_EmptySet DEF Init, IInv, TypeOK, FreshOpen, DuplicatesHeld, Open

(* An execution comes with a new entry; an eviction takes entries and leaves *)
(* those that execute for them.                                              *)
LEMMA NextIInv ==
  ASSUME DedupAssumption, IInv, [Next]_vars
  PROVE  IInv'
<1> USE DEF IInv
<1>1. \A c \in Callers : JobId[c] \in Ids
  BY DEF Ids
<1>2. ASSUME NEW c \in Callers, submit(c) PROVE IInv'
  <2> DEFINE id == JobId[c]
  <2>1. PICK old \in SUBSET entries :
          /\ pc[c] = "new"
          /\ pc' = [pc EXCEPT ![c] = IF id \in entries \ old THEN "waiting" ELSE "executing"]
          /\ entries' = (entries \ old) \cup {id}
          /\ id_to_key' = IF id \in entries \ old THEN id_to_key \ old
                          ELSE (id_to_key \ old) \cup {id}
          /\ waiters' = [i \in Ids |-> IF i \notin entries \ old THEN {}
                                       ELSE IF i = id THEN waiters[i] \cup {c} ELSE waiters[i]]
          /\ reply' = [w \in Callers |-> IF \E i \in old : w \in waiters[i] THEN Dropped
                                         ELSE reply[w]]
          /\ expired' = [i \in Ids |-> IF i \in old THEN expired[i] + 1 ELSE expired[i]]
    BY <1>2 DEF submit
  <2>2. id \in Ids /\ JobId[c] = id
    BY <1>1
  <2> HIDE DEF id
  <2>3. (TypeOK /\ FreshOpen)'
    BY <2>1, <2>2 DEF TypeOK, FreshOpen, DuplicatesHeld
  <2>4. (\A i \in Ids : \A o \in waiters[i] : JobId[o] = i)' /\ (id_to_key = entries)'
    BY <2>1, <2>2 DEF TypeOK, DuplicatesHeld
  <2>5. (\A o \in Callers :
           pc[o] = "waiting" /\ reply[o] = Open <=> \E i \in entries : o \in waiters[i])'
    <3>1. \A o \in Callers :
            (\E i \in entries : o \in waiters[i])
              <=> JobId[o] \in entries /\ o \in waiters[JobId[o]]
      BY DEF TypeOK, DuplicatesHeld
    <3>2. (\A o \in Callers :
             (\E i \in entries : o \in waiters[i])
               <=> JobId[o] \in entries /\ o \in waiters[JobId[o]])'
      BY <2>3, <2>4 DEF TypeOK
    <3>3. \A o \in Callers :
            reply'[o] = IF JobId[o] \in old /\ o \in waiters[JobId[o]] THEN Dropped ELSE reply[o]
      BY <2>1 DEF TypeOK, DuplicatesHeld
    <3>4. ASSUME NEW o \in Callers \ {c}
          PROVE  pc'[o] = "waiting" /\ reply'[o] = Open
                   <=> JobId[o] \in entries' /\ o \in waiters'[JobId[o]]
      BY <1>1, <2>1, <2>2, <3>1, <3>3 DEF TypeOK, DuplicatesHeld, Open, Dropped
    <3>5. pc'[c] = "waiting" /\ reply'[c] = Open <=> id \in entries' /\ c \in waiters'[id]
      BY <2>1, <2>2, <3>1, <3>3 DEF TypeOK, DuplicatesHeld, FreshOpen
    <3> QED
      BY <2>2, <3>2, <3>4, <3>5
  <2>6. \A i \in Ids \ {id} : Executing(i)' = Executing(i)
    BY <2>1, <2>2 DEF Executing, TypeOK
  <2>7. Cardinality(Executing(id))' =
          Cardinality(Executing(id)) + (IF id \in entries \ old THEN 0 ELSE 1)
    <3>1. CASE id \in entries \ old
      <4>1. Executing(id)' = Executing(id)
        BY <2>1, <2>2, <3>1 DEF Executing, TypeOK
      <4> QED
        BY <3>1, <4>1, ExecutingFinite
    <3>2. CASE id \notin entries \ old
      <4>1. Executing(id)' = Executing(id) \cup {c} /\ c \notin Executing(id)
        BY <2>1, <2>2, <3>2 DEF Executing, TypeOK
      <4> QED
        BY <3>2, <4>1, ExecutingFinite, FS_AddElement
    <3> QED
      BY <3>1, <3>2
  <2>8. ASSUME NEW i \in Ids
        PROVE  (Cardinality(Executing(i)) + (IF i \in entries THEN 0 ELSE 1) <= 1 + expired[i])'
    <3>1. /\ Cardinality(Executing(i)) + (IF i \in entries THEN 0 ELSE 1) <= 1 + expired[i]
          /\ Cardinality(Executing(i)) \in Nat /\ expired[i] \in Nat
      BY ExecutingFinite DEF DuplicatesHeld, TypeOK
    <3>2. Cardinality(Executing(i))' =
            Cardinality(Executing(i)) + (IF i # id \/ id \in entries \ old THEN 0 ELSE 1)
      BY <2>6, <2>7, <3>1
    <3>3. /\ expired'[i] = IF i \in old THEN expired[i] + 1 ELSE expired[i]
          /\ i \in entries' <=> i \in entries \ old \/ i = id
      BY <2>1
    <3> QED
      BY <2>1, <3>1, <3>2, <3>3
  <2> QED
    BY <2>3, <2>4, <2>5, <2>8 DEF DuplicatesHeld
<1>3. ASSUME NEW c \in Callers, complete(c) PROVE IInv'
  <2>1. (TypeOK /\ FreshOpen)'
    BY <1>1, <1>3 DEF complete, TypeOK, FreshOpen, DuplicatesHeld, Results
  <2>2. (\A o \in Callers :
           pc[o] = "waiting" /\ reply[o] = Open <=> \E i \in entries : o \in waiters[i])'
    BY <1>1, <1>3 DEF complete, TypeOK, DuplicatesHeld, Open
  <2>3. (\A i \in Ids : \A o \in waiters[i] : JobId[o] = i)' /\ (id_to_key = entries)'
    BY <1>1, <1>3 DEF complete, TypeOK, DuplicatesHeld
  <2>4. \A i \in Ids :
          /\ Cardinality(Executing(i))' \in Nat
          /\ Cardinality(Executing(i))' <= Cardinality(Executing(i))
          /\ i = JobId[c] => Cardinality(Executing(i))' = Cardinality(Executing(i)) - 1
    BY <1>3, ExecutionEnds DEF complete
  <2>5. expired' = expired /\ \A i \in Ids \ {JobId[c]} : i \in entries => i \in entries'
    BY <1>3 DEF complete
  <2> QED
    BY <2>1, <2>2, <2>3, <2>4, <2>5, ExecutingFinite DEF DuplicatesHeld, TypeOK
<1>4. ASSUME NEW c \in Callers, Vanish(c) PROVE IInv'
  <2>1. (TypeOK /\ FreshOpen)'
    BY <1>4 DEF Vanish, TypeOK, FreshOpen
  <2>2. \A i \in Ids : /\ Cardinality(Executing(i))' \in Nat
                       /\ Cardinality(Executing(i))' <= Cardinality(Executing(i))
    BY <1>4, ExecutionEnds DEF Vanish
  <2> QED
    BY <1>4, <2>1, <2>2, ExecutingFinite DEF Vanish, DuplicatesHeld, TypeOK
<1>5. CASE UNCHANGED vars
  BY <1>5 DEF vars, TypeOK, FreshOpen, DuplicatesHeld, Executing
<1> QED
  BY <1>2, <1>3, <1>4, <1>5 DEF Next

(* submit and complete of the deduplicator never lose a waiter, and never let *)
(* a job execute once more than its entries expired.                         *)
THEOREM DuplicatesAlwaysHeld ==
  ASSUME DedupAssumption
  PROVE  Spec => []DuplicatesHeld
<1>1. IInv => DuplicatesHeld
  BY DEF IInv
<1> QED
  BY <1>1, InitIInv, NextIInv, PTL DEF Spec
=============================================================================
