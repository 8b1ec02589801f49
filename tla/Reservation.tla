------------------------------ MODULE Reservation ------------------------------
(* reservation.rs, behind one mutex.  Fractions are counted in tenths.        *)
EXTENDS Naturals, FiniteSets

CONSTANTS
  Callers, Ids,
  Fractions,                   \* what can be asked for
  max_reserved_fraction, free_tier_threshold

VARIABLES reservations         \* the active ones, by id
vars == <<reservations>>

(* ReservationPriority: 0 is BestEffort, 3 is Critical.                       *)
Priorities == 0 .. 3

(* The tenths that are held: the sum of the fractions is how many.            *)
Tenths == UNION {{i} \X (1 .. reservations[i].fraction) : i \in DOMAIN reservations}

reserved_fraction == Cardinality(Tenths)

remaining ==
  IF reserved_fraction > max_reserved_fraction THEN 0
  ELSE max_reserved_fraction - reserved_fraction

clamped(fraction) == IF fraction > remaining THEN remaining ELSE fraction

(* Ids are never used twice; the model gives a removed one out again.         *)
add(id, c, fraction, priority) ==
  /\ id \notin DOMAIN reservations
  /\ reservations' = [i \in DOMAIN reservations \cup {id} |->
       IF i = id THEN [caller_id |-> c, fraction |-> clamped(fraction), priority |-> priority]
       ELSE reservations[i]]

remove(id) ==
  /\ id \in DOMAIN reservations
  /\ reservations' = [i \in DOMAIN reservations \ {id} |-> reservations[i]]

holds_reservation(c, priority) ==
  \E i \in DOMAIN reservations :
    reservations[i].caller_id = c /\ reservations[i].priority <= priority

can_admit(c, priority) ==
  \/ reserved_fraction < free_tier_threshold
  \/ priority # 0 /\ holds_reservation(c, priority)

Init == reservations = <<>>

Next ==
  \/ \E id \in Ids : remove(id)
  \/ \E id \in Ids, c \in Callers, fraction \in Fractions, priority \in {1, 3} :
       add(id, c, fraction, priority)

Spec == Init /\ [][Next]_vars

TypeOK ==
  /\ DOMAIN reservations \subseteq Ids
  /\ \A i \in DOMAIN reservations :
       reservations[i] \in [caller_id : Callers, fraction : 0 .. max_reserved_fraction,
                            priority : Priorities]

ReservationAssumption == max_reserved_fraction \in Nat /\ Fractions \subseteq Nat

(* reservation.rs: the clamp keeps the sum of the reservations under the cap  *)
(* through every sequence of adds and removes, and an admission withheld from *)
(* someone is withheld from everyone who may claim less.                      *)
Held ==
  /\ reserved_fraction <= max_reserved_fraction
  /\ \A c \in Callers, p, q \in Priorities :
       p <= q /\ can_admit(c, p) => can_admit(c, q)

IInv ==
  /\ \A i \in DOMAIN reservations :
       reservations[i].fraction \in Nat /\ reservations[i].priority \in Priorities
  /\ IsFiniteSet(Tenths) /\ reserved_fraction <= max_reserved_fraction
=============================================================================
