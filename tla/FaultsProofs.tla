------------------------------ MODULE FaultsProofs ------------------------------
(* What MCFaults checks on small instances, proved for every value of the     *)
(* constants: of each part an inductive invariant, which its module states.   *)
EXTENDS MCFaults, FiniteSetTheorems, SequenceTheorems, TLAPS

(* In every step one part moves, or none does.                                *)
LEMMA OnePartMoves ==
  ASSUME [FaultsNext]_allVars
  PROVE  /\ part' = part
         /\ part = "mesh" => [Next]_vars
         /\ part = "registry" => [Registry!Next]_(Registry!vars)
         /\ part = "checks" => [Checks!Next]_(Checks!vars)
         /\ part = "controller" => [Controller!Next]_(Controller!vars)
         /\ part = "deployer" => [Deployer!Next]_(Deployer!vars)
         /\ part = "streams" => [Streams!Next]_(Streams!vars)
         /\ part = "proxy" => [Proxy!Next]_(Proxy!vars)
         /\ part = "responses" => [Responses!Next]_(Responses!vars)
         /\ part = "deadlines" => [Scheduler!Next]_(Scheduler!vars)
         /\ part = "election" => [Cluster!ElectionNext]_(Cluster!vars)
         /\ part = "overrides" => [Cluster!OverrideNext]_(Cluster!vars)
<1>1. CASE UNCHANGED allVars
  BY <1>1
  DEF allVars, others, still, Registry!vars, Checks!vars, Controller!vars, Deployer!vars,
      Streams!vars, Proxy!vars, Responses!vars, Scheduler!vars, Cluster!vars
<1>2. CASE FaultsNext
  BY <1>2 DEF FaultsNext, OtherNext, still
<1> QED
  BY <1>1, <1>2

-----------------------------------------------------------------------------
(* The mesh of circuits.                                                      *)

(* A route that stays probed keeps the call that is out, unless that call     *)
(* marks the route as lost.                                                   *)
LEMMA MeshStep ==
  ASSUME MeshAssumption, IInv, [Next]_vars
  PROVE  IInv'
<1> USE DEF IInv, CallOut
<1>0. Home \in Routes
  BY DEF MeshAssumption, Home
<1>1. ASSUME NEW c \in Callers, NEW r \in Routes, Ask(c, r) PROVE IInv'
  BY <1>1 DEF Ask, Become, Stay, Goto, streaks, cascade, TypeOK, States, BlockedForCause
<1>2. ASSUME NEW c \in Callers, Allow(c) PROVE IInv'
  BY <1>0, <1>2 DEF Allow, Become, Stay, Rest, Goto, streaks, cascade, TypeOK, States, BlockedForCause
<1>3. ASSUME NEW c \in Callers, EndStreak(c) PROVE IInv'
  BY <1>3 DEF MeshAssumption, EndStreak, Goto, cascade, TypeOK, States, BlockedForCause
<1>4. ASSUME NEW c \in Callers, CountStreak(c) PROVE IInv'
  BY <1>4
  DEF MeshAssumption, CountStreak, Up, Goto, cascade, TypeOK, States, BlockedForCause
<1>5. ASSUME NEW c \in Callers, Close(c) PROVE IInv'
  BY <1>0, <1>5
  DEF MeshAssumption, Close, Become, Lose, Rest, Goto, cascade, TypeOK, States, BlockedForCause
<1>6. ASSUME NEW c \in Callers, Open(c) PROVE IInv'
  BY <1>0, <1>6
  DEF MeshAssumption, Open, Become, Stay, Rest, Goto, cascade, TypeOK, States, BlockedForCause
<1>7. ASSUME CascadeStart \/ CascadeLook PROVE IInv'
  BY <1>7 DEF CascadeStart, CascadeLook, streaks, TypeOK, BlockedForCause
<1>8. ASSUME CascadeNext PROVE IInv'
  <2>1. \A f \in open : dependency_impact(f) \subseteq Routes
    BY DEF dependency_impact
  <2> QED
    BY <1>8, <2>1 DEF CascadeNext, streaks, TypeOK, BlockedForCause
<1>9. ASSUME CascadeOpen PROVE IInv'
  BY <1>9 DEF CascadeOpen, Become, streaks, TypeOK, States, BlockedForCause
<1>10. ASSUME NEW r \in Routes, force_close(r) PROVE IInv'
  BY <1>10
  DEF MeshAssumption, force_close, Become, cascade, TypeOK, States, BlockedForCause
<1>11. ASSUME NEW c \in Callers, Leave(c) PROVE IInv'
  BY <1>0, <1>11
  DEF Leave, Lose, Rest, Goto, streaks, cascade, TypeOK, States, BlockedForCause
<1>12. CASE UNCHANGED vars
  BY <1>12 DEF vars, streaks, cascade, TypeOK, BlockedForCause
<1> QED
  BY <1>1, <1>2, <1>3, <1>4, <1>5, <1>6, <1>7, <1>8, <1>9, <1>10, <1>11, <1>12
  DEF Next, CallerStep

(* Whatever its thresholds, allow_request blocks a half-open route only while *)
(* a call is out, or because that call was dropped or its success fell short: *)
(* a failure that is recorded reopens the route.                              *)
THEOREM RoutesBlockForCause ==
  FaultsSpec => []BlockedForCause
<1> USE FaultsAssumption
<1>1. FaultsInit => IInv
  <2>1. Home \in Routes
    BY DEF MeshAssumption, Home
  <2> QED
    BY <2>1 DEF FaultsInit, MeshAssumption, Init, IInv, TypeOK, States, BlockedForCause
<1>2. IInv /\ [FaultsNext]_allVars => IInv'
  <2>1. [FaultsNext]_allVars => [Next]_vars
    BY DEF FaultsNext, OtherNext, allVars, still
  <2> QED
    BY <2>1, MeshStep
<1>3. IInv => BlockedForCause
  BY DEF IInv
<1> QED
  BY <1>1, <1>2, <1>3, PTL DEF FaultsSpec

-----------------------------------------------------------------------------
(* The health checks.                                                         *)

LEMMA ChecksStep ==
  ASSUME Checks!ChecksAssumption, Checks!IInv, [Checks!Next]_(Checks!vars)
  PROVE  Checks!IInv'
<1>1. ASSUME NEW r \in Recorders, Checks!Count(r) PROVE Checks!IInv'
  <2>1. PICK ok \in BOOLEAN :
          /\ v6' = [v6 EXCEPT ![r] = ok]
          /\ v7' = [v7 EXCEPT ![r] = IF ok THEN Checks!Up(v1, healthy_consecutive)
                                     ELSE Checks!Up(v2, unhealthy_consecutive)]
          /\ v1' = IF ok THEN Checks!Up(v1, healthy_consecutive) ELSE v1
          /\ v2' = IF ok THEN v2 ELSE Checks!Up(v2, unhealthy_consecutive)
    BY <1>1 DEF Checks!Count
  <2>2. /\ v5[r] = "idle" /\ v5' = [v5 EXCEPT ![r] = "counted"] /\ UNCHANGED <<v3, v4>>
        /\ v8' = (v8 \/ \E q \in Recorders : v5[q] # "idle")
    BY <1>1 DEF Checks!Count, Checks!Goto
  <2>3. /\ Checks!Up(v1, healthy_consecutive) \in 0 .. healthy_consecutive
        /\ Checks!Up(v2, unhealthy_consecutive) \in 0 .. unhealthy_consecutive
    BY DEF Checks!Up, Checks!ChecksAssumption, Checks!IInv, Checks!TypeOK
  <2>4. Checks!TypeOK'
    BY <2>1, <2>2, <2>3 DEF Checks!ChecksAssumption, Checks!IInv, Checks!TypeOK
  <2>5. v5'[r] = "counted" /\ \A q \in Recorders \ {r} : v5'[q] = v5[q]
    BY <2>2 DEF Checks!IInv, Checks!TypeOK
  <2>6. Checks!OneEnds' /\ Checks!StreaksExclusive'
    BY <2>5 DEF Checks!OneEnds, Checks!StreaksExclusive
  <2>7. ~v8' => Checks!Alone' /\ \A q \in Recorders : Checks!Sure(q)'
    <3>1. CASE ~v8'
      <4>1. \A q \in Recorders \ {r} : v5'[q] = "idle"
        BY <2>2, <2>5, <3>1
      <4>2. Checks!Alone'
        BY <4>1 DEF Checks!Alone
      <4>3. Checks!Sure(r)'
        BY <2>1, <2>5 DEF Checks!Sure, Checks!IInv, Checks!TypeOK
      <4> QED
        BY <4>1, <4>2, <4>3 DEF Checks!Sure
    <3> QED
      BY <3>1
  <2> QED
    BY <2>4, <2>6, <2>7 DEF Checks!IInv
<1>2. ASSUME NEW r \in Recorders, Checks!Reset(r) PROVE Checks!IInv'
  BY <1>2
  DEF Checks!Reset, Checks!Goto, Checks!ChecksAssumption, Checks!IInv, Checks!TypeOK,
      Checks!OneEnds, Checks!StreaksExclusive, Checks!Alone, Checks!Sure
<1>3. ASSUME NEW r \in Recorders, Checks!Judge(r) PROVE Checks!IInv'
  BY <1>3
  DEF Checks!Judge, Checks!Goto, Checks!ChecksAssumption, Checks!IInv, Checks!TypeOK,
      Checks!OneEnds, Checks!StreaksExclusive, Checks!Alone, Checks!Sure
<1>4. ASSUME NEW r \in Recorders, Checks!Store(r) PROVE Checks!IInv'
  BY <1>4
  DEF Checks!Store, Checks!Goto, Checks!ChecksAssumption, Checks!IInv, Checks!TypeOK,
      Checks!OneEnds, Checks!StreaksExclusive, Checks!Alone, Checks!Sure
<1>5. CASE UNCHANGED Checks!vars
  BY <1>5
  DEF Checks!vars, Checks!IInv, Checks!TypeOK, Checks!OneEnds, Checks!StreaksExclusive,
      Checks!Alone, Checks!Sure
<1> QED
  BY <1>1, <1>2, <1>3, <1>4, <1>5 DEF Checks!Next

(* record_result, whatever it overlaps with, leaves one streak at most; and   *)
(* one record at a time keeps the verdict what the streak says.               *)
THEOREM StreaksAlwaysExclusive ==
  FaultsSpec => []StreaksExclusive
<1> USE FaultsAssumption
<1> DEFINE Inv == part = "checks" => Checks!IInv
<1>1. FaultsInit => Inv
  <2>1. ASSUME Checks!Init PROVE Checks!IInv
    <3>1. Checks!TypeOK
      <4>1. v6 \in [Recorders -> BOOLEAN] /\ v3 \in BOOLEAN /\ v8 \in BOOLEAN
        BY <2>1, Zenon DEF Checks!Init
      <4>2. /\ v1 = 0 /\ v2 = 0 /\ v4 = "none" /\ v7 = [r \in Recorders |-> 0]
            /\ v5 = [r \in Recorders |-> "idle"]
        BY <2>1 DEF Checks!Init
      <4> QED
        BY <4>1, <4>2 DEF Checks!ChecksAssumption, Checks!TypeOK
    <3>2. Checks!OneEnds /\ Checks!StreaksExclusive
      BY <2>1 DEF Checks!Init, Checks!ChecksAssumption, Checks!OneEnds, Checks!StreaksExclusive
    <3>3. Checks!Alone /\ \A r \in Recorders : Checks!Sure(r)
      BY <2>1 DEF Checks!Init, Checks!Alone, Checks!Sure
    <3> QED
      BY <3>1, <3>2, <3>3 DEF Checks!IInv
  <2> QED
    BY <2>1 DEF FaultsInit, OtherInit
<1>2. Inv /\ [FaultsNext]_allVars => Inv'
  BY OnePartMoves, ChecksStep
<1>3. Inv => StreaksExclusive
  BY DEF StreaksExclusive, Checks!IInv
<1> QED
  BY <1>1, <1>2, <1>3, PTL DEF FaultsSpec

-----------------------------------------------------------------------------
(* The circuit breaker registry.                                              *)

(* The instance counts as this module does.                                   *)
LEMMA RegistryCounts ==
  /\ \A S : Registry!IsFiniteSet(S) <=> IsFiniteSet(S)
  /\ \A S : Registry!Cardinality(S) = Cardinality(S)
<1>1. \A S : Registry!IsFiniteSet(S) <=> IsFiniteSet(S)
  BY DEF Registry!IsFiniteSet, IsFiniteSet
<1>2. \A S : Registry!Cardinality(S) = Cardinality(S)
  BY DEF Registry!Cardinality, Cardinality
<1> QED
  BY <1>1, <1>2

LEMMA RegistryStep ==
  ASSUME Registry!RegistryAssumption, Registry!IInv, [Registry!Next]_(Registry!vars)
  PROVE  Registry!IInv'
<1> DEFINE Tests == Registry!Tests
<1> USE DEF Registry!IInv
<1>1. /\ IsFiniteSet(Tests) /\ Cardinality(Tests) \in Nat
      /\ half_open_max_calls \in Nat /\ registry_success_threshold \in Nat
  <2>1. Registry!Tests \subseteq registry_Callers
    BY DEF Registry!Tests
  <2>2. IsFiniteSet(registry_Callers)
    BY RegistryCounts DEF Registry!RegistryAssumption
  <2>3. IsFiniteSet(Registry!Tests)
    BY <2>1, <2>2, FS_Subset
  <2>4. Cardinality(Registry!Tests) \in Nat
    BY <2>3, FS_CardinalityType
  <2>5. half_open_max_calls \in Nat /\ registry_success_threshold \in Nat
    BY DEF Registry!RegistryAssumption
  <2> QED
    BY <2>3, <2>4, <2>5
<1>2. ASSUME NEW c \in registry_Callers, Registry!can_pass(c) PROVE Registry!IInv'
  <2>1. v5[c] = "idle" /\ v5' = [v5 EXCEPT ![c] = "passed"] /\ v2' = v2
    BY <1>2 DEF Registry!can_pass, Registry!Pass
  <2>2. CASE v1 = "closed"
    <3>1. UNCHANGED <<v1, v3, v4, v6>>
      BY <1>2, <2>2 DEF Registry!can_pass
    <3> QED
      BY <2>1, <2>2, <3>1 DEF Registry!TypeOK, Registry!TestsOut, Registry!TestsCounted
  <2>3. CASE v1 = "open"
    <3>1. /\ v1' = "halfOpen" /\ v3' = 1 /\ v4' = 0
          /\ v6' = [d \in registry_Callers |-> d = c]
      BY <1>2, <2>3 DEF Registry!can_pass
    <3>2. Tests' = {c}
      BY <3>1 DEF Registry!Tests
    <3>3. Cardinality(Tests') = 1
      BY <3>2, FS_Singleton
    <3>4. Registry!TestsOut'
      BY <2>1, <3>1 DEF Registry!TypeOK, Registry!TestsOut
    <3>5. v6' \in [registry_Callers -> BOOLEAN]
      BY <3>1
    <3>6. Registry!TypeOK'
      BY <1>1, <2>1, <3>1, <3>5 DEF Registry!TypeOK, Registry!RegistryAssumption, Registry!States
    <3> QED
      BY <3>1, <3>3, <3>4, <3>6, RegistryCounts DEF Registry!TestsCounted
  <2>4. CASE v1 = "halfOpen"
    <3>1. /\ v3 < half_open_max_calls /\ v3' = v3 + 1 /\ v6' = [v6 EXCEPT ![c] = TRUE]
          /\ UNCHANGED <<v1, v4>>
      BY <1>2, <2>4 DEF Registry!can_pass
    <3>2. Tests' = Tests \cup {c}
      BY <3>1 DEF Registry!Tests, Registry!TypeOK
    <3>3. c \notin Tests
      BY <2>1 DEF Registry!Tests, Registry!TestsOut
    <3>4. Cardinality(Tests') = Cardinality(Tests) + 1
      BY <1>1, <3>2, <3>3, FS_AddElement
    <3>5. Registry!TestsOut'
      BY <2>1, <2>4, <3>1 DEF Registry!TypeOK, Registry!TestsOut
    <3>6. Registry!TypeOK'
      BY <1>1, <2>1, <3>1 DEF Registry!TypeOK
    <3> HIDE DEF Tests
    <3>7. v3 \in Nat /\ v4 \in Nat
      BY <1>1 DEF Registry!TypeOK, Registry!RegistryAssumption
    <3>8. Cardinality(Tests) <= v3 /\ v3 <= Cardinality(Tests) + v4
      BY <2>4, RegistryCounts DEF Registry!TestsCounted, Tests
    <3>9. Cardinality(Tests') <= v3' /\ v3' <= Cardinality(Tests') + v4'
      BY <1>1, <3>1, <3>4, <3>7, <3>8
    <3> QED
      BY <3>5, <3>6, <3>9, RegistryCounts DEF Registry!TestsCounted, Tests
  <2> QED
    BY <2>2, <2>3, <2>4 DEF Registry!TypeOK, Registry!States
<1>3. ASSUME NEW c \in registry_Callers, Registry!record_success(c) PROVE Registry!IInv'
  <2>1. v5[c] = "passed" /\ v5' = [v5 EXCEPT ![c] = "idle"]
    BY <1>3 DEF Registry!record_success
  <2>2. CASE v1 \in {"closed", "open"}
    <3>1. UNCHANGED <<v1, v3, v4, v6>> /\ v2' \in {0, v2}
      BY <1>3, <2>2 DEF Registry!record_success
    <3>2. 0 \in 0 .. registry_failure_threshold - 1
      BY DEF Registry!RegistryAssumption
    <3> QED
      BY <2>1, <2>2, <3>1, <3>2 DEF Registry!TypeOK, Registry!TestsOut, Registry!TestsCounted
  <2>3. CASE v1 = "halfOpen" /\ v4 + 1 >= registry_success_threshold
    <3>1. /\ v1' = "closed" /\ v2' = 0 /\ v4' = 0 /\ v3' = v3
          /\ v6' = [d \in registry_Callers |-> FALSE]
      <4>1. v4 \in Nat /\ registry_success_threshold \in Nat
        BY <1>1 DEF Registry!TypeOK
      <4>2. ~(v4 + 1 < registry_success_threshold)
        BY <2>3, <4>1
      <4> QED
        BY <1>3, <2>3, <4>2 DEF Registry!record_success, Registry!NoTests
    <3>2. v6' \in [registry_Callers -> BOOLEAN] /\ \A d \in registry_Callers : ~v6'[d]
      BY <3>1
    <3> QED
      BY <2>1, <3>1, <3>2
      DEF Registry!TypeOK, Registry!TestsOut, Registry!TestsCounted, Registry!RegistryAssumption,
          Registry!States
  <2>4. CASE v1 = "halfOpen" /\ v4 + 1 < registry_success_threshold
    <3>1. /\ v4' = v4 + 1 /\ v6' = [v6 EXCEPT ![c] = FALSE] /\ UNCHANGED <<v1, v2, v3>>
      BY <1>3, <2>4 DEF Registry!record_success
    <3>2. Tests' = Tests \ {c}
      BY <3>1 DEF Registry!Tests, Registry!TypeOK
    <3>3. Cardinality(Tests') \in {Cardinality(Tests), Cardinality(Tests) - 1}
      BY <1>1, <3>2, FS_RemoveElement
    <3>4. Registry!TestsOut'
      BY <2>1, <2>4, <3>1 DEF Registry!TypeOK, Registry!TestsOut
    <3>5. Registry!TypeOK'
      BY <1>1, <2>1, <2>4, <3>1 DEF Registry!TypeOK
    <3> HIDE DEF Tests
    <3>6. v3 \in Nat /\ v4 \in Nat
      BY <1>1 DEF Registry!TypeOK, Registry!RegistryAssumption
    <3>7. Cardinality(Tests) <= v3 /\ v3 <= Cardinality(Tests) + v4
      BY <2>4, RegistryCounts DEF Registry!TestsCounted, Tests
    <3>8. Cardinality(Tests') <= v3' /\ v3' <= Cardinality(Tests') + v4'
      BY <1>1, <3>1, <3>3, <3>6, <3>7
    <3> QED
      BY <3>4, <3>5, <3>8, RegistryCounts DEF Registry!TestsCounted, Tests
  <2> QED
    BY <1>1, <2>2, <2>3, <2>4 DEF Registry!TypeOK, Registry!States
<1>4. ASSUME v1' = "open" \/ v1' = "closed", v3' = v3, v2' \in {0, v2}, v4' \in {0, v4},
             v6' = [d \in registry_Callers |-> FALSE],
             v5' \in [registry_Callers -> {"idle", "passed", "gone"}]
      PROVE  Registry!IInv'
  <2>1. v6' \in [registry_Callers -> BOOLEAN] /\ \A d \in registry_Callers : ~v6'[d]
    BY <1>4
  <2>2. /\ 0 \in 0 .. registry_failure_threshold - 1
        /\ 0 \in 0 .. registry_success_threshold - 1
    BY DEF Registry!RegistryAssumption
  <2> QED
    BY <1>4, <2>1, <2>2
    DEF Registry!TypeOK, Registry!TestsOut, Registry!TestsCounted, Registry!States
<1>5. ASSUME NEW c \in registry_Callers, Registry!record_failure(c) PROVE Registry!IInv'
  <2>1. v5[c] = "passed" /\ v5' = [v5 EXCEPT ![c] = "idle"] /\ v3' = v3
    BY <1>5 DEF Registry!record_failure
  <2>2. v5' \in [registry_Callers -> {"idle", "passed", "gone"}]
    BY <2>1 DEF Registry!TypeOK
  <2>3. CASE v1 = "closed" /\ v2 + 1 < registry_failure_threshold
    <3>1. v2' = v2 + 1 /\ UNCHANGED <<v1, v4, v6>>
      <4>1. v2 \in Nat /\ registry_failure_threshold \in Nat
        BY DEF Registry!TypeOK, Registry!RegistryAssumption
      <4>2. ~(v2 + 1 >= registry_failure_threshold)
        BY <2>3, <4>1
      <4> QED
        BY <1>5, <2>3, <4>2 DEF Registry!record_failure
    <3> QED
      BY <2>1, <2>2, <2>3, <3>1
      DEF Registry!TypeOK, Registry!TestsOut, Registry!TestsCounted, Registry!RegistryAssumption
  <2>4. CASE v1 = "closed" /\ v2 + 1 >= registry_failure_threshold
    BY <1>4, <1>5, <2>1, <2>2, <2>4 DEF Registry!record_failure, Registry!NoTests
  <2>5. CASE v1 = "halfOpen"
    BY <1>4, <1>5, <2>1, <2>2, <2>5 DEF Registry!record_failure, Registry!NoTests
  <2>6. CASE v1 = "open"
    <3>1. UNCHANGED <<v1, v2, v4, v6>>
      BY <1>5, <2>6 DEF Registry!record_failure
    <3> QED
      BY <2>1, <2>2, <2>6, <3>1 DEF Registry!TypeOK, Registry!TestsOut, Registry!TestsCounted
  <2> QED
    BY <1>1, <2>3, <2>4, <2>5, <2>6
    DEF Registry!TypeOK, Registry!States, Registry!RegistryAssumption
<1>6. ASSUME Registry!force_open \/ Registry!force_close PROVE Registry!IInv'
  BY <1>4, <1>6 DEF Registry!force_open, Registry!force_close, Registry!NoTests, Registry!TypeOK
<1>7. ASSUME NEW c \in registry_Callers, Registry!Cancel(c) PROVE Registry!IInv'
  BY <1>7
  DEF Registry!Cancel, Registry!TypeOK, Registry!TestsOut, Registry!TestsCounted, Registry!Tests
<1>8. CASE UNCHANGED Registry!vars
  BY <1>8
  DEF Registry!vars, Registry!TypeOK, Registry!TestsOut, Registry!TestsCounted, Registry!Tests
<1> QED
  BY <1>2, <1>3, <1>5, <1>6, <1>7, <1>8 DEF Registry!Next

(* can_pass lets no more test calls through than it may, and is not left half *)
(* open with nobody to close it, whatever stragglers report to it.            *)
THEOREM TestsAlwaysBounded ==
  FaultsSpec => []BreakersSound
<1> USE FaultsAssumption
<1> DEFINE Inv == part = "registry" => Registry!IInv
<1>1. FaultsInit => Inv
  <2>1. ASSUME Registry!Init PROVE Registry!IInv
    <3>1. v6 \in [registry_Callers -> BOOLEAN] /\ \A c \in registry_Callers : ~v6[c]
      BY <2>1 DEF Registry!Init
    <3>2. /\ v1 = "closed" /\ v2 = 0 /\ v3 = 0 /\ v4 = 0
          /\ v5 = [c \in registry_Callers |-> "idle"]
      BY <2>1 DEF Registry!Init
    <3> QED
      BY <3>1, <3>2
      DEF Registry!IInv, Registry!TypeOK, Registry!TestsOut, Registry!TestsCounted,
          Registry!States, Registry!RegistryAssumption
  <2> QED
    BY <2>1 DEF FaultsInit, OtherInit
<1>2. Inv /\ [FaultsNext]_allVars => Inv'
  BY OnePartMoves, RegistryStep
<1>3. Inv => BreakersSound
  <2>1. ASSUME Registry!IInv, v1 = "halfOpen" PROVE Registry!TestsBounded
    <3> DEFINE Tests == Registry!Tests
    <3>1. IsFiniteSet(Tests) /\ Cardinality(Tests) \in Nat
      <4>1. Tests \subseteq registry_Callers
        BY DEF Registry!Tests
      <4>2. IsFiniteSet(registry_Callers)
        BY RegistryCounts DEF Registry!RegistryAssumption
      <4>3. IsFiniteSet(Tests)
        BY <4>1, <4>2, FS_Subset
      <4> QED
        BY <4>3, FS_CardinalityType
    <3>2. /\ Cardinality(Tests) <= v3 /\ v3 <= Cardinality(Tests) + v4
          /\ v3 \in 0 .. half_open_max_calls
          /\ v4 \in 0 .. registry_success_threshold - 1
      BY <2>1, RegistryCounts DEF Registry!IInv, Registry!TypeOK, Registry!TestsCounted
    <3>3. ASSUME v3 = half_open_max_calls PROVE Tests # {}
      <4> HIDE DEF Tests
      <4>1. Cardinality(Tests) # 0
        BY <3>1, <3>2, <3>3 DEF Registry!RegistryAssumption
      <4> QED
        BY <3>1, <4>1, FS_EmptySet
    <3>4. \A c \in Tests : c \in registry_Callers /\ v5[c] \in {"passed", "gone"}
      BY <2>1 DEF Registry!IInv, Registry!TypeOK, Registry!TestsOut, Registry!Tests
    <3>5. Cardinality(Tests) <= half_open_max_calls
      <4> HIDE DEF Tests
      <4> QED
        BY <3>1, <3>2 DEF Registry!RegistryAssumption
    <3> QED
      BY <2>1, <3>3, <3>4, <3>5, RegistryCounts DEF Registry!TestsBounded
  <2> QED
    BY <2>1 DEF BreakersSound, Registry!TestsBounded
<1> QED
  BY <1>1, <1>2, <1>3, PTL DEF FaultsSpec
-----------------------------------------------------------------------------
(* The canary's controller and deployer.                                      *)

LEMMA DeployerMin ==
  ASSUME NEW n \in Nat
  PROVE  /\ Deployer!Min({n, 100}) \in 0 .. 100
         /\ n <= 100 => n <= Deployer!Min({n, 100})
<1> DEFINE P(x) == \A y \in {n, 100} : x <= y
<1>1. \E x \in {n, 100} : P(x)
  <2>1. n <= 100 => P(n)
    OBVIOUS
  <2>2. ~(n <= 100) => P(100)
    OBVIOUS
  <2> QED
    BY <2>1, <2>2
<1>2. Deployer!Min({n, 100}) = CHOOSE x \in {n, 100} : P(x)
  BY DEF Deployer!Min
<1>3. Deployer!Min({n, 100}) \in {n, 100} /\ P(Deployer!Min({n, 100}))
  <2> HIDE DEF P
  <2> QED
    BY <1>1, <1>2
<1> QED
  BY <1>3

(* The traffic of a running deployment is at most all of it.                  *)
LEMMA DeployerStep ==
  ASSUME Deployer!DeployerAssumption, v2 \in 0 .. 100, [Deployer!Next]_(Deployer!vars)
  PROVE  v2' \in 0 .. 100 /\ Deployer!StaysOff
<1>1. ASSUME NEW t \in Tickers, Deployer!advance(t)
      PROVE  v2' \in 0 .. 100 /\ Deployer!StaysOff
  <2>1. CASE v1 = "running"
    <3>1. v2' = Deployer!Min({v2 + step_pct, 100})
      BY <1>1, <2>1 DEF Deployer!advance
    <3>2. v2 + step_pct \in Nat /\ v2 <= v2 + step_pct
      BY DEF Deployer!DeployerAssumption
    <3>3. v2' \in 0 .. 100 /\ (v2 + step_pct <= 100 => v2 + step_pct <= v2')
      BY <3>1, <3>2, DeployerMin
    <3>4. ~(v2 + step_pct <= 100) => v2' = 100
      <4> SUFFICES ASSUME ~(v2 + step_pct <= 100) PROVE v2' = 100
        OBVIOUS
      <4>1. Deployer!Min({v2 + step_pct, 100}) = CHOOSE x \in {v2 + step_pct, 100} :
                                                     \A y \in {v2 + step_pct, 100} : x <= y
        BY DEF Deployer!Min
      <4> QED
        BY <3>1, <3>2, <4>1
    <3> QED
      BY <2>1, <3>2, <3>3, <3>4 DEF Deployer!StaysOff
  <2>2. CASE v1 # "running"
    BY <1>1, <2>2 DEF Deployer!advance, Deployer!StaysOff
  <2> QED
    BY <2>1, <2>2
<1>2. ASSUME NEW t \in Tickers, Deployer!Tick(t), ~Deployer!advance(t)
      PROVE  v2' = v2 /\ (v1' = v1 \/ v1' \in {"failed", "complete"})
  BY <1>2
  DEF Deployer!Tick, Deployer!Look, Deployer!should_advance, Deployer!check_health,
      Deployer!Fail, Deployer!Stamp, Deployer!Promote
<1>3. ASSUME \/ Deployer!rollback \/ Deployer!promote \/ Deployer!IntervalEnds
             \/ UNCHANGED Deployer!vars
      PROVE  v2' = v2 /\ (v1' = v1 \/ v1' \in {"rollingBack", "complete"})
  BY <1>3 DEF Deployer!rollback, Deployer!promote, Deployer!IntervalEnds, Deployer!vars
<1> QED
  BY <1>1, <1>2, <1>3 DEF Deployer!Next, Deployer!StaysOff

LEMMA ControllerStep ==
  ASSUME Controller!IInv, [Controller!Next]_(Controller!vars)
  PROVE  Controller!IInv' /\ Controller!Settles
<1> USE DEF Controller!IInv, Controller!Settles, Controller!Ended, Controller!counts
<1>1. ASSUME Controller!activate PROVE Controller!IInv' /\ Controller!Settles
  BY <1>1 DEF Controller!activate
<1>2. ASSUME NEW r \in Requests, Controller!Route(r)
      PROVE  Controller!IInv' /\ Controller!Settles
  BY <1>2 DEF Controller!Route
<1>3. ASSUME NEW r \in Requests, Controller!record_result(r)
      PROVE  Controller!IInv' /\ Controller!Settles
  BY <1>3 DEF Controller!record_result
<1>4. ASSUME NEW a \in Advancers, Controller!Evaluate(a) \/ Controller!Apply(a)
      PROVE  Controller!IInv' /\ Controller!Settles
  BY <1>4 DEF Controller!Evaluate, Controller!Apply
<1>5. CASE UNCHANGED Controller!vars
  BY <1>5 DEF Controller!vars
<1> QED
  BY <1>1, <1>2, <1>3, <1>4, <1>5 DEF Controller!Next

(* A deployment that ended is never running again whatever the passes that    *)
(* have seen it running do, and a canary that ended is never active again and *)
(* takes no request and no result, whatever decisions are applied late.       *)
THEOREM ReleasesStayEnded ==
  FaultsSpec => ReleasesEnd
<1> USE FaultsAssumption
<1> DEFINE Inv == /\ part = "deployer" => v2 \in 0 .. 100
                  /\ part = "controller" => Controller!IInv
<1>1. FaultsInit => Inv
  BY DEF FaultsInit, OtherInit, Deployer!Init, Deployer!DeployerAssumption,
         Controller!Init, Controller!IInv, Controller!Ended
<1>2. Inv /\ [FaultsNext]_allVars => Inv'
  BY OnePartMoves, DeployerStep, ControllerStep
<1>3. Inv /\ [FaultsNext]_allVars
      => /\ part = "controller" => Controller!Settles
         /\ part = "deployer" => Deployer!StaysOff
  BY OnePartMoves, DeployerStep, ControllerStep
<1> QED
  BY <1>1, <1>2, <1>3, PTL DEF FaultsSpec, ReleasesEnd
-----------------------------------------------------------------------------
(* Elections and overrides.                                                   *)

LEMMA ElectionStep ==
  ASSUME Cluster!RouterAssumption, Cluster!ElectionInv,
         [Cluster!ElectionNext]_(Cluster!vars)
  PROVE  Cluster!ElectionInv'
<1> DEFINE Times == Cluster!TooLate .. Cluster!Off
           Kept(n) == /\ v3[n] => \E t \in Cluster!Tasks : v4[n][t] # Cluster!Off
                      /\ \A t \in Cluster!Tasks : v4[n][t] # Cluster!Off =>
                           /\ v1 = n /\ v2 + v4[n][t] <= LEADER_REFRESH
                           /\ v4[n][t] > Cluster!TooLate
<1>1. /\ v1 \in Nodes \cup {Cluster!Nobody} /\ v2 \in Nat
      /\ v3 \in [Nodes -> BOOLEAN] /\ v4 \in [Nodes -> [Cluster!Tasks -> Times]]
      /\ ~v5 => \A n \in Nodes : Kept(n)
  BY DEF Cluster!ElectionInv
<1>2. SUFFICES /\ v1' \in Nodes \cup {Cluster!Nobody} /\ v2' \in Nat
               /\ v3' \in [Nodes -> BOOLEAN] /\ v4' \in [Nodes -> [Cluster!Tasks -> Times]]
               /\ ~v5' => \A n \in Nodes : Kept(n)'
  BY DEF Cluster!ElectionInv, Cluster!Tasks, Cluster!TooLate, Cluster!Off
<1>3. /\ Cluster!Off = LEADER_REFRESH + 1 /\ Cluster!TooLate = LEADER_REFRESH - LEADER_TTL
      /\ Cluster!Nobody \notin Nodes
      /\ LEADER_REFRESH \in Nat /\ LEADER_TTL \in Nat /\ LEADER_REFRESH < LEADER_TTL
  BY DEF Cluster!RouterAssumption, Cluster!Off, Cluster!TooLate
<1>4. \A d \in Times : d \in Int /\ Cluster!Sooner(d) \in Times
  BY <1>3 DEF Cluster!Sooner
<1>5. 0 \in Times /\ Cluster!Off \in Times
  BY <1>3
<1> HIDE DEF Times
<1>6. ASSUME NEW n \in Nodes, Cluster!elect_primary(n)
      PROVE  /\ v1' \in Nodes \cup {Cluster!Nobody} /\ v2' \in Nat
             /\ v3' \in [Nodes -> BOOLEAN] /\ v4' \in [Nodes -> [Cluster!Tasks -> Times]]
             /\ ~v5' => \A m \in Nodes : Kept(m)'
  <2>1. CASE v1 = Cluster!Nobody /\ v1' = n
    <3>1. PICK t \in Cluster!Tasks : v4' = [v4 EXCEPT ![n][t] = 0]
      BY <1>3, <1>6, <2>1 DEF Cluster!elect_primary
    <3>2. v2' = 0 /\ v3' = [v3 EXCEPT ![n] = TRUE] /\ v5' = v5
      BY <1>3, <1>6, <2>1 DEF Cluster!elect_primary
    <3>3. v4' \in [Nodes -> [Cluster!Tasks -> Times]] /\ v3' \in [Nodes -> BOOLEAN]
      BY <1>1, <1>5, <3>1, <3>2
    <3>4. ~v5 => \A m \in Nodes : ~v3[m] /\ \A u \in Cluster!Tasks : v4[m][u] = Cluster!Off
      BY <1>1, <1>3, <2>1
    <3>5. \A m \in Nodes : \A u \in Cluster!Tasks :
            v4'[m][u] = IF m = n /\ u = t THEN 0 ELSE v4[m][u]
      BY <1>1, <3>1
    <3>6. ~v5' => \A m \in Nodes : Kept(m)'
      <4>1. SUFFICES ASSUME ~v5, NEW m \in Nodes PROVE Kept(m)'
        BY <3>2
      <4>2. CASE m = n
        BY <1>3, <2>1, <3>2, <3>4, <3>5, <4>1, <4>2
      <4>3. CASE m # n
        <5>1. ~v3'[m] /\ \A u \in Cluster!Tasks : v4'[m][u] = Cluster!Off
          BY <1>1, <3>2, <3>4, <3>5, <4>1, <4>3
        <5> QED
          BY <5>1
      <4> QED
        BY <4>2, <4>3
    <3> QED
      BY <2>1, <3>2, <3>3, <3>6
  <2>2. CASE v3' = [v3 EXCEPT ![n] = FALSE] /\ UNCHANGED <<v1, v2, v4, v5>>
    BY <1>1, <2>2
  <2> QED
    BY <1>6, <2>1, <2>2 DEF Cluster!elect_primary, Cluster!Won
<1>7. ASSUME NEW n \in Nodes, NEW t \in Cluster!Tasks, Cluster!Refresh(n, t)
      PROVE  /\ v1' \in Nodes \cup {Cluster!Nobody} /\ v2' \in Nat
             /\ v3' \in [Nodes -> BOOLEAN] /\ v4' \in [Nodes -> [Cluster!Tasks -> Times]]
             /\ ~v5' => \A m \in Nodes : Kept(m)'
  <2> DEFINE d == v4[n][t] + LEADER_REFRESH
  <2>1. /\ v4[n][t] <= 0 /\ v4' = [v4 EXCEPT ![n][t] = d]
        /\ v1' = n /\ v2' = 0 /\ v3' = v3 /\ v5' = v5
    BY <1>7 DEF Cluster!Refresh
  <2>2. v4[n][t] \in Times /\ v4[n][t] \in Int
    BY <1>1, <1>4
  <2>3. d \in Times /\ d <= LEADER_REFRESH /\ d >= v4[n][t] /\ v4[n][t] # Cluster!Off
    BY <1>3, <2>1, <2>2 DEF Times
  <2> HIDE DEF d
  <2>4. v4' \in [Nodes -> [Cluster!Tasks -> Times]]
    BY <1>1, <2>1, <2>3
  <2>5. \A m \in Nodes : \A u \in Cluster!Tasks :
          v4'[m][u] = IF m = n /\ u = t THEN d ELSE v4[m][u]
    BY <1>1, <2>1
  <2>6. ASSUME ~v5, NEW m \in Nodes PROVE Kept(m)'
    <3>1. v1 = n /\ v4[n][t] > Cluster!TooLate /\ v2 \in Nat
      BY <1>1, <2>3, <2>6
    <3>2. d \in Int /\ d # Cluster!Off /\ d > Cluster!TooLate /\ 0 + d <= LEADER_REFRESH
      <4>1. d \in Int
        BY <1>4, <2>3
      <4>2. Cluster!TooLate \in Int /\ Cluster!Off \in Int
        BY <1>3
      <4>3. d > Cluster!TooLate
        BY <2>2, <2>3, <3>1, <4>1, <4>2
      <4> QED
        BY <1>3, <2>3, <4>1, <4>3
    <3>3. ASSUME NEW u \in Cluster!Tasks, v4'[m][u] # Cluster!Off
          PROVE  v1' = m /\ v2' + v4'[m][u] <= LEADER_REFRESH /\ v4'[m][u] > Cluster!TooLate
      <4>1. CASE m = n /\ u = t
        BY <2>1, <2>5, <3>2, <4>1
      <4>2. CASE ~(m = n /\ u = t)
        <5>1. v4'[m][u] = v4[m][u] /\ v4[m][u] # Cluster!Off
          BY <2>5, <3>3, <4>2
        <5>2. v1 = m /\ v2 + v4[m][u] <= LEADER_REFRESH /\ v4[m][u] > Cluster!TooLate
          BY <1>1, <2>6, <5>1
        <5>3. v4[m][u] \in Int
          BY <1>1, <1>4
        <5>4. v2' + v4[m][u] <= LEADER_REFRESH
          BY <1>3, <2>1, <3>1, <5>2, <5>3
        <5>5. v1' = m
          BY <2>1, <3>1, <5>2
        <5> QED
          BY <5>1, <5>2, <5>4, <5>5
      <4> QED
        BY <4>1, <4>2
    <3>4. v3'[m] => \E u \in Cluster!Tasks : v4'[m][u] # Cluster!Off
      BY <1>1, <2>1, <2>5, <2>6, <3>2
    <3> QED
      BY <3>3, <3>4
  <2> QED
    BY <1>1, <2>1, <2>4, <2>6
<1>8. ASSUME NEW n \in Nodes, NEW t \in Cluster!Tasks, Cluster!RefreshFails(n, t)
      PROVE  /\ v1' \in Nodes \cup {Cluster!Nobody} /\ v2' \in Nat
             /\ v3' \in [Nodes -> BOOLEAN] /\ v4' \in [Nodes -> [Cluster!Tasks -> Times]]
             /\ ~v5' => \A m \in Nodes : Kept(m)'
  <2>1. /\ v4' = [v4 EXCEPT ![n][t] = Cluster!Off] /\ v3' = [v3 EXCEPT ![n] = FALSE]
        /\ v1' = v1 /\ v2' = v2 /\ v5' = v5
    BY <1>8 DEF Cluster!RefreshFails
  <2>2. /\ v3' \in [Nodes -> BOOLEAN] /\ v4' \in [Nodes -> [Cluster!Tasks -> Times]]
    BY <1>1, <1>5, <2>1
  <2>3. \A m \in Nodes : \A u \in Cluster!Tasks :
          v4'[m][u] = IF m = n /\ u = t THEN Cluster!Off ELSE v4[m][u]
    BY <1>1, <2>1
  <2>4. \A m \in Nodes : v3'[m] => v3[m] /\ m # n
    BY <1>1, <2>1
  <2> QED
    BY <1>1, <2>1, <2>2, <2>3, <2>4
<1>9. ASSUME NEW n \in Nodes, Cluster!Crash(n)
      PROVE  /\ v1' \in Nodes \cup {Cluster!Nobody} /\ v2' \in Nat
             /\ v3' \in [Nodes -> BOOLEAN] /\ v4' \in [Nodes -> [Cluster!Tasks -> Times]]
             /\ ~v5' => \A m \in Nodes : Kept(m)'
  <2>1. /\ v4' = [v4 EXCEPT ![n] = [t \in Cluster!Tasks |-> Cluster!Off]]
        /\ v3' = [v3 EXCEPT ![n] = FALSE] /\ v1' = v1 /\ v2' = v2 /\ v5' = v5
    BY <1>9 DEF Cluster!Crash
  <2>2. /\ v3' \in [Nodes -> BOOLEAN] /\ v4' \in [Nodes -> [Cluster!Tasks -> Times]]
    BY <1>1, <1>5, <2>1
  <2>3. \A m \in Nodes : \A u \in Cluster!Tasks :
          v4'[m][u] = IF m = n THEN Cluster!Off ELSE v4[m][u]
    BY <1>1, <2>1
  <2>4. \A m \in Nodes : v3'[m] => v3[m] /\ m # n
    BY <1>1, <2>1
  <2> QED
    BY <1>1, <2>1, <2>2, <2>3, <2>4
<1>10. ASSUME Cluster!Second
       PROVE  /\ v1' \in Nodes \cup {Cluster!Nobody} /\ v2' \in Nat
              /\ v3' \in [Nodes -> BOOLEAN] /\ v4' \in [Nodes -> [Cluster!Tasks -> Times]]
              /\ ~v5' => \A m \in Nodes : Kept(m)'
  <2>1. v3' = v3 /\ v4' = [n \in Nodes |-> [t \in Cluster!Tasks |-> Cluster!Sooner(v4[n][t])]]
    BY <1>10 DEF Cluster!Second
  <2>2. v4' \in [Nodes -> [Cluster!Tasks -> Times]]
    BY <1>1, <1>4, <2>1
  <2>3. /\ v1' \in Nodes \cup {Cluster!Nobody} /\ v2' \in Nat
        /\ v1 \in Nodes /\ v2 + 1 # LEADER_TTL => v1' = v1 /\ v2' = v2 + 1
    BY <1>1, <1>3, <1>10 DEF Cluster!Second
  <2>4. /\ ~v5' => ~v5
        /\ ~v5' => \A n \in Nodes, t \in Cluster!Tasks : v4'[n][t] # Cluster!TooLate
    BY <1>10 DEF Cluster!Second
  <2>5. \A n \in Nodes : \A t \in Cluster!Tasks : v4'[n][t] = Cluster!Sooner(v4[n][t])
    BY <2>1
  <2>6. ASSUME ~v5', NEW n \in Nodes PROVE Kept(n)'
    <3>1. ASSUME NEW t \in Cluster!Tasks, v4'[n][t] # Cluster!Off
          PROVE  v1' = n /\ v2' + v4'[n][t] <= LEADER_REFRESH /\ v4'[n][t] > Cluster!TooLate
      <4> DEFINE d == v4[n][t]
      <4>1. d # Cluster!Off /\ v4'[n][t] = Cluster!Sooner(d)
        BY <2>5, <3>1 DEF Cluster!Sooner
      <4>2. v1 = n /\ v2 + d <= LEADER_REFRESH /\ d > Cluster!TooLate
        BY <1>1, <2>4, <2>6, <4>1
      <4>3. d \in Int
        BY <1>1, <1>4
      <4> HIDE DEF d
      <4>4. v4'[n][t] = d - 1 /\ d - 1 # Cluster!TooLate
        <5>1. v4'[n][t] # Cluster!TooLate
          BY <2>4, <2>6
        <5>2. d # Cluster!TooLate
          BY <1>3, <4>2, <4>3
        <5> QED
          BY <4>1, <5>1, <5>2 DEF Cluster!Sooner
      <4>5. v2 + 1 # LEADER_TTL
        <5>1. v2 \in Nat
          BY <1>1
        <5>2. d > LEADER_REFRESH - LEADER_TTL /\ d - 1 # LEADER_REFRESH - LEADER_TTL
          BY <1>3, <4>2, <4>4
        <5> QED
          BY <1>3, <4>2, <4>3, <5>1, <5>2
      <4>6. v1' = n /\ v2' = v2 + 1
        BY <2>3, <4>2, <4>5
      <4>7. (v2 + 1) + (d - 1) <= LEADER_REFRESH /\ d - 1 > Cluster!TooLate
        BY <1>1, <1>3, <4>2, <4>3, <4>4
      <4> QED
        BY <4>4, <4>6, <4>7
    <3>2. v3'[n] => \E t \in Cluster!Tasks : v4'[n][t] # Cluster!Off
      <4>1. \A t \in Cluster!Tasks : v4[n][t] # Cluster!Off => Cluster!Sooner(v4[n][t]) # Cluster!Off
        <5> TAKE t \in Cluster!Tasks
        <5>1. v4[n][t] \in Times
          BY <1>1
        <5> QED
          BY <1>3, <5>1 DEF Times, Cluster!Sooner
      <4> QED
        BY <1>1, <2>1, <2>4, <2>5, <2>6, <4>1
    <3> QED
      BY <3>1, <3>2
  <2> QED
    BY <1>1, <2>1, <2>2, <2>3, <2>6
<1>11. CASE UNCHANGED Cluster!vars
  BY <1>1, <1>11 DEF Cluster!vars
<1> QED
  <2> HIDE DEF Kept
  <2> QED
    BY <1>1, <1>6, <1>7, <1>8, <1>9, <1>10, <1>11 DEF Cluster!ElectionNext

LEMMA LastOfTail ==
  ASSUME NEW S, NEW s \in Seq(S), s # <<>>
  PROVE  /\ Tail(s) = <<>> => Head(s) = s[Len(s)]
         /\ Tail(s) # <<>> => Tail(s)[Len(Tail(s))] = s[Len(s)]
<1>1. Len(s) \in Nat \ {0} /\ Head(s) = s[1]
  BY EmptySeq
<1>2. Tail(s) \in Seq(S) /\ Len(Tail(s)) = Len(s) - 1
  BY HeadTailProperties
<1>3. Tail(s) # <<>> => Len(Tail(s)) \in Nat \ {0}
  BY <1>2, EmptySeq
<1>4. \A i \in 1 .. Len(Tail(s)) : Tail(s)[i] = s[i + 1]
  BY HeadTailProperties
<1>5. Tail(s) = <<>> => Len(s) = 1
  <2>1. Tail(s) = <<>> => Len(Tail(s)) = Len(<<>>)
    BY Zenon
  <2>2. Len(<<>>) = 0
    OBVIOUS
  <2> QED
    BY <1>1, <1>2, <2>1, <2>2
<1>6. Tail(s) # <<>> => /\ Len(Tail(s)) \in 1 .. Len(Tail(s))
                       /\ Len(Tail(s)) + 1 = Len(s)
  BY <1>1, <1>2, <1>3
<1> QED
  BY <1>1, <1>4, <1>5, <1>6

LEMMA OverrideStep ==
  ASSUME Cluster!OverrideInv, [Cluster!OverrideNext]_(Cluster!vars)
  PROVE  Cluster!OverrideInv'
<1> DEFINE Values == Strategies \cup {Cluster!None}
           Newest(n) == v7[n] # <<>> => v7[n][Len(v7[n])] = Cluster!Last
           Fresh(n) == Cluster!Coming(n) = Cluster!Last /\ (v8[n] # <<>> => v8[n] = <<Cluster!Last>>)
           Typed == /\ v6 \in [Nodes -> Values] /\ v7 \in [Nodes -> Seq(Values)]
                    /\ v8 \in [Nodes -> {<<>>} \cup {<<s>> : s \in Values}]
                    /\ v9 \subseteq Nodes /\ v10 \in Seq(Values)
           Held == \A n \in Nodes : Newest(n) /\ (n \notin v9 => Fresh(n))
<1>1. Typed /\ Held
  BY DEF Cluster!OverrideInv
<1>2. SUFFICES Typed' /\ Held'
  BY DEF Cluster!OverrideInv
<1> HIDE DEF Values
<1>3. ASSUME NEW n \in Nodes, NEW s \in Values, Cluster!Publish(n, s)
      PROVE  Typed' /\ Held'
  <2>1. /\ v6' = v6 /\ v7' = [m \in Nodes |-> Append(v7[m], s)]
        /\ v8[n] = <<>> /\ v8' = [v8 EXCEPT ![n] = <<s>>]
        /\ v9' = {m \in Nodes : v8[m] # <<>>} /\ v10' = Append(v10, s)
    BY <1>3 DEF Cluster!Publish, Cluster!Overriding
  <2>2. \A m \in Nodes : /\ v7'[m] \in Seq(Values) /\ v7'[m] # <<>>
                         /\ v7'[m][Len(v7'[m])] = s
    <3> TAKE m \in Nodes
    <3>1. v7[m] \in Seq(Values) /\ v7'[m] = Append(v7[m], s)
      BY <1>1, <2>1
    <3> QED
      BY <3>1, AppendProperties
  <2>3. v10' \in Seq(Values) /\ v10' # <<>> /\ v10'[Len(v10')] = s
    BY <1>1, <2>1, AppendProperties
  <2>4. Cluster!Last' = s
    BY <2>3 DEF Cluster!Last
  <2>5. v7' \in [Nodes -> Seq(Values)]
    BY <1>1, <2>1
  <2>6. v8' \in [Nodes -> {<<>>} \cup {<<t>> : t \in Values}]
    BY <1>1, <2>1
  <2>7. \A m \in Nodes : m \notin v9' => (v8'[m] # <<>> => v8'[m] = <<s>>)
    BY <1>1, <2>1
  <2>8. \A m \in Nodes : Cluster!Coming(m)' = s
    BY <2>2 DEF Cluster!Coming
  <2> QED
    BY <1>1, <2>1, <2>2, <2>3, <2>4, <2>5, <2>6, <2>7, <2>8
<1>4. ASSUME NEW n \in Nodes, Cluster!Write(n)
      PROVE  Typed' /\ Held'
  <2>1. /\ v8[n] # <<>> /\ v8' = [v8 EXCEPT ![n] = <<>>]
        /\ v6' = [v6 EXCEPT ![n] = v8[n][1]] /\ v7' = v7 /\ v9' = v9 /\ v10' = v10
    BY <1>4 DEF Cluster!Write
  <2>2. PICK t \in Values : v8[n] = <<t>>
    BY <1>1, <2>1
  <2>3. v6' = [v6 EXCEPT ![n] = t]
    BY <2>1, <2>2
  <2>4. Cluster!Last' = Cluster!Last /\ (n \notin v9 => t = Cluster!Last)
    <3>1. Cluster!Last' = Cluster!Last
      BY <2>1 DEF Cluster!Last
    <3>2. n \notin v9 => <<t>> = <<Cluster!Last>>
      BY <1>1, <2>1, <2>2
    <3> QED
      BY <3>1, <3>2
  <2>5. Typed'
    BY <1>1, <2>1, <2>3
  <2>6. \A m \in Nodes : m \notin v9 => Fresh(m)'
    BY <1>1, <2>1, <2>3, <2>4 DEF Cluster!Coming
  <2> QED
    BY <1>1, <2>1, <2>4, <2>5, <2>6
<1>5. ASSUME NEW n \in Nodes, Cluster!Receive(n)
      PROVE  Typed' /\ Held'
  <2>1. /\ v7[n] # <<>> /\ v7' = [v7 EXCEPT ![n] = Tail(v7[n])]
        /\ v6' = [v6 EXCEPT ![n] = Head(v7[n])] /\ v8' = v8 /\ v10' = v10
        /\ v9' = IF v8[n] = <<>> THEN v9 \ {n} ELSE v9
    BY <1>5 DEF Cluster!Receive
  <2>2. v7[n] \in Seq(Values) /\ Head(v7[n]) \in Values /\ Tail(v7[n]) \in Seq(Values)
    BY <1>1, <2>1
  <2>3. /\ Tail(v7[n]) = <<>> => Head(v7[n]) = v7[n][Len(v7[n])]
        /\ Tail(v7[n]) # <<>> => Tail(v7[n])[Len(Tail(v7[n]))] = v7[n][Len(v7[n])]
    BY <2>1, <2>2, LastOfTail
  <2>4. Cluster!Last' = Cluster!Last /\ v7[n][Len(v7[n])] = Cluster!Last
    BY <1>1, <2>1 DEF Cluster!Last
  <2>5. Newest(n)' /\ Cluster!Coming(n)' = Cluster!Last
    BY <1>1, <2>1, <2>3, <2>4 DEF Cluster!Coming
  <2>6. \A m \in Nodes : m # n => (Newest(m)' <=> Newest(m)) /\ Cluster!Coming(m)' = Cluster!Coming(m)
    BY <1>1, <2>1, <2>4 DEF Cluster!Coming
  <2>7. Typed'
    BY <1>1, <2>1, <2>2
  <2> QED
    BY <1>1, <2>1, <2>4, <2>5, <2>6, <2>7
<1>6. ASSUME NEW n \in Nodes, Cluster!Lose(n)
      PROVE  Typed' /\ Held'
  <2>1. /\ v7[n] # <<>> /\ v7' = [v7 EXCEPT ![n] = Tail(v7[n])]
        /\ v6' = v6 /\ v8' = v8 /\ v10' = v10
        /\ v9' = IF Len(v7[n]) = 1 THEN v9 \cup {n} ELSE v9
    BY <1>6 DEF Cluster!Lose
  <2>2. /\ v7[n] \in Seq(Values) /\ Tail(v7[n]) \in Seq(Values)
        /\ Tail(v7[n]) = <<>> => Len(v7[n]) = 1
    <3>1. v7[n] \in Seq(Values)
      BY <1>1
    <3>2. Len(v7[n]) \in Nat \ {0} /\ Tail(v7[n]) \in Seq(Values) /\ Len(Tail(v7[n])) = Len(v7[n]) - 1
      BY <2>1, <3>1, HeadTailProperties, EmptySeq
    <3> DEFINE rest == Tail(v7[n])
    <3> HIDE DEF rest
    <3>3. rest = <<>> => Len(rest) = 0
      <4>1. rest = <<>> => Len(rest) = Len(<<>>)
        BY Zenon
      <4> QED
        BY <4>1
    <3>4. Len(rest) = Len(v7[n]) - 1
      BY <3>2 DEF rest
    <3>5. rest = <<>> => Len(v7[n]) = 1
      BY <3>2, <3>3, <3>4
    <3> QED
      BY <3>1, <3>2, <3>5 DEF rest
  <2>3. Tail(v7[n]) # <<>> => Tail(v7[n])[Len(Tail(v7[n]))] = v7[n][Len(v7[n])]
    BY <2>1, <2>2, LastOfTail
  <2>4. Cluster!Last' = Cluster!Last /\ v7[n][Len(v7[n])] = Cluster!Last
    BY <1>1, <2>1 DEF Cluster!Last
  <2>5. Newest(n)' /\ (n \notin v9' => Cluster!Coming(n)' = Cluster!Last)
    BY <1>1, <2>1, <2>2, <2>3, <2>4 DEF Cluster!Coming
  <2>6. \A m \in Nodes : m # n => (Newest(m)' <=> Newest(m)) /\ Cluster!Coming(m)' = Cluster!Coming(m)
    BY <1>1, <2>1, <2>4 DEF Cluster!Coming
  <2>7. Typed' /\ v9 \subseteq v9'
    BY <1>1, <2>1, <2>2
  <2> QED
    BY <1>1, <2>1, <2>4, <2>5, <2>6, <2>7
<1>7. CASE UNCHANGED Cluster!vars
  BY <1>1, <1>7 DEF Cluster!vars, Cluster!Last, Cluster!Coming
<1> QED
  <2> HIDE DEF Typed, Held
  <2> QED
    BY <1>1, <1>3, <1>4, <1>5, <1>6, <1>7 DEF Cluster!OverrideNext, Values
-----------------------------------------------------------------------------
(* Jobs with deadlines.                                                       *)

LEMMA SchedulerCounts ==
  /\ \A S : Scheduler!IsFiniteSet(S) <=> IsFiniteSet(S)
  /\ \A S : Scheduler!Cardinality(S) = Cardinality(S)
<1>1. \A S : Scheduler!IsFiniteSet(S) <=> IsFiniteSet(S)
  BY DEF Scheduler!IsFiniteSet, IsFiniteSet
<1>2. \A S : Scheduler!Cardinality(S) = Cardinality(S)
  BY DEF Scheduler!Cardinality, Cardinality
<1> QED
  BY <1>1, <1>2

(* A sequence of a set's elements, each once, has all of them.                *)
LEMMA Enumerates ==
  ASSUME NEW S, IsFiniteSet(S), NEW s \in [1 .. Cardinality(S) -> S],
         \A k, l \in 1 .. Cardinality(S) : k # l => s[k] # s[l]
  PROVE  s \in Seq(S) /\ \A x \in S : \E k \in DOMAIN s : s[k] = x
<1>1. Cardinality(S) \in Nat
  BY FS_CardinalityType
<1> DEFINE n == Cardinality(S)
<1> HIDE DEF n
<1>2. n \in Nat /\ n = Cardinality(S)
  BY <1>1 DEF n
<1>3. s \in Seq(S) /\ DOMAIN s = 1 .. n
  BY <1>2
<1>4. s \in Injection(1 .. n, S)
  BY <1>2 DEF Injection, IsInjective
<1>5. Cardinality(1 .. n) = n
  BY <1>2, FS_Interval
<1>6. s \in Surjection(1 .. n, S)
  BY <1>2, <1>4, <1>5, FS_Injection
<1> QED
  BY <1>3, <1>6 DEF Surjection

LEMMA SchedulerHeld ==
  ASSUME Scheduler!SchedulerAssumption, NEW c
  PROVE  /\ IsFiniteSet({j \in Jobs : v2[j] = c})
         /\ Scheduler!Held(c) = Cardinality({j \in Jobs : v2[j] = c})
         /\ Scheduler!Held(c) \in Nat
<1>1. IsFiniteSet(Jobs)
  BY SchedulerCounts DEF Scheduler!SchedulerAssumption
<1>2. IsFiniteSet({j \in Jobs : v2[j] = c})
  BY <1>1, FS_Subset
<1>3. Scheduler!Held(c) = Cardinality({j \in Jobs : v2[j] = c})
  BY SchedulerCounts DEF Scheduler!Held
<1> QED
  BY <1>2, <1>3, FS_CardinalityType

(* What other steps leave of a drain.                                         *)
LEMMA HandsKept ==
  ASSUME NEW d \in Drainers, Scheduler!InHands(d), v1 \in Nat, v1' \in Nat, v1' >= v1,
         v5'[d] = v5[d], v4'[d] = v4[d], v3'[d] = "submit" <=> v3[d] = "submit",
         \A j \in Jobs : v2'[j] = d <=> v2[j] = d
  PROVE  Scheduler!InHands(d)'
<1>1. {j \in Jobs : v2'[j] = d} = {j \in Jobs : v2[j] = d}
  OBVIOUS
<1>2. v4[d] \in Nat /\ v4[d] <= v1'
  BY DEF Scheduler!InHands
<1> QED
  BY <1>1, <1>2 DEF Scheduler!InHands

LEMMA CountsKept ==
  ASSUME Scheduler!Counted, v6' = v6,
         \A j \in Jobs : \A e \in Scheduler!Ends : v2'[j] = e <=> v2[j] = e
  PROVE  Scheduler!Counted'
<1>1. \A e \in Scheduler!Ends : {j \in Jobs : v2'[j] = e} = {j \in Jobs : v2[j] = e}
  OBVIOUS
<1>2. \A e \in Scheduler!Ends : Scheduler!Held(e)' = Scheduler!Held(e)
  BY <1>1 DEF Scheduler!Held
<1> QED
  BY <1>2 DEF Scheduler!Counted, Scheduler!Ends

(* A job in hand that the router answers for.                                 *)
LEMMA AnswerCounts ==
  ASSUME Scheduler!SchedulerAssumption, Scheduler!Counted, NEW j \in Jobs, NEW e, NEW c,
         \/ e = "Completed" /\ c = "completed"
         \/ e = "Dropped" /\ c = "dropped",
         v2[j] \notin Scheduler!Ends, v2' = [v2 EXCEPT ![j] = e],
         DOMAIN v2 = Jobs, v6' = [v6 EXCEPT ![c] = @ + 1]
  PROVE  Scheduler!Counted'
<1>1. {i \in Jobs : v2'[i] = e} = {i \in Jobs : v2[i] = e} \cup {j}
  OBVIOUS
<1>2. j \notin {i \in Jobs : v2[i] = e}
  BY DEF Scheduler!Ends
<1>3. \A f \in Scheduler!Ends \ {e} : {i \in Jobs : v2'[i] = f} = {i \in Jobs : v2[i] = f}
  BY DEF Scheduler!Ends
<1>4. Cardinality({i \in Jobs : v2'[i] = e}) = Cardinality({i \in Jobs : v2[i] = e}) + 1
  <2> DEFINE held == {i \in Jobs : v2[i] = e}
  <2>1. IsFiniteSet(held)
    BY SchedulerHeld
  <2> HIDE DEF held
  <2>2. Cardinality(held \cup {j}) = Cardinality(held) + 1
    BY <1>2, <2>1, FS_AddElement DEF held
  <2> QED
    BY <1>1, <2>2 DEF held
<1>5. Scheduler!Held(e)' = Scheduler!Held(e) + 1
  BY <1>4, SchedulerHeld, SchedulerCounts DEF Scheduler!Held
<1>6. \A f \in Scheduler!Ends \ {e} : Scheduler!Held(f)' = Scheduler!Held(f)
  BY <1>3 DEF Scheduler!Held
<1>7. CASE e = "Completed" /\ c = "completed"
  BY <1>5, <1>6, <1>7 DEF Scheduler!Counted, Scheduler!Ends
<1>8. CASE e = "Dropped" /\ c = "dropped"
  BY <1>5, <1>6, <1>8 DEF Scheduler!Counted, Scheduler!Ends
<1> QED
  BY <1>7, <1>8
LEMMA SchedulerStep ==
  ASSUME Scheduler!SchedulerAssumption, Scheduler!IInv, [Scheduler!Next]_(Scheduler!vars)
  PROVE  Scheduler!IInv'
<1> DEFINE Places == {"new", "queued", "lost"} \cup Scheduler!Ends \cup Drainers
<1>1. /\ v1 \in Nat /\ v3 \in [Drainers -> {"idle", "lock", "submit", "gone"}]
      /\ v2 \in [Jobs -> Places] /\ v5 \in [Drainers -> Seq(Jobs)] /\ v4 \in [Drainers -> Nat]
      /\ \A d \in Drainers : Scheduler!InHands(d)
      /\ Scheduler!Counted
      /\ \A j \in Jobs : v2[j] = "Missed" => deadline[j] <= v1
  BY DEF Scheduler!IInv
<1>2. \A d \in Drainers : d \notin {"new", "queued", "lost"} \cup Scheduler!Ends
  BY DEF Scheduler!SchedulerAssumption
<1>3. ASSUME NEW j \in Jobs, Scheduler!push(j) PROVE Scheduler!IInv'
  <2>1. /\ v2[j] = "new" /\ v2' = [v2 EXCEPT ![j] = "queued"]
        /\ v1' = v1 /\ v3' = v3 /\ v4' = v4 /\ v5' = v5 /\ v6' = v6
    BY <1>3 DEF Scheduler!push
  <2>2. \A d \in Drainers : \A i \in Jobs : v2'[i] = d <=> v2[i] = d
    BY <1>1, <1>2, <2>1
  <2>3. \A e \in Scheduler!Ends : \A i \in Jobs : v2'[i] = e <=> v2[i] = e
    BY <1>1, <2>1 DEF Scheduler!Ends
  <2>4. v2' \in [Jobs -> Places]
    BY <1>1, <2>1
  <2>5. \A d \in Drainers : Scheduler!InHands(d)'
    BY <1>1, <2>1, <2>2, HandsKept
  <2>6. Scheduler!Counted'
    BY <1>1, <2>1, <2>3, CountsKept
  <2>7. \A i \in Jobs : v2'[i] = "Missed" => deadline[i] <= v1'
    BY <1>1, <2>1
  <2> QED
    BY <1>1, <2>1, <2>4, <2>5, <2>6, <2>7 DEF Scheduler!IInv
<1>4. ASSUME NEW d \in Drainers, Scheduler!ReadClock(d) PROVE Scheduler!IInv'
  <2>1. /\ v3[d] = "idle" /\ v3' = [v3 EXCEPT ![d] = "lock"] /\ v4' = [v4 EXCEPT ![d] = v1]
        /\ v1' = v1 /\ v2' = v2 /\ v5' = v5 /\ v6' = v6
    BY <1>4 DEF Scheduler!ReadClock
  <2>2. \A c \in Drainers \ {d} : Scheduler!InHands(c)'
    BY <1>1, <2>1, HandsKept
  <2>3. v5[d] = <<>>
    BY <1>1, <2>1 DEF Scheduler!InHands
  <2>4. v5'[d] = <<>> /\ v4'[d] = v1 /\ v3'[d] = "lock"
    BY <1>1, <2>1, <2>3
  <2>5. Scheduler!InHands(d)'
    BY <1>1, <2>1, <2>3, <2>4 DEF Scheduler!InHands
  <2>6. Scheduler!Counted'
    BY <1>1, <2>1, CountsKept
  <2>7. /\ v3' \in [Drainers -> {"idle", "lock", "submit", "gone"}]
        /\ v4' \in [Drainers -> Nat]
    BY <1>1, <2>1
  <2> QED
    BY <1>1, <2>1, <2>2, <2>5, <2>6, <2>7 DEF Scheduler!IInv
<1>5. ASSUME NEW d \in Drainers, Scheduler!TakeAll(d) PROVE Scheduler!IInv'
  <2> DEFINE late == Scheduler!missed(d)
             taken == Scheduler!queue \ Scheduler!missed(d)
  <2>1. PICK s \in Scheduler!Drained(taken) : v5' = [v5 EXCEPT ![d] = s]
    BY <1>5 DEF Scheduler!TakeAll
  <2>2. /\ v3[d] = "lock"
        /\ v2' = [j \in Jobs |-> IF j \in late THEN "Missed"
                                 ELSE IF j \in Scheduler!queue THEN d ELSE v2[j]]
        /\ v6' = [v6 EXCEPT !.miss = @ + Scheduler!Cardinality(late)]
        /\ v3' = [v3 EXCEPT ![d] = IF v5'[d] = <<>> THEN "idle" ELSE "submit"]
        /\ v1' = v1 /\ v4' = v4
    BY <1>5 DEF Scheduler!TakeAll
  <2>3. /\ late \subseteq Jobs /\ taken \subseteq Jobs /\ late \cap taken = {}
        /\ \A j \in late : v2[j] = "queued" /\ deadline[j] <= v4[d]
        /\ \A j \in taken : v2[j] = "queued" /\ deadline[j] > v4[d]
        /\ \A j \in Jobs : v2[j] = "queued" <=> j \in late \cup taken
    <3>1. \A j \in Jobs : deadline[j] \in Nat /\ v4[d] \in Nat
      BY <1>1 DEF Scheduler!SchedulerAssumption
    <3> QED
      BY <3>1 DEF Scheduler!missed, Scheduler!queue
  <2>4. IsFiniteSet(late) /\ IsFiniteSet(taken)
    BY <2>3, SchedulerCounts, FS_Subset DEF Scheduler!SchedulerAssumption
  <2> HIDE DEF late, taken
  <2>5. /\ s \in [1 .. Cardinality(taken) -> taken]
        /\ \A k, l \in 1 .. Cardinality(taken) : k # l => s[k] # s[l]
        /\ \A k, l \in DOMAIN s : k < l => Scheduler!above(s[k], s[l])
    BY SchedulerCounts DEF Scheduler!Drained, Scheduler!SetToSeqs
  <2>6. s \in Seq(taken) /\ \A j \in taken : \E k \in DOMAIN s : s[k] = j
    BY <2>4, <2>5, Enumerates
  <2>7. s \in Seq(Jobs) /\ DOMAIN s = 1 .. Cardinality(taken)
    BY <2>3, <2>5, <2>6
  <2>8. \A j \in Jobs : v2'[j] = IF j \in late THEN "Missed" ELSE IF j \in taken THEN d ELSE v2[j]
    <3>1. taken = Scheduler!queue \ late
      BY DEF taken, late
    <3> QED
      BY <2>2, <3>1
  <2>9. {j \in Jobs : v2'[j] = d} = taken
    <3>1. \A j \in Jobs : v2[j] # d
      <4>1. v5[d] = <<>> /\ Scheduler!ToSet(v5[d]) = {j \in Jobs : v2[j] = d}
        BY <1>1, <2>2 DEF Scheduler!InHands
      <4>2. Scheduler!ToSet(<<>>) = {}
        BY DEF Scheduler!ToSet
      <4> QED
        BY <4>1, <4>2
    <3> QED
      BY <1>2, <2>3, <2>8, <3>1 DEF Scheduler!Ends
  <2>10. Scheduler!ToSet(s) = taken
    BY <2>5, <2>6 DEF Scheduler!ToSet
  <2>11. v5'[d] = s /\ v4'[d] = v4[d] /\ (v3'[d] = "submit" <=> s # <<>>)
    BY <1>1, <2>1, <2>2
  <2>12. Scheduler!InHands(d)'
    <3>1. v4[d] \in Nat /\ v4[d] <= v1
      BY <1>1 DEF Scheduler!InHands
    <3>2. \A k \in DOMAIN s : deadline[s[k]] > v4[d]
      BY <2>3, <2>5
    <3>3. \A k, l \in DOMAIN s : k < l => Scheduler!above(s[k], s[l]) /\ s[k] # s[l]
      BY <2>5, <2>7
    <3> QED
      BY <2>2, <2>7, <2>9, <2>10, <2>11, <3>1, <3>2, <3>3 DEF Scheduler!InHands
  <2>13. ASSUME NEW c \in Drainers \ {d} PROVE Scheduler!InHands(c)'
    <3>1. \A j \in Jobs : v2'[j] = c <=> v2[j] = c
      BY <1>2, <2>3, <2>8 DEF Scheduler!Ends
    <3>2. v5'[c] = v5[c] /\ v4'[c] = v4[c] /\ v3'[c] = v3[c] /\ v1' = v1
      BY <1>1, <2>1, <2>2
    <3>3. /\ c \in Drainers /\ Scheduler!InHands(c) /\ v1' \in Nat /\ v1' >= v1
          /\ v3'[c] = "submit" <=> v3[c] = "submit"
      BY <1>1, <3>2
    <3> QED
      BY <1>1, <3>1, <3>2, <3>3, HandsKept
  <2>14. Scheduler!Counted'
    <3>1. \A e \in {"Completed", "Dropped"} :
            {j \in Jobs : v2'[j] = e} = {j \in Jobs : v2[j] = e}
      BY <1>2, <2>3, <2>8 DEF Scheduler!Ends
    <3>2. {j \in Jobs : v2'[j] = "Missed"} = {j \in Jobs : v2[j] = "Missed"} \cup late
      BY <1>2, <2>3, <2>8 DEF Scheduler!Ends
    <3>3. {j \in Jobs : v2[j] = "Missed"} \cap late = {}
      BY <2>3
    <3>4. Scheduler!Held("Missed")' = Scheduler!Held("Missed") + Cardinality(late)
      <4> DEFINE before == {j \in Jobs : v2[j] = "Missed"}
      <4>1. IsFiniteSet(before) /\ Scheduler!Held("Missed") = Cardinality(before)
        BY SchedulerHeld
      <4>2. Scheduler!Held("Missed")' = Cardinality(before \cup late)
        BY <3>2, SchedulerCounts DEF Scheduler!Held
      <4> HIDE DEF before
      <4>3. Cardinality(before) \in Nat /\ Cardinality(late) \in Nat
        BY <2>4, <4>1, FS_CardinalityType
      <4>4. before \cap late = {} /\ Cardinality({}) = 0
        BY <3>3, FS_EmptySet DEF before
      <4>5. Cardinality(before \cup late)
              = Cardinality(before) + Cardinality(late) - Cardinality(before \cap late)
        BY <2>4, <4>1, FS_Union
      <4>6. Cardinality(before \cap late) = 0
        BY <4>4
      <4> QED
        BY <4>1, <4>2, <4>3, <4>5, <4>6
    <3>5. \A e \in {"Completed", "Dropped"} : Scheduler!Held(e)' = Scheduler!Held(e)
      BY <3>1 DEF Scheduler!Held
    <3>6. Cardinality(late) \in Nat /\ v6' = [v6 EXCEPT !.miss = @ + Cardinality(late)]
      BY <2>2, <2>4, SchedulerCounts, FS_CardinalityType
    <3>7. /\ v6 \in [miss : Nat, completed : Nat, dropped : Nat]
          /\ Scheduler!Held("Missed") = v6.miss
          /\ Scheduler!Held("Completed") = v6.completed
          /\ Scheduler!Held("Dropped") = v6.dropped
      BY <1>1 DEF Scheduler!Counted
    <3>8. /\ v6' \in [miss : Nat, completed : Nat, dropped : Nat]
          /\ v6'.miss = v6.miss + Cardinality(late)
          /\ v6'.completed = v6.completed /\ v6'.dropped = v6.dropped
      BY <3>6, <3>7
    <3> QED
      BY <3>4, <3>5, <3>7, <3>8 DEF Scheduler!Counted
  <2>15. /\ v3' \in [Drainers -> {"idle", "lock", "submit", "gone"}]
         /\ v5' \in [Drainers -> Seq(Jobs)]
    BY <1>1, <2>1, <2>2, <2>7
  <2>16. v2' \in [Jobs -> Places]
    BY <1>1, <2>2 DEF Scheduler!Ends
  <2>17. \A j \in Jobs : v2'[j] = "Missed" => deadline[j] <= v1'
    <3>1. v4[d] \in Nat /\ v4[d] <= v1 /\ \A j \in Jobs : deadline[j] \in Nat
      BY <1>1 DEF Scheduler!InHands, Scheduler!SchedulerAssumption
    <3> QED
      BY <1>1, <1>2, <2>2, <2>3, <2>8, <3>1 DEF Scheduler!Ends
  <2> QED
    BY <1>1, <2>2, <2>12, <2>13, <2>14, <2>15, <2>16, <2>17 DEF Scheduler!IInv
<1>6. ASSUME NEW d \in Drainers, Scheduler!Answer(d) PROVE Scheduler!IInv'
  <2> DEFINE s == v5[d]
             j == Head(v5[d])
  <2>1. /\ v3[d] = "submit" /\ v5' = [v5 EXCEPT ![d] = Tail(s)]
        /\ v3' = [v3 EXCEPT ![d] = IF v5'[d] = <<>> THEN "idle" ELSE "submit"]
        /\ v1' = v1 /\ v4' = v4
    BY <1>6 DEF Scheduler!Answer
  <2>2. \/ /\ v2' = [v2 EXCEPT ![j] = "Completed"]
           /\ v6' = [v6 EXCEPT !["completed"] = @ + 1]
        \/ /\ v2' = [v2 EXCEPT ![j] = "Dropped"]
           /\ v6' = [v6 EXCEPT !["dropped"] = @ + 1]
    BY <1>6 DEF Scheduler!Answer, Scheduler!counted
  <2>3. PICK e \in {"Completed", "Dropped"} : v2' = [v2 EXCEPT ![j] = e]
    BY <2>2
  <2>4. s \in Seq(Jobs) /\ s # <<>>
    BY <1>1, <2>1 DEF Scheduler!InHands
  <2> HIDE DEF s
  <2>5. /\ Len(s) \in Nat \ {0} /\ DOMAIN s = 1 .. Len(s) /\ Head(s) = s[1]
        /\ Tail(s) \in Seq(Jobs) /\ Len(Tail(s)) = Len(s) - 1
        /\ DOMAIN Tail(s) = 1 .. Len(Tail(s))
        /\ \A k \in 1 .. Len(Tail(s)) : Tail(s)[k] = s[k + 1]
    <3>1. Len(s) \in Nat \ {0} /\ Head(s) = s[1] /\ DOMAIN s = 1 .. Len(s)
      BY <2>4, EmptySeq, LenProperties
    <3>2. /\ Tail(s) \in Seq(Jobs) /\ Len(Tail(s)) = Len(s) - 1
          /\ \A k \in 1 .. Len(Tail(s)) : Tail(s)[k] = s[k + 1]
      BY <2>4, HeadTailProperties
    <3>3. DOMAIN Tail(s) = 1 .. Len(Tail(s))
      BY <3>2, LenProperties
    <3> QED
      BY <3>1, <3>2, <3>3
  <2>6. /\ Scheduler!ToSet(s) = {i \in Jobs : v2[i] = d}
        /\ \A k, l \in DOMAIN s : k < l => Scheduler!above(s[k], s[l]) /\ s[k] # s[l]
        /\ \A k \in DOMAIN s : deadline[s[k]] > v4[d]
        /\ v4[d] \in Nat /\ v4[d] <= v1
    BY <1>1 DEF Scheduler!InHands, s
  <2>7. j = s[1] /\ j \in Jobs /\ v2[j] = d
    <3>1. j = s[1]
      BY <2>5 DEF s
    <3>2. s[1] \in Scheduler!ToSet(s)
      BY <2>5 DEF Scheduler!ToSet
    <3> QED
      BY <2>6, <3>1, <3>2
  <2> HIDE DEF j
  <2>8. \A i \in Jobs : v2'[i] = IF i = j THEN e ELSE v2[i]
    BY <1>1, <2>3, <2>7
  <2>9. Scheduler!ToSet(Tail(s)) = Scheduler!ToSet(s) \ {j}
    <3>1. ASSUME NEW k \in DOMAIN s, s[k] # j PROVE \E l \in DOMAIN Tail(s) : Tail(s)[l] = s[k]
      <4>1. k - 1 \in 1 .. Len(Tail(s)) /\ (k - 1) + 1 = k
        BY <2>5, <2>7, <3>1
      <4> QED
        BY <2>5, <4>1
    <3>2. ASSUME NEW k \in DOMAIN Tail(s)
          PROVE  (\E l \in DOMAIN s : Tail(s)[k] = s[l]) /\ Tail(s)[k] # j
      <4>1. k + 1 \in DOMAIN s /\ 1 \in DOMAIN s /\ 1 < k + 1 /\ Tail(s)[k] = s[k + 1]
        BY <2>5
      <4> QED
        BY <2>6, <2>7, <4>1
    <3> QED
      BY <3>1, <3>2 DEF Scheduler!ToSet
  <2>10. {i \in Jobs : v2'[i] = d} = {i \in Jobs : v2[i] = d} \ {j}
    BY <1>2, <2>3, <2>7, <2>8 DEF Scheduler!Ends
  <2>11. v5'[d] = Tail(s) /\ v4'[d] = v4[d] /\ (v3'[d] = "submit" <=> Tail(s) # <<>>)
    BY <1>1, <2>1
  <2>12. \A k, l \in DOMAIN Tail(s) :
           k < l => Scheduler!above(Tail(s)[k], Tail(s)[l]) /\ Tail(s)[k] # Tail(s)[l]
    <3> TAKE k, l \in DOMAIN Tail(s)
    <3>1. /\ k + 1 \in DOMAIN s /\ l + 1 \in DOMAIN s /\ (k < l => k + 1 < l + 1)
          /\ Tail(s)[k] = s[k + 1] /\ Tail(s)[l] = s[l + 1]
      BY <2>5
    <3> QED
      BY <2>6, <3>1
  <2>13. \A k \in DOMAIN Tail(s) : deadline[Tail(s)[k]] > v4[d]
    <3> TAKE k \in DOMAIN Tail(s)
    <3>1. k + 1 \in DOMAIN s /\ Tail(s)[k] = s[k + 1]
      BY <2>5
    <3> QED
      BY <2>6, <3>1
  <2>14. Scheduler!InHands(d)'
    <3>1. Scheduler!ToSet(v5'[d]) = {i \in Jobs : v2'[i] = d}
      BY <2>6, <2>9, <2>10, <2>11
    <3>2. v5'[d] \in Seq(Jobs) /\ v1' = v1
      BY <2>1, <2>5, <2>11
    <3> QED
      BY <2>6, <2>11, <2>12, <2>13, <3>1, <3>2 DEF Scheduler!InHands
  <2>15. ASSUME NEW b \in Drainers \ {d} PROVE Scheduler!InHands(b)'
    <3>1. \A i \in Jobs : v2'[i] = b <=> v2[i] = b
      BY <1>2, <2>3, <2>7, <2>8 DEF Scheduler!Ends
    <3>2. v5'[b] = v5[b] /\ v4'[b] = v4[b] /\ v3'[b] = v3[b] /\ v1' = v1
      BY <1>1, <2>1
    <3>3. /\ b \in Drainers /\ Scheduler!InHands(b) /\ v1' \in Nat /\ v1' >= v1
          /\ v3'[b] = "submit" <=> v3[b] = "submit"
      BY <1>1, <3>2
    <3> QED
      BY <1>1, <3>1, <3>2, <3>3, HandsKept
  <2>16. Scheduler!Counted'
    <3>1. v2[j] \notin Scheduler!Ends /\ DOMAIN v2 = Jobs
      BY <1>1, <1>2, <2>7
    <3> QED
      BY <1>1, <2>2, <2>7, <3>1, AnswerCounts
  <2>17. /\ v3' \in [Drainers -> {"idle", "lock", "submit", "gone"}]
         /\ v5' \in [Drainers -> Seq(Jobs)] /\ v2' \in [Jobs -> Places]
    BY <1>1, <2>1, <2>3, <2>5 DEF Scheduler!Ends
  <2>18. \A i \in Jobs : v2'[i] = "Missed" => deadline[i] <= v1'
    BY <1>1, <2>1, <2>3, <2>8
  <2> QED
    BY <1>1, <2>1, <2>14, <2>15, <2>16, <2>17, <2>18 DEF Scheduler!IInv
<1>7. ASSUME NEW d \in Drainers, Scheduler!Abort(d) PROVE Scheduler!IInv'
  <2>1. /\ v3' = [v3 EXCEPT ![d] = "gone"]
        /\ v2' = [j \in Jobs |-> IF v2[j] = d THEN "lost" ELSE v2[j]]
        /\ v5' = [v5 EXCEPT ![d] = <<>>] /\ v1' = v1 /\ v4' = v4 /\ v6' = v6
    BY <1>7 DEF Scheduler!Abort
  <2>2. \A j \in Jobs : v2'[j] = IF v2[j] = d THEN "lost" ELSE v2[j]
    BY <2>1
  <2>3. ASSUME NEW c \in Drainers \ {d} PROVE Scheduler!InHands(c)'
    <3>1. \A j \in Jobs : v2'[j] = c <=> v2[j] = c
      BY <1>2, <2>2
    <3> QED
      BY <1>1, <2>1, <3>1, HandsKept
  <2>4. v5'[d] = <<>> /\ v4'[d] = v4[d] /\ v3'[d] = "gone"
    BY <1>1, <2>1
  <2>5. {j \in Jobs : v2'[j] = d} = {}
    BY <1>2, <2>2
  <2>6. v4[d] \in Nat /\ v4[d] <= v1
    BY <1>1 DEF Scheduler!InHands
  <2>7. Scheduler!InHands(d)'
    <3>1. Scheduler!ToSet(v5'[d]) = {j \in Jobs : v2'[j] = d}
      BY <2>4, <2>5 DEF Scheduler!ToSet
    <3>2. v5'[d] \in Seq(Jobs) /\ DOMAIN v5'[d] = {}
      BY <2>4
    <3> QED
      BY <2>1, <2>4, <2>6, <3>1, <3>2 DEF Scheduler!InHands
  <2>8. Scheduler!Counted'
    <3>1. \A j \in Jobs : \A e \in Scheduler!Ends : v2'[j] = e <=> v2[j] = e
      BY <1>2, <2>2 DEF Scheduler!Ends
    <3> QED
      BY <1>1, <2>1, <3>1, CountsKept
  <2>9. /\ v3' \in [Drainers -> {"idle", "lock", "submit", "gone"}]
        /\ v5' \in [Drainers -> Seq(Jobs)] /\ v2' \in [Jobs -> Places]
    BY <1>1, <2>1
  <2>10. \A i \in Jobs : v2'[i] = "Missed" => deadline[i] <= v1'
    BY <1>1, <2>1, <2>2
  <2> QED
    BY <1>1, <2>1, <2>3, <2>7, <2>8, <2>9, <2>10 DEF Scheduler!IInv
<1>8. ASSUME Scheduler!Tick PROVE Scheduler!IInv'
  <2>1. v1' = v1 + 1 /\ v2' = v2 /\ v3' = v3 /\ v4' = v4 /\ v5' = v5 /\ v6' = v6
    BY <1>8 DEF Scheduler!Tick
  <2>2. \A d \in Drainers : Scheduler!InHands(d)'
    BY <1>1, <2>1, HandsKept
  <2>3. Scheduler!Counted'
    BY <1>1, <2>1, CountsKept
  <2>4. \A i \in Jobs : v2'[i] = "Missed" => deadline[i] <= v1'
    BY <1>1, <2>1 DEF Scheduler!SchedulerAssumption
  <2> QED
    BY <1>1, <2>1, <2>2, <2>3, <2>4 DEF Scheduler!IInv
<1>9. CASE UNCHANGED Scheduler!vars
  <2>1. v1' = v1 /\ v2' = v2 /\ v3' = v3 /\ v4' = v4 /\ v5' = v5 /\ v6' = v6
    BY <1>9 DEF Scheduler!vars
  <2>2. \A d \in Drainers : Scheduler!InHands(d)'
    BY <1>1, <2>1, HandsKept
  <2>3. Scheduler!Counted'
    BY <1>1, <2>1, CountsKept
  <2> QED
    BY <1>1, <2>1, <2>2, <2>3 DEF Scheduler!IInv
<1> QED
  BY <1>3, <1>4, <1>5, <1>6, <1>7, <1>8, <1>9 DEF Scheduler!Next
LEMMA SchedulerInit ==
  ASSUME Scheduler!SchedulerAssumption, Scheduler!Init
  PROVE  Scheduler!IInv
<1>1. /\ v1 = 0 /\ v2 = [j \in Jobs |-> "new"] /\ v3 = [d \in Drainers |-> "idle"]
      /\ v4 = [d \in Drainers |-> 0] /\ v5 = [d \in Drainers |-> <<>>]
      /\ v6 = [miss |-> 0, completed |-> 0, dropped |-> 0]
  BY DEF Scheduler!Init
<1>2. \A d \in Drainers : {j \in Jobs : v2[j] = d} = {} /\ Scheduler!ToSet(v5[d]) = {}
  BY <1>1 DEF Scheduler!SchedulerAssumption, Scheduler!ToSet
<1>3. \A d \in Drainers : v5[d] = <<>> /\ DOMAIN v5[d] = {} /\ v5[d] \in Seq(Jobs)
  BY <1>1
<1>4. \A d \in Drainers : v3[d] = "idle" /\ v4[d] = 0
  BY <1>1
<1>5. \A d \in Drainers : Scheduler!InHands(d)
  BY <1>1, <1>2, <1>3, <1>4 DEF Scheduler!InHands
<1>6. ASSUME NEW e \in Scheduler!Ends PROVE Scheduler!Held(e) = 0
  <2>1. {j \in Jobs : v2[j] = e} = {}
    BY <1>1 DEF Scheduler!Ends
  <2> QED
    BY <2>1, SchedulerCounts, FS_EmptySet DEF Scheduler!Held
<1>7. Scheduler!Counted
  BY <1>1, <1>6 DEF Scheduler!Counted, Scheduler!Ends
<1>8. /\ v1 \in Nat /\ v3 \in [Drainers -> {"idle", "lock", "submit", "gone"}]
      /\ v2 \in [Jobs -> {"new", "queued", "lost"} \cup Scheduler!Ends \cup Drainers]
      /\ v5 \in [Drainers -> Seq(Jobs)] /\ v4 \in [Drainers -> Nat]
      /\ \A j \in Jobs : v2[j] = "Missed" => deadline[j] <= v1
  BY <1>1
<1> QED
  BY <1>5, <1>7, <1>8 DEF Scheduler!IInv

LEMMA SchedulerKeeps ==
  ASSUME Scheduler!SchedulerAssumption, Scheduler!IInv
  PROVE  Scheduler!DeadlinesKept
<1>1. ASSUME NEW d \in Drainers
      PROVE  /\ Scheduler!ToSet(v5[d]) = {j \in Jobs : v2[j] = d}
             /\ \A k \in DOMAIN v5[d] :
                  /\ Scheduler!above(Head(v5[d]), v5[d][k])
                  /\ deadline[v5[d][k]] > v4[d]
  <2> DEFINE s == v5[d]
  <2>1. /\ s \in Seq(Jobs) /\ Scheduler!ToSet(s) = {j \in Jobs : v2[j] = d}
        /\ \A k, l \in DOMAIN s : k < l => Scheduler!above(s[k], s[l])
        /\ \A k \in DOMAIN s : deadline[s[k]] > v4[d]
    BY DEF Scheduler!IInv, Scheduler!InHands
  <2> HIDE DEF s
  <2>2. ASSUME NEW k \in DOMAIN s PROVE Scheduler!above(Head(s), s[k])
    <3>1. Len(s) \in Nat /\ DOMAIN s = 1 .. Len(s) /\ k \in 1 .. Len(s)
      BY <2>1, <2>2, LenProperties
    <3>2. Head(s) = s[1] /\ 1 \in DOMAIN s
      BY <2>1, <3>1
    <3>3. CASE k = 1
      <4>1. s[1] \in Jobs
        BY <2>1, <3>1, <3>2, ElementOfSeq
      <4>2. deadline[s[1]] \in Nat /\ priority[s[1]] \in Nat
        BY <4>1 DEF Scheduler!SchedulerAssumption
      <4> QED
        BY <3>2, <3>3, <4>2 DEF Scheduler!above
    <3>4. CASE k # 1
      BY <2>1, <3>1, <3>2, <3>4
    <3> QED
      BY <3>3, <3>4
  <2> QED
    BY <2>1, <2>2 DEF s
<1> QED
  BY <1>1 DEF Scheduler!DeadlinesKept, Scheduler!IInv, Scheduler!Counted

LEMMA OverridesMeet ==
  ASSUME Cluster!OverrideInv
  PROVE  Cluster!OverridesAgree
BY DEF Cluster!OverridesAgree, Cluster!OverrideInv, Cluster!Coming

LEMMA RoleKept ==
  ASSUME Cluster!ElectionInv
  PROVE  Cluster!RoleHeld
BY DEF Cluster!ElectionInv, Cluster!RoleHeld

(* The deadline scheduler, whatever drains overlap and are dropped, loses no  *)
(* job but with its drain and counts each once; whatever overrides overlap    *)
(* and are lost, a node that has not overwritten the last one with its own or *)
(* missed it comes to it; and whatever elections are repeated, refreshes fail *)
(* and nodes crash, who takes itself for the primary holds the key until a    *)
(* refresh is late by the time to live less the interval.                     *)
THEOREM WrappersAlwaysSound == FaultsSpec => []WrappersSound
<1> DEFINE Inv == /\ part = "deadlines" => Scheduler!IInv
                  /\ part = "overrides" => Cluster!OverrideInv
                  /\ part = "election" => Cluster!ElectionInv
<1> USE FaultsAssumption
<1>1. FaultsInit => Inv
  <2>1. ASSUME Cluster!Init PROVE Cluster!OverrideInv
    <3>1. /\ v6 = [n \in Nodes |-> Cluster!None] /\ v7 = [n \in Nodes |-> <<>>]
          /\ v8 = [n \in Nodes |-> <<>>] /\ v9 = {} /\ v10 = <<>>
      BY <2>1 DEF Cluster!Init
    <3>2. /\ v6 \in [Nodes -> Strategies \cup {Cluster!None}]
          /\ v7 \in [Nodes -> Seq(Strategies \cup {Cluster!None})]
          /\ v8 \in [Nodes -> {<<>>} \cup {<<s>> : s \in Strategies \cup {Cluster!None}}]
          /\ v9 \subseteq Nodes /\ v10 \in Seq(Strategies \cup {Cluster!None})
      <4> DEFINE Values == Strategies \cup {Cluster!None}
                 Published == {<<s>> : s \in Values}
      <4>1. v6 \in [Nodes -> Values] /\ v9 \subseteq Nodes
        BY <3>1
      <4> HIDE DEF Values
      <4>2. v7 \in [Nodes -> Seq(Values)] /\ v10 \in Seq(Values)
        BY <3>1
      <4> HIDE DEF Published
      <4>3. v8 \in [Nodes -> {<<>>} \cup Published]
        BY <3>1
      <4> QED
        BY <4>1, <4>2, <4>3 DEF Values, Published
    <3>3. /\ Cluster!Last = Cluster!None
          /\ \A n \in Nodes : v7[n] = <<>> /\ Cluster!Coming(n) = Cluster!None /\ v8[n] = <<>>
      BY <3>1 DEF Cluster!Coming, Cluster!Last
    <3> QED
      BY <3>2, <3>3 DEF Cluster!OverrideInv
  <2>2. ASSUME Cluster!Init PROVE Cluster!ElectionInv
    <3>1. v3 \in [Nodes -> BOOLEAN] /\ \A n \in Nodes : ~v3[n]
      BY <2>2, Zenon DEF Cluster!Init
    <3>2. /\ v1 = Cluster!Nobody /\ v2 = 0
          /\ v4 = [n \in Nodes |-> [t \in Cluster!Tasks |-> Cluster!Off]]
      BY <2>2 DEF Cluster!Init
    <3>3. Cluster!Off \in Cluster!TooLate .. Cluster!Off
      BY DEF Cluster!RouterAssumption, Cluster!TooLate, Cluster!Off
    <3>4. v4 \in [Nodes -> [Cluster!Tasks -> Cluster!TooLate .. Cluster!Off]]
      BY <3>2, <3>3
    <3> QED
      BY <3>1, <3>2, <3>4 DEF Cluster!ElectionInv
  <2> QED
    BY <2>1, <2>2, SchedulerInit DEF FaultsInit, OtherInit
<1>2. Inv /\ [FaultsNext]_allVars => Inv'
  BY OnePartMoves, SchedulerStep, OverrideStep, ElectionStep
<1>3. Inv => WrappersSound
  BY SchedulerKeeps, OverridesMeet, RoleKept DEF WrappersSound
<1> QED
  BY <1>1, <1>2, <1>3, PTL DEF FaultsSpec
-----------------------------------------------------------------------------
(* Streams.                                                                   *)

LEMMA CeilPositive ==
  ASSUME NEW a \in Nat \ {0}, NEW b \in Nat \ {0}
  PROVE  Streams!ceil(a, b) \in Nat \ {0}
<1> DEFINE n == a + b - 1
<1>1. n \in Nat /\ n >= b
  OBVIOUS
<1> HIDE DEF n
<1>2. n \div b \in Int /\ n % b \in 0 .. b - 1 /\ n = b * (n \div b) + (n % b)
  BY <1>1
<1> DEFINE q == n \div b
           rest == n % b
<1> HIDE DEF q, rest
<1>3. q \in Int /\ rest \in 0 .. b - 1 /\ n = b * q + rest
  BY <1>2 DEF q, rest
<1>4. q \in Nat \ {0}
  <2> SUFFICES ASSUME q <= 0 PROVE FALSE
    BY <1>3
  <2>1. b * q <= 0
    BY <1>3
  <2> QED
    BY <1>1, <1>3, <2>1
<1> QED
  BY <1>4 DEF Streams!ceil, n, q

LEMMA ChunksPositive ==
  ASSUME Streams!StreamAssumption, NEW n \in Nat
  PROVE  Streams!chunks(n) \in Nat \ {0}
<1>1. CASE n = 0 \/ chunks_per_job = 0
  BY <1>1 DEF Streams!chunks
<1>2. CASE n # 0 /\ chunks_per_job # 0
  <2>1. chunks_per_job \in Nat \ {0}
    BY <1>2 DEF Streams!StreamAssumption
  <2>2. Streams!ceil(n, chunks_per_job) \in Nat \ {0}
    BY <1>2, <2>1, CeilPositive
  <2>3. Streams!chunks(n) = Streams!ceil(n, Streams!ceil(n, chunks_per_job))
    BY <1>2, <2>2 DEF Streams!chunks
  <2> QED
    BY <1>2, <2>2, <2>3, CeilPositive
<1> QED
  BY <1>1, <1>2

LEMMA StreamStep ==
  ASSUME Streams!StreamAssumption, Streams!IInv, [Streams!Next]_(Streams!vars)
  PROVE  Streams!IInv'
<1> DEFINE Readers == Streams!Readers
           Statuses == {"none", "reading", "ok", "lagged", "closed"}
<1>1. /\ v1 \in [streams_Jobs -> {"new", "running", "emit", "remove", "done"}]
      /\ v2 \in [Streams!Ids -> streams_Jobs \cup {Streams!Nobody}]
      /\ v3 \in [streams_Jobs -> Nat] /\ v4 \in [streams_Jobs -> Nat]
      /\ v5 \in [Readers -> streams_Jobs \cup {Streams!Nobody}] /\ v7 \in [Readers -> Nat]
      /\ v8 \in [Readers -> Statuses] /\ v6 \in [Readers -> Nat]
      /\ \A j \in streams_Jobs : Streams!TaskInv(j)
      /\ \A r \in Readers : Streams!ReaderInv(r)
  BY DEF Streams!IInv, Streams!TypeOK
<1>2. streams_Jobs \subseteq Readers /\ streams_Jobs \cap Late = {} /\ Late \subseteq Readers
      /\ Streams!Nobody \notin streams_Jobs
  BY DEF Streams!StreamAssumption, Streams!Readers
<1> HIDE DEF Readers
<1>3. ASSUME NEW r \in Readers, NEW j \in streams_Jobs, Streams!Join(r, j),
             r \in streams_Jobs => v4[j] = 0
      PROVE  /\ v5' \in [Readers -> streams_Jobs \cup {Streams!Nobody}] /\ v7' \in [Readers -> Nat]
             /\ v8' \in [Readers -> Statuses] /\ v6' \in [Readers -> Nat]
             /\ v3' = v3 /\ v4' = v4 /\ (\A i \in streams_Jobs : v1[i] = "done" => v1'[i] = "done")
                  => \A q \in Readers : Streams!ReaderInv(q)'
  <2>1. /\ v5' = [v5 EXCEPT ![r] = j] /\ v6' = [v6 EXCEPT ![r] = v4[j]]
        /\ v7' = [v7 EXCEPT ![r] = v4[j]] /\ v8' = [v8 EXCEPT ![r] = "reading"]
    BY <1>3 DEF Streams!Join
  <2>2. /\ v5' \in [Readers -> streams_Jobs \cup {Streams!Nobody}] /\ v7' \in [Readers -> Nat]
        /\ v8' \in [Readers -> Statuses] /\ v6' \in [Readers -> Nat]
    BY <1>1, <2>1
  <2>3. ASSUME v3' = v3, v4' = v4, \A i \in streams_Jobs : v1[i] = "done" => v1'[i] = "done",
               NEW q \in Readers
        PROVE  Streams!ReaderInv(q)'
    <3>1. CASE q = r
      <4>1. v5'[r] = j /\ v6'[r] = v4[j] /\ v7'[r] = v4[j] /\ v8'[r] = "reading"
        BY <1>1, <2>1
      <4>2. v4[j] \in Nat
        BY <1>1
      <4> QED
        BY <1>3, <2>3, <3>1, <4>1, <4>2 DEF Streams!ReaderInv
    <3>2. CASE q # r
      <4>1. v5'[q] = v5[q] /\ v6'[q] = v6[q] /\ v7'[q] = v7[q] /\ v8'[q] = v8[q]
        BY <1>1, <2>1, <3>2
      <4> QED
        BY <1>1, <2>3, <4>1 DEF Streams!ReaderInv
    <3> QED
      BY <3>1, <3>2
  <2> QED
    BY <2>2, <2>3
<1>4. ASSUME NEW j \in streams_Jobs, Streams!submit_streaming(j) PROVE Streams!IInv'
  <2>1. /\ v1[j] = "new" /\ v1' = [v1 EXCEPT ![j] = "running"]
        /\ v2' = [v2 EXCEPT ![JobId[j]] = j] /\ v3' = v3 /\ v4' = v4 /\ Streams!Join(j, j)
    BY <1>4 DEF Streams!submit_streaming
  <2>2. v3[j] = 0 /\ v4[j] = 0
    BY <1>1, <2>1 DEF Streams!TaskInv
  <2>3. \A i \in streams_Jobs : v1[i] = "done" => v1'[i] = "done"
    BY <1>1, <2>1
  <2>4. \A i \in streams_Jobs : Streams!TaskInv(i)'
    <3> TAKE i \in streams_Jobs
    <3>1. CASE i = j
      BY <1>1, <2>1, <2>2, <3>1 DEF Streams!TaskInv
    <3>2. CASE i # j
      BY <1>1, <2>1, <3>2 DEF Streams!TaskInv
    <3> QED
      BY <3>1, <3>2
  <2>5. j \in Readers
    BY <1>2
  <2>6. /\ v1' \in [streams_Jobs -> {"new", "running", "emit", "remove", "done"}]
        /\ v2' \in [Streams!Ids -> streams_Jobs \cup {Streams!Nobody}]
    BY <1>1, <2>1
  <2> QED
    BY <1>1, <1>3, <2>1, <2>2, <2>3, <2>4, <2>5, <2>6
    DEF Streams!IInv, Streams!TypeOK, Readers
<1>5. ASSUME NEW r \in Readers, NEW id \in Streams!Ids, Streams!subscribe(r, id)
      PROVE  Streams!IInv'
  <2> DEFINE j == v2[id]
  <2>1. /\ r \in Late /\ j # Streams!Nobody /\ Streams!Join(r, j)
        /\ v1' = v1 /\ v2' = v2 /\ v3' = v3 /\ v4' = v4
    BY <1>5 DEF Streams!subscribe
  <2>2. j \in streams_Jobs /\ r \notin streams_Jobs
    BY <1>1, <1>2, <2>1
  <2> HIDE DEF j
  <2>3. \A i \in streams_Jobs : Streams!TaskInv(i)'
    BY <1>1, <2>1 DEF Streams!TaskInv
  <2> QED
    BY <1>1, <1>3, <2>1, <2>2, <2>3 DEF Streams!IInv, Streams!TypeOK, Readers
(* A step of a task that sends nothing a reader has had, and changes no total *)
(* but before its first chunk.                                                *)
<1>6. ASSUME NEW j \in streams_Jobs, v5' = v5, v6' = v6, v7' = v7, v8' = v8,
             v1' \in [streams_Jobs -> {"new", "running", "emit", "remove", "done"}],
             v2' \in [Streams!Ids -> streams_Jobs \cup {Streams!Nobody}],
             v3' \in [streams_Jobs -> Nat], v4' \in [streams_Jobs -> Nat],
             \A i \in streams_Jobs \ {j} : v1'[i] = v1[i] /\ v3'[i] = v3[i] /\ v4'[i] = v4[i],
             v1[j] # "done", v4'[j] >= v4[j], v4[j] = 0 \/ v3'[j] = v3[j],
             Streams!TaskInv(j)'
      PROVE  Streams!IInv'
  <2>1. \A i \in streams_Jobs : Streams!TaskInv(i)'
    <3> TAKE i \in streams_Jobs
    <3>1. CASE i = j
      BY <1>6, <3>1
    <3>2. CASE i # j
      BY <1>1, <1>6, <3>2 DEF Streams!TaskInv
    <3> QED
      BY <3>1, <3>2
  <2>2. ASSUME NEW r \in Readers PROVE Streams!ReaderInv(r)'
    <3>1. CASE v5[r] = j
      <4>1. v6[r] \in Nat /\ v7[r] \in Nat /\ v4[j] \in Nat /\ v3[j] \in Nat /\ v4'[j] \in Nat
            /\ v3'[j] \in Nat
        BY <1>1, <1>6
      <4>2. CASE v8[r] = "none"
        BY <1>6, <4>2 DEF Streams!ReaderInv
      <4>3. CASE v8[r] # "none"
        <5>1. /\ v6[r] <= v7[r] /\ v7[r] <= v4[j]
              /\ r \in streams_Jobs => v6[r] = 0
              /\ v8[r] = "reading" /\ v6[r] < v7[r] => v7[r] <= v3[j]
              /\ v8[r] = "ok" => v7[r] = v3[j] + 1
              /\ v8[r] # "closed"
          BY <1>1, <1>6, <3>1, <4>3 DEF Streams!ReaderInv
        <5>2. /\ v8[r] = "reading" /\ v6[r] < v7[r] => v7[r] <= v3'[j]
              /\ v8[r] = "ok" => v7[r] = v3'[j] + 1
              /\ v7[r] <= v4'[j]
          BY <1>6, <4>1, <5>1
        <5> QED
          BY <1>6, <3>1, <5>1, <5>2 DEF Streams!ReaderInv
      <4> QED
        BY <4>2, <4>3
    <3>2. CASE v5[r] # j
      BY <1>1, <1>6, <3>2 DEF Streams!ReaderInv
    <3> QED
      BY <3>1, <3>2
  <2> QED
    BY <1>1, <1>6, <2>1, <2>2 DEF Streams!IInv, Streams!TypeOK, Readers
<1>7. ASSUME NEW j \in streams_Jobs, Streams!Return(j) PROVE Streams!IInv'
  <2>1. PICK o \in Outcomes :
          /\ v1' = [v1 EXCEPT ![j] = IF o = -1 THEN "remove" ELSE "emit"]
          /\ v3' = [v3 EXCEPT ![j] = IF o = -1 THEN 0 ELSE Streams!chunks(o)]
    BY <1>7 DEF Streams!Return
  <2>2. v1[j] = "running" /\ v2' = v2 /\ v4' = v4 /\ v5' = v5 /\ v6' = v6 /\ v7' = v7 /\ v8' = v8
    BY <1>7 DEF Streams!Return
  <2>3. v3[j] = 0 /\ v4[j] = 0
    BY <1>1, <2>2 DEF Streams!TaskInv
  <2>4. \/ o = -1 /\ v1'[j] = "remove" /\ v3'[j] = 0
        \/ o # -1 /\ v1'[j] = "emit" /\ v3'[j] \in Nat \ {0}
    <3>1. o # -1 => Streams!chunks(o) \in Nat \ {0}
      BY ChunksPositive DEF Streams!StreamAssumption
    <3> QED
      BY <1>1, <2>1, <3>1
  <2>5. Streams!TaskInv(j)'
    BY <2>2, <2>3, <2>4 DEF Streams!TaskInv
  <2>6. /\ v1' \in [streams_Jobs -> {"new", "running", "emit", "remove", "done"}]
        /\ v3' \in [streams_Jobs -> Nat]
        /\ \A i \in streams_Jobs \ {j} : v1'[i] = v1[i] /\ v3'[i] = v3[i]
    BY <1>1, <2>1, <2>4
  <2> QED
    BY <1>1, <1>6, <2>2, <2>3, <2>5, <2>6
<1>8. ASSUME NEW j \in streams_Jobs, Streams!Send(j) PROVE Streams!IInv'
  <2>1. /\ v1[j] = "emit" /\ v4' = [v4 EXCEPT ![j] = v4[j] + 1]
        /\ v1' = [v1 EXCEPT ![j] = IF v4[j] = v3[j] THEN "remove" ELSE "emit"]
        /\ v2' = v2 /\ v3' = v3 /\ v5' = v5 /\ v6' = v6 /\ v7' = v7 /\ v8' = v8
    BY <1>8 DEF Streams!Send
  <2>2. v3[j] \in Nat \ {0} /\ v4[j] \in Nat /\ v4[j] <= v3[j]
    BY <1>1, <2>1 DEF Streams!TaskInv
  <2>3. v4'[j] = v4[j] + 1 /\ v1'[j] = IF v4[j] = v3[j] THEN "remove" ELSE "emit"
    BY <1>1, <2>1
  <2>4. Streams!TaskInv(j)'
    BY <2>1, <2>2, <2>3 DEF Streams!TaskInv
  <2>5. /\ v1' \in [streams_Jobs -> {"new", "running", "emit", "remove", "done"}]
        /\ v4' \in [streams_Jobs -> Nat]
        /\ \A i \in streams_Jobs \ {j} : v1'[i] = v1[i] /\ v4'[i] = v4[i]
    BY <1>1, <2>1, <2>2
  <2> QED
    BY <1>1, <1>6, <2>1, <2>2, <2>3, <2>4, <2>5
<1>9. ASSUME NEW j \in streams_Jobs, Streams!Finish(j) PROVE Streams!IInv'
  <2>1. /\ v1[j] = "remove" /\ v1' = [v1 EXCEPT ![j] = "done"]
        /\ v2' = [v2 EXCEPT ![JobId[j]] = Streams!Nobody]
        /\ v3' = v3 /\ v4' = v4 /\ v5' = v5 /\ v6' = v6 /\ v7' = v7 /\ v8' = v8
    BY <1>9 DEF Streams!Finish, Streams!RemoveEntry
  <2>2. v1'[j] = "done"
    BY <1>1, <2>1
  <2>3. Streams!TaskInv(j)'
    BY <1>1, <2>1, <2>2 DEF Streams!TaskInv
  <2>4. /\ v1' \in [streams_Jobs -> {"new", "running", "emit", "remove", "done"}]
        /\ v2' \in [Streams!Ids -> streams_Jobs \cup {Streams!Nobody}]
        /\ \A i \in streams_Jobs \ {j} : v1'[i] = v1[i]
    BY <1>1, <2>1
  <2> QED
    BY <1>1, <1>6, <2>1, <2>3, <2>4
<1>10. ASSUME NEW r \in Readers, Streams!Recv(r) PROVE Streams!IInv'
  <2> DEFINE j == v5[r]
  <2>1. /\ v8[r] = "reading" /\ v1' = v1 /\ v2' = v2 /\ v3' = v3 /\ v4' = v4 /\ v5' = v5 /\ v6' = v6
        /\ \/ v8' = [v8 EXCEPT ![r] = "lagged"] /\ v7' = v7
           \/ /\ v4[j] > v7[r] /\ v7' = [v7 EXCEPT ![r] = v7[r] + 1]
              /\ v8' = [v8 EXCEPT ![r] =
                   IF v7[r] = v3[j] /\ v1[j] # "running" THEN "ok" ELSE "reading"]
           \/ /\ v4[j] = v7[r] /\ v1[j] = "done" /\ v7' = v7
              /\ v8' = [v8 EXCEPT ![r] = "closed"]
    BY <1>10 DEF Streams!Recv, Streams!Closed
  <2>2. /\ j \in streams_Jobs /\ v6[r] <= v7[r] /\ v7[r] <= v4[j]
        /\ r \in streams_Jobs => v6[r] = 0
        /\ v6[r] < v7[r] => v7[r] <= v3[j]
    BY <1>1, <2>1 DEF Streams!ReaderInv
  <2>3. v3[j] \in Nat /\ v4[j] \in Nat /\ v6[r] \in Nat /\ v7[r] \in Nat
    BY <1>1, <2>2
  <2>4. /\ v1[j] \in {"new", "running"} => v4[j] = 0
        /\ v4[j] <= v3[j] + 1
        /\ v1[j] = "done" => v3[j] = 0 \/ v4[j] = v3[j] + 1
    <3>1. Streams!TaskInv(j) /\ v1[j] \in {"new", "running", "emit", "remove", "done"}
      BY <1>1, <2>2
    <3> QED
      BY <2>3, <3>1 DEF Streams!TaskInv
  <2>5. \A q \in Readers \ {r} : Streams!ReaderInv(q)'
    <3> TAKE q \in Readers \ {r}
    <3>1. v8'[q] = v8[q] /\ v7'[q] = v7[q]
      BY <1>1, <2>1
    <3> QED
      BY <1>1, <2>1, <3>1 DEF Streams!ReaderInv
  <2>6. \A i \in streams_Jobs : Streams!TaskInv(i)'
    BY <1>1, <2>1 DEF Streams!TaskInv
  <2>7. CASE v8' = [v8 EXCEPT ![r] = "lagged"] /\ v7' = v7
    <3>1. v8'[r] = "lagged" /\ v8' \in [Readers -> Statuses]
      BY <1>1, <2>7
    <3>2. Streams!ReaderInv(r)'
      BY <2>1, <2>2, <2>7, <3>1 DEF Streams!ReaderInv
    <3> QED
      BY <1>1, <2>1, <2>5, <2>6, <2>7, <3>1, <3>2 DEF Streams!IInv, Streams!TypeOK, Readers
  <2>8. CASE /\ v4[j] > v7[r] /\ v7' = [v7 EXCEPT ![r] = v7[r] + 1]
             /\ v8' = [v8 EXCEPT ![r] =
                  IF v7[r] = v3[j] /\ v1[j] # "running" THEN "ok" ELSE "reading"]
    <3>1. /\ v7'[r] = v7[r] + 1 /\ v7' \in [Readers -> Nat] /\ v8' \in [Readers -> Statuses]
          /\ v8'[r] = IF v7[r] = v3[j] THEN "ok" ELSE "reading"
      BY <1>1, <2>3, <2>4, <2>8
    <3>2. v7[r] + 1 <= v4[j] /\ v6[r] <= v7[r] + 1 /\ (v7[r] # v3[j] => v7[r] + 1 <= v3[j])
      BY <2>2, <2>3, <2>4, <2>8
    <3>3. Streams!ReaderInv(r)'
      BY <2>1, <2>2, <3>1, <3>2 DEF Streams!ReaderInv
    <3> QED
      BY <1>1, <2>1, <2>5, <2>6, <3>1, <3>3 DEF Streams!IInv, Streams!TypeOK, Readers
  <2>9. CASE /\ v4[j] = v7[r] /\ v1[j] = "done" /\ v7' = v7
             /\ v8' = [v8 EXCEPT ![r] = "closed"]
    <3>1. v8'[r] = "closed" /\ v8' \in [Readers -> Statuses]
      BY <1>1, <2>9
    <3>2. v3[j] = 0 \/ v6[r] = v3[j] + 1
      BY <2>2, <2>3, <2>4, <2>9
    <3>3. Streams!ReaderInv(r)'
      BY <2>1, <2>2, <2>9, <3>1, <3>2 DEF Streams!ReaderInv
    <3> QED
      BY <1>1, <2>1, <2>5, <2>6, <2>9, <3>1, <3>3 DEF Streams!IInv, Streams!TypeOK, Readers
  <2> QED
    BY <2>1, <2>7, <2>8, <2>9
<1>11. CASE UNCHANGED Streams!vars
  <2>1. /\ v1' = v1 /\ v2' = v2 /\ v3' = v3 /\ v4' = v4 /\ v5' = v5 /\ v6' = v6 /\ v7' = v7
        /\ v8' = v8
    BY <1>11 DEF Streams!vars
  <2> QED
    BY <2>1 DEF Streams!IInv, Streams!TypeOK, Streams!TaskInv, Streams!ReaderInv
<1> QED
  BY <1>4, <1>5, <1>7, <1>8, <1>9, <1>10, <1>11
  DEF Streams!Next, Streams!TaskStep, Readers

(* A stream that ended well is whole for who joined at its start, and only    *)
(* dropped jobs and readers who joined after Done see theirs close without.   *)
THEOREM StreamsAlwaysWhole ==
  FaultsSpec => []StreamsWhole
<1> USE FaultsAssumption
<1> DEFINE Inv == part = "streams" => Streams!IInv
<1>1. FaultsInit => Inv
  <2>1. ASSUME Streams!Init PROVE Streams!IInv
    <3>1. Streams!TypeOK /\ v6 \in [Streams!Readers -> Nat]
      BY <2>1 DEF Streams!Init, Streams!TypeOK
    <3>2. \A j \in streams_Jobs : Streams!TaskInv(j)
      BY <2>1 DEF Streams!Init, Streams!TaskInv
    <3>3. \A r \in Streams!Readers : Streams!ReaderInv(r)
      BY <2>1 DEF Streams!Init, Streams!ReaderInv
    <3> QED
      BY <3>1, <3>2, <3>3 DEF Streams!IInv
  <2> QED
    BY <2>1 DEF FaultsInit, OtherInit
<1>2. Inv /\ [FaultsNext]_allVars => Inv'
  BY OnePartMoves, StreamStep
<1>3. Inv => StreamsWhole
  BY DEF StreamsWhole, Streams!StreamsWhole, Streams!IInv, Streams!ReaderInv
<1> QED
  BY <1>1, <1>2, <1>3, PTL DEF FaultsSpec
-----------------------------------------------------------------------------
(* The response cache.                                                        *)

LEMMA ResponseCounts ==
  /\ \A S : Responses!IsFiniteSet(S) <=> IsFiniteSet(S)
  /\ \A S : Responses!Cardinality(S) = Cardinality(S)
<1>1. \A S : Responses!IsFiniteSet(S) <=> IsFiniteSet(S)
  BY DEF Responses!IsFiniteSet, IsFiniteSet
<1>2. \A S : Responses!Cardinality(S) = Cardinality(S)
  BY DEF Responses!Cardinality, Cardinality
<1> QED
  BY <1>1, <1>2

LEMMA ResponseMax ==
  ASSUME NEW a \in Nat, NEW b \in Nat
  PROVE  Responses!Max({a, b}) \in {a, b} /\ Responses!Max({a, b}) >= a /\ Responses!Max({a, b}) >= b
<1> DEFINE P(x) == \A y \in {a, b} : x >= y
<1>1. \E x \in {a, b} : P(x)
  <2>1. a >= b => P(a)
    OBVIOUS
  <2>2. ~(a >= b) => P(b)
    OBVIOUS
  <2> QED
    BY <2>1, <2>2
<1>2. Responses!Max({a, b}) = CHOOSE x \in {a, b} : P(x)
  BY DEF Responses!Max
<1>3. Responses!Max({a, b}) \in {a, b} /\ P(Responses!Max({a, b}))
  <2> HIDE DEF P
  <2> QED
    BY <1>1, <1>2
<1> QED
  BY <1>3

LEMMA ResponseList ==
  ASSUME NEW S, IsFiniteSet(S)
  PROVE  /\ Responses!SetToSeq(S) \in Seq(S)
         /\ Responses!ToSet(Responses!SetToSeq(S)) = S
<1> DEFINE n == Cardinality(S)
           s == Responses!SetToSeq(S)
           Lists == [1 .. n -> S]
<1>1. \E f \in Lists : Responses!IsInjective(f)
  <2>1. PICK f : f \in Bijection(1 .. n, S)
    BY FS_CardinalityType DEF ExistsBijection
  <2>2. f \in Lists /\ IsInjective(f)
    BY <2>1 DEF Bijection, Injection
  <2>3. Responses!IsInjective(f)
    BY <2>2 DEF Responses!IsInjective, IsInjective
  <2> QED
    BY <2>2, <2>3
<1>2. s = CHOOSE f \in Lists : Responses!IsInjective(f)
  BY ResponseCounts DEF Responses!SetToSeq
<1> HIDE DEF s
<1>3. s \in Lists /\ Responses!IsInjective(s)
  <2> HIDE DEF Lists
  <2> QED
    BY <1>1, <1>2
<1>4. \A k, l \in 1 .. n : k # l => s[k] # s[l]
  BY <1>3 DEF Responses!IsInjective
<1>5. s \in Seq(S) /\ \A x \in S : \E k \in DOMAIN s : s[k] = x
  BY <1>3, <1>4, Enumerates
<1>6. Responses!ToSet(s) = S
  BY <1>3, <1>5 DEF Responses!ToSet
<1> QED
  BY <1>5, <1>6 DEF s

LEMMA RoomSets ==
  ASSUME Responses!CacheAssumption
  PROVE  /\ IsFiniteSet(Responses!present) /\ Cardinality(Responses!present) \in Nat
         /\ IsFiniteSet(Responses!inserting) /\ Cardinality(Responses!inserting) \in Nat
         /\ IsFiniteSet(Responses!expired) /\ IsFiniteSet(Responses!tagged)
<1>1. IsFiniteSet(Responses!Places) /\ IsFiniteSet(cache_Callers)
  BY ResponseCounts DEF Responses!CacheAssumption
<1>2. /\ Responses!present \subseteq Responses!Places /\ Responses!inserting \subseteq cache_Callers
      /\ Responses!expired \subseteq Responses!present
      /\ Responses!tagged \subseteq Responses!present
  BY DEF Responses!present, Responses!inserting, Responses!expired, Responses!tagged
<1>3. IsFiniteSet(Responses!present) /\ IsFiniteSet(Responses!inserting)
  BY <1>1, <1>2, FS_Subset
<1>4. IsFiniteSet(Responses!expired) /\ IsFiniteSet(Responses!tagged)
  BY <1>2, <1>3, FS_Subset
<1> QED
  BY <1>3, <1>4, FS_CardinalityType

(* A bound that falls back to those who race now when all fit again.          *)
FallsBack(r, n, s, k) ==
  \A t : t = (IF s <= n THEN k ELSE Responses!Max({r, k})) =>
    t \in Nat /\ k <= t /\ s <= n + Responses!Max({t, 1}) - 1

LEMMA RacedNumbers ==
  ASSUME NEW r \in Nat, NEW n \in Nat, NEW s \in Nat, NEW k \in Nat,
         s <= n + Responses!Max({r, 1}) - 1 \/ s <= n + k - 1
  PROVE  FallsBack(r, n, s, k)
<1> SUFFICES ASSUME NEW t, t = (IF s <= n THEN k ELSE Responses!Max({r, k}))
             PROVE  t \in Nat /\ k <= t /\ s <= n + Responses!Max({t, 1}) - 1
  BY DEF FallsBack
<1>1. /\ Responses!Max({r, 1}) \in {r, 1}
      /\ Responses!Max({r, k}) \in {r, k} /\ Responses!Max({r, k}) >= r /\ Responses!Max({r, k}) >= k
  BY ResponseMax
<1>2. CASE s <= n
  <2>1. t = k
    BY <1>2
  <2>2. Responses!Max({k, 1}) \in {k, 1} /\ Responses!Max({k, 1}) >= 1
    BY ResponseMax
  <2> QED
    BY <1>2, <2>1, <2>2
<1>3. CASE ~(s <= n)
  <2> DEFINE u == Responses!Max({r, k})
  <2>1. u \in Nat /\ u >= r /\ u >= k /\ (s <= n + r - 1 \/ s <= n + k - 1)
    BY <1>1, <1>3
  <2> HIDE DEF u
  <2>2. Responses!Max({u, 1}) \in {u, 1} /\ Responses!Max({u, 1}) >= u
    BY <2>1, ResponseMax
  <2>3. t = u
    BY <1>3 DEF u
  <2>4. s <= n + Responses!Max({u, 1}) - 1 /\ k <= u
    <3> DEFINE w == Responses!Max({u, 1})
    <3>1. w \in Nat /\ w >= u
      BY <2>1, <2>2
    <3> HIDE DEF w
    <3> QED
      BY <2>1, <3>1 DEF w
  <2> QED
    BY <2>1, <2>3, <2>4
<1> QED
  BY <1>2, <1>3

LEMMA RoomRaced ==
  ASSUME Responses!CacheAssumption, v9 \in Nat, v9' = v9 \/ Responses!Raced,
         NEW q \in Nat, NEW k \in Nat,
         Cardinality(Responses!present') = q, Cardinality(Responses!inserting') = k,
         \/ q + k <= max_size + Responses!Max({v9, 1}) - 1 /\ k <= v9
         \/ Responses!Raced /\ q + k <= max_size + Responses!Max({v9, 1}) - 1
         \/ Responses!Raced /\ q + k <= max_size + k - 1
  PROVE  Responses!RoomInv' /\ v9' \in Nat
<1>0. PICK r, t : r = v9 /\ t = v9'
  OBVIOUS
<1>1. max_size \in Nat /\ r \in Nat /\ q + k \in Nat
  BY <1>0 DEF Responses!CacheAssumption
<1>2. Responses!RoomInv' <=> k <= t /\ q + k <= max_size + Responses!Max({t, 1}) - 1
  BY <1>0, ResponseCounts DEF Responses!RoomInv
<1>3. CASE Responses!Raced
  <2>1. t = (IF q + k <= max_size THEN k ELSE Responses!Max({r, k}))
    BY <1>0, <1>3, ResponseCounts DEF Responses!Raced, Responses!Fits
  <2>2. q + k <= max_size + Responses!Max({r, 1}) - 1 \/ q + k <= max_size + k - 1
    BY <1>0
  <2> DEFINE s == q + k
  <2>3. s \in Nat /\ (s <= max_size + Responses!Max({r, 1}) - 1 \/ s <= max_size + k - 1)
    BY <1>1, <2>2
  <2>4. t = (IF s <= max_size THEN k ELSE Responses!Max({r, k}))
    BY <2>1
  <2> HIDE DEF s
  <2>5. t \in Nat /\ k <= t /\ s <= max_size + Responses!Max({t, 1}) - 1
    <3>1. FallsBack(r, max_size, s, k)
      <4>1. max_size \in Nat /\ r \in Nat /\ k \in Nat /\ s \in Nat
        BY <1>1, <2>3
      <4>2. CASE s <= max_size + Responses!Max({r, 1}) - 1
        BY <4>1, <4>2, RacedNumbers
      <4>3. CASE s <= max_size + k - 1
        BY <4>1, <4>3, RacedNumbers
      <4> QED
        BY <2>3, <4>2, <4>3
    <3> QED
      BY <2>4, <3>1 DEF FallsBack
  <2> QED
    BY <1>0, <1>2, <2>5 DEF s
<1>4. CASE ~Responses!Raced
  <2>1. t = r
    BY <1>0, <1>4
  <2>2. q + k <= max_size + Responses!Max({r, 1}) - 1 /\ k <= r
    BY <1>0, <1>4
  <2> QED
    BY <1>0, <1>1, <1>2, <2>1, <2>2
<1> QED
  BY <1>3, <1>4

(* Room is not lost by removals.                                              *)
LEMMA RoomKept ==
  ASSUME Responses!CacheAssumption, Responses!RoomInv, v9' = v9 \/ Responses!Raced,
         Responses!present' \subseteq Responses!present,
         Responses!inserting' \subseteq Responses!inserting, v9 \in Nat
  PROVE  Responses!RoomInv' /\ v9' \in Nat
<1> DEFINE p == Cardinality(Responses!present)
           i == Cardinality(Responses!inserting)
           m == Responses!Max({v9, 1})
<1>1. PICK q, k : q = Cardinality(Responses!present') /\ k = Cardinality(Responses!inserting')
  OBVIOUS
<1>2. p \in Nat /\ q \in Nat /\ i \in Nat /\ k \in Nat /\ q <= p /\ k <= i
  <2>1. IsFiniteSet(Responses!present) /\ IsFiniteSet(Responses!inserting)
    BY RoomSets
  <2>2. q <= p /\ k <= i /\ IsFiniteSet(Responses!present') /\ IsFiniteSet(Responses!inserting')
    BY <1>1, <2>1, FS_Subset
  <2> QED
    BY <1>1, <2>1, <2>2, FS_CardinalityType
<1>3. m \in Nat /\ max_size \in Nat
  BY ResponseMax DEF Responses!CacheAssumption
<1>4. i <= v9 /\ p + i <= max_size + m - 1
  BY ResponseCounts DEF Responses!RoomInv
<1> HIDE DEF p, i
<1>5. q + k <= max_size + m - 1 /\ k <= v9
  <2> HIDE DEF m
  <2> QED
    BY <1>2, <1>3, <1>4
<1>6. q \in Nat /\ k \in Nat
  BY <1>2
<1> QED
  BY <1>1, <1>5, <1>6, RoomRaced

LEMMA RoomTaken ==
  ASSUME Responses!CacheAssumption, v9 \in Nat, NEW c \in cache_Callers, v3[c] # "insert",
         DOMAIN v3 = cache_Callers,
         Responses!HasRoom, Responses!Admitted(c), Responses!present' = Responses!present
  PROVE  Responses!RoomInv' /\ v9' \in Nat
<1> DEFINE p == Cardinality(Responses!present)
           i == Cardinality(Responses!inserting)
<1>0. PICK k : k = Cardinality(Responses!inserting')
  OBVIOUS
<1>1. c \notin Responses!inserting /\ Responses!inserting' = Responses!inserting \cup {c}
  BY DEF Responses!inserting, Responses!Admitted, Responses!Go
<1>2. p \in Nat /\ i \in Nat /\ k = i + 1
  <2>1. IsFiniteSet(Responses!inserting) /\ p \in Nat /\ i \in Nat
    BY RoomSets
  <2> QED
    BY <1>0, <1>1, <2>1, FS_AddElement
<1>3. p < max_size /\ max_size \in Nat
  BY ResponseCounts DEF Responses!HasRoom, Responses!CacheAssumption
<1>4. Responses!Raced /\ Cardinality(Responses!present') = p
  BY DEF Responses!Admitted
<1>5. p + k <= max_size + k - 1 /\ k \in Nat
  <2> HIDE DEF p, i
  <2> QED
    BY <1>2, <1>3
<1> HIDE DEF p, i
<1> QED
  BY <1>0, <1>2, <1>4, <1>5, RoomRaced

LEMMA RoomUsed ==
  ASSUME Responses!CacheAssumption, Responses!RoomInv, Responses!Raced, v9 \in Nat,
         NEW c \in Responses!inserting, Responses!inserting' = Responses!inserting \ {c},
         NEW h, Responses!present' \subseteq Responses!present \cup {h}
  PROVE  Responses!RoomInv' /\ v9' \in Nat
<1> DEFINE p == Cardinality(Responses!present)
           i == Cardinality(Responses!inserting)
           m == Responses!Max({v9, 1})
<1>0. PICK q, k : q = Cardinality(Responses!present') /\ k = Cardinality(Responses!inserting')
  OBVIOUS
<1>1. p \in Nat /\ q \in Nat /\ i \in Nat /\ k = i - 1 /\ q <= p + 1 /\ i >= 1
  <2>1. /\ IsFiniteSet(Responses!present) /\ IsFiniteSet(Responses!inserting)
        /\ p \in Nat /\ i \in Nat
    BY RoomSets
  <2>2. k = i - 1 /\ k \in Nat
    BY <1>0, <2>1, FS_RemoveElement, FS_CardinalityType
  <2>3. /\ IsFiniteSet(Responses!present \cup {h})
        /\ Cardinality(Responses!present \cup {h}) \in {p, p + 1}
    BY <2>1, FS_AddElement
  <2>4. IsFiniteSet(Responses!present') /\ q <= Cardinality(Responses!present \cup {h})
    BY <1>0, <2>3, FS_Subset
  <2>5. q \in Nat
    BY <1>0, <2>4, FS_CardinalityType
  <2> HIDE DEF p, i
  <2> QED
    BY <2>1, <2>2, <2>3, <2>4, <2>5
<1>2. m \in Nat /\ max_size \in Nat
  BY ResponseMax DEF Responses!CacheAssumption
<1>3. i <= v9 /\ p + i <= max_size + m - 1
  BY ResponseCounts DEF Responses!RoomInv
<1> HIDE DEF p, i
<1>4. q + k <= max_size + m - 1 /\ q \in Nat /\ k \in Nat
  <2> HIDE DEF m
  <2> QED
    BY <1>1, <1>2, <1>3
<1> QED
  BY <1>0, <1>4, RoomRaced

LEMMA TailMembers ==
  ASSUME NEW S, NEW s \in Seq(S), s # <<>>
  PROVE  /\ Tail(s) \in Seq(S)
         /\ \A x \in Responses!ToSet(s) : x = Head(s) \/ x \in Responses!ToSet(Tail(s))
<1>1. Len(s) \in Nat \ {0} /\ Head(s) = s[1] /\ DOMAIN s = 1 .. Len(s)
  BY EmptySeq, LenProperties
<1>2. /\ Tail(s) \in Seq(S) /\ Len(Tail(s)) = Len(s) - 1
      /\ \A k \in 1 .. Len(Tail(s)) : Tail(s)[k] = s[k + 1]
  BY HeadTailProperties
<1>3. DOMAIN Tail(s) = 1 .. Len(Tail(s))
  BY <1>2, LenProperties
<1>4. ASSUME NEW k \in DOMAIN s, k # 1 PROVE s[k] \in Responses!ToSet(Tail(s))
  <2>1. k - 1 \in DOMAIN Tail(s) /\ (k - 1) + 1 = k
    BY <1>1, <1>2, <1>3, <1>4
  <2>2. Tail(s)[k - 1] = s[k]
    BY <1>2, <1>3, <2>1
  <2> QED
    BY <2>1, <2>2 DEF Responses!ToSet
<1> QED
  BY <1>1, <1>2, <1>4 DEF Responses!ToSet

(* Places only lose their entries, and what invalidations have yet to remove  *)
(* is still on their lists.                                                   *)
LEMMA SweepKept ==
  ASSUME Responses!SweepInv, v2' = v2, v6' = v6, v10' = v10,
         \A p \in Responses!Places :
           v1'[p] # Responses!None =>
             /\ v1[p] # Responses!None
             /\ v1'[p].stamp = v1[p].stamp /\ v1'[p].tag = v1[p].tag,
         \A c \in cache_Callers : v3'[c] = "invalidate" =>
           /\ v3[c] = "invalidate"
           /\ \A p \in Responses!Places :
                v1'[p] # Responses!None /\ p \in Responses!ToSet(v5[c]) => p \in Responses!ToSet(v5'[c])
  PROVE  Responses!SweepInv'
<1>1. \A p \in Responses!present' : p \in Responses!present /\ v1'[p].stamp = v1[p].stamp
  BY DEF Responses!present
<1>2. \A p \in Responses!tagged' :
        /\ p \in Responses!tagged /\ v1'[p].stamp = v1[p].stamp
        /\ p \in Responses!Places /\ v1'[p] # Responses!None
  BY DEF Responses!present, Responses!tagged
<1>3. /\ \A p \in Responses!present : v1[p].stamp \in 1 .. v2
      /\ \A c \in cache_Callers : v3[c] = "invalidate" =>
           /\ v6[c] <= v2
           /\ \A p \in Responses!tagged : v1[p].stamp <= v6[c] => p \in Responses!ToSet(v5[c])
      /\ v10 <= v2 /\ \A p \in Responses!tagged : v1[p].stamp > v10
  BY DEF Responses!SweepInv
<1>4. \A p \in Responses!present' : v1'[p].stamp \in 1 .. v2'
  BY <1>1, <1>3
<1>5. ASSUME NEW c \in cache_Callers, v3'[c] = "invalidate"
      PROVE  /\ v6'[c] <= v2'
             /\ \A p \in Responses!tagged' : v1'[p].stamp <= v6'[c] => p \in Responses!ToSet(v5'[c])
  BY <1>2, <1>3, <1>5
<1>6. v10' <= v2' /\ \A p \in Responses!tagged' : v1'[p].stamp > v10'
  BY <1>2, <1>3
<1> QED
  BY <1>4, <1>5, <1>6 DEF Responses!SweepInv

(* An insertion comes after every invalidation.                               *)
LEMMA SweepInserted ==
  ASSUME Responses!SweepInv, v2 \in Nat, v2' = v2 + 1, v6' = v6, v10' = v10, v10 \in Nat, v5' = v5,
         v6 \in [cache_Callers -> Nat], NEW h,
         \A p \in Responses!Places \ {h} : v1'[p] = v1[p],
         h \in Responses!Places => v1'[h].stamp = v2 + 1,
         \A c \in cache_Callers : v3'[c] = "invalidate" => v3[c] = "invalidate"
  PROVE  Responses!SweepInv'
<1>1. /\ \A p \in Responses!present : v1[p].stamp \in 1 .. v2
      /\ \A c \in cache_Callers : v3[c] = "invalidate" =>
           /\ v6[c] <= v2
           /\ \A p \in Responses!tagged : v1[p].stamp <= v6[c] => p \in Responses!ToSet(v5[c])
      /\ v10 <= v2 /\ \A p \in Responses!tagged : v1[p].stamp > v10
  BY DEF Responses!SweepInv
<1>2. \A p \in Responses!present' :
        v1'[p].stamp = v2 + 1 \/ (p \in Responses!present /\ v1'[p] = v1[p])
  <2> SUFFICES ASSUME NEW p \in Responses!Places, v1'[p] # Responses!None, p # h
               PROVE  v1[p] # Responses!None /\ v1'[p] = v1[p]
    BY DEF Responses!present
  <2> QED
    OBVIOUS
<1>3. \A p \in Responses!tagged' :
        v1'[p].stamp = v2 + 1 \/ (p \in Responses!tagged /\ v1'[p] = v1[p])
  <2>1. \A p \in Responses!tagged' : p \in Responses!present' /\ v1'[p].tag
    BY DEF Responses!tagged
  <2> QED
    BY <1>2, <2>1 DEF Responses!tagged
<1>4. \A p \in Responses!present' : v1'[p].stamp \in 1 .. v2'
  BY <1>1, <1>2
<1>5. ASSUME NEW c \in cache_Callers, v3'[c] = "invalidate"
      PROVE  /\ v6'[c] <= v2'
             /\ \A p \in Responses!tagged' : v1'[p].stamp <= v6'[c] => p \in Responses!ToSet(v5'[c])
  <2>1. v6[c] \in Nat /\ v6[c] <= v2 /\ ~(v2 + 1 <= v6[c])
    BY <1>1, <1>5
  <2> QED
    BY <1>1, <1>3, <1>5, <2>1
<1>6. v10' <= v2' /\ \A p \in Responses!tagged' : v1'[p].stamp > v10'
  BY <1>1, <1>3
<1> QED
  BY <1>4, <1>5, <1>6 DEF Responses!SweepInv

(* An invalidation begins, and ends.                                          *)
LEMMA SweepBegun ==
  ASSUME Responses!CacheAssumption, Responses!SweepInv, v2 \in Nat, NEW c \in cache_Callers,
         v1' = v1, v2' = v2, v10' = v10,
         v3' = [v3 EXCEPT ![c] = "invalidate"], DOMAIN v3 = cache_Callers,
         v5' = [v5 EXCEPT ![c] = Responses!SetToSeq(Responses!tagged)], DOMAIN v5 = cache_Callers,
         v6' = [v6 EXCEPT ![c] = v2], DOMAIN v6 = cache_Callers
  PROVE  Responses!SweepInv'
<1>1. Responses!present' = Responses!present /\ Responses!tagged' = Responses!tagged
  BY DEF Responses!present, Responses!tagged
<1>2. Responses!ToSet(v5'[c]) = Responses!tagged /\ v6'[c] = v2
  BY RoomSets, ResponseList
<1>3. \A b \in cache_Callers \ {c} : v3'[b] = v3[b] /\ v5'[b] = v5[b] /\ v6'[b] = v6[b]
  OBVIOUS
<1>4. ASSUME NEW b \in cache_Callers, v3'[b] = "invalidate"
      PROVE  /\ v6'[b] <= v2'
             /\ \A p \in Responses!tagged' : v1'[p].stamp <= v6'[b] => p \in Responses!ToSet(v5'[b])
  <2>1. CASE b = c
    BY <1>1, <1>2, <2>1
  <2>2. CASE b # c
    BY <1>1, <1>3, <1>4, <2>2 DEF Responses!SweepInv
  <2> QED
    BY <2>1, <2>2
<1> QED
  BY <1>1, <1>4 DEF Responses!SweepInv

LEMMA SweepEnded ==
  ASSUME Responses!SweepInv, v10 \in Nat, v6 \in [cache_Callers -> Nat], NEW c \in cache_Callers,
         v1' = v1, v2' = v2, v5' = v5, v6' = v6,
         v3[c] = "invalidate", v5[c] = <<>>,
         v3' = [v3 EXCEPT ![c] = "idle"], DOMAIN v3 = cache_Callers,
         v10' = Responses!Max({v10, v6[c]}), \A p \in Responses!present : v1[p].stamp \in Nat
  PROVE  Responses!SweepInv' /\ v10' \in Nat
<1>1. Responses!present' = Responses!present /\ Responses!tagged' = Responses!tagged
  BY DEF Responses!present, Responses!tagged
<1>2. Responses!ToSet(v5[c]) = {}
  BY DEF Responses!ToSet
<1>3. v6[c] \in Nat /\ v10' \in {v10, v6[c]}
  BY ResponseMax
<1>4. \A p \in Responses!tagged : v1[p].stamp \in Nat
  BY DEF Responses!tagged
<1>5. v6[c] <= v2 /\ \A p \in Responses!tagged : ~(v1[p].stamp <= v6[c])
  BY <1>2 DEF Responses!SweepInv
<1>6. v10' <= v2' /\ \A p \in Responses!tagged : v1[p].stamp > v10'
  <2>1. v10 <= v2 /\ \A p \in Responses!tagged : v1[p].stamp > v10
    BY DEF Responses!SweepInv
  <2>2. CASE v10' = v10
    BY <2>1, <2>2
  <2>3. CASE v10' = v6[c]
    <3> SUFFICES ASSUME NEW p \in Responses!tagged PROVE v1[p].stamp > v6[c]
      BY <1>5, <2>3
    <3> QED
      BY <1>3, <1>4, <1>5
  <2> QED
    BY <1>3, <2>2, <2>3
<1>7. \A b \in cache_Callers : v3'[b] = "invalidate" => v3[b] = "invalidate"
  OBVIOUS
<1> QED
  BY <1>1, <1>3, <1>6, <1>7 DEF Responses!SweepInv

LEMMA CacheStep ==
  ASSUME Responses!CacheAssumption, Responses!IInv, [Responses!Next]_(Responses!vars)
  PROVE  Responses!IInv'
<1> DEFINE Pcs == {"idle", "get", "evict", "insert", "invalidate", "sweep"}
           ArgOK(c) == /\ v4[c].key \in Keys \cup {"none"} /\ v4[c].tag \in BOOLEAN
                       /\ v4[c].ttl \in Nat
<1>1. /\ v1 \in [Responses!Places -> Responses!Entries] /\ v2 \in Nat /\ v9 \in Nat /\ v10 \in Nat
      /\ v3 \in [cache_Callers -> Pcs]
      /\ DOMAIN v4 = cache_Callers /\ \A c \in cache_Callers : ArgOK(c)
      /\ v5 \in [cache_Callers -> Seq(Responses!Places)] /\ v6 \in [cache_Callers -> Nat]
      /\ Responses!RoomInv /\ Responses!SweepInv
  BY DEF Responses!IInv
<1>2. ASSUME /\ v1' \in [Responses!Places -> Responses!Entries] /\ v2' \in Nat /\ v9' \in Nat
             /\ v10' \in Nat
             /\ v3' \in [cache_Callers -> Pcs]
             /\ DOMAIN v4' = cache_Callers /\ \A c \in cache_Callers : ArgOK(c)'
             /\ v5' \in [cache_Callers -> Seq(Responses!Places)] /\ v6' \in [cache_Callers -> Nat],
             Responses!RoomInv', Responses!SweepInv'
      PROVE  Responses!IInv'
  BY <1>2 DEF Responses!IInv
<1>3. Responses!None \in Responses!Entries
  BY DEF Responses!None, Responses!Entries
(* What gives no room away: steps on one caller.                              *)
<1>4. ASSUME NEW c \in cache_Callers, NEW to \in Pcs \ {"insert", "invalidate"}, v3[c] # "insert",
             v3' = [v3 EXCEPT ![c] = to], (v1' = v1 \/ \E h : v1' = [v1 EXCEPT ![h] = Responses!None]),
             v2' = v2, v6' = v6, (v9' = v9 \/ Responses!Raced), v10' = v10,
             DOMAIN v4' = cache_Callers,
             \A b \in cache_Callers : ArgOK(b)',
             v5' \in [cache_Callers -> Seq(Responses!Places)],
             \A b \in cache_Callers \ {c} : v5'[b] = v5[b]
      PROVE  Responses!IInv'
  <2>1. /\ v1' \in [Responses!Places -> Responses!Entries]
        /\ \A p \in Responses!Places : v1'[p] = v1[p] \/ v1'[p] = Responses!None
    BY <1>1, <1>3, <1>4
  <2>2. Responses!present' \subseteq Responses!present
    BY <2>1 DEF Responses!present
  <2>3. Responses!inserting' = Responses!inserting
    BY <1>1, <1>4 DEF Responses!inserting
  <2>4. Responses!RoomInv' /\ v9' \in Nat
    BY <1>1, <1>4, <2>2, <2>3, RoomKept
  <2>5. \A b \in cache_Callers : v3'[b] = "invalidate" => v3[b] = "invalidate" /\ v5'[b] = v5[b]
    BY <1>1, <1>4
  <2>6. Responses!SweepInv'
    BY <1>1, <1>4, <2>1, <2>5, SweepKept
  <2>7. v3' \in [cache_Callers -> Pcs]
    BY <1>1, <1>4
  <2> QED
    BY <1>1, <1>2, <1>4, <2>1, <2>4, <2>6, <2>7
<1>5. ASSUME NEW p \in Responses!Places, Responses!Expire(p) PROVE Responses!IInv'
  <2>1. /\ v1[p] # Responses!None /\ v1' = [v1 EXCEPT ![p].ttl = 0]
        /\ v2' = v2 /\ v3' = v3 /\ v4' = v4 /\ v5' = v5 /\ v6' = v6 /\ v9' = v9 /\ v10' = v10
    BY <1>5 DEF Responses!Expire
  <2>2. /\ v1' \in [Responses!Places -> Responses!Entries]
        /\ v1'[p].stamp = v1[p].stamp /\ v1'[p].tag = v1[p].tag
        /\ \A q \in Responses!Places \ {p} : v1'[q] = v1[q]
    <3> DEFINE e == [v1[p] EXCEPT !.ttl = 0]
    <3>1. v1[p] \in Responses!Entries
      BY <1>1
    <3>2. e \in Responses!Entries /\ e.stamp = v1[p].stamp /\ e.tag = v1[p].tag
      BY <3>1 DEF Responses!Entries
    <3>3. v1' = [v1 EXCEPT ![p] = e]
      BY <2>1
    <3> HIDE DEF e
    <3>4. v1'[p] = e /\ \A q \in Responses!Places \ {p} : v1'[q] = v1[q]
      BY <1>1, <3>3
    <3> QED
      BY <1>1, <3>2, <3>3, <3>4
  <2>3. Responses!present' \subseteq Responses!present
    BY <2>1, <2>2 DEF Responses!present
  <2>4. Responses!inserting' = Responses!inserting
    BY <2>1 DEF Responses!inserting
  <2>5. Responses!RoomInv'
    BY <1>1, <2>1, <2>3, <2>4, RoomKept
  <2>6. \A q \in Responses!Places :
          v1'[q] # Responses!None =>
            /\ v1[q] # Responses!None
            /\ v1'[q].stamp = v1[q].stamp /\ v1'[q].tag = v1[q].tag
    BY <2>1, <2>2
  <2>7. \A c \in cache_Callers : v3'[c] = "invalidate" =>
          /\ v3[c] = "invalidate"
          /\ \A q \in Responses!Places :
               v1'[q] # Responses!None /\ q \in Responses!ToSet(v5[c]) => q \in Responses!ToSet(v5'[c])
    BY <2>1
  <2>8. Responses!SweepInv /\ v2' = v2 /\ v6' = v6 /\ v10' = v10
    BY <1>1, <2>1
  <2>9. Responses!SweepInv'
    BY <2>6, <2>7, <2>8, SweepKept
  <2> QED
    BY <1>1, <1>2, <2>1, <2>2, <2>5, <2>9
<1>6. ASSUME NEW c \in cache_Callers, NEW k \in Keys, Responses!get(c, k) PROVE Responses!IInv'
  <2>1. /\ v3[c] = "idle" /\ v1' = v1 /\ v2' = v2 /\ v4' = v4 /\ v6' = v6 /\ v9' = v9 /\ v10' = v10
        /\ \/ v3' = v3 /\ v5' = v5
           \/ v3' = [v3 EXCEPT ![c] = "get"] /\ v5' = [v5 EXCEPT ![c] = <<hash[k]>>]
    BY <1>6 DEF Responses!get, Responses!Starts, Responses!Go
  <2>2. <<hash[k]>> \in Seq(Responses!Places)
    <3>1. hash[k] \in Responses!Places
      BY DEF Responses!Places
    <3> QED
      BY <3>1
  <2>3. v5' \in [cache_Callers -> Seq(Responses!Places)]
    <3> DEFINE one == <<hash[k]>>
    <3>1. v5' = v5 \/ v5' = [v5 EXCEPT ![c] = one]
      BY <2>1
    <3> HIDE DEF one
    <3>2. one \in Seq(Responses!Places)
      BY <2>2 DEF one
    <3> QED
      BY <1>1, <3>1, <3>2
  <2>4. v3' = [v3 EXCEPT ![c] = "idle"] \/ v3' = [v3 EXCEPT ![c] = "get"]
    BY <1>1, <2>1
  <2>5. \A b \in cache_Callers \ {c} : v5'[b] = v5[b]
    BY <1>1, <2>1
  <2> QED
    BY <1>1, <1>4, <2>1, <2>3, <2>4, <2>5
<1>7. ASSUME NEW c \in cache_Callers, Responses!get_Remove(c) PROVE Responses!IInv'
  <2>1. /\ v3[c] = "get" /\ v3' = [v3 EXCEPT ![c] = "idle"]
        /\ v1' = [v1 EXCEPT ![Head(v5[c])] = Responses!None] /\ v5' = [v5 EXCEPT ![c] = <<>>]
        /\ v2' = v2 /\ v4' = v4 /\ v6' = v6 /\ Responses!Raced /\ v10' = v10
    BY <1>7 DEF Responses!get_Remove, Responses!Go
  <2>2. /\ v5' \in [cache_Callers -> Seq(Responses!Places)]
        /\ \A b \in cache_Callers \ {c} : v5'[b] = v5[b]
    BY <1>1, <2>1
  <2> QED
    BY <1>1, <1>4, <2>1, <2>2
<1>8. ASSUME NEW c \in cache_Callers, Responses!HasRoom, Responses!Admitted(c),
             v3[c] \in {"idle", "evict"}, v1' = v1, v2' = v2, v5' = v5, v6' = v6, v10' = v10,
             DOMAIN v4' = cache_Callers, \A b \in cache_Callers : ArgOK(b)'
      PROVE  Responses!IInv'
  <2>1. v3' = [v3 EXCEPT ![c] = "insert"]
    BY <1>8 DEF Responses!Admitted, Responses!Go
  <2>2. Responses!present' = Responses!present
    BY <1>8 DEF Responses!present
  <2>3. Responses!RoomInv' /\ v9' \in Nat
    BY <1>1, <1>8, <2>2, RoomTaken
  <2>4. \A b \in cache_Callers : v3'[b] = "invalidate" => v3[b] = "invalidate"
    BY <1>1, <2>1
  <2>5. Responses!SweepInv'
    BY <1>1, <1>8, <2>4, SweepKept
  <2>6. v3' \in [cache_Callers -> Pcs]
    BY <1>1, <2>1
  <2> QED
    BY <1>1, <1>2, <1>8, <2>3, <2>5, <2>6
<1>9. ASSUME NEW c \in cache_Callers, NEW k \in Keys, NEW tag \in BOOLEAN, NEW ttl \in Ttls,
             Responses!put(c, k, tag, ttl)
      PROVE  Responses!IInv'
  <2>1. /\ v3[c] = "idle" /\ v1' = v1 /\ v2' = v2 /\ v6' = v6 /\ v10' = v10
        /\ v4' = [v4 EXCEPT ![c] = [key |-> k, tag |-> tag, ttl |-> ttl]]
    BY <1>9 DEF Responses!put, Responses!Starts, Responses!Admitted
  <2>2. DOMAIN v4' = cache_Callers /\ \A b \in cache_Callers : ArgOK(b)'
    <3>1. ttl \in Nat
      BY DEF Responses!CacheAssumption
    <3>2. v4'[c] = [key |-> k, tag |-> tag, ttl |-> ttl] /\ DOMAIN v4' = cache_Callers
      BY <1>1, <2>1
    <3>3. \A b \in cache_Callers \ {c} : v4'[b] = v4[b]
      BY <1>1, <2>1
    <3>4. ArgOK(c)'
      BY <3>1, <3>2
    <3>5. \A b \in cache_Callers \ {c} : ArgOK(b)'
      BY <1>1, <3>3
    <3> QED
      BY <3>2, <3>4, <3>5
  <2>3. CASE Responses!HasRoom
    <3>1. Responses!Admitted(c) /\ v5' = v5
      BY <1>9, <2>3 DEF Responses!put
    <3> QED
      BY <1>8, <2>1, <2>2, <2>3, <3>1
  <2>4. CASE ~Responses!HasRoom
    <3>1. /\ v3' = [v3 EXCEPT ![c] = "evict"] /\ v9' = v9
          /\ v5' = [v5 EXCEPT ![c] = Responses!SetToSeq(Responses!expired)]
      BY <1>9, <2>4 DEF Responses!put, Responses!Go
    <3>2. Responses!SetToSeq(Responses!expired) \in Seq(Responses!Places)
      <4>1. Responses!SetToSeq(Responses!expired) \in Seq(Responses!expired)
        BY RoomSets, ResponseList
      <4>2. Responses!expired \subseteq Responses!Places
        BY DEF Responses!expired, Responses!present
      <4> QED
        BY <4>1, <4>2
    <3>3. /\ v5' \in [cache_Callers -> Seq(Responses!Places)]
          /\ \A b \in cache_Callers \ {c} : v5'[b] = v5[b]
      BY <1>1, <3>1, <3>2
    <3> QED
      BY <1>4, <2>1, <2>2, <3>1, <3>3
  <2> QED
    BY <2>3, <2>4
<1>10. ASSUME NEW c \in cache_Callers, Responses!put_Recheck(c) PROVE Responses!IInv'
  <2>1. /\ v3[c] = "evict" /\ v1' = v1 /\ v2' = v2 /\ v4' = v4 /\ v5' = v5 /\ v6' = v6 /\ v10' = v10
        /\ \/ Responses!HasRoom /\ Responses!Admitted(c)
           \/ v3' = [v3 EXCEPT ![c] = "idle"] /\ v9' = v9
    BY <1>10 DEF Responses!put_Recheck, Responses!Go, Responses!Admitted
  <2>2. DOMAIN v4' = cache_Callers /\ \A b \in cache_Callers : ArgOK(b)'
    BY <1>1, <2>1
  <2>3. CASE Responses!HasRoom /\ Responses!Admitted(c)
    BY <1>8, <2>1, <2>2, <2>3
  <2>4. CASE v3' = [v3 EXCEPT ![c] = "idle"] /\ v9' = v9
    BY <1>1, <1>4, <2>1, <2>2, <2>4
  <2> QED
    BY <2>1, <2>3, <2>4
<1>11. ASSUME NEW c \in cache_Callers, Responses!insert(c) PROVE Responses!IInv'
  <2> DEFINE h == hash[v4[c].key]
  <2>1. /\ v3[c] = "insert" /\ v3' = [v3 EXCEPT ![c] = "idle"] /\ v2' = v2 + 1
        /\ v1' = [v1 EXCEPT ![h] = [stamp |-> v2 + 1, key |-> v4[c].key,
                                    tag |-> v4[c].tag, ttl |-> v4[c].ttl]]
        /\ v4' = v4 /\ v5' = v5 /\ v6' = v6 /\ Responses!Raced /\ v10' = v10
    BY <1>11 DEF Responses!insert, Responses!Go
  <2>2. [stamp |-> v2 + 1, key |-> v4[c].key, tag |-> v4[c].tag, ttl |-> v4[c].ttl]
          \in Responses!Entries
    BY <1>1 DEF Responses!Entries
  <2> HIDE DEF h
  <2>3. /\ v1' \in [Responses!Places -> Responses!Entries]
        /\ \A p \in Responses!Places \ {h} : v1'[p] = v1[p]
        /\ h \in Responses!Places => v1'[h].stamp = v2 + 1
    BY <1>1, <2>1, <2>2
  <2>4. Responses!present' \subseteq Responses!present \cup {h}
    BY <2>3 DEF Responses!present
  <2>5. c \in Responses!inserting /\ Responses!inserting' = Responses!inserting \ {c}
    BY <1>1, <2>1 DEF Responses!inserting
  <2>6. Responses!RoomInv' /\ v9' \in Nat
    BY <1>1, <2>1, <2>4, <2>5, RoomUsed
  <2>7. \A b \in cache_Callers : v3'[b] = "invalidate" => v3[b] = "invalidate"
    BY <1>1, <2>1
  <2>8. Responses!SweepInv'
    BY <1>1, <2>1, <2>3, <2>7, SweepInserted
  <2>9. v3' \in [cache_Callers -> Pcs] /\ v2' \in Nat
    BY <1>1, <2>1
  <2> QED
    BY <1>1, <1>2, <2>1, <2>3, <2>6, <2>8, <2>9
<1>12. ASSUME NEW c \in cache_Callers, Responses!invalidate_by_tag(c) PROVE Responses!IInv'
  <2>1. /\ v3[c] = "idle" /\ v3' = [v3 EXCEPT ![c] = "invalidate"]
        /\ v5' = [v5 EXCEPT ![c] = Responses!SetToSeq(Responses!tagged)]
        /\ v6' = [v6 EXCEPT ![c] = v2]
        /\ v1' = v1 /\ v2' = v2 /\ v4' = v4 /\ v9' = v9 /\ v10' = v10
    BY <1>12 DEF Responses!invalidate_by_tag, Responses!Starts, Responses!Go
  <2>2. Responses!present' = Responses!present /\ Responses!inserting' = Responses!inserting
    BY <1>1, <2>1 DEF Responses!present, Responses!inserting
  <2>3. Responses!RoomInv'
    BY <1>1, <2>1, <2>2, RoomKept
  <2>4. Responses!SweepInv'
    BY <1>1, <2>1, SweepBegun
  <2>5. Responses!SetToSeq(Responses!tagged) \in Seq(Responses!Places)
    <3>1. Responses!SetToSeq(Responses!tagged) \in Seq(Responses!tagged)
      BY RoomSets, ResponseList
    <3>2. Responses!tagged \subseteq Responses!Places
      BY DEF Responses!tagged, Responses!present
    <3> QED
      BY <3>1, <3>2
  <2>6. /\ v3' \in [cache_Callers -> Pcs] /\ v6' \in [cache_Callers -> Nat]
        /\ v5' \in [cache_Callers -> Seq(Responses!Places)]
    BY <1>1, <2>1, <2>5
  <2> QED
    BY <1>1, <1>2, <2>1, <2>3, <2>4, <2>6
<1>13. ASSUME NEW c \in cache_Callers, Responses!evict_expired(c) PROVE Responses!IInv'
  <2>1. /\ v3[c] = "idle" /\ v3' = [v3 EXCEPT ![c] = "sweep"]
        /\ v5' = [v5 EXCEPT ![c] = Responses!SetToSeq(Responses!expired)]
        /\ v1' = v1 /\ v2' = v2 /\ v4' = v4 /\ v6' = v6 /\ v9' = v9 /\ v10' = v10
    BY <1>13 DEF Responses!evict_expired, Responses!Starts, Responses!Go
  <2>2. Responses!SetToSeq(Responses!expired) \in Seq(Responses!Places)
    <3>1. Responses!SetToSeq(Responses!expired) \in Seq(Responses!expired)
      BY RoomSets, ResponseList
    <3>2. Responses!expired \subseteq Responses!Places
      BY DEF Responses!expired, Responses!present
    <3> QED
      BY <3>1, <3>2
  <2>3. /\ v5' \in [cache_Callers -> Seq(Responses!Places)]
        /\ \A b \in cache_Callers \ {c} : v5'[b] = v5[b]
    BY <1>1, <2>1, <2>2
  <2> QED
    BY <1>1, <1>4, <2>1, <2>3
<1>14. ASSUME NEW c \in cache_Callers, Responses!remove(c) PROVE Responses!IInv'
  <2> DEFINE h == Head(v5[c])
  <2>1. /\ v5[c] # <<>> /\ v1' = [v1 EXCEPT ![h] = Responses!None]
        /\ v5' = [v5 EXCEPT ![c] = Tail(v5[c])]
        /\ v2' = v2 /\ v3' = v3 /\ v4' = v4 /\ v6' = v6 /\ Responses!Raced /\ v10' = v10
    BY <1>14 DEF Responses!remove
  <2>2. v5[c] \in Seq(Responses!Places)
    BY <1>1
  <2>3. /\ Tail(v5[c]) \in Seq(Responses!Places)
        /\ \A p \in Responses!ToSet(v5[c]) : p = h \/ p \in Responses!ToSet(Tail(v5[c]))
    BY <2>1, <2>2, TailMembers
  <2> HIDE DEF h
  <2>4. /\ v1' \in [Responses!Places -> Responses!Entries]
        /\ \A p \in Responses!Places : v1'[p] = IF p = h THEN Responses!None ELSE v1[p]
    BY <1>1, <1>3, <2>1
  <2>5. Responses!present' \subseteq Responses!present /\ Responses!inserting' = Responses!inserting
    BY <2>1, <2>4 DEF Responses!present, Responses!inserting
  <2>6. Responses!RoomInv' /\ v9' \in Nat
    BY <1>1, <2>1, <2>5, RoomKept
  <2>7. v5'[c] = Tail(v5[c]) /\ \A b \in cache_Callers \ {c} : v5'[b] = v5[b]
    BY <1>1, <2>1
  <2>8. ASSUME NEW b \in cache_Callers, NEW p \in Responses!Places, v1'[p] # Responses!None,
               p \in Responses!ToSet(v5[b])
        PROVE  p \in Responses!ToSet(v5'[b])
    <3>1. CASE b = c
      BY <2>3, <2>4, <2>7, <2>8, <3>1
    <3>2. CASE b # c
      BY <2>7, <2>8, <3>2
    <3> QED
      BY <3>1, <3>2
  <2>9. Responses!SweepInv'
    BY <1>1, <2>1, <2>4, <2>8, SweepKept
  <2>10. v5' \in [cache_Callers -> Seq(Responses!Places)]
    BY <1>1, <2>1, <2>3
  <2> QED
    BY <1>1, <1>2, <2>1, <2>4, <2>6, <2>9, <2>10
<1>15. ASSUME NEW c \in cache_Callers, Responses!Return(c) PROVE Responses!IInv'
  <2>1. /\ v3[c] \in {"invalidate", "sweep"} /\ v5[c] = <<>> /\ v3' = [v3 EXCEPT ![c] = "idle"]
        /\ v10' = IF v3[c] = "invalidate" THEN Responses!Max({v10, v6[c]}) ELSE v10
        /\ v1' = v1 /\ v2' = v2 /\ v4' = v4 /\ v5' = v5 /\ v6' = v6 /\ v9' = v9
    BY <1>15 DEF Responses!Return, Responses!Go
  <2>2. CASE v3[c] = "sweep"
    <3>1. v10' = v10 /\ v3[c] # "insert" /\ "idle" \in Pcs \ {"insert", "invalidate"}
      BY <2>1, <2>2
    <3> QED
      BY <1>1, <1>4, <2>1, <3>1
  <2>3. CASE v3[c] = "invalidate"
    <3>1. \A p \in Responses!present : v1[p].stamp \in Nat
      BY <1>1 DEF Responses!present, Responses!Entries
    <3>2. Responses!SweepInv' /\ v10' \in Nat
      BY <1>1, <2>1, <2>3, <3>1, SweepEnded
    <3>3. Responses!present' = Responses!present /\ Responses!inserting' = Responses!inserting
      BY <1>1, <2>1 DEF Responses!present, Responses!inserting
    <3>4. Responses!RoomInv'
      BY <1>1, <2>1, <3>3, RoomKept
    <3>5. v3' \in [cache_Callers -> Pcs]
      BY <1>1, <2>1
    <3> QED
      BY <1>1, <1>2, <2>1, <3>2, <3>4, <3>5
  <2> QED
    BY <2>1, <2>2, <2>3
<1>16. CASE UNCHANGED Responses!vars
  <2>1. /\ v1' = v1 /\ v2' = v2 /\ v3' = v3 /\ v4' = v4 /\ v5' = v5 /\ v6' = v6 /\ v9' = v9
        /\ v10' = v10
    BY <1>16 DEF Responses!vars
  <2>2. Responses!present' = Responses!present /\ Responses!inserting' = Responses!inserting
    BY <2>1 DEF Responses!present, Responses!inserting
  <2>3. Responses!RoomInv'
    BY <1>1, <2>1, <2>2, RoomKept
  <2>4. Responses!SweepInv'
    BY <1>1, <2>1, SweepKept
  <2> QED
    BY <1>1, <1>2, <2>1, <2>3, <2>4
<1> QED
  BY <1>5, <1>6, <1>7, <1>9, <1>10, <1>11, <1>12, <1>13, <1>14, <1>15, <1>16 DEF Responses!Next
LEMMA CacheInit ==
  ASSUME Responses!CacheAssumption, Responses!Init PROVE Responses!IInv
<1>1. /\ v1 = [p \in Responses!Places |-> Responses!None] /\ v2 = 0 /\ v9 = 0 /\ v10 = 0
      /\ v3 = [c \in cache_Callers |-> "idle"] /\ v4 = [c \in cache_Callers |-> Responses!None]
      /\ v5 = [c \in cache_Callers |-> <<>>] /\ v6 = [c \in cache_Callers |-> 0]
  BY DEF Responses!Init
<1>2. Responses!present = {} /\ Responses!inserting = {} /\ Responses!tagged = {}
  <2>1. Responses!present = {} /\ Responses!inserting = {}
    BY <1>1 DEF Responses!present, Responses!inserting
  <2> QED
    BY <2>1 DEF Responses!tagged
<1>3. Responses!RoomInv
  <2>1. Responses!Cardinality({}) = 0
    BY ResponseCounts, FS_EmptySet
  <2>2. Responses!Max({0, 1}) \in Nat /\ Responses!Max({0, 1}) >= 1 /\ max_size \in Nat
    BY ResponseMax DEF Responses!CacheAssumption
  <2> QED
    BY <1>1, <1>2, <2>1, <2>2 DEF Responses!RoomInv
<1>4. Responses!SweepInv
  BY <1>1, <1>2 DEF Responses!SweepInv
<1>5. Responses!None \in Responses!Entries /\ Responses!None.key = "none"
      /\ Responses!None.tag \in BOOLEAN /\ Responses!None.ttl \in Nat
  BY DEF Responses!None, Responses!Entries
<1>6. v1 \in [Responses!Places -> Responses!Entries]
  BY <1>1, <1>5
<1>7. /\ DOMAIN v4 = cache_Callers
      /\ \A c \in cache_Callers :
           v4[c].key \in Keys \cup {"none"} /\ v4[c].tag \in BOOLEAN /\ v4[c].ttl \in Nat
  BY <1>1, <1>5
<1>8. /\ v5 \in [cache_Callers -> Seq(Responses!Places)] /\ v6 \in [cache_Callers -> Nat]
      /\ v3 \in [cache_Callers -> {"idle", "get", "evict", "insert", "invalidate", "sweep"}]
  BY <1>1
<1> QED
  BY <1>1, <1>3, <1>4, <1>6, <1>7, <1>8 DEF Responses!IInv
-----------------------------------------------------------------------------
(* The WebSocket proxy.                                                       *)

LEMMA ProxyCounts ==
  /\ \A S : Proxy!IsFiniteSet(S) <=> IsFiniteSet(S)
  /\ \A S : Proxy!Cardinality(S) = Cardinality(S)
<1>1. \A S : Proxy!IsFiniteSet(S) <=> IsFiniteSet(S)
  BY DEF Proxy!IsFiniteSet, IsFiniteSet
<1>2. \A S : Proxy!Cardinality(S) = Cardinality(S)
  BY DEF Proxy!Cardinality, Cardinality
<1> QED
  BY <1>1, <1>2

LEMMA ProxyMax ==
  ASSUME NEW a \in Nat, NEW b \in Nat
  PROVE  Proxy!Max({a, b}) \in {a, b} /\ Proxy!Max({a, b}) >= a /\ Proxy!Max({a, b}) >= b
<1>1. Proxy!Max({a, b}) = Responses!Max({a, b})
  BY DEF Proxy!Max, Responses!Max
<1> QED
  BY <1>1, ResponseMax

LEMMA OpenSets ==
  ASSUME Proxy!ProxyAssumption
  PROVE  /\ IsFiniteSet(Proxy!open) /\ Cardinality(Proxy!open) \in Nat
         /\ IsFiniteSet(Proxy!inserting) /\ Cardinality(Proxy!inserting) \in Nat
<1>1. IsFiniteSet(Proxy!Ids) /\ IsFiniteSet(Adders)
  BY ProxyCounts DEF Proxy!ProxyAssumption
<1>2. Proxy!open \subseteq Proxy!Ids /\ Proxy!inserting \subseteq Adders
  BY DEF Proxy!open, Proxy!inserting
<1>3. IsFiniteSet(Proxy!open) /\ IsFiniteSet(Proxy!inserting)
  BY <1>1, <1>2, FS_Subset
<1> QED
  BY <1>3, FS_CardinalityType

LEMMA SameMax ==
  \A S : Proxy!Max(S) = Responses!Max(S)
BY DEF Proxy!Max, Responses!Max

LEMMA OpenRaced ==
  ASSUME Proxy!ProxyAssumption, v10 \in Nat, v10' = v10 \/ Proxy!Raced,
         NEW q \in Nat, NEW k \in Nat,
         Cardinality(Proxy!open') = q, Cardinality(Proxy!inserting') = k,
         \/ q + k <= max_connections + Proxy!Max({v10, 1}) - 1 /\ k <= v10
         \/ Proxy!Raced /\ q + k <= max_connections + Proxy!Max({v10, 1}) - 1
         \/ Proxy!Raced /\ q + k <= max_connections + k - 1
  PROVE  Proxy!RoomInv' /\ v10' \in Nat
<1>0. PICK r, t : r = v10 /\ t = v10'
  OBVIOUS
<1>1. max_connections \in Nat /\ r \in Nat /\ q + k \in Nat
  BY <1>0 DEF Proxy!ProxyAssumption
<1>2. Proxy!RoomInv' <=> k <= t /\ q + k <= max_connections + Responses!Max({t, 1}) - 1
  BY <1>0, ProxyCounts, SameMax DEF Proxy!RoomInv
<1>3. CASE Proxy!Raced
  <2>1. t = (IF q + k <= max_connections THEN k ELSE Responses!Max({r, k}))
    BY <1>0, <1>3, ProxyCounts, SameMax DEF Proxy!Raced, Proxy!Fits
  <2>2. q + k <= max_connections + Responses!Max({r, 1}) - 1 \/ q + k <= max_connections + k - 1
    BY <1>0, SameMax
  <2> DEFINE s == q + k
  <2>3. s \in Nat /\ (s <= max_connections + Responses!Max({r, 1}) - 1 \/ s <= max_connections + k - 1)
    BY <1>1, <2>2
  <2>4. t = (IF s <= max_connections THEN k ELSE Responses!Max({r, k}))
    BY <2>1
  <2> HIDE DEF s
  <2>5. t \in Nat /\ k <= t /\ s <= max_connections + Responses!Max({t, 1}) - 1
    <3>1. FallsBack(r, max_connections, s, k)
      <4>1. max_connections \in Nat /\ r \in Nat /\ k \in Nat /\ s \in Nat
        BY <1>1, <2>3
      <4>2. CASE s <= max_connections + Responses!Max({r, 1}) - 1
        BY <4>1, <4>2, RacedNumbers
      <4>3. CASE s <= max_connections + k - 1
        BY <4>1, <4>3, RacedNumbers
      <4> QED
        BY <2>3, <4>2, <4>3
    <3> QED
      BY <2>4, <3>1 DEF FallsBack
  <2> QED
    BY <1>0, <1>2, <2>5 DEF s
<1>4. CASE ~Proxy!Raced
  <2>1. t = r
    BY <1>0, <1>4
  <2>2. q + k <= max_connections + Responses!Max({r, 1}) - 1 /\ k <= r
    BY <1>0, <1>4, SameMax
  <2> QED
    BY <1>0, <1>1, <1>2, <2>1, <2>2
<1> QED
  BY <1>3, <1>4

(* Room is not lost by removals.                                              *)
LEMMA OpenKept ==
  ASSUME Proxy!ProxyAssumption, Proxy!RoomInv, v10' = v10 \/ Proxy!Raced,
         Proxy!open' \subseteq Proxy!open,
         Proxy!inserting' \subseteq Proxy!inserting, v10 \in Nat
  PROVE  Proxy!RoomInv' /\ v10' \in Nat
<1> DEFINE p == Cardinality(Proxy!open)
           i == Cardinality(Proxy!inserting)
           m == Proxy!Max({v10, 1})
<1>1. PICK q, k : q = Cardinality(Proxy!open') /\ k = Cardinality(Proxy!inserting')
  OBVIOUS
<1>2. p \in Nat /\ q \in Nat /\ i \in Nat /\ k \in Nat /\ q <= p /\ k <= i
  <2>1. IsFiniteSet(Proxy!open) /\ IsFiniteSet(Proxy!inserting)
    BY OpenSets
  <2>2. q <= p /\ k <= i /\ IsFiniteSet(Proxy!open') /\ IsFiniteSet(Proxy!inserting')
    BY <1>1, <2>1, FS_Subset
  <2> QED
    BY <1>1, <2>1, <2>2, FS_CardinalityType
<1>3. m \in Nat /\ max_connections \in Nat
  BY ProxyMax DEF Proxy!ProxyAssumption
<1>4. i <= v10 /\ p + i <= max_connections + m - 1
  BY ProxyCounts DEF Proxy!RoomInv
<1> HIDE DEF p, i
<1>5. q + k <= max_connections + m - 1 /\ k <= v10
  <2> HIDE DEF m
  <2> QED
    BY <1>2, <1>3, <1>4
<1>6. q \in Nat /\ k \in Nat
  BY <1>2
<1> QED
  BY <1>1, <1>5, <1>6, OpenRaced

LEMMA OpenTaken ==
  ASSUME Proxy!ProxyAssumption, v10 \in Nat, NEW a, a \notin Proxy!inserting,
         Proxy!HasRoom, Proxy!open' = Proxy!open, Proxy!Raced,
         Proxy!inserting' = Proxy!inserting \cup {a}
  PROVE  Proxy!RoomInv' /\ v10' \in Nat
<1> DEFINE p == Cardinality(Proxy!open)
           i == Cardinality(Proxy!inserting)
<1>0. PICK k : k = Cardinality(Proxy!inserting')
  OBVIOUS
<1>1. p \in Nat /\ i \in Nat /\ k = i + 1
  <2>1. IsFiniteSet(Proxy!inserting) /\ p \in Nat /\ i \in Nat
    BY OpenSets
  <2> QED
    BY <1>0, <2>1, FS_AddElement
<1>2. p < max_connections /\ max_connections \in Nat
  BY ProxyCounts DEF Proxy!HasRoom, Proxy!ProxyAssumption
<1>3. Cardinality(Proxy!open') = p
  OBVIOUS
<1>4. p + k <= max_connections + k - 1 /\ k \in Nat
  <2> HIDE DEF p, i
  <2> QED
    BY <1>1, <1>2
<1> HIDE DEF p, i
<1> QED
  BY <1>0, <1>1, <1>3, <1>4, OpenRaced

LEMMA OpenUsed ==
  ASSUME Proxy!ProxyAssumption, Proxy!RoomInv, Proxy!Raced, v10 \in Nat,
         NEW a \in Proxy!inserting, Proxy!inserting' = Proxy!inserting \ {a},
         NEW h, Proxy!open' \subseteq Proxy!open \cup {h}
  PROVE  Proxy!RoomInv' /\ v10' \in Nat
<1> DEFINE p == Cardinality(Proxy!open)
           i == Cardinality(Proxy!inserting)
           m == Proxy!Max({v10, 1})
<1>0. PICK q, k : q = Cardinality(Proxy!open') /\ k = Cardinality(Proxy!inserting')
  OBVIOUS
<1>1. p \in Nat /\ q \in Nat /\ i \in Nat /\ k = i - 1 /\ q <= p + 1 /\ i >= 1
  <2>1. /\ IsFiniteSet(Proxy!open) /\ IsFiniteSet(Proxy!inserting)
        /\ p \in Nat /\ i \in Nat
    BY OpenSets
  <2>2. k = i - 1 /\ k \in Nat
    BY <1>0, <2>1, FS_RemoveElement, FS_CardinalityType
  <2>3. /\ IsFiniteSet(Proxy!open \cup {h})
        /\ Cardinality(Proxy!open \cup {h}) \in {p, p + 1}
    BY <2>1, FS_AddElement
  <2>4. IsFiniteSet(Proxy!open') /\ q <= Cardinality(Proxy!open \cup {h})
    BY <1>0, <2>3, FS_Subset
  <2>5. q \in Nat
    BY <1>0, <2>4, FS_CardinalityType
  <2> HIDE DEF p, i
  <2> QED
    BY <2>1, <2>2, <2>3, <2>4, <2>5
<1>2. m \in Nat /\ max_connections \in Nat
  BY ProxyMax DEF Proxy!ProxyAssumption
<1>3. i <= v10 /\ p + i <= max_connections + m - 1
  BY ProxyCounts DEF Proxy!RoomInv
<1> HIDE DEF p, i
<1>4. q + k <= max_connections + m - 1 /\ q \in Nat /\ k \in Nat
  <2> HIDE DEF m
  <2> QED
    BY <1>1, <1>2, <1>3
<1> QED
  BY <1>0, <1>4, OpenRaced

LEMMA ProxyList ==
  ASSUME Proxy!ProxyAssumption, NEW S, S \subseteq Proxy!Ids
  PROVE  /\ Proxy!SetToSeq(S) \in Seq(Proxy!Ids)
         /\ S # {} => Proxy!SetToSeq(S) # <<>>
<1>1. Proxy!SetToSeq(S) = Responses!SetToSeq(S)
  BY DEF Proxy!SetToSeq, Responses!SetToSeq, Proxy!IsInjective, Responses!IsInjective,
         Proxy!Cardinality, Responses!Cardinality, Proxy!IsFiniteSet, Responses!IsFiniteSet
<1>2. IsFiniteSet(S)
  BY ProxyCounts, FS_Subset DEF Proxy!ProxyAssumption
<1>3. /\ Responses!SetToSeq(S) \in Seq(S) /\ Responses!ToSet(Responses!SetToSeq(S)) = S
  BY <1>2, ResponseList
<1>4. Responses!ToSet(<<>>) = {}
  BY DEF Responses!ToSet
<1> QED
  BY <1>1, <1>3, <1>4

LEMMA TailOf ==
  ASSUME NEW S, NEW s \in Seq(S), s # <<>>
  PROVE  Tail(s) \in Seq(S) /\ (Len(s) > 1 => Tail(s) # <<>>)
<1>1. Len(s) \in Nat /\ Tail(s) \in Seq(S) /\ Len(Tail(s)) = Len(s) - 1
  BY HeadTailProperties, LenProperties
<1>2. Len(s) > 1 => Len(Tail(s)) # 0
  BY <1>1
<1>3. Len(<<>>) = 0
  OBVIOUS
<1>4. Tail(s) = <<>> => Len(Tail(s)) = 0
  BY <1>3, Zenon
<1> QED
  BY <1>1, <1>2, <1>4

(* What leaves the connections and who is at an eviction alone, and no        *)
(* connection that was active inactive, keeps the connections usable.         *)
LEMMA UsableKept ==
  ASSUME Proxy!UsableInv, v1' = v1,
         \A i \in Proxy!open : Proxy!Live(i) => Proxy!Live(i)',
         \A w \in Workers :
           v6[w] = "unmap" => v6'[w] = "unmap" /\ v7'[w] = v7[w]
  PROVE  Proxy!UsableInv'
<1>1. Proxy!open' = Proxy!open
  BY DEF Proxy!open
<1>2. \A i : Proxy!Evicting(i) => Proxy!Evicting(i)'
  BY DEF Proxy!Evicting
<1> QED
  BY <1>1, <1>2 DEF Proxy!UsableInv

LEMMA ProxyStep ==
  ASSUME Proxy!ProxyAssumption, Proxy!IInv, [Proxy!Next]_(Proxy!vars)
  PROVE  Proxy!IInv'
<1> DEFINE Tasks == Adders \cup Workers
           Modes == {"Connecting", "Open", "Idle", "Closed"}
<1>1. /\ v1 \in [Proxy!Ids -> Adders \cup {Proxy!Nobody}] /\ v10 \in Nat
      /\ v2 \in [Adders -> Modes] /\ DOMAIN v6 = Tasks /\ DOMAIN v7 = Workers
      /\ Proxy!RoomInv /\ Proxy!UsableInv /\ Proxy!LoopInv
  BY DEF Proxy!IInv, Proxy!LoopInv
<1>2. ASSUME /\ v1' \in [Proxy!Ids -> Adders \cup {Proxy!Nobody}] /\ v10' \in Nat
             /\ v2' \in [Adders -> Modes] /\ DOMAIN v6' = Tasks,
             Proxy!RoomInv', Proxy!UsableInv', Proxy!LoopInv'
      PROVE  Proxy!IInv'
  BY <1>2 DEF Proxy!IInv
<1>3. Proxy!Nobody \notin Adders
  BY DEF Proxy!ProxyAssumption
(* Steps of a worker that take out no connection and close none.              *)
<1>4. ASSUME v1' = v1, v10' = v10 \/ Proxy!Raced, v2' \in [Adders -> Modes],
             \A a \in Adders :
               v2[a] \in {"Open", "Idle"} => v2'[a] \in {"Open", "Idle"},
             DOMAIN v6' = Tasks, Proxy!LoopInv',
             Proxy!inserting' = Proxy!inserting,
             \A w \in Workers :
               v6[w] = "unmap" => v6'[w] = "unmap" /\ v7'[w] = v7[w]
      PROVE  Proxy!IInv'
  <2>1. Proxy!open' = Proxy!open
    BY <1>4 DEF Proxy!open
  <2>2. Proxy!RoomInv' /\ v10' \in Nat
    BY <1>1, <1>4, <2>1, OpenKept
  <2>3. \A i \in Proxy!open : Proxy!Live(i) => Proxy!Live(i)'
    <3> SUFFICES ASSUME NEW i \in Proxy!open, Proxy!Live(i)
                 PROVE  v2'[v1[i]] \in {"Open", "Idle"}
      BY <1>4 DEF Proxy!Live, Proxy!is_active
    <3>1. v1[i] \in Adders /\ v2[v1[i]] \in {"Open", "Idle"}
      BY <1>1 DEF Proxy!open, Proxy!Live, Proxy!is_active
    <3> QED
      BY <1>4, <3>1
  <2>4. Proxy!UsableInv'
    BY <1>1, <1>4, <2>3, UsableKept
  <2> QED
    BY <1>1, <1>2, <1>4, <2>2, <2>4
<1>5. ASSUME NEW a \in Adders, Proxy!CheckRoom(a) PROVE Proxy!IInv'
  <2>1. /\ v6[a] = "idle"
        /\ v6' = [v6 EXCEPT ![a] = IF Proxy!HasRoom THEN "insert" ELSE "refused"]
        /\ Proxy!Raced
        /\ v1' = v1 /\ v2' = v2 /\ v5' = v5 /\ v7' = v7
    BY <1>5 DEF Proxy!CheckRoom
  <2>2. /\ DOMAIN v6' = Tasks /\ \A t \in Tasks \ {a} : v6'[t] = v6[t]
        /\ v6'[a] = IF Proxy!HasRoom THEN "insert" ELSE "refused"
    BY <1>1, <2>1
  <2>3. \A w \in Workers : v6[w] = "unmap" => v6'[w] = "unmap" /\ v7'[w] = v7[w]
    BY <2>1, <2>2
  <2>4. Proxy!LoopInv'
    BY <1>1, <2>1, <2>2 DEF Proxy!LoopInv, Proxy!Removing
  <2>5. CASE Proxy!HasRoom
    <3>1. a \notin Proxy!inserting /\ Proxy!inserting' = Proxy!inserting \cup {a}
      BY <2>1, <2>2, <2>5 DEF Proxy!inserting
    <3>2. Proxy!open' = Proxy!open
      BY <2>1 DEF Proxy!open
    <3>4. Proxy!RoomInv' /\ v10' \in Nat
      BY <1>1, <2>1, <2>5, <3>1, <3>2, OpenTaken
    <3>5. \A i \in Proxy!open : Proxy!Live(i) => Proxy!Live(i)'
      BY <2>1 DEF Proxy!Live, Proxy!is_active
    <3>6. Proxy!UsableInv'
      BY <1>1, <2>1, <2>3, <3>5, UsableKept
    <3> QED
      BY <1>1, <1>2, <2>1, <2>2, <2>4, <3>4, <3>6
  <2>6. CASE ~Proxy!HasRoom
    <3>1. Proxy!inserting' = Proxy!inserting
      BY <2>1, <2>2, <2>6 DEF Proxy!inserting
    <3> QED
      BY <1>1, <1>4, <2>1, <2>2, <2>3, <2>6, <2>4, <3>1
  <2> QED
    BY <2>5, <2>6
<1>6. ASSUME NEW a \in Adders, Proxy!Insert(a) PROVE Proxy!IInv'
  <2> DEFINE h == Id[a]
  <2>1. /\ v6[a] = "insert" /\ v6' = [v6 EXCEPT ![a] = "added"]
        /\ v1' = [v1 EXCEPT ![h] = a] /\ v2' = [v2 EXCEPT ![a] = "Open"]
        /\ v5' = v5 /\ v7' = v7 /\ Proxy!Raced
    BY <1>6 DEF Proxy!Insert
  <2>2. h \in Proxy!Ids
    BY DEF Proxy!Ids
  <2>3. /\ DOMAIN v6' = Tasks /\ v6'[a] = "added" /\ \A t \in Tasks \ {a} : v6'[t] = v6[t]
    BY <1>1, <2>1
  <2>4. /\ v2' \in [Adders -> Modes] /\ v2'[a] = "Open"
        /\ \A b \in Adders \ {a} : v2'[b] = v2[b]
    BY <1>1, <2>1
  <2>5. /\ v1' \in [Proxy!Ids -> Adders \cup {Proxy!Nobody}] /\ v1'[h] = a
        /\ \A i \in Proxy!Ids \ {h} : v1'[i] = v1[i]
    BY <1>1, <2>1, <2>2
  <2>6. a \in Proxy!inserting /\ Proxy!inserting' = Proxy!inserting \ {a}
    BY <2>1, <2>3 DEF Proxy!inserting
  <2>7. Proxy!open' \subseteq Proxy!open \cup {h}
    BY <2>5 DEF Proxy!open
  <2>8. Proxy!RoomInv' /\ v10' \in Nat
    BY <1>1, <2>1, <2>6, <2>7, OpenUsed
  <2>9. \A i : Proxy!Evicting(i) => Proxy!Evicting(i)'
    <3>1. \A w \in Workers : v6[w] = "unmap" => v6'[w] = "unmap" /\ v7'[w] = v7[w]
      BY <2>1, <2>3
    <3> QED
      BY <3>1 DEF Proxy!Evicting
  <2>10. ASSUME NEW i \in Proxy!open'
         PROVE  Id[v1'[i]] = i /\ (Proxy!Live(i)' \/ Proxy!Evicting(i)')
    <3>1. CASE i = h
      <4>1. v1'[i] = a /\ v2'[a] = "Open" /\ a # Proxy!Nobody
        BY <1>3, <2>4, <2>5, <3>1
      <4> QED
        BY <3>1, <4>1 DEF Proxy!Live, Proxy!is_active
    <3>2. CASE i # h
      <4>1. i \in Proxy!open /\ v1'[i] = v1[i] /\ v1[i] \in Adders
        BY <1>1, <2>5, <3>2 DEF Proxy!open
      <4>2. Id[v1[i]] = i /\ (Proxy!Live(i) \/ Proxy!Evicting(i))
        BY <1>1, <4>1 DEF Proxy!UsableInv
      <4>3. Proxy!Live(i) => Proxy!Live(i)'
        BY <2>4, <4>1 DEF Proxy!Live, Proxy!is_active
      <4> QED
        BY <2>9, <4>1, <4>2, <4>3
    <3> QED
      BY <3>1, <3>2
  <2>11. Proxy!UsableInv'
    BY <2>10 DEF Proxy!UsableInv
  <2>12. Proxy!LoopInv'
    BY <1>1, <2>1, <2>3 DEF Proxy!LoopInv, Proxy!Removing
  <2> QED
    BY <1>1, <1>2, <2>1, <2>3, <2>4, <2>5, <2>8, <2>11, <2>12
<1>7. ASSUME NEW a \in Adders, Proxy!BecomeIdle(a) PROVE Proxy!IInv'
  <2>1. /\ v2[a] = "Open" /\ v2' = [v2 EXCEPT ![a] = "Idle"]
        /\ v1' = v1 /\ v5' = v5 /\ v6' = v6 /\ v7' = v7 /\ v10' = v10
    BY <1>7 DEF Proxy!BecomeIdle
  <2>2. v2' \in [Adders -> Modes] /\ \A b \in Adders : v2'[b] = IF b = a THEN "Idle" ELSE v2[b]
    BY <1>1, <2>1
  <2>3. Proxy!inserting' = Proxy!inserting
    BY <2>1 DEF Proxy!inserting
  <2>4. Proxy!LoopInv'
    BY <1>1, <2>1 DEF Proxy!LoopInv, Proxy!Removing
  <2> QED
    BY <1>1, <1>4, <2>1, <2>2, <2>3, <2>4
<1>8. ASSUME NEW i \in Proxy!Ids, Proxy!subscribe(i) PROVE Proxy!IInv'
  <2>1. /\ v1' = v1 /\ v2' = v2 /\ v6' = v6 /\ v7' = v7 /\ v10' = v10
        /\ v5' = v5 \cup {i}
    BY <1>8 DEF Proxy!subscribe
  <2>2. Proxy!inserting' = Proxy!inserting
    BY <2>1 DEF Proxy!inserting
  <2>3. Proxy!LoopInv'
    BY <1>1, <2>1 DEF Proxy!LoopInv, Proxy!Removing
  <2> QED
    BY <1>1, <1>4, <2>1, <2>2, <2>3
(* Steps of a worker: it is in no insertion, nor comes into one.              *)
<1>9. ASSUME NEW w \in Workers, NEW to, to # "insert", v6[w] # "insert",
             v6' = [v6 EXCEPT ![w] = to]
      PROVE  /\ DOMAIN v6' = Tasks /\ v6'[w] = to /\ \A t \in Tasks \ {w} : v6'[t] = v6[t]
             /\ Proxy!inserting' = Proxy!inserting
  <2>1. DOMAIN v6' = Tasks /\ v6'[w] = to /\ \A t \in Tasks \ {w} : v6'[t] = v6[t]
    BY <1>1, <1>9
  <2> QED
    BY <1>9, <2>1 DEF Proxy!inserting
<1>10. ASSUME NEW w \in Workers, v6[w] \notin {"insert", "unmap"}, NEW to, to # "insert",
              v6' = [v6 EXCEPT ![w] = to], NEW left,
              v5' = v5, (v7' = v7 \/ v7' = [v7 EXCEPT ![w] = left]),
              left \in Seq(Proxy!Ids), to \in Proxy!Removing => v7'[w] # <<>>,
              v1' = v1, v10' = v10, v2' \in [Adders -> Modes],
              \A a \in Adders :
                v2[a] \in {"Open", "Idle"} => v2'[a] \in {"Open", "Idle"}
       PROVE  Proxy!IInv'
  <2>1. /\ DOMAIN v6' = Tasks /\ v6'[w] = to /\ \A t \in Tasks \ {w} : v6'[t] = v6[t]
        /\ Proxy!inserting' = Proxy!inserting
    BY <1>9, <1>10
  <2>2. DOMAIN v7' = Workers /\ \A x \in Workers \ {w} : v7'[x] = v7[x]
    BY <1>1, <1>10
  <2>3. \A x \in Workers : v6[x] = "unmap" => v6'[x] = "unmap" /\ v7'[x] = v7[x]
    BY <1>10, <2>1, <2>2
  <2>4. Proxy!LoopInv'
    BY <1>1, <1>10, <2>1, <2>2 DEF Proxy!LoopInv, Proxy!Removing
  <2> QED
    BY <1>4, <1>10, <2>1, <2>2, <2>3, <2>4
<1>11. ASSUME NEW w \in Workers, Proxy!Start(w) PROVE Proxy!IInv'
  <2>1. /\ v6[w] = "idle" /\ v1' = v1 /\ v2' = v2 /\ v5' = v5 /\ v10' = v10
        /\ \/ /\ v6' = [v6 EXCEPT ![w] = "broadcast"]
              /\ v7' = [v7 EXCEPT ![w] = Proxy!SetToSeq(v5)]
           \/ /\ Proxy!stale # {} /\ v6' = [v6 EXCEPT ![w] = "evict"]
              /\ v7' = [v7 EXCEPT ![w] = Proxy!SetToSeq(Proxy!stale)]
           \/ /\ v6' = [v6 EXCEPT ![w] = "remove"]
              /\ \E i \in Proxy!open : v7' = [v7 EXCEPT ![w] = <<i>>]
    BY <1>11 DEF Proxy!Start
  <2>2. v2' \in [Adders -> Modes] /\ \A left : [v7 EXCEPT ![w] = left][w] = left
    BY <1>1, <2>1
  <2>3. v5 \subseteq Proxy!Ids /\ Proxy!stale \subseteq Proxy!Ids
    BY <1>1 DEF Proxy!LoopInv, Proxy!Removing, Proxy!stale, Proxy!open
  <2>4. CASE /\ v6' = [v6 EXCEPT ![w] = "broadcast"]
             /\ v7' = [v7 EXCEPT ![w] = Proxy!SetToSeq(v5)]
    BY <1>10, <2>1, <2>2, <2>3, <2>4, ProxyList DEF Proxy!Removing
  <2>5. CASE /\ Proxy!stale # {} /\ v6' = [v6 EXCEPT ![w] = "evict"]
             /\ v7' = [v7 EXCEPT ![w] = Proxy!SetToSeq(Proxy!stale)]
    <3>1. Proxy!SetToSeq(Proxy!stale) \in Seq(Proxy!Ids) /\ Proxy!SetToSeq(Proxy!stale) # <<>>
      BY <2>3, <2>5, ProxyList
    <3> QED
      BY <1>10, <2>1, <2>2, <2>5, <3>1 DEF Proxy!Removing
  <2>6. ASSUME NEW i \in Proxy!open, v6' = [v6 EXCEPT ![w] = "remove"],
               v7' = [v7 EXCEPT ![w] = <<i>>]
        PROVE  Proxy!IInv'
    <3> DEFINE left == <<i>>
    <3>1. left \in Seq(Proxy!Ids) /\ left # <<>>
      BY DEF Proxy!open
    <3>2. v7' = [v7 EXCEPT ![w] = left]
      BY <2>6
    <3> HIDE DEF left
    <3>3. v7'[w] = left
      BY <1>1, <3>2
    <3>4. \A a \in Adders : v2[a] \in {"Open", "Idle"} => v2'[a] \in {"Open", "Idle"}
      BY <2>1
    <3>5. v6[w] \notin {"insert", "unmap"}
      BY <2>1
    <3> QED
      BY <1>10, <2>1, <2>2, <2>6, <3>1, <3>2, <3>3, <3>4, <3>5
  <2> QED
    BY <2>1, <2>4, <2>5, <2>6
<1>12. ASSUME NEW w \in Workers, Proxy!Deliver(w) PROVE Proxy!IInv'
  <2> DEFINE c == v1[Head(v7[w])]
  <2>1. /\ v6[w] = "broadcast" /\ v7[w] # <<>> /\ v1' = v1 /\ v5' = v5 /\ v6' = v6 /\ v10' = v10
        /\ v7' = [v7 EXCEPT ![w] = Tail(v7[w])]
        /\ (v2' = v2 \/ v2' = [v2 EXCEPT ![c] = "Open"])
    BY <1>12 DEF Proxy!Deliver
  <2> HIDE DEF c
  <2>2. /\ v2' \in [Adders -> Modes]
        /\ \A a \in Adders : v2'[a] = v2[a] \/ v2'[a] = "Open"
    BY <1>1, <2>1
  <2>3. DOMAIN v7' = Workers /\ \A x \in Workers \ {w} : v7'[x] = v7[x]
    BY <1>1, <2>1
  <2>4. \A x \in Workers : v6[x] = "unmap" => v6'[x] = "unmap" /\ v7'[x] = v7[x]
    BY <2>1, <2>3
  <2>5. Proxy!inserting' = Proxy!inserting
    BY <2>1 DEF Proxy!inserting
  <2>6. Tail(v7[w]) \in Seq(Proxy!Ids)
    BY <1>1, <2>1, TailMembers DEF Proxy!LoopInv, Proxy!Removing
  <2>7. Proxy!LoopInv'
    BY <1>1, <2>1, <2>3, <2>6 DEF Proxy!LoopInv, Proxy!Removing
  <2> QED
    BY <1>1, <1>4, <2>1, <2>2, <2>4, <2>5, <2>7
<1>13. ASSUME NEW w \in Workers, Proxy!Count(w) PROVE Proxy!IInv'
  <2>1. /\ v6[w] = "broadcast" /\ v6' = [v6 EXCEPT ![w] = "idle"]
        /\ v1' = v1 /\ v2' = v2 /\ v5' = v5 /\ v7' = v7 /\ v10' = v10
    BY <1>13 DEF Proxy!Count
  <2>2. v2' \in [Adders -> Modes] /\ <<>> \in Seq(Proxy!Ids)
    BY <1>1, <2>1
  <2>3. \A a \in Adders : v2[a] \in {"Open", "Idle"} => v2'[a] \in {"Open", "Idle"}
    BY <2>1
  <2>4. v6[w] \notin {"insert", "unmap"} /\ "idle" # "insert" /\ "idle" \notin Proxy!Removing
    BY <2>1 DEF Proxy!Removing
  <2> QED
    BY <1>10, <2>1, <2>2, <2>3, <2>4
<1>14. ASSUME NEW w \in Workers, Proxy!Close(w) PROVE Proxy!IInv'
  <2>0. PICK h : h = Head(v7[w])
    OBVIOUS
  <2> DEFINE c == v1[h]
  <2>1. /\ v6[w] = "evict" /\ v6' = [v6 EXCEPT ![w] = "unmap"]
        /\ v2' = IF c = Proxy!Nobody THEN v2 ELSE [v2 EXCEPT ![c] = "Closed"]
        /\ v1' = v1 /\ v5' = v5 /\ v7' = v7 /\ v10' = v10
    BY <1>14, <2>0 DEF Proxy!Close
  <2>2. /\ DOMAIN v6' = Tasks /\ v6'[w] = "unmap" /\ \A t \in Tasks \ {w} : v6'[t] = v6[t]
        /\ Proxy!inserting' = Proxy!inserting
    BY <1>9, <2>1
  <2>3. Proxy!open' = Proxy!open
    BY <2>1 DEF Proxy!open
  <2>4. Proxy!RoomInv'
    BY <1>1, <2>1, <2>2, <2>3, OpenKept
  <2>5. Proxy!Evicting(h)' /\ \A i : Proxy!Evicting(i) => Proxy!Evicting(i)'
    <3>1. v6'[w] = "unmap" /\ Head(v7'[w]) = h
      BY <2>0, <2>1, <2>2
    <3>2. \A x \in Workers : v6[x] = "unmap" => v6'[x] = "unmap" /\ v7'[x] = v7[x]
      BY <2>1, <2>2
    <3> DEFINE E(i) == \E x \in Workers : v6'[x] = "unmap" /\ Head(v7'[x]) = i
    <3>3. \A i : Proxy!Evicting(i)' <=> E(i)
      BY DEF Proxy!Evicting
    <3>4. E(h)
      BY <3>1
    <3>5. \A i : Proxy!Evicting(i) => E(i)
      BY <3>2 DEF Proxy!Evicting
    <3> HIDE DEF E
    <3> QED
      BY <3>3, <3>4, <3>5
  <2>6. /\ v2' \in [Adders -> Modes]
        /\ \A a \in Adders : a # c => v2'[a] = v2[a]
    <3> HIDE DEF c
    <3> QED
      BY <1>1, <2>1
  <2>7. ASSUME NEW i \in Proxy!open
        PROVE  Id[v1[i]] = i /\ (Proxy!Live(i)' \/ Proxy!Evicting(i)')
    <3>1. v1[i] \in Adders /\ i \in Proxy!Ids
      BY <1>1 DEF Proxy!open
    <3>2. Id[v1[i]] = i /\ (Proxy!Live(i) \/ Proxy!Evicting(i))
      BY <1>1 DEF Proxy!UsableInv
    <3>3. CASE i = h
      <4>1. Proxy!Evicting(i)'
        BY <2>5, <3>3
      <4> QED
        BY <3>2, <4>1
    <3>4. CASE i # h
      <4>1. h \in Proxy!Ids
        <5>1. v7[w] \in Seq(Proxy!Ids) /\ v7[w] # <<>>
          BY <1>1, <2>1 DEF Proxy!LoopInv, Proxy!Removing
        <5>2. 1 \in DOMAIN v7[w] /\ Head(v7[w]) = v7[w][1]
          BY <5>1, EmptySeq, LenProperties
        <5> QED
          BY <2>0, <5>1, <5>2, ElementOfSeq
      <4>2. v1[i] # c
        <5> SUFFICES ASSUME v1[i] = v1[h] PROVE FALSE
          BY DEF c
        <5>1. h \in Proxy!open
          BY <1>3, <3>1, <4>1 DEF Proxy!open
        <5>2. Id[v1[h]] = h
          BY <1>1, <5>1 DEF Proxy!UsableInv
        <5> QED
          BY <3>2, <3>4, <5>2
      <4>3. v2'[v1[i]] = v2[v1[i]]
        BY <2>6, <3>1, <4>2
      <4>4. Proxy!Live(i) => Proxy!Live(i)'
        BY <2>1, <4>3 DEF Proxy!Live, Proxy!is_active
      <4> QED
        BY <2>5, <3>2, <4>4
    <3> QED
      BY <3>3, <3>4
  <2>8. Proxy!UsableInv'
    BY <2>1, <2>3, <2>7 DEF Proxy!UsableInv
  <2>9. Proxy!LoopInv'
    BY <1>1, <2>1, <2>2 DEF Proxy!LoopInv, Proxy!Removing
  <2> QED
    BY <1>1, <1>2, <2>1, <2>2, <2>4, <2>6, <2>8, <2>9
<1>15. ASSUME NEW w \in Workers, Proxy!Unmap(w) PROVE Proxy!IInv'
  <2> DEFINE h == Head(v7[w])
  <2>1. /\ v6[w] \in {"remove", "unmap"}
        /\ v6' = [v6 EXCEPT ![w] = IF v6[w] = "remove" THEN "forget" ELSE "unsubscribe"]
        /\ v1' = [v1 EXCEPT ![h] = Proxy!Nobody]
        /\ v2' = v2 /\ v5' = v5 /\ v7' = v7 /\ Proxy!Raced
    BY <1>15 DEF Proxy!Unmap
  <2>2. PICK to \in {"forget", "unsubscribe"} : v6' = [v6 EXCEPT ![w] = to]
    BY <2>1
  <2>3. /\ DOMAIN v6' = Tasks /\ v6'[w] = to /\ \A t \in Tasks \ {w} : v6'[t] = v6[t]
        /\ Proxy!inserting' = Proxy!inserting
    BY <1>9, <2>1, <2>2
  <2>4. \A i : i # h => (Proxy!Evicting(i) => Proxy!Evicting(i)')
    <3> SUFFICES ASSUME NEW i, i # h, NEW x \in Workers, v6[x] = "unmap", Head(v7[x]) = i
                 PROVE  v6'[x] = "unmap" /\ Head(v7'[x]) = i
      BY DEF Proxy!Evicting
    <3>1. x # w
      OBVIOUS
    <3> QED
      BY <2>1, <2>3, <3>1
  <2> HIDE DEF h
  <2>5. /\ v1' \in [Proxy!Ids -> Adders \cup {Proxy!Nobody}]
        /\ \A i \in Proxy!Ids : v1'[i] = IF i = h THEN Proxy!Nobody ELSE v1[i]
    BY <1>1, <2>1
  <2>6. \A i \in Proxy!open' : i \in Proxy!open /\ i # h /\ v1'[i] = v1[i]
    BY <2>5 DEF Proxy!open
  <2>7. Proxy!RoomInv' /\ v10' \in Nat
    BY <1>1, <2>1, <2>3, <2>6, OpenKept
  <2>8. ASSUME NEW i \in Proxy!open'
        PROVE  Id[v1'[i]] = i /\ (Proxy!Live(i)' \/ Proxy!Evicting(i)')
    <3>1. Id[v1[i]] = i /\ (Proxy!Live(i) \/ Proxy!Evicting(i))
      BY <1>1, <2>6 DEF Proxy!UsableInv
    <3>2. Proxy!Live(i) => Proxy!Live(i)'
      BY <2>1, <2>6 DEF Proxy!Live, Proxy!is_active
    <3> QED
      BY <2>4, <2>6, <3>1, <3>2
  <2>9. Proxy!UsableInv'
    BY <2>8 DEF Proxy!UsableInv
  <2>10. Proxy!LoopInv'
    BY <1>1, <2>1, <2>2, <2>3 DEF Proxy!LoopInv, Proxy!Removing
  <2> QED
    BY <1>1, <1>2, <2>1, <2>3, <2>5, <2>7, <2>9, <2>10
<1>16. ASSUME NEW w \in Workers, Proxy!Unsubscribe(w) PROVE Proxy!IInv'
  <2>1. /\ v6[w] \in {"forget", "unsubscribe"}
        /\ v6' = [v6 EXCEPT ![w] = IF Len(v7[w]) > 1 THEN "evict" ELSE "idle"]
        /\ v5' = v5 \ {Head(v7[w])} /\ v7' = [v7 EXCEPT ![w] = Tail(v7[w])]
        /\ v1' = v1 /\ v2' = v2 /\ v10' = v10
    BY <1>16 DEF Proxy!Unsubscribe
  <2>2. PICK to \in {"evict", "idle"} :
          v6' = [v6 EXCEPT ![w] = to] /\ (to = "evict" => Len(v7[w]) > 1)
    BY <2>1
  <2>3. /\ DOMAIN v6' = Tasks /\ v6'[w] = to /\ \A t \in Tasks \ {w} : v6'[t] = v6[t]
        /\ Proxy!inserting' = Proxy!inserting
    BY <1>9, <2>1, <2>2
  <2>4. v7'[w] = Tail(v7[w]) /\ DOMAIN v7' = Workers /\ \A x \in Workers \ {w} : v7'[x] = v7[x]
    BY <1>1, <2>1
  <2>5. \A x \in Workers : v6[x] = "unmap" => v6'[x] = "unmap" /\ v7'[x] = v7[x]
    BY <2>1, <2>3, <2>4
  <2>6. Tail(v7[w]) \in Seq(Proxy!Ids) /\ (Len(v7[w]) > 1 => Tail(v7[w]) # <<>>)
    <3>1. v7[w] \in Seq(Proxy!Ids) /\ v7[w] # <<>>
      BY <1>1, <2>1 DEF Proxy!LoopInv, Proxy!Removing
    <3> QED
      BY <3>1, TailOf
  <2>7. Proxy!LoopInv'
    BY <1>1, <2>1, <2>2, <2>3, <2>4, <2>6 DEF Proxy!LoopInv, Proxy!Removing
  <2>8. v2' \in [Adders -> Modes]
    BY <1>1, <2>1
  <2> QED
    BY <1>1, <1>4, <2>1, <2>3, <2>5, <2>7, <2>8
<1>17. CASE UNCHANGED Proxy!vars
  <2>1. /\ v1' = v1 /\ v2' = v2 /\ v5' = v5 /\ v6' = v6 /\ v7' = v7 /\ v10' = v10
    BY <1>17 DEF Proxy!vars
  <2>2. Proxy!inserting' = Proxy!inserting
    BY <2>1 DEF Proxy!inserting
  <2>3. Proxy!LoopInv'
    BY <1>1, <2>1 DEF Proxy!LoopInv, Proxy!Removing
  <2> QED
    BY <1>1, <1>4, <2>1, <2>2, <2>3
<1> QED
  BY <1>5, <1>6, <1>7, <1>8, <1>11, <1>12, <1>13, <1>14, <1>15, <1>16, <1>17 DEF Proxy!Next

LEMMA ProxyInit ==
  ASSUME Proxy!ProxyAssumption, Proxy!Init PROVE Proxy!IInv
<1>1. /\ v1 = [i \in Proxy!Ids |-> Proxy!Nobody] /\ v2 = [a \in Adders |-> "Connecting"]
      /\ v5 = {} /\ v6 = [t \in Adders \cup Workers |-> "idle"]
      /\ v7 = [w \in Workers |-> <<>>] /\ v10 = 0
  BY DEF Proxy!Init
<1>2. Proxy!open = {} /\ Proxy!inserting = {}
  BY <1>1 DEF Proxy!open, Proxy!inserting
<1>3. Proxy!RoomInv
  <2>1. Proxy!Cardinality({}) = 0
    BY ProxyCounts, FS_EmptySet
  <2>2. Proxy!Max({0, 1}) \in Nat /\ Proxy!Max({0, 1}) >= 1 /\ max_connections \in Nat
    BY ProxyMax DEF Proxy!ProxyAssumption
  <2> QED
    BY <1>1, <1>2, <2>1, <2>2 DEF Proxy!RoomInv
<1>4. Proxy!UsableInv /\ Proxy!LoopInv
  BY <1>1, <1>2 DEF Proxy!UsableInv, Proxy!LoopInv, Proxy!Removing
<1>5. /\ v1 \in [Proxy!Ids -> Adders \cup {Proxy!Nobody}]
      /\ v2 \in [Adders -> {"Connecting", "Open", "Idle", "Closed"}]
      /\ DOMAIN v6 = Adders \cup Workers
  BY <1>1
<1> QED
  BY <1>1, <1>3, <1>4, <1>5 DEF Proxy!IInv

(* However calls race, the proxy and the response cache outgrow their room by *)
(* no more than those who raced past the check since they last were within    *)
(* it, the proxy holds no connection it closed unless its eviction is under   *)
(* way, and an invalidation leaves nothing whose header it found.             *)
THEOREM RoomAlwaysHeld ==
  FaultsSpec => []RoomHeld
<1> USE FaultsAssumption
<1> DEFINE Inv == (part = "proxy" => Proxy!IInv) /\ (part = "responses" => Responses!IInv)
<1>1. FaultsInit => Inv
  BY ProxyInit, CacheInit DEF FaultsInit, OtherInit
<1>2. Inv /\ [FaultsNext]_allVars => Inv'
  BY OnePartMoves, ProxyStep, CacheStep
<1>3. Inv => RoomHeld
  <2>1. Proxy!IInv => Proxy!RoomHeld
    BY DEF Proxy!IInv, Proxy!RoomInv, Proxy!UsableInv, Proxy!RoomHeld, Proxy!Live
  <2>2. Responses!IInv => Responses!CacheHeld
    <3> SUFFICES ASSUME Responses!IInv PROVE Responses!CacheHeld
      OBVIOUS
    <3> DEFINE p == Responses!Cardinality(Responses!present)
               i == Responses!Cardinality(Responses!inserting)
               m == Responses!Max({v9, 1})
    <3>1. p + i <= max_size + m - 1 /\ \A q \in Responses!tagged : v1[q].stamp > v10
      BY DEF Responses!IInv, Responses!RoomInv, Responses!SweepInv
    <3>2. p \in Nat /\ i \in Nat
      BY RoomSets, ResponseCounts
    <3>3. m \in Nat /\ max_size \in Nat
      <4>1. v9 \in Nat
        BY DEF Responses!IInv
      <4> QED
        BY <4>1, ResponseMax DEF Responses!CacheAssumption
    <3>4. Responses!CacheHeld <=>
            p <= max_size + m - 1 /\ \A q \in Responses!tagged : v1[q].stamp > v10
      BY DEF Responses!CacheHeld
    <3> HIDE DEF p, i, m
    <3> QED
      BY <3>1, <3>2, <3>3, <3>4
  <2> QED
    BY <2>1, <2>2 DEF RoomHeld
<1> QED
  BY <1>1, <1>2, <1>3, PTL DEF FaultsSpec

=============================================================================
