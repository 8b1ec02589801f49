-------------------------- MODULE LiveConfigProofs --------------------------
(***************************************************************************)
(* Theorems about LiveConfig, for any number of calls, any requests and    *)
(* any adaptive step: what submit reads has validated as a whole, patches  *)
(* that are not dropped keep cfg and cfg_arc in step, and the adaptive     *)
(* threshold stays in its bounds and decays for good.                      *)
(***************************************************************************)
EXTENDS LiveConfig, TLAPS

-----------------------------------------------------------------------------
(* Arithmetic *)

(* A raise never lowers the threshold, and a decay always does. *)
LEMMA RaiseStep ==
  ASSUME NEW thr \in Nat
  PROVE  /\ (thr * (100 + 2 * StepPct)) \div 100 \in Nat
         /\ (thr * (100 + 2 * StepPct)) \div 100 >= thr
         /\ (thr * (200 + StepPct)) \div 200 \in Nat
         /\ (thr * (200 + StepPct)) \div 200 >= thr
<1>1. StepPct \in 1 .. 100
  BY LiveConfigAssumption DEF LiveConfigAssumption
<1>2. thr * StepPct \in Nat
  BY <1>1
<1>3. /\ thr * (100 + 2 * StepPct) = 100 * thr + 2 * (thr * StepPct)
      /\ thr * (200 + StepPct) = 200 * thr + thr * StepPct
  BY <1>1
<1> QED
  BY <1>2, <1>3

LEMMA DecayStep ==
  ASSUME NEW thr \in Nat, thr > 0
  PROVE  /\ (thr * (1000 - StepPct)) \div 1000 \in Nat
         /\ (thr * (1000 - StepPct)) \div 1000 < thr
<1>1. StepPct \in 1 .. 100
  BY LiveConfigAssumption DEF LiveConfigAssumption
<1>2. thr * StepPct \in Nat /\ thr * StepPct >= thr /\ thr * StepPct <= 100 * thr
  BY <1>1
<1>3. thr * (1000 - StepPct) = 1000 * thr - thr * StepPct
  BY <1>1
<1> QED
  BY <1>2, <1>3

-----------------------------------------------------------------------------
(* Types *)

(* A patched config is a config, and so is a requested one. *)
LEMMA MergeType ==
  ASSUME NEW c \in Configs, NEW patch, IsPatch(patch)
  PROVE  Merge(patch, c) \in Configs
<1>1. DOMAIN c = {"inline", "spawn", "par", "cap", "adaptive"}
  BY DEF Configs
<1>2. Merge(patch, c) = [inline |-> Merge(patch, c).inline, spawn |-> Merge(patch, c).spawn,
                         par |-> Merge(patch, c).par, cap |-> Merge(patch, c).cap,
                         adaptive |-> Merge(patch, c).adaptive]
  BY <1>1 DEF Merge
<1>3. /\ Merge(patch, c).inline \in Nat /\ Merge(patch, c).spawn \in Nat
      /\ Merge(patch, c).par \in Nat /\ Merge(patch, c).cap \in Nat
  BY <1>1 DEF Merge, IsPatch, Configs
<1>4. Merge(patch, c).adaptive \in BOOLEAN
  BY <1>1 DEF Merge, IsPatch, Configs
<1> QED
  BY <1>2, <1>3, <1>4 DEF Configs

(* What a call asks for is well formed. *)
LEMMA RequestOf ==
  ASSUME TypeOK, NEW t \in Tasks
  PROVE  /\ call[t] \in Requests
         /\ call[t].op = "set" => call[t].arg \in Configs /\ validate(call[t].arg)
         /\ call[t].op \in {"patch", "field"} => IsPatch(call[t].arg)
  BY LiveConfigAssumption DEF LiveConfigAssumption, IsRequest, TypeOK

(* The bounds of the recommended cap are numbers. *)
LEMMA CapTypes ==
  ASSUME NEW n \in Nat
  PROVE  /\ Least((n * 5) \div 4, MaxQueueCap) \in Nat
         /\ Greatest((n * 4) \div 5, MinQueueCap) \in Nat
         /\ Least(n, MaxQueueCap) \in Nat
         /\ Greatest(n, MinQueueCap) \in Nat
  BY LiveConfigAssumption DEF LiveConfigAssumption, Least, Greatest

(* Every step keeps the types. *)
LEMMA TypeStep ==
  ASSUME TypeOK, [Next]_vars
  PROVE  TypeOK'
<1>1. ASSUME NEW t \in Tasks, SetCfg(t) PROVE TypeOK'
  BY <1>1, RequestOf DEF SetCfg, At, See, Goto, adaptiveVars, TypeOK, PCs
<1>2. ASSUME NEW t \in Tasks, FieldCfg(t) PROVE TypeOK'
  BY <1>2, RequestOf, MergeType DEF FieldCfg, At, See, Goto, adaptiveVars, TypeOK, PCs
<1>3. ASSUME NEW t \in Tasks, Publish(t) PROVE TypeOK'
  BY <1>3 DEF Publish, Goto, adaptiveVars, TypeOK, PCs
<1>4. ASSUME NEW t \in Tasks, PatchCfg(t) PROVE TypeOK'
  BY <1>4, RequestOf, MergeType DEF PatchCfg, At, See, Goto, adaptiveVars, TypeOK, PCs
<1>5. ASSUME NEW t \in Tasks, PatchPublish(t) PROVE TypeOK'
  BY <1>5 DEF PatchPublish, At, Goto, adaptiveVars, TypeOK, PCs
<1>15. ASSUME NEW t \in Tasks, PatchDrop(t) PROVE TypeOK'
  BY <1>15 DEF PatchDrop, At, Goto, adaptiveVars, TypeOK, PCs
<1>6. ASSUME NEW t \in Tasks, ScaleRead(t) PROVE TypeOK'
  <2>1. cfg.cap \in Nat
    BY DEF TypeOK, Configs
  <2>2. rec' \in [Tasks -> Nat]
    BY <1>6, <2>1, CapTypes DEF ScaleRead, TypeOK
  <2>3. pc' \in [Tasks -> PCs]
    BY <1>6 DEF ScaleRead, Goto, TypeOK, PCs
  <2> QED
    BY <1>6, <2>2, <2>3 DEF ScaleRead, See, adaptiveVars, TypeOK
<1>7. ASSUME NEW t \in Tasks, ScaleApply(t) PROVE TypeOK'
  <2>1. cfg' \in Configs
    BY <1>7, CapTypes DEF ScaleApply, TypeOK, Configs
  <2> QED
    BY <1>7, <2>1 DEF ScaleApply, Goto, adaptiveVars, TypeOK, PCs
<1>8. ASSUME NEW t \in Tasks, AdaptRead(t) PROVE TypeOK'
  BY <1>8 DEF AdaptRead, At, See, Goto, adaptiveVars, TypeOK, PCs
<1>9. ASSUME NEW t \in Tasks, AdaptObserve(t) PROVE TypeOK'
  BY <1>9 DEF AdaptObserve, At, Goto, Least, TypeOK, PCs
<1>10. ASSUME NEW t \in Tasks, AdaptRaise(t) PROVE TypeOK'
  <2>1. adaptive_spawn_threshold \in Nat /\ seen[t].spawn \in Nat
    BY DEF TypeOK, Configs
  <2>2. adaptive_spawn_threshold' \in Nat
    BY <1>10, <2>1, RaiseStep DEF AdaptRaise, Least
  <2> QED
    BY <1>10, <2>2 DEF AdaptRaise, Goto, TypeOK, PCs
<1>11. ASSUME NEW t \in Tasks, AdaptDecay(t) PROVE TypeOK'
  <2>1. adaptive_spawn_threshold \in Nat /\ seen[t].spawn \in Nat
    BY DEF TypeOK, Configs
  <2>2. adaptive_spawn_threshold' \in Nat
    BY <1>11, <2>1, DecayStep DEF AdaptDecay, Greatest
  <2> QED
    BY <1>11, <2>2 DEF AdaptDecay, Goto, TypeOK, PCs
<1>12. ASSUME NEW t \in Tasks, SubmitRead(t) PROVE TypeOK'
  BY <1>12 DEF SubmitRead, At, See, Goto, adaptiveVars, TypeOK, PCs
<1>13. ASSUME NEW t \in Tasks, SubmitOverride(t) PROVE TypeOK'
  BY <1>13 DEF SubmitOverride, At, Goto, adaptiveVars, TypeOK, PCs
<1>14. CASE UNCHANGED vars
  BY <1>14 DEF vars, TypeOK
<1> QED
  BY <1>1, <1>2, <1>3, <1>4, <1>5, <1>6, <1>7, <1>8,
     <1>9, <1>10, <1>11, <1>12, <1>13, <1>14, <1>15
  DEF Next

-----------------------------------------------------------------------------
(* The inductive invariant *)

(* What is about to be published has validated. *)
PublishValid ==
  Asking({"field"}) = {} =>
    \A t \in Tasks : call[t].op \in {"set", "patch"} /\ pc[t] = "publish"
      => validate(seen[t])

(* cfg is locked exactly while a patch has written it and not yet cfg_arc,  *)
(* and nothing else writes it meanwhile.                                    *)
LockInv ==
  /\ cfg_lock # Nobody => call[cfg_lock].op = "patch" /\ pc[cfg_lock] = "publish"
                          /\ seen[cfg_lock] = cfg
  /\ \A t \in Tasks : call[t].op = "patch" /\ pc[t] = "publish" => cfg_lock = t

(* A writer that nothing overlaps publishes what it wrote. *)
SoloInv ==
  Asking({"scale"}) = {} =>
    \A t \in Tasks :
      pc[t] = "publish" /\ Asking({"set", "field", "patch"}) = {t} => seen[t] = cfg

(* Every base a threshold is compared with was configured. *)
BasesInv ==
  /\ cfg.spawn \in Bases /\ cfg_arc.spawn \in Bases
  /\ \A t \in Tasks : seen[t].spawn \in Bases

IInv ==
  /\ TypeOK
  /\ SnapshotValid /\ PublishValid
  /\ LockInv /\ SoloInv /\ PairInSync
  /\ BasesInv /\ ThresholdBounded

(* A request never changes, so neither does the set of calls that made one. *)
LEMMA CallsFixed ==
  ASSUME [Next]_vars
  PROVE  call' = call /\ \A ops : Asking(ops)' = Asking(ops)
<1>1. call' = call
  BY DEF Next, vars, SetCfg, FieldCfg, Publish, PatchCfg, PatchPublish, PatchDrop, ScaleRead,
     ScaleApply, AdaptRead, AdaptObserve, AdaptRaise, AdaptDecay, SubmitRead,
     SubmitOverride
<1> QED
  BY <1>1 DEF Asking

(* The snapshot stays valid. *)
LEMMA SnapshotStep ==
  ASSUME TypeOK, SnapshotValid, PublishValid, [Next]_vars
  PROVE  SnapshotValid' /\ PublishValid'
<1> USE CallsFixed
<1>1. ASSUME NEW t \in Tasks, SetCfg(t) PROVE SnapshotValid' /\ PublishValid'
  BY <1>1, RequestOf
  DEF SetCfg, At, See, Goto, TypeOK, SnapshotValid, PublishValid, Asking
<1>2. ASSUME NEW t \in Tasks, FieldCfg(t) PROVE SnapshotValid' /\ PublishValid'
  BY <1>2
  DEF FieldCfg, At, See, Goto, TypeOK, SnapshotValid, PublishValid, Asking
<1>3. ASSUME NEW t \in Tasks, Publish(t) PROVE SnapshotValid' /\ PublishValid'
  BY <1>3
  DEF Publish, Goto, TypeOK, SnapshotValid, PublishValid, Asking
<1>4. ASSUME NEW t \in Tasks, PatchCfg(t) PROVE SnapshotValid' /\ PublishValid'
  BY <1>4
  DEF PatchCfg, At, See, Goto, TypeOK, SnapshotValid, PublishValid, Asking
<1>5. ASSUME NEW t \in Tasks, PatchPublish(t) PROVE SnapshotValid' /\ PublishValid'
  BY <1>5
  DEF PatchPublish, At, Goto, TypeOK, SnapshotValid, PublishValid, Asking
<1>15. ASSUME NEW t \in Tasks, PatchDrop(t) PROVE SnapshotValid' /\ PublishValid'
  BY <1>15
  DEF PatchDrop, At, Goto, TypeOK, SnapshotValid, PublishValid, Asking
<1>6. ASSUME NEW t \in Tasks, ScaleRead(t) PROVE SnapshotValid' /\ PublishValid'
  BY <1>6
  DEF ScaleRead, At, See, Goto, TypeOK, SnapshotValid, PublishValid, Asking
<1>7. ASSUME NEW t \in Tasks, ScaleApply(t) PROVE SnapshotValid' /\ PublishValid'
  BY <1>7
  DEF ScaleApply, Goto, TypeOK, SnapshotValid, PublishValid, Asking
<1>8. ASSUME NEW t \in Tasks, AdaptRead(t) PROVE SnapshotValid' /\ PublishValid'
  BY <1>8
  DEF AdaptRead, At, See, Goto, TypeOK, SnapshotValid, PublishValid, Asking
<1>9. ASSUME NEW t \in Tasks, AdaptObserve(t) PROVE SnapshotValid' /\ PublishValid'
  BY <1>9
  DEF AdaptObserve, At, Goto, TypeOK, SnapshotValid, PublishValid, Asking
<1>10. ASSUME NEW t \in Tasks, AdaptRaise(t) PROVE SnapshotValid' /\ PublishValid'
  BY <1>10
  DEF AdaptRaise, Goto, TypeOK, SnapshotValid, PublishValid, Asking
<1>11. ASSUME NEW t \in Tasks, AdaptDecay(t) PROVE SnapshotValid' /\ PublishValid'
  BY <1>11
  DEF AdaptDecay, At, Goto, TypeOK, SnapshotValid, PublishValid, Asking
<1>12. ASSUME NEW t \in Tasks, SubmitRead(t) PROVE SnapshotValid' /\ PublishValid'
  BY <1>12
  DEF SubmitRead, At, See, Goto, TypeOK, SnapshotValid, PublishValid, Asking
<1>13. ASSUME NEW t \in Tasks, SubmitOverride(t) PROVE SnapshotValid' /\ PublishValid'
  BY <1>13
  DEF SubmitOverride, At, Goto, TypeOK, SnapshotValid, PublishValid, Asking
<1>14. CASE UNCHANGED vars
  BY <1>14 DEF vars, TypeOK, SnapshotValid, PublishValid, Asking
<1> QED
  BY <1>1, <1>2, <1>3, <1>4, <1>5, <1>6, <1>7, <1>8,
     <1>9, <1>10, <1>11, <1>12, <1>13, <1>14, <1>15
  DEF Next

(* The lock is held from the first write of a patch to the second. *)
LEMMA LockStep ==
  ASSUME TypeOK, LockInv, [Next]_vars
  PROVE  LockInv'
<1> USE CallsFixed
<1>1. ASSUME NEW t \in Tasks, SetCfg(t) PROVE LockInv'
  BY <1>1
  DEF SetCfg, At, See, Goto, TypeOK, LockInv
<1>2. ASSUME NEW t \in Tasks, FieldCfg(t) PROVE LockInv'
  BY <1>2
  DEF FieldCfg, At, See, Goto, TypeOK, LockInv
<1>3. ASSUME NEW t \in Tasks, Publish(t) PROVE LockInv'
  BY <1>3
  DEF Publish, Goto, TypeOK, LockInv
<1>4. ASSUME NEW t \in Tasks, PatchCfg(t) PROVE LockInv'
  BY <1>4, LiveConfigAssumption
  DEF LiveConfigAssumption, PatchCfg, At, See, Goto, TypeOK, LockInv
<1>5. ASSUME NEW t \in Tasks, PatchPublish(t) PROVE LockInv'
  BY <1>5, LiveConfigAssumption
  DEF LiveConfigAssumption, PatchPublish, At, Goto, TypeOK, LockInv
<1>15. ASSUME NEW t \in Tasks, PatchDrop(t) PROVE LockInv'
  BY <1>15, LiveConfigAssumption
  DEF LiveConfigAssumption, PatchDrop, At, Goto, TypeOK, LockInv
<1>6. ASSUME NEW t \in Tasks, ScaleRead(t) PROVE LockInv'
  BY <1>6
  DEF ScaleRead, At, See, Goto, TypeOK, LockInv
<1>7. ASSUME NEW t \in Tasks, ScaleApply(t) PROVE LockInv'
  BY <1>7
  DEF ScaleApply, Goto, TypeOK, LockInv
<1>8. ASSUME NEW t \in Tasks, AdaptRead(t) PROVE LockInv'
  BY <1>8
  DEF AdaptRead, At, See, Goto, TypeOK, LockInv
<1>9. ASSUME NEW t \in Tasks, AdaptObserve(t) PROVE LockInv'
  BY <1>9
  DEF AdaptObserve, At, Goto, TypeOK, LockInv
<1>10. ASSUME NEW t \in Tasks, AdaptRaise(t) PROVE LockInv'
  BY <1>10
  DEF AdaptRaise, Goto, TypeOK, LockInv
<1>11. ASSUME NEW t \in Tasks, AdaptDecay(t) PROVE LockInv'
  BY <1>11
  DEF AdaptDecay, At, Goto, TypeOK, LockInv
<1>12. ASSUME NEW t \in Tasks, SubmitRead(t) PROVE LockInv'
  BY <1>12
  DEF SubmitRead, At, See, Goto, TypeOK, LockInv
<1>13. ASSUME NEW t \in Tasks, SubmitOverride(t) PROVE LockInv'
  BY <1>13
  DEF SubmitOverride, At, Goto, TypeOK, LockInv
<1>14. CASE UNCHANGED vars
  BY <1>14 DEF vars, TypeOK, LockInv
<1> QED
  BY <1>1, <1>2, <1>3, <1>4, <1>5, <1>6, <1>7, <1>8,
     <1>9, <1>10, <1>11, <1>12, <1>13, <1>14, <1>15
  DEF Next

(* A writer that runs alone finds cfg as it wrote it. *)
LEMMA SoloStep ==
  ASSUME TypeOK, LockInv, SoloInv, [Next]_vars
  PROVE  SoloInv'
<1> USE CallsFixed
<1>1. ASSUME NEW t \in Tasks, SetCfg(t) PROVE SoloInv'
  BY <1>1
  DEF SetCfg, At, See, Goto, TypeOK, LockInv, SoloInv, Asking
<1>2. ASSUME NEW t \in Tasks, FieldCfg(t) PROVE SoloInv'
  BY <1>2
  DEF FieldCfg, At, See, Goto, TypeOK, LockInv, SoloInv, Asking
<1>3. ASSUME NEW t \in Tasks, Publish(t) PROVE SoloInv'
  BY <1>3
  DEF Publish, Goto, TypeOK, LockInv, SoloInv, Asking
<1>4. ASSUME NEW t \in Tasks, PatchCfg(t) PROVE SoloInv'
  BY <1>4
  DEF PatchCfg, At, See, Goto, TypeOK, LockInv, SoloInv, Asking
<1>5. ASSUME NEW t \in Tasks, PatchPublish(t) PROVE SoloInv'
  BY <1>5
  DEF PatchPublish, At, Goto, TypeOK, LockInv, SoloInv, Asking
<1>15. ASSUME NEW t \in Tasks, PatchDrop(t) PROVE SoloInv'
  BY <1>15
  DEF PatchDrop, At, Goto, TypeOK, LockInv, SoloInv, Asking
<1>6. ASSUME NEW t \in Tasks, ScaleRead(t) PROVE SoloInv'
  BY <1>6
  DEF ScaleRead, At, See, Goto, TypeOK, LockInv, SoloInv, Asking
<1>7. ASSUME NEW t \in Tasks, ScaleApply(t) PROVE SoloInv'
  BY <1>7
  DEF ScaleApply, Goto, TypeOK, LockInv, SoloInv, Asking
<1>8. ASSUME NEW t \in Tasks, AdaptRead(t) PROVE SoloInv'
  BY <1>8
  DEF AdaptRead, At, See, Goto, TypeOK, LockInv, SoloInv, Asking
<1>9. ASSUME NEW t \in Tasks, AdaptObserve(t) PROVE SoloInv'
  BY <1>9
  DEF AdaptObserve, At, Goto, TypeOK, LockInv, SoloInv, Asking
<1>10. ASSUME NEW t \in Tasks, AdaptRaise(t) PROVE SoloInv'
  BY <1>10
  DEF AdaptRaise, Goto, TypeOK, LockInv, SoloInv, Asking
<1>11. ASSUME NEW t \in Tasks, AdaptDecay(t) PROVE SoloInv'
  BY <1>11
  DEF AdaptDecay, At, Goto, TypeOK, LockInv, SoloInv, Asking
<1>12. ASSUME NEW t \in Tasks, SubmitRead(t) PROVE SoloInv'
  BY <1>12
  DEF SubmitRead, At, See, Goto, TypeOK, LockInv, SoloInv, Asking
<1>13. ASSUME NEW t \in Tasks, SubmitOverride(t) PROVE SoloInv'
  BY <1>13
  DEF SubmitOverride, At, Goto, TypeOK, LockInv, SoloInv, Asking
<1>14. CASE UNCHANGED vars
  BY <1>14 DEF vars, TypeOK, LockInv, SoloInv, Asking
<1> QED
  BY <1>1, <1>2, <1>3, <1>4, <1>5, <1>6, <1>7, <1>8,
     <1>9, <1>10, <1>11, <1>12, <1>13, <1>14, <1>15
  DEF Next

(* The pair is in step again after each write of the snapshot. *)
LEMMA PairStep ==
  ASSUME TypeOK, LockInv, SoloInv, PairInSync, [Next]_vars
  PROVE  PairInSync'
<1> USE CallsFixed
<1>1. ASSUME NEW t \in Tasks, SetCfg(t) PROVE PairInSync'
  BY <1>1
  DEF SetCfg, At, See, Goto, TypeOK, LockInv, SoloInv, PairInSync, Asking
<1>2. ASSUME NEW t \in Tasks, FieldCfg(t) PROVE PairInSync'
  BY <1>2
  DEF FieldCfg, At, See, Goto, TypeOK, LockInv, SoloInv, PairInSync, Asking
<1>3. ASSUME NEW t \in Tasks, Publish(t) PROVE PairInSync'
  BY <1>3
  DEF Publish, Goto, TypeOK, LockInv, SoloInv, PairInSync, Asking
<1>4. ASSUME NEW t \in Tasks, PatchCfg(t) PROVE PairInSync'
  BY <1>4, LiveConfigAssumption
  DEF LiveConfigAssumption, PatchCfg, At, See, Goto, TypeOK, LockInv, SoloInv, PairInSync, Asking
<1>5. ASSUME NEW t \in Tasks, PatchPublish(t) PROVE PairInSync'
  BY <1>5, LiveConfigAssumption
  DEF LiveConfigAssumption, PatchPublish, At, Goto, TypeOK, LockInv, SoloInv, PairInSync, Asking
<1>15. ASSUME NEW t \in Tasks, PatchDrop(t) PROVE PairInSync'
  BY <1>15, LiveConfigAssumption
  DEF LiveConfigAssumption, PatchDrop, At, Goto, TypeOK, LockInv, SoloInv, PairInSync, Asking
<1>6. ASSUME NEW t \in Tasks, ScaleRead(t) PROVE PairInSync'
  BY <1>6
  DEF ScaleRead, At, See, Goto, TypeOK, LockInv, SoloInv, PairInSync, Asking
<1>7. ASSUME NEW t \in Tasks, ScaleApply(t) PROVE PairInSync'
  BY <1>7
  DEF ScaleApply, Goto, TypeOK, LockInv, SoloInv, PairInSync, Asking
<1>8. ASSUME NEW t \in Tasks, AdaptRead(t) PROVE PairInSync'
  BY <1>8
  DEF AdaptRead, At, See, Goto, TypeOK, LockInv, SoloInv, PairInSync, Asking
<1>9. ASSUME NEW t \in Tasks, AdaptObserve(t) PROVE PairInSync'
  BY <1>9
  DEF AdaptObserve, At, Goto, TypeOK, LockInv, SoloInv, PairInSync, Asking
<1>10. ASSUME NEW t \in Tasks, AdaptRaise(t) PROVE PairInSync'
  BY <1>10
  DEF AdaptRaise, Goto, TypeOK, LockInv, SoloInv, PairInSync, Asking
<1>11. ASSUME NEW t \in Tasks, AdaptDecay(t) PROVE PairInSync'
  BY <1>11
  DEF AdaptDecay, At, Goto, TypeOK, LockInv, SoloInv, PairInSync, Asking
<1>12. ASSUME NEW t \in Tasks, SubmitRead(t) PROVE PairInSync'
  BY <1>12
  DEF SubmitRead, At, See, Goto, TypeOK, LockInv, SoloInv, PairInSync, Asking
<1>13. ASSUME NEW t \in Tasks, SubmitOverride(t) PROVE PairInSync'
  BY <1>13
  DEF SubmitOverride, At, Goto, TypeOK, LockInv, SoloInv, PairInSync, Asking
<1>14. CASE UNCHANGED vars
  BY <1>14 DEF vars, TypeOK, LockInv, SoloInv, PairInSync, Asking
<1> QED
  BY <1>1, <1>2, <1>3, <1>4, <1>5, <1>6, <1>7, <1>8,
     <1>9, <1>10, <1>11, <1>12, <1>13, <1>14, <1>15
  DEF Next

(* The base that a request configures, or leaves, is a base. *)
LEMMA BaseOf ==
  ASSUME TypeOK, NEW t \in Tasks, NEW c \in Configs, c.spawn \in Bases
  PROVE  /\ call[t].op = "set" => call[t].arg.spawn \in Bases
         /\ call[t].op \in {"patch", "field"} => Merge(call[t].arg, c).spawn \in Bases
<1>1. call[t] \in Requests
  BY DEF TypeOK
<1>2. call[t].op = "set" => "spawn" \in DOMAIN call[t].arg
  BY RequestOf DEF Configs
<1>3. "spawn" \in DOMAIN c
  BY DEF Configs
<1> QED
  BY <1>1, <1>2, <1>3 DEF Bases, Merge

(* Every base is a number. *)
LEMMA BasesAreNumbers ==
  \A b \in Bases : b \in Nat
<1>1. Initial.spawn \in Nat
  BY LiveConfigAssumption DEF LiveConfigAssumption, Configs
<1>2. ASSUME NEW r \in Requests, r.op \in {"set", "patch", "field"},
             "spawn" \in DOMAIN r.arg
      PROVE  r.arg.spawn \in Nat
  BY <1>2, LiveConfigAssumption DEF LiveConfigAssumption, IsRequest, IsPatch, Configs
<1> QED
  BY <1>1, <1>2 DEF Bases

(* Clones of cfg carry configured bases. *)
LEMMA BasesStep ==
  ASSUME TypeOK, BasesInv, [Next]_vars
  PROVE  BasesInv'
<1>1. ASSUME NEW t \in Tasks, SetCfg(t) PROVE BasesInv'
  BY <1>1, BaseOf DEF SetCfg, At, See, BasesInv, TypeOK, Bases
<1>2. ASSUME NEW t \in Tasks, FieldCfg(t) PROVE BasesInv'
  BY <1>2, BaseOf DEF FieldCfg, At, See, BasesInv, TypeOK, Bases
<1>3. ASSUME NEW t \in Tasks, Publish(t) PROVE BasesInv'
  BY <1>3 DEF Publish, BasesInv, TypeOK, Bases
<1>4. ASSUME NEW t \in Tasks, PatchCfg(t) PROVE BasesInv'
  BY <1>4, BaseOf DEF PatchCfg, At, See, BasesInv, TypeOK, Bases
<1>5. ASSUME NEW t \in Tasks, PatchPublish(t) PROVE BasesInv'
  BY <1>5 DEF PatchPublish, BasesInv, TypeOK, Bases
<1>15. ASSUME NEW t \in Tasks, PatchDrop(t) PROVE BasesInv'
  BY <1>15 DEF PatchDrop, BasesInv, TypeOK, Bases
<1>6. ASSUME NEW t \in Tasks, ScaleRead(t) PROVE BasesInv'
  BY <1>6 DEF ScaleRead, See, BasesInv, TypeOK, Bases
<1>7. ASSUME NEW t \in Tasks, ScaleApply(t) PROVE BasesInv'
  BY <1>7 DEF ScaleApply, BasesInv, TypeOK, Bases, Configs
<1>8. ASSUME NEW t \in Tasks, AdaptRead(t) PROVE BasesInv'
  BY <1>8 DEF AdaptRead, See, BasesInv, TypeOK, Bases
<1>9. ASSUME NEW t \in Tasks, AdaptObserve(t) PROVE BasesInv'
  BY <1>9 DEF AdaptObserve, BasesInv, TypeOK, Bases
<1>10. ASSUME NEW t \in Tasks, AdaptRaise(t) PROVE BasesInv'
  BY <1>10 DEF AdaptRaise, BasesInv, TypeOK, Bases
<1>11. ASSUME NEW t \in Tasks, AdaptDecay(t) PROVE BasesInv'
  BY <1>11 DEF AdaptDecay, BasesInv, TypeOK, Bases
<1>12. ASSUME NEW t \in Tasks, SubmitRead(t) PROVE BasesInv'
  BY <1>12 DEF SubmitRead, See, BasesInv, TypeOK, Bases
<1>13. ASSUME NEW t \in Tasks, SubmitOverride(t) PROVE BasesInv'
  BY <1>13 DEF SubmitOverride, BasesInv, TypeOK, Bases
<1>14. CASE UNCHANGED vars
  BY <1>14 DEF vars, BasesInv, Bases
<1> QED
  BY <1>1, <1>2, <1>3, <1>4, <1>5, <1>6, <1>7, <1>8,
     <1>9, <1>10, <1>11, <1>12, <1>13, <1>14, <1>15
  DEF Next

(* Raises and decays keep the threshold between the bases' bounds. *)
LEMMA ThresholdStep ==
  ASSUME TypeOK, BasesInv, ThresholdBounded, [Next]_vars
  PROVE  ThresholdBounded'
<1> DEFINE thr == adaptive_spawn_threshold
<1>1. /\ thr \in Nat
      /\ \A t \in Tasks : seen[t].spawn \in Nat /\ seen[t].spawn \in Bases
  BY DEF TypeOK, Configs, BasesInv
<1>2. ASSUME NEW t \in Tasks, AdaptRaise(t)
      PROVE  /\ thr' \in Nat
             /\ thr' >= thr \/ thr' = 10 * seen[t].spawn
             /\ thr' <= 10 * seen[t].spawn
  BY <1>1, <1>2, RaiseStep DEF AdaptRaise, Least
<1>3. ASSUME NEW t \in Tasks, AdaptDecay(t)
      PROVE  /\ thr' \in Nat
             /\ thr' = thr \/ thr' >= seen[t].spawn
             /\ thr' <= thr
  BY <1>1, <1>3, DecayStep DEF AdaptDecay, Greatest
<1>4. ASSUME UNCHANGED thr
      PROVE  ThresholdBounded'
  BY <1>4 DEF ThresholdBounded, Bases
<1>5. ASSUME NEW t \in Tasks, AdaptRaise(t)
      PROVE  ThresholdBounded'
  <2>1. /\ thr' \in Nat /\ thr' <= 10 * seen[t].spawn
        /\ thr' >= thr \/ thr' = 10 * seen[t].spawn
    BY <1>2, <1>5
  <2>2. seen[t].spawn \in Nat /\ seen[t].spawn \in Bases
    BY <1>1
  <2>3. PICK b \in Bases : thr >= b
    BY DEF ThresholdBounded
  <2>4. b \in Nat
    BY <2>3, BasesAreNumbers
  <2>5. thr' >= b \/ thr' >= seen[t].spawn
    BY <1>1, <2>1, <2>2, <2>3, <2>4
  <2> QED
    BY <2>1, <2>2, <2>3, <2>5 DEF ThresholdBounded, Bases
<1>6. ASSUME NEW t \in Tasks, AdaptDecay(t)
      PROVE  ThresholdBounded'
  BY <1>1, <1>3, <1>6, BasesAreNumbers DEF ThresholdBounded, Bases
<1>7. ASSUME NEW t \in Tasks,
             \/ SetCfg(t) \/ FieldCfg(t) \/ Publish(t) \/ PatchCfg(t) \/ PatchPublish(t)
             \/ PatchDrop(t)
             \/ ScaleRead(t) \/ ScaleApply(t) \/ AdaptRead(t) \/ AdaptObserve(t)
             \/ SubmitRead(t) \/ SubmitOverride(t)
      PROVE  UNCHANGED thr
  BY <1>7
  DEF SetCfg, FieldCfg, Publish, PatchCfg, PatchPublish, PatchDrop, ScaleRead, ScaleApply,
      AdaptRead, AdaptObserve, SubmitRead, SubmitOverride, adaptiveVars
<1> QED
  BY <1>4, <1>5, <1>6, <1>7 DEF Next, vars

-----------------------------------------------------------------------------
(* Theorems *)

LEMMA InitIInv == Init => IInv
<1> SUFFICES ASSUME Init PROVE IInv
  OBVIOUS
<1> USE LiveConfigAssumption DEF LiveConfigAssumption, Init
<1>1. TypeOK
  BY DEF TypeOK, PCs, Configs
<1>2. SnapshotValid /\ PublishValid
  BY DEF SnapshotValid, PublishValid
<1>3. LockInv /\ SoloInv /\ PairInSync
  BY DEF LockInv, SoloInv, PairInSync
<1>4. Initial.spawn \in Nat /\ Initial.spawn \in Bases
  BY DEF Configs, Bases
<1>5. BasesInv
  BY <1>4 DEF BasesInv
<1>6. ThresholdBounded
  <2>1. Initial.spawn <= 10 * Initial.spawn
    BY <1>4
  <2> QED
    BY <1>4, <2>1 DEF ThresholdBounded
<1> QED
  BY <1>1, <1>2, <1>3, <1>5, <1>6 DEF IInv

LEMMA NextIInv == IInv /\ [Next]_vars => IInv'
  BY TypeStep, SnapshotStep, LockStep, SoloStep, PairStep, BasesStep, ThresholdStep
  DEF IInv

(* The strengthened invariant holds in every reachable state. *)
THEOREM ConfigInvariant == Spec => []IInv
  BY InitIInv, NextIInv, PTL DEF Spec

(* cfg and cfg_arc agree whenever no write is half done, unless the last     *)
(* patch was dropped between its writes, a whole config overlapped another   *)
(* writer or autoscale_tick ran.                                             *)
THEOREM PairStaysInSync == Spec => []PairInSync
<1>1. IInv => PairInSync
  BY DEF IInv
<1> QED
  BY <1>1, ConfigInvariant, PTL

(* What submit reads has validated as a whole. *)
THEOREM SnapshotStaysValid == Spec => []SnapshotValid
<1>1. IInv => SnapshotValid
  BY DEF IInv
<1> QED
  BY <1>1, ConfigInvariant, PTL

(* The adaptive threshold neither creeps up nor down without bound. *)
THEOREM ThresholdStaysBounded == Spec => []ThresholdBounded
<1>1. IInv => ThresholdBounded
  BY DEF IInv
<1> QED
  BY <1>1, ConfigInvariant, PTL

(* A call that decays is the only one to move from "decay" to "start". *)
LEMMA DecayOnly ==
  ASSUME TypeOK, [Next]_vars, NEW t \in Tasks,
         At(t, "adapt", "decay"), pc'[t] = "start"
  PROVE  AdaptDecay(t)
<1>1. ASSUME NEW o \in Tasks, o # t, \E label : Goto(o, label)
      PROVE  FALSE
  BY <1>1 DEF Goto, At, TypeOK
<1>2. PICK o \in Tasks :
        \/ SetCfg(o) \/ FieldCfg(o) \/ Publish(o) \/ PatchCfg(o) \/ PatchPublish(o)
        \/ PatchDrop(o)
        \/ ScaleRead(o) \/ ScaleApply(o) \/ AdaptRead(o) \/ AdaptObserve(o)
        \/ AdaptRaise(o) \/ AdaptDecay(o) \/ SubmitRead(o) \/ SubmitOverride(o)
  BY DEF Next, vars, At
<1>3. \E label : Goto(o, label)
  BY <1>2
  DEF SetCfg, FieldCfg, Publish, PatchCfg, PatchPublish, PatchDrop, ScaleRead, ScaleApply,
      AdaptRead, AdaptObserve, AdaptRaise, AdaptDecay, SubmitRead, SubmitOverride
<1>4. o = t
  BY <1>1, <1>3
<1> QED
  BY <1>2, <1>4
  DEF SetCfg, FieldCfg, Publish, PatchCfg, PatchPublish, PatchDrop, ScaleRead, ScaleApply,
      AdaptRead, AdaptObserve, AdaptRaise, SubmitRead, SubmitOverride, At

(* A decay above the base always makes progress. *)
THEOREM DecayMakesProgress == Spec => DecayProgress
<1> DEFINE P(t) == At(t, "adapt", "decay") /\ pc'[t] = "start"
                     /\ adaptive_spawn_threshold > seen[t].spawn
                   => adaptive_spawn_threshold' < adaptive_spawn_threshold
<1>1. ASSUME IInv, [Next]_vars, NEW t \in Tasks PROVE P(t)
  <2> SUFFICES ASSUME At(t, "adapt", "decay"), pc'[t] = "start",
                      adaptive_spawn_threshold > seen[t].spawn
               PROVE  adaptive_spawn_threshold' < adaptive_spawn_threshold
    OBVIOUS
  <2>1. AdaptDecay(t)
    BY <1>1, DecayOnly DEF IInv
  <2>2. adaptive_spawn_threshold \in Nat /\ seen[t].spawn \in Nat
    BY <1>1 DEF IInv, TypeOK, Configs
  <2> QED
    BY <2>1, <2>2, DecayStep DEF AdaptDecay, Greatest
<1>2. IInv /\ [Next]_vars => [\A t \in Tasks : P(t)]_vars
  BY <1>1
<1> QED
  BY <1>2, ConfigInvariant, PTL DEF Spec, DecayProgress
=============================================================================
