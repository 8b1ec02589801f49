----------------------------- MODULE LiveConfig -----------------------------
(***************************************************************************)
(* The live configuration of the router: the source of truth cfg, the      *)
(* snapshot cfg_arc that submit and run read, and the adaptive spawn       *)
(* threshold that overrides its spawn_threshold.  Five kinds of call work  *)
(* on them: set_config, patch_config, update_config_field, autoscale_tick  *)
(* and maybe_adapt_threshold; submit and run read them.                    *)
(*                                                                         *)
(* A call is one task.  Every action is the code between two awaits that   *)
(* can suspend it; cfg_lock is the write half of the RwLock around cfg     *)
(* while a call holds it across an await.                                  *)
(***************************************************************************)
EXTENDS Integers, FiniteSets

CONSTANTS
  Tasks,            \* the calls
  Requests,         \* what a call may ask for: [op, arg]
  Initial,          \* the RouterConfig the router was built with
  StepPct,          \* adaptive_step, in percent
  MinQueueCap,      \* the 16 of autoscale_tick and of AutoscalerConfig
  MaxQueueCap,      \* the 4096 of both
  DebugAssertions,  \* whether debug_assert! is compiled in
  Nobody

(* The thresholds and sizes the calls write, and the enable_adaptive_threshold *)
(* flag; what only other components read is left out.                          *)
Configs == [inline : Nat, spawn : Nat, par : Nat, cap : Nat, adaptive : BOOLEAN]

(* RouterConfig::validate *)
validate(c) ==
  /\ c.inline > 0
  /\ c.inline < c.spawn
  /\ c.par > 0
  /\ c.cap > 0
  /\ c.cap >= c.par

(* A RouterConfigPatch overwrites the fields it carries. *)
Merge(patch, c) == [f \in DOMAIN c |-> IF f \in DOMAIN patch THEN patch[f] ELSE c[f]]

IsPatch(patch) ==
  /\ DOMAIN patch \subseteq {"inline", "spawn", "par", "cap", "adaptive"}
  /\ \A f \in DOMAIN patch : IF f = "adaptive" THEN patch[f] \in BOOLEAN ELSE patch[f] \in Nat

(* POST /api/config and the file watcher validate before they call set_config. *)
IsRequest(r) ==
  \/ r.op = "set" /\ r.arg \in Configs /\ validate(r.arg)
  \/ r.op \in {"patch", "field"} /\ IsPatch(r.arg)
  \/ r.op \in {"scale", "adapt", "submit"}

ASSUME LiveConfigAssumption ==
  /\ \A r \in Requests : IsRequest(r)
  /\ Initial \in Configs /\ validate(Initial)
  /\ StepPct \in 1 .. 100
  /\ MinQueueCap \in Nat \ {0} /\ MaxQueueCap \in Nat
  /\ DebugAssertions \in BOOLEAN
  /\ Nobody \notin Tasks

VARIABLES
  call,                      \* what each task asks for
  pc, seen,                  \* where it is, and the config it read or writes
  cfg, cfg_lock, cfg_arc,
  adaptive_spawn_threshold,
  consecutive_raises,        \* up to 5: no code tells larger values apart
  rec,                       \* the cap each autoscale tick recommends
  used                       \* the spawn threshold each submit routes with

vars == <<call, pc, seen, cfg, cfg_lock, cfg_arc, adaptive_spawn_threshold,
          consecutive_raises, rec, used>>
adaptiveVars == <<adaptive_spawn_threshold, consecutive_raises>>

Least(a, b) == IF a < b THEN a ELSE b
Greatest(a, b) == IF a < b THEN b ELSE a

Goto(t, label) == pc' = [pc EXCEPT ![t] = label]

See(t, c) == seen' = [seen EXCEPT ![t] = c]

At(t, op, label) == call[t].op = op /\ pc[t] = label

-----------------------------------------------------------------------------
(* set_config: the guard of the first write is dropped with its statement. *)

SetCfg(t) ==
  /\ At(t, "set", "start")
  /\ cfg_lock = Nobody
  /\ cfg' = call[t].arg
  /\ See(t, call[t].arg)
  /\ Goto(t, "publish")
  /\ UNCHANGED <<call, cfg_lock, cfg_arc, adaptiveVars, rec, used>>

(* update_config_field releases cfg before it takes cfg_arc; where           *)
(* debug_assert! is compiled in, a result that does not validate panics with *)
(* the field already written.                                                *)
FieldCfg(t) ==
  LET c == Merge(call[t].arg, cfg)
  IN /\ At(t, "field", "start")
     /\ cfg_lock = Nobody
     /\ cfg' = c
     /\ See(t, c)
     /\ Goto(t, IF DebugAssertions /\ ~validate(c) THEN "panicked" ELSE "publish")
     /\ UNCHANGED <<call, cfg_lock, cfg_arc, adaptiveVars, rec, used>>

(* The snapshot of set_config and of update_config_field. *)
Publish(t) ==
  /\ call[t].op \in {"set", "field"} /\ pc[t] = "publish"
  /\ cfg_arc' = seen[t]
  /\ Goto(t, "done")
  /\ UNCHANGED <<call, seen, cfg, cfg_lock, adaptiveVars, rec, used>>

(* Mutant: what a patch results in is not validated. *)
PatchCfg_Unchecked(t) ==
  LET c == Merge(call[t].arg, cfg)
  IN /\ At(t, "patch", "start")
     /\ cfg_lock = Nobody
     /\ cfg' = c
     /\ See(t, c)
     /\ cfg_lock' = t
     /\ Goto(t, "publish")
     /\ UNCHANGED <<call, cfg_arc, adaptiveVars, rec, used>>

(* Mutant: patch_config releases cfg before it takes cfg_arc. *)
PatchCfg_Unlocked(t) ==
  LET c == Merge(call[t].arg, cfg)
  IN /\ At(t, "patch", "start")
     /\ cfg_lock = Nobody
     /\ \/ /\ validate(c)
           /\ cfg' = c
           /\ See(t, c)
           /\ Goto(t, "publish")
        \/ /\ ~validate(c)
           /\ Goto(t, "rejected")
           /\ UNCHANGED <<cfg, seen>>
     /\ UNCHANGED <<call, cfg_lock, cfg_arc, adaptiveVars, rec, used>>

(* patch_config: validate the merged candidate, and commit it. *)
PatchCfg(t) ==
  LET c == Merge(call[t].arg, cfg)
  IN /\ At(t, "patch", "start")
     /\ cfg_lock = Nobody
     /\ \/ /\ validate(c)
           /\ cfg' = c
           /\ See(t, c)
           /\ cfg_lock' = t
           /\ Goto(t, "publish")
        \/ /\ ~validate(c)
           /\ Goto(t, "rejected")
           /\ UNCHANGED <<cfg, seen, cfg_lock>>
     /\ UNCHANGED <<call, cfg_arc, adaptiveVars, rec, used>>

(* The snapshot is written while cfg is still locked. *)
PatchPublish(t) ==
  /\ At(t, "patch", "publish")
  /\ cfg_arc' = seen[t]
  /\ cfg_lock' = Nobody
  /\ Goto(t, "done")
  /\ UNCHANGED <<call, seen, cfg, adaptiveVars, rec, used>>

(* The future of patch_config is dropped while it waits for cfg_arc: the      *)
(* guard goes with it, and what was written to cfg stays.  (A call dropped at *)
(* any other await holds nothing, and is one that takes no more steps.)       *)
PatchDrop(t) ==
  /\ At(t, "patch", "publish")
  /\ cfg_lock' = Nobody
  /\ Goto(t, "dropped")
  /\ UNCHANGED <<call, seen, cfg, cfg_arc, adaptiveVars, rec, used>>

-----------------------------------------------------------------------------
(* autoscale_tick: the capacity is read, the recommendation computed from it *)
(* and from load the model leaves open, and applied to what cfg is by then.  *)

ScaleRead(t) ==
  /\ At(t, "scale", "start")
  /\ cfg_lock = Nobody
  /\ See(t, cfg)
  /\ \/ /\ rec' = [rec EXCEPT ![t] = Least((cfg.cap * 5) \div 4, MaxQueueCap)]
        /\ Goto(t, "up")
     \/ /\ rec' = [rec EXCEPT ![t] = Greatest((cfg.cap * 4) \div 5, MinQueueCap)]
        /\ Goto(t, "down")
     \/ Goto(t, "done") /\ UNCHANGED rec     \* Hold, or too few observations
  /\ UNCHANGED <<call, cfg, cfg_lock, cfg_arc, adaptiveVars, used>>

ScaleApply(t) ==
  /\ call[t].op = "scale" /\ pc[t] \in {"up", "down"}
  /\ cfg_lock = Nobody
  /\ LET new_cap == IF pc[t] = "up" THEN Least(rec[t], MaxQueueCap)
                    ELSE Greatest(rec[t], MinQueueCap)
         moves == IF pc[t] = "up" THEN new_cap > cfg.cap ELSE new_cap < cfg.cap
     IN cfg' = IF moves THEN [cfg EXCEPT !.cap = new_cap] ELSE cfg
  /\ Goto(t, "done")
  /\ UNCHANGED <<call, seen, cfg_lock, cfg_arc, adaptiveVars, rec, used>>

-----------------------------------------------------------------------------
(* maybe_adapt_threshold, called again and again: the config is cloned, the  *)
(* p95 of the pool is compared with the budget, and the threshold is moved   *)
(* under a lock of its own.  f64 products are taken as exact.                *)

AdaptRead(t) ==
  /\ At(t, "adapt", "start")
  /\ cfg_lock = Nobody
  /\ cfg.adaptive
  /\ See(t, cfg)
  /\ Goto(t, "observe")
  /\ UNCHANGED <<call, cfg, cfg_lock, cfg_arc, adaptiveVars, rec, used>>

(* p95 above the trigger raises, healthy p95 decays, p95 in between (or too  *)
(* few samples) does nothing.                                                *)
AdaptObserve(t) ==
  /\ At(t, "adapt", "observe")
  /\ \/ /\ Goto(t, IF consecutive_raises < 5 THEN "raiseFast" ELSE "raiseSlow")
        /\ consecutive_raises' = Least(consecutive_raises + 1, 5)
     \/ /\ Goto(t, "decay")
        /\ consecutive_raises' = 0
     \/ /\ Goto(t, "start")
        /\ UNCHANGED consecutive_raises
  /\ UNCHANGED <<call, seen, cfg, cfg_lock, cfg_arc, adaptive_spawn_threshold, rec, used>>

(* Mutant: a raise is not capped. *)
AdaptRaise_NoCap(t) ==
  /\ call[t].op = "adapt" /\ pc[t] \in {"raiseFast", "raiseSlow"}
  /\ LET thr == adaptive_spawn_threshold
     IN adaptive_spawn_threshold' =
          IF pc[t] = "raiseFast" THEN (thr * (100 + 2 * StepPct)) \div 100
          ELSE (thr * (200 + StepPct)) \div 200
  /\ Goto(t, "start")
  /\ UNCHANGED <<call, seen, cfg, cfg_lock, cfg_arc, consecutive_raises, rec, used>>

(* Twice the step for the first raises in a row, then half of it; at most ten *)
(* times the configured base.                                                 *)
AdaptRaise(t) ==
  /\ call[t].op = "adapt" /\ pc[t] \in {"raiseFast", "raiseSlow"}
  /\ LET thr == adaptive_spawn_threshold
         raised == IF pc[t] = "raiseFast" THEN (thr * (100 + 2 * StepPct)) \div 100
                   ELSE (thr * (200 + StepPct)) \div 200
     IN adaptive_spawn_threshold' = Least(raised, 10 * seen[t].spawn)
  /\ Goto(t, "start")
  /\ UNCHANGED <<call, seen, cfg, cfg_lock, cfg_arc, consecutive_raises, rec, used>>

(* Mutant: the decayed threshold is rounded up. *)
AdaptDecay_RoundsUp(t) ==
  /\ At(t, "adapt", "decay")
  /\ LET thr == adaptive_spawn_threshold
     IN adaptive_spawn_threshold' =
          IF thr > seen[t].spawn
          THEN Greatest((thr * (1000 - StepPct) + 999) \div 1000, seen[t].spawn) ELSE thr
  /\ Goto(t, "start")
  /\ UNCHANGED <<call, seen, cfg, cfg_lock, cfg_arc, consecutive_raises, rec, used>>

(* A tenth of the step, never below the configured base. *)
AdaptDecay(t) ==
  /\ At(t, "adapt", "decay")
  /\ LET thr == adaptive_spawn_threshold
     IN adaptive_spawn_threshold' =
          IF thr > seen[t].spawn
          THEN Greatest((thr * (1000 - StepPct)) \div 1000, seen[t].spawn) ELSE thr
  /\ Goto(t, "start")
  /\ UNCHANGED <<call, seen, cfg, cfg_lock, cfg_arc, consecutive_raises, rec, used>>

-----------------------------------------------------------------------------
(* submit and run: the snapshot, then the threshold that overrides it *)

SubmitRead(t) ==
  /\ At(t, "submit", "start")
  /\ See(t, cfg_arc)
  /\ Goto(t, "threshold")
  /\ UNCHANGED <<call, cfg, cfg_lock, cfg_arc, adaptiveVars, rec, used>>

SubmitOverride(t) ==
  /\ At(t, "submit", "threshold")
  /\ used' = [used EXCEPT ![t] = adaptive_spawn_threshold]
  /\ Goto(t, "routed")
  /\ UNCHANGED <<call, seen, cfg, cfg_lock, cfg_arc, adaptiveVars, rec>>

-----------------------------------------------------------------------------
Init ==
  /\ call \in [Tasks -> Requests]
  /\ pc = [t \in Tasks |-> "start"]
  /\ seen = [t \in Tasks |-> Initial]
  /\ cfg = Initial /\ cfg_arc = Initial
  /\ cfg_lock = Nobody
  /\ adaptive_spawn_threshold = Initial.spawn
  /\ consecutive_raises = 0
  /\ rec = [t \in Tasks |-> Initial.cap]
  /\ used = [t \in Tasks |-> Initial.spawn]

Next ==
  \E t \in Tasks :
    \/ SetCfg(t) \/ FieldCfg(t) \/ Publish(t)
    \/ PatchCfg(t) \/ PatchPublish(t) \/ PatchDrop(t)
    \/ ScaleRead(t) \/ ScaleApply(t)
    \/ AdaptRead(t) \/ AdaptObserve(t) \/ AdaptRaise(t) \/ AdaptDecay(t)
    \/ SubmitRead(t) \/ SubmitOverride(t)

Spec == Init /\ [][Next]_vars

-----------------------------------------------------------------------------
(* Properties *)

PCs == {"start", "publish", "done", "dropped", "rejected", "panicked", "up", "down", "observe",
        "raiseFast", "raiseSlow", "decay", "threshold", "routed"}

TypeOK ==
  /\ call \in [Tasks -> Requests]
  /\ pc \in [Tasks -> PCs]
  /\ seen \in [Tasks -> Configs]
  /\ cfg \in Configs /\ cfg_arc \in Configs
  /\ cfg_lock \in Tasks \cup {Nobody}
  /\ adaptive_spawn_threshold \in Nat
  /\ consecutive_raises \in 0 .. 5
  /\ rec \in [Tasks -> Nat]
  /\ used \in [Tasks -> Nat]

Asking(ops) == {t \in Tasks : call[t].op \in ops}

(* router.rs: cfg_arc is "always kept in sync with cfg".  However many        *)
(* patches overlap, an unlocked pair agrees, but for what a patch dropped     *)
(* between its two writes left, until the next patch is published.  With      *)
(* set_config that holds only as long as nothing else writes, and never once  *)
(* autoscale_tick has moved the cap.                                          *)
PairInSync ==
  \/ cfg_lock # Nobody
  \/ cfg = cfg_arc
  \/ \E t \in Asking({"patch"}) : pc[t] = "dropped" /\ seen[t] = cfg
  \/ Asking({"scale"}) # {}
  \/ \E t \in Asking({"set", "field"}) :
       \/ pc[t] \in {"publish", "panicked"}
       \/ Asking({"set", "field", "patch"}) # {t}

(* config.rs: "All fields are validated together by RouterConfig::validate   *)
(* before use."  What submit and run read is a config that validated as a    *)
(* whole, though autoscale_tick may leave one in cfg that does not, unless   *)
(* update_config_field skipped it.                                           *)
SnapshotValid == Asking({"field"}) = {} => validate(cfg_arc)

(* The threshold stays between the least base and ten times the largest that  *)
(* any config had, whatever order clones of cfg, raises and decays come in.   *)
(* (A base below 10 that a raise rounds back to itself stays within, too.)    *)
Bases ==
  {Initial.spawn} \cup
  {r.arg.spawn : r \in {q \in Requests : q.op \in {"set", "patch", "field"}
                                         /\ "spawn" \in DOMAIN q.arg}}

ThresholdBounded ==
  /\ \E b \in Bases : adaptive_spawn_threshold >= b
  /\ \E b \in Bases : adaptive_spawn_threshold <= 10 * b

(* A decay "prevents indefinite upward creep": above the base it always      *)
(* lowers the threshold, however the product rounds.                         *)
DecayProgress ==
  [][\A t \in Tasks :
       At(t, "adapt", "decay") /\ pc'[t] = "start"
         /\ adaptive_spawn_threshold > seen[t].spawn
       => adaptive_spawn_threshold' < adaptive_spawn_threshold]_vars

(* router.rs, on cfg and cfg_arc: both are "updated in a single write-lock   *)
(* hold so readers always see a consistent pair".                            *)
ConsistentPair ==
  (\A t \in Tasks : call[t].op = "set" /\ pc[t] = "done") => cfg = cfg_arc
=============================================================================
