---------------------------- MODULE MCLiveConfig ----------------------------
(* Instances of LiveConfig for TLC. *)
EXTENDS LiveConfig, TLC

CONSTANTS t1, t2, t3

(* Bases of 3 and 5, so that ten times the base takes several raises; the cap *)
(* may fall to 2, below a parallelism of 3.                                   *)
MCInitial == [inline |-> 1, spawn |-> 3, par |-> 3, cap |-> 4, adaptive |-> TRUE]

NoArg == [f \in {} |-> 0]

Ask(op, arg) == [op |-> op, arg |-> arg]

(* A whole config, patches of one field and of two, one that never validates, *)
(* one that stops adaptation, and a field that no longer validates once the   *)
(* cap has moved.                                                             *)
MCRequests ==
  {Ask("set", [inline |-> 2, spawn |-> 5, par |-> 2, cap |-> 3, adaptive |-> TRUE]),
   Ask("patch", "inline" :> 2),
   Ask("patch", ("spawn" :> 4) @@ ("cap" :> 5)),
   Ask("patch", "inline" :> 5),
   Ask("patch", "adaptive" :> FALSE),
   Ask("field", "par" :> 4),
   Ask("scale", NoArg), Ask("adapt", NoArg), Ask("submit", NoArg)}

(* Two whole configs. *)
SetRequests ==
  {Ask("set", [MCInitial EXCEPT !.spawn = s]) : s \in {4, 5}}

TaskSymmetry == Permutations({t1, t2, t3})
=============================================================================
