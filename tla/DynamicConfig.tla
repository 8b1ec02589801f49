----------------------------- MODULE DynamicConfig -----------------------------
(* dynamic_config.rs: values under one lock, a version under another that is  *)
(* raised and published after the values are changed, and a schema that what  *)
(* is set is validated against before any lock is taken.                      *)
EXTENDS Integers, FiniteSets, SequencesExt

CONSTANTS
  Writers, Readers, Keys,
  Values,              \* [Keys -> SUBSET Value]: what callers try to set
  Valid,               \* [Keys -> SUBSET Value]: what validate_value lets through
  Required,            \* keys the schema requires
  MaxWrites

Absent == "absent"
Unread == <<>>

VARIABLES
  values,              \* Keys -> value or Absent
  version,             \* under its lock, and what the watch channel holds
  writes,              \* changes of values so far, for the bound
  pc, pending,         \* of a writer, and the key and value or the map it validated
  seen, copy           \* of a reader: the version it was told, the values it read
vars == <<values, version, writes, pc, pending, seen, copy>>

validate_value(k, v) == v \in Valid[k]
given(m) == {k \in Keys : m[k] # Absent}

(* set: validated, with the value in hand.                                    *)
set(w) ==
  /\ pc[w] = "idle" /\ writes < MaxWrites
  /\ \E k \in Keys : \E v \in Values[k] :
       /\ validate_value(k, v)
       /\ pending' = [pending EXCEPT ![w] = [key |-> k, value |-> v]]
  /\ pc' = [pc EXCEPT ![w] = "set"]
  /\ UNCHANGED <<values, version, writes, seen, copy>>

set_Write(w) ==
  /\ pc[w] = "set" /\ pc' = [pc EXCEPT ![w] = "bump"]
  /\ values' = [values EXCEPT ![pending[w].key] = pending[w].value] /\ writes' = writes + 1
  /\ UNCHANGED <<version, pending, seen, copy>>

(* reload_from_map: the whole map replaces what is there, sets that came      *)
(* after its validation among it.  One that changes nothing succeeds without  *)
(* a new version, which lines 14-15, 237-238 and 286-288 promise.             *)
Loadable(m) ==
  /\ Required \subseteq given(m)
  /\ \A k \in given(m) : validate_value(k, m[k])

reload(w) ==
  /\ pc[w] = "idle" /\ writes < MaxWrites
  /\ \E m \in {f \in [Keys -> UNION {Values[k] : k \in Keys} \cup {Absent}] :
                 \A k \in Keys : f[k] \in Values[k] \cup {Absent}} :
       Loadable(m) /\ pending' = [pending EXCEPT ![w] = m]
  /\ pc' = [pc EXCEPT ![w] = "reload"]
  /\ UNCHANGED <<values, version, writes, seen, copy>>

Changed_NotRemoved(m) == {k \in given(m) : values[k] # m[k]}
Changed(m) == {k \in Keys : values[k] # m[k]}

reload_Write(w) ==
  LET changed == Changed(pending[w]) IN
  /\ pc[w] = "reload" /\ pc' = [pc EXCEPT ![w] = IF changed = {} THEN "idle" ELSE "bump"]
  /\ values' = pending[w] /\ writes' = writes + IF changed = {} THEN 0 ELSE 1
  /\ UNCHANGED <<version, pending, seen, copy>>

(* Raised and sent under the version's lock.                                  *)
bump_version(w) ==
  /\ pc[w] = "bump" /\ pc' = [pc EXCEPT ![w] = "idle"]
  /\ version' = version + 1
  /\ UNCHANGED <<values, writes, pending, seen, copy>>

(* A subscriber is woken with a version, and reads the values after.          *)
Notified(r) ==
  /\ copy[r] # Unread /\ seen[r] < version
  /\ seen' = [seen EXCEPT ![r] = version] /\ copy' = [copy EXCEPT ![r] = Unread]
  /\ UNCHANGED <<values, version, writes, pc, pending>>

get(r) ==
  /\ copy[r] = Unread /\ copy' = [copy EXCEPT ![r] = values]
  /\ UNCHANGED <<values, version, writes, pc, pending, seen>>

Nothing == [k \in Keys |-> Absent]

Init ==
  /\ values = Nothing /\ version = 0 /\ writes = 0
  /\ pc = [w \in Writers |-> "idle"] /\ pending = [w \in Writers |-> <<>>]
  /\ seen = [r \in Readers |-> 0] /\ copy = [r \in Readers |-> Nothing]

Next ==
  \/ \E w \in Writers : set(w) \/ set_Write(w) \/ reload(w) \/ reload_Write(w) \/ bump_version(w)
  \/ \E r \in Readers : Notified(r) \/ get(r)

Spec == Init /\ [][Next]_vars

TypeOK ==
  /\ values \in [Keys -> UNION {Values[k] : k \in Keys} \cup {Absent}]
  /\ version \in Nat /\ writes \in 0 .. MaxWrites + Cardinality(Writers)
  /\ pc \in [Writers -> {"idle", "set", "reload", "bump"}] /\ seen \in [Readers -> Nat]

(* dynamic_config.rs: every value held passed the schema; and whoever read    *)
(* after the last announcement has the values of now, or a writer that has    *)
(* changed them has still to announce it.                                     *)
Announcing == {w \in Writers : pc[w] = "bump"}
VersionsCover ==
  /\ \A k \in given(values) : validate_value(k, values[k])
  /\ \A r \in Readers :
       seen[r] = version /\ copy[r] # Unread /\ Announcing = {} => copy[r] = values

(* What makes VersionsCover inductive: what a writer has in hand was          *)
(* validated, and nobody was told a version there has not been.               *)
IsMap(m) ==
  /\ m = [k \in Keys |-> m[k]]
  /\ \A k \in Keys : m[k] \in Values[k] \cup {Absent}

IInv ==
  /\ IsMap(values)
  /\ version \in Nat /\ seen \in [Readers -> Nat]
  /\ pc \in [Writers -> {"idle", "set", "reload", "bump"}]
  /\ DOMAIN pending = Writers /\ DOMAIN copy = Readers
  /\ \A w \in Writers :
       /\ pc[w] = "set" => /\ pending[w].key \in Keys
                           /\ pending[w].value \in Values[pending[w].key]
                           /\ validate_value(pending[w].key, pending[w].value)
       /\ pc[w] = "reload" => IsMap(pending[w]) /\ Loadable(pending[w])
  /\ \A r \in Readers : seen[r] <= version
  /\ VersionsCover

(* simple_regex_match.  A pattern is [start, end, segments], its core split   *)
(* at ".*"; a text is a sequence.                                             *)
starts_with(t, s) == Len(s) <= Len(t) /\ SubSeq(t, 1, Len(s)) = s
ends_with(t, s) == Len(s) <= Len(t) /\ SubSeq(t, Len(t) - Len(s) + 1, Len(t)) = s
find(t, s, pos) ==   \* where s ends, first found after pos; 0: nowhere
  LET ends == {e \in pos + Len(s) .. Len(t) : SubSeq(t, e - Len(s) + 1, e) = s}
  IN IF ends = {} THEN 0 ELSE Min(ends)

Segment(p, t, i, pos) ==   \* pos after segment i, or -1
  LET s == p.segments[i] IN
  IF s = <<>> THEN pos
  ELSE IF i = 1 /\ p.start THEN IF starts_with(t, s) THEN Len(s) ELSE -1
  ELSE IF i = Len(p.segments) /\ p.end THEN IF ends_with(t, s) THEN pos ELSE -1
  ELSE LET e == find(t, s, pos) IN IF e = 0 THEN -1 ELSE e

simple_regex_match(p, t) ==
  IF Len(p.segments) > 1
  THEN FoldLeftDomain(LAMBDA pos, i : IF pos = -1 THEN pos ELSE Segment(p, t, i, pos),
                      0, p.segments) # -1
  ELSE LET core == p.segments[1] IN
       CASE p.start /\ p.end -> t = core
         [] p.start /\ ~p.end -> starts_with(t, core)
         [] ~p.start /\ p.end -> ends_with(t, core)
         [] OTHER -> \E i \in 0 .. Len(t) : starts_with(SubSeq(t, i + 1, Len(t)), core)

(* What the pattern means: the segments one after the other, at the ends      *)
(* where it is anchored.                                                      *)
Meant(p, t) ==
  LET n == Len(p.segments) IN
  \E at \in [1 .. n -> 0 .. Len(t)] :
    /\ \A i \in 1 .. n : starts_with(SubSeq(t, at[i] + 1, Len(t)), p.segments[i])
    /\ \A i \in 1 .. n - 1 : at[i] + Len(p.segments[i]) <= at[i + 1]
    /\ p.start => at[1] = 0
    /\ p.end => at[n] + Len(p.segments[n]) = Len(t)

(* What the code asks where the end is anchored and segments precede the last: *)
(* that they are there, and that the text ends with the last, which may lie    *)
(* over them: ^a.*a$ lets a through, against lines 102 and 386.                *)
MeantApart(p, t) ==
  /\ Meant([p EXCEPT !.end = FALSE, !.segments = Front(p.segments)], t)
  /\ ends_with(t, Last(p.segments))

(* dynamic_config.rs simple_regex_match: it takes the first place for every   *)
(* segment and never another, yet lets through exactly what some choice of    *)
(* places would, and an anchored end apart from it.                           *)
MatchSound(p, t) ==
  simple_regex_match(p, t) <=>
    IF p.end /\ Len(p.segments) > 1 THEN MeantApart(p, t) ELSE Meant(p, t)
=============================================================================
