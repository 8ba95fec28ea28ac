------------------------------- MODULE Models -------------------------------
(***************************************************************************)
(* The domain vocabulary of app/models.py: Python's None, the comparators  *)
(* of a condition and the shape of a rule.  Numbers that the code keeps as *)
(* floats (thresholds, utilisations) are ratios <<n, d>> with d > 0 and    *)
(* are compared by cross-multiplication, which is exact.                   *)
(***************************************************************************)
EXTENDS Integers

CONSTANT NULL                                  \* Python's None

Ratio == Int \X (Nat \ {0})

ASSUME NullIsNoNumber == NULL \notin Int \cup Ratio

Whole(n) == <<n, 1>>

\* compare(value, comparator, threshold): the five whitelisted comparators.
Compare(v, comparator, threshold) ==
  LET l == v[1] * threshold[2]
      r == threshold[1] * v[2]
  IN  \/ comparator = ">"  /\ l > r
      \/ comparator = ">=" /\ l >= r
      \/ comparator = "<"  /\ l < r
      \/ comparator = "<=" /\ l <= r
      \/ comparator = "==" /\ l = r

\* Condition.effective_clear_threshold(): hysteresis is opt-in.
ClearThreshold(c) ==
  IF c.clear_threshold = NULL THEN c.threshold ELSE c.clear_threshold

\* class Condition
ConditionRecord == [metric          : STRING,
                    comparator      : STRING,
                    threshold       : Ratio,
                    state_filter    : STRING \cup {NULL},
                    clear_threshold : Ratio \cup {NULL}]

\* Rule.applies_to(entity_id): entity_ids = None means every entity.
AppliesTo(rule, x) == rule.entity_ids = NULL \/ x \in rule.entity_ids

\* The noise controls a rule carries, as rule validation admits them.
NoiseControlsOK(rule) ==
  /\ rule.sustained_for_sec \in Nat
  /\ rule.cooldown_sec \in Nat
  /\ rule.escalate_after_sec \in Nat \cup {NULL}
=============================================================================
