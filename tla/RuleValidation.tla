--------------------------- MODULE RuleValidation ---------------------------
(***************************************************************************)
(* app/rule_validation.py: which rules POST and PATCH /rules admit.  Names *)
(* and recipient strings are taken to be non-blank; nothing else about a   *)
(* rule is assumed by the modules that rely on ValidRule.                  *)
(***************************************************************************)
EXTENDS Models

QUEUE_METRICS == {"tickets_waiting", "longest_wait_sec", "sla_utilization",
                  "agents_available", "volume_vs_forecast"}
AGENT_METRICS == {"state_duration_sec", "adherence_violation_sec"}

VALID_COMPARATORS == {">", ">=", "<", "<=", "=="}

MetricsOf(entity_type) ==
  IF entity_type = "queue" THEN QUEUE_METRICS ELSE AGENT_METRICS

ValidCondition(c, entity_type) ==
  /\ c.metric \in MetricsOf(entity_type)
  /\ c.comparator \in VALID_COMPARATORS
  /\ c.metric = "state_duration_sec" => c.state_filter # NULL

\* validate_rule_input(payload) finds nothing to report.
ValidRule(rule) ==
  /\ rule.conditions # <<>>
  /\ \A i \in DOMAIN rule.conditions :
       ValidCondition(rule.conditions[i], rule.entity_type)
  /\ rule.recipients # {}
  /\ NoiseControlsOK(rule)
  /\ rule.escalate_after_sec # NULL => rule.escalate_to # {}
=============================================================================
