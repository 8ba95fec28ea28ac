------------------------------ MODULE Defaults ------------------------------
(***************************************************************************)
(* app/rules_default.py and the org map of app/routing.py: the rules and   *)
(* the leads run_replay runs with, at their real values, and what the      *)
(* presets say together.  Severities and display names are left out.       *)
(***************************************************************************)
EXTENDS Replay

QUEUE_LEADS == [billing |-> "lead_priya", tier_2 |-> "lead_marcus",
                vip |-> "lead_priya"]
HEAD_OF_SUPPORT == "hos_dana"

\* QUEUE_LEADS.get, for the queues of a feed.
LeadOrNull(queues) ==
  [q \in queues |-> IF q \in DOMAIN QUEUE_LEADS THEN QUEUE_LEADS[q] ELSE NULL]

Condition(metric, comparator, threshold) ==
  [metric |-> metric, comparator |-> comparator, threshold |-> threshold,
   clear_threshold |-> NULL, state_filter |-> NULL]

\* Rule(...), with the defaults of the dataclass for what is not given.
Preset(entity_type, conditions, recipients, cooldown_sec) ==
  [entity_type |-> entity_type, conditions |-> conditions,
   recipients |-> recipients, cooldown_sec |-> cooldown_sec,
   entity_ids |-> NULL, sustained_for_sec |-> 0,
   escalate_after_sec |-> NULL, escalate_to |-> {}, enabled |-> TRUE]

SlaAtRisk ==
  Preset("queue", <<Condition("sla_utilization", ">=", <<4, 5>>)>>,
         {"team_lead"}, 900)

\* Mutant: the breach clears below the line of the warning.
SlaBreachWideHysteresis ==
  [Preset("queue", <<[Condition("sla_utilization", ">=", Whole(1))
                        EXCEPT !.clear_threshold = <<3, 4>>]>>,
          {"team_lead"}, 600)
     EXCEPT !.escalate_after_sec = 900, !.escalate_to = {"head_of_support"}]

SlaBreach ==
  [Preset("queue", <<[Condition("sla_utilization", ">=", Whole(1))
                        EXCEPT !.clear_threshold = <<19, 20>>]>>,
          {"team_lead"}, 600)
     EXCEPT !.escalate_after_sec = 900, !.escalate_to = {"head_of_support"}]

QueueUnderstaffed ==
  Preset("queue", <<Condition("agents_available", "<=", Whole(0)),
                    Condition("tickets_waiting", ">=", Whole(10))>>,
         {"team_lead"}, 1800)

Adherence10m ==
  Preset("agent", <<Condition("adherence_violation_sec", ">=", Whole(600))>>,
         {"agent:self", "team_lead"}, 1800)

LongCall45m ==
  Preset("agent", <<[Condition("state_duration_sec", ">=", Whole(2700))
                       EXCEPT !.state_filter = "on_call"]>>,
         {"team_lead"}, 3600)

VolumeOverForecast ==
  Preset("queue", <<Condition("volume_vs_forecast", ">=", <<3, 2>>)>>,
         {"team_lead"}, 1800)

DEFAULT_RULES ==
  [sla_at_risk          |-> SlaAtRisk,
   sla_breach           |-> SlaBreach,
   queue_understaffed   |-> QueueUnderstaffed,
   adherence_10m        |-> Adherence10m,
   long_call_45m        |-> LongCall45m,
   volume_over_forecast |-> VolumeOverForecast]

-----------------------------------------------------------------------------
\* "These are the templates": at risk and breach are two stages of one story.
\* A queue that is in breach is also at risk, whatever the feed does: with
\* hysteresis, missing values, late lines and one alert per stage, the warning
\* is never over before the breach it warned of, nor starts after it.
BreachImpliesAtRisk ==
  \A q \in Queues :
    alert[<<"sla_breach", q>>].status = "FIRING"
      => alert[<<"sla_at_risk", q>>].status = "FIRING"
=============================================================================
