--------------------------- MODULE MCEngineAgents ---------------------------
(***************************************************************************)
(* The engine over one agent: a long-call rule and an adherence rule, whose*)
(* conditions come true with the passing of time alone, routed through the *)
(* agent's last known queues (one with a lead, one without).               *)
(* MaxTime, MaxLate and MaxLog bound the timestamps, how far one may lie   *)
(* behind the clock, and the notifications of a pair.                      *)
(***************************************************************************)
EXTENDS AgentAudit

CONSTANTS q1, q2, a1, MaxTime, MaxLog, MaxLate

MCQueues == {q1, q2}
MCAgents == {a1}
MCQueueLeads == [q \in MCQueues |-> IF q = q1 THEN "lead_priya" ELSE NULL]

\* rules_default.py: long_call, with seconds scaled down ...
MCLongCall ==
  [entity_type |-> "agent", enabled |-> TRUE, entity_ids |-> NULL,
   conditions |-> <<[metric |-> "state_duration_sec", comparator |-> ">=",
                     threshold |-> <<3, 1>>, clear_threshold |-> NULL,
                     state_filter |-> "on_call"]>>,
   recipients |-> {"team_lead"}, escalate_to |-> {},
   sustained_for_sec |-> 1, cooldown_sec |-> 0, escalate_after_sec |-> NULL]

\* ... and an agent's own adherence alert, as server.py builds it.
MCAdherence ==
  [entity_type |-> "agent", enabled |-> TRUE, entity_ids |-> {a1},
   conditions |-> <<[metric |-> "adherence_violation_sec", comparator |-> ">=",
                     threshold |-> <<2, 1>>, clear_threshold |-> NULL,
                     state_filter |-> NULL]>>,
   recipients |-> {"agent:self", "team_lead"},
   escalate_to |-> {"head_of_support"},
   sustained_for_sec |-> 0, cooldown_sec |-> 4, escalate_after_sec |-> 2]

\* The third one is switched off.
MCRules == [long_call |-> MCLongCall, adherence |-> MCAdherence,
            retired |-> [MCLongCall EXCEPT !.enabled = FALSE]]

StateChange(x, t, s, qs) ==
  [type |-> "agent_state_change", entity |-> x, ts |-> t, new_state |-> s,
   queue_ids |-> qs]

AdherenceCheck(x, t, s, bad, since) ==
  [type |-> "adherence_check", entity |-> x, ts |-> t, actual_state |-> s,
   in_violation |-> bad, violation_started_at |-> since, queue_ids |-> NULL]

MCEvents ==
  UNION {{StateChange(a1, t, "on_call", {q1}),
          AdherenceCheck(a1, t, "in_meeting", TRUE, NULL),
          AdherenceCheck(a1, t, NULL, FALSE, NULL)} : t \in 0..MaxTime}
  \cup {StateChange(a1, t, "available", {q2}) : t \in {1, MaxTime}}
  \cup {AdherenceCheck(a1, 3, NULL, TRUE, 1)}
  \cup {StateChange(NULL, MaxTime, "available", NULL)}

\* An event is late by MaxLate at most; within that, any order may come.
InReach(e) == clock # NULL => clock - e.ts <= MaxLate

MCReceive == /\ \A k \in Pairs : Len(log[k]) < MaxLog
             /\ \E e \in Events : InReach(e) /\ Receive(e)

MCNext == \/ MCReceive /\ Unread
          \/ Tick /\ Unread
          \/ ReadSettle
          \/ Raise /\ Unread

MCSpec == AgentAuditInit /\ [][MCNext]_agentAuditVars
=============================================================================
