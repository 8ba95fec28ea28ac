--------------------------- MODULE MCRuleService ---------------------------
(***************************************************************************)
(* Two requests at a time over two default rules, a rule that collides     *)
(* with one of them, an agent's personal rule, and a replay that left one  *)
(* alert escalated, one fired and one closed.  MaxRuns bounds the replays  *)
(* of a process.                                                           *)
(***************************************************************************)
EXTENDS RuleService, TLC

CONSTANTS c1, c2, a1, MaxRuns

MCClients == {c1, c2}
ClientSymmetry == Permutations(MCClients)
MCAgents == {a1}
MCRuleIds == {"sla", "sla_x", "adherence_10m", "adherence_a1"}
MCSuffixed == [base \in {"sla"} |-> {"sla_x"}]
MCAdherenceId == [a \in MCAgents |-> "adherence_a1"]

Draft(type, metric, after, to) ==
  [entity_type |-> type, enabled |-> TRUE, entity_ids |-> NULL,
   conditions |-> <<[metric |-> metric, comparator |-> ">=",
                     state_filter |-> NULL]>>,
   recipients |-> {"team_lead"}, sustained_for_sec |-> 0,
   cooldown_sec |-> 900, escalate_after_sec |-> after, escalate_to |-> to]

MCDefaultRules ==
  <<[id |-> "sla",
     rule |-> Draft("queue", "sla_utilization", NULL, {"head_of_support"})],
    [id |-> "adherence_10m",
     rule |-> Draft("agent", "adherence_violation_sec", NULL, {})]>>

\* The last one is refused: an escalation to nobody.
MCDrafts ==
  {[base |-> "sla", rule |-> Draft("queue", "tickets_waiting", NULL, {})],
   [base |-> "sla", rule |-> Draft("queue", "agents_available", NULL, {})],
   [base |-> "sla", rule |-> Draft("queue", "tickets_waiting", 300, {})]}

MCPatches == {[escalate_after_sec |-> 300], [escalate_to |-> {}],
              [enabled |-> NULL]}

MCEntry(kind, x, quiet, to) ==
  [kind |-> kind, rule |-> "sla", entity |-> x, suppressed |-> quiet,
   to |-> {to}]

MCReplayStore == <<MCEntry("fired", "billing", TRUE, "lead_priya"),
                   MCEntry("fired", "vip", FALSE, "lead_priya"),
                   MCEntry("escalated", "vip", FALSE, "hos_dana"),
                   MCEntry("fired", "tech", FALSE, "lead_marcus"),
                   MCEntry("resolved", "tech", FALSE, "lead_marcus")>>

\* For the run on personal rules: a name that slugs to the agent's id, and
\* nothing that edits.
MCPersonalIds == {"adherence_10m", "adherence_a1", "adherence_a1_x"}
MCPersonalSuffixed == [base \in {"adherence_a1"} |-> {"adherence_a1_x"}]
MCPersonalDrafts ==
  {[base |-> "adherence_a1",
    rule |-> Draft("queue", "tickets_waiting", NULL, {})]}
MCPersonalDefaults == <<MCDefaultRules[2]>>
MCPersonalStore == <<>>

MCServiceNext ==
  \/ Start
  \/ SeedRule
  \/ Crash
  \/ \E c \in Clients :
       \/ \E id \in RuleIds, p \in Patches : BeginPatch(c, id, p)
       \/ FinishPatch(c)
       \/ \E d \in Drafts : BeginCreate(c, d)
       \/ \E a \in Agents : BeginVisit(c, a)
       \/ FinishCreate(c)
       \/ \E id \in RuleIds : BeginDelete(c, id)
       \/ FindOpen(c)
       \/ CloseOne(c)
       \/ FinishDelete(c)
       \/ Len(stores) < MaxRuns /\ BeginReplay(c)
       \/ PublishNotifier(c)
       \/ BuildDigest(c)
       \/ PublishDigest(c)

MCServiceSpec == ServiceInit /\ [][MCServiceNext]_serviceVars
=============================================================================
