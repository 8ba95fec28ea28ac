------------------------------ MODULE Routing -------------------------------
(***************************************************************************)
(* app/routing.py, class Router: symbolic recipient specs to people, with  *)
(* the world as it is when the notification is delivered.  A recipient     *)
(* list is de-duplicated by the code and is a set here; a lead is looked   *)
(* up in QueueLeads, which maps a queue without a lead to NULL.            *)
(***************************************************************************)
EXTENDS World

CONSTANTS QueueLeads, HeadOfSupport

LeadsOf(queues) == {QueueLeads[q] : q \in queues} \ {NULL}

\* The queues whose leads answer for an entity: itself, or the agent's last
\* known ones (none when the agent was never seen).
QueuesBehind(w, x) ==
  IF x \in Queues THEN {x} ELSE AgentOrNew(w, x).queue_ids

\* Mutant: a queue without a lead yields None.
TeamLeadUnfiltered(w, x) ==
  LET leads == {QueueLeads[q] : q \in QueuesBehind(w, x)}
  IN  IF leads = {} THEN {HeadOfSupport} ELSE leads

TeamLead(w, x) ==
  LET leads == LeadsOf(QueuesBehind(w, x))
  IN  IF leads = {} THEN {HeadOfSupport} ELSE leads

\* Router._resolve_one
ResolveOne(w, spec, x) ==
  CASE spec = "agent:self"      -> {x} \cap Agents
    [] spec = "head_of_support" -> {HeadOfSupport}
    [] spec = "team_lead"       -> TeamLead(w, x)
    [] OTHER                    -> {spec}

Recipients(w, specs, x) == UNION {ResolveOne(w, s, x) : s \in specs}
=============================================================================
