------------------------------- MODULE World --------------------------------
(***************************************************************************)
(* app/world.py: the engine's picture of queues and agents, and the metric *)
(* vocabulary rules are written against.                                   *)
(*                                                                         *)
(* A world is a record of two partial maps; an entity the code has no      *)
(* dictionary entry for is mapped to NULL.  The operators take a world and *)
(* return a world, so that a caller decides which one a rule is judged by: *)
(* the engine ticks against the world before an event is applied.          *)
(***************************************************************************)
EXTENDS Models

CONSTANTS Queues, Agents

OrNull(S) == S \cup {NULL}

SnapshotFields == {"tickets_waiting", "longest_wait_sec", "sla_target_sec",
                   "agents_available", "volume_last_15m",
                   "volume_forecast_next_15m"}

QueueState == [last_ts : Int, snap : [SnapshotFields -> OrNull(Int)]]

AgentState == [current_state        : OrNull(STRING),
               state_since          : OrNull(Int),
               queue_ids            : SUBSET Queues,
               in_violation         : BOOLEAN,
               violation_started_at : OrNull(Int),
               last_ts              : OrNull(Int)]

WorldState == [queues : [Queues -> OrNull(QueueState)],
               agents : [Agents -> OrNull(AgentState)]]

ASSUME NullIsNoState == NULL \notin QueueState \cup AgentState

\* The accepted events, by type.  An entity of NULL is a key that is not there;
\* an id that is there and null is an entity like any other to a dictionary,
\* and a member of Queues or Agents.
Event ==
  [type : {"queue_snapshot"}, entity : OrNull(Queues), ts : Int,
   snap : [SnapshotFields -> OrNull(Int)]]
  \cup
  [type : {"agent_state_change"}, entity : OrNull(Agents), ts : Int,
   new_state : STRING, queue_ids : OrNull(SUBSET Queues)]
  \cup
  [type : {"adherence_check"}, entity : OrNull(Agents), ts : Int,
   actual_state : OrNull(STRING), in_violation : BOOLEAN,
   violation_started_at : OrNull(Int), queue_ids : OrNull(SUBSET Queues)]

NewWorld == [queues |-> [q \in Queues |-> NULL],
             agents |-> [a \in Agents |-> NULL]]

NewAgentState ==
  [current_state |-> NULL, state_since |-> NULL, queue_ids |-> {},
   in_violation |-> FALSE, violation_started_at |-> NULL, last_ts |-> NULL]

\* dict.setdefault: the agent's record, fresh on first sight.
AgentOrNew(w, a) == IF w.agents[a] = NULL THEN NewAgentState ELSE w.agents[a]

KnownEntities(w) == {q \in Queues : w.queues[q] # NULL}
                      \cup {a \in Agents : w.agents[a] # NULL}

\* Mutant: every event replaces the queues.
QueuesAfterAnyEvent(agent, e) ==
  IF e.queue_ids = NULL THEN {} ELSE e.queue_ids

\* `if e.get("queue_ids")`: null and [] both keep the last known queues.
QueuesAfter(agent, e) ==
  IF e.queue_ids \in {NULL, {}} THEN agent.queue_ids ELSE e.queue_ids

-----------------------------------------------------------------------------
\* A snapshot replaces every field, with None where the event has none.
ApplySnapshot(w, e) ==
  [w EXCEPT !.queues[e.entity] = [last_ts |-> e.ts, snap |-> e.snap]]

ApplyStateChange(w, e) ==
  LET a == AgentOrNew(w, e.entity)
  IN  [w EXCEPT !.agents[e.entity] =
         [a EXCEPT !.current_state = e.new_state,
                   !.state_since   = e.ts,
                   !.last_ts       = e.ts,
                   !.queue_ids     = QueuesAfter(a, e)]]

\* Mutant: an ongoing violation without a start begins at every check.
StartedAtCheck(agent, e) ==
  IF e.violation_started_at # NULL THEN e.violation_started_at ELSE e.ts

\* Mutant: a violation without a start is as old as the agent's state.
StartedWithState(agent, e) ==
  IF e.violation_started_at # NULL THEN e.violation_started_at
  ELSE IF agent.in_violation THEN agent.violation_started_at
  ELSE IF agent.state_since # NULL THEN agent.state_since ELSE e.ts

\* A violation with no start keeps the start it had, or begins at the
\* observation when it is a new one.
StartedAt(agent, e) ==
  IF e.violation_started_at # NULL THEN e.violation_started_at
  ELSE IF agent.in_violation THEN agent.violation_started_at
  ELSE e.ts

\* The observed state is authoritative.
ApplyAdherence(w, e) ==
  LET a       == AgentOrNew(w, e.entity)
      differs == e.actual_state \notin {NULL, a.current_state}
  IN  [w EXCEPT !.agents[e.entity] =
         [a EXCEPT !.current_state = IF differs THEN e.actual_state ELSE @,
                   !.state_since   = IF differs THEN e.ts ELSE @,
                   !.last_ts       = e.ts,
                   !.queue_ids     = QueuesAfter(a, e),
                   !.in_violation  = e.in_violation,
                   !.violation_started_at =
                       IF e.in_violation THEN StartedAt(a, e) ELSE NULL]]

\* World.apply: dispatch on the event type.
Apply(w, e) ==
  CASE e.type = "queue_snapshot"     -> ApplySnapshot(w, e)
    [] e.type = "agent_state_change" -> ApplyStateChange(w, e)
    [] e.type = "adherence_check"    -> ApplyAdherence(w, e)

-----------------------------------------------------------------------------
\* A quotient metric is unknown when a part is missing or the divisor is 0.
Quotient(n, d) ==
  IF n = NULL \/ d \in {NULL, 0} THEN NULL
  ELSE IF d > 0 THEN <<n, d>> ELSE <<-n, -d>>

QueueMetric(metric, s) ==
  CASE metric = "sla_utilization" ->
         Quotient(s.longest_wait_sec, s.sla_target_sec)
    [] metric = "volume_vs_forecast" ->
         Quotient(s.volume_last_15m, s.volume_forecast_next_15m)
    [] metric \in {"tickets_waiting", "longest_wait_sec", "agents_available"} ->
         IF s[metric] = NULL THEN NULL ELSE Whole(s[metric])

\* Not in the state, or not in violation, is a definite 0 and not unknown.
AgentMetric(c, a, now) ==
  CASE c.metric = "state_duration_sec" ->
         IF a.current_state = c.state_filter /\ a.state_since # NULL
         THEN Whole(now - a.state_since) ELSE Whole(0)
    [] c.metric = "adherence_violation_sec" ->
         IF a.in_violation THEN Whole(now - a.violation_started_at)
                           ELSE Whole(0)

\* Mutant: a queue not heard of for three seconds reads as zero.
ResolveMetricExpiring(w, c, x, now) ==
  IF x \notin KnownEntities(w) THEN NULL
  ELSE IF x \notin Queues THEN AgentMetric(c, w.agents[x], now)
  ELSE IF now - w.queues[x].last_ts >= 3 THEN Whole(0)
  ELSE QueueMetric(c.metric, w.queues[x].snap)

\* World.resolve_metric: NULL is "unknown, skip".
ResolveMetric(w, c, x, now) ==
  IF x \notin KnownEntities(w) THEN NULL
  ELSE IF x \in Queues THEN QueueMetric(c.metric, w.queues[x].snap)
  ELSE AgentMetric(c, w.agents[x], now)

\* What _evaluate sees of the world: whether every condition's metric is
\* known, whether all hold, and whether all hold against the clear thresholds.
Observe(w, rule, x, now) ==
  LET value(i) == ResolveMetric(w, rule.conditions[i], x, now)
      known    == \A i \in DOMAIN rule.conditions : value(i) # NULL
      holds(i, threshold) ==
        Compare(value(i), rule.conditions[i].comparator, threshold)
  IN  [known  |-> known,
       active |-> known /\ \A i \in DOMAIN rule.conditions :
                             holds(i, rule.conditions[i].threshold),
       still  |-> known /\ \A i \in DOMAIN rule.conditions :
                             holds(i, ClearThreshold(rule.conditions[i]))]
=============================================================================
