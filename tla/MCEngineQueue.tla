--------------------------- MODULE MCEngineQueue ---------------------------
(***************************************************************************)
(* The engine over one queue: a breach rule with every noise control, and  *)
(* a two-condition rule with none.  MaxTime bounds the event timestamps,   *)
(* MaxLate how far one may lie behind the clock, and MaxLog the            *)
(* notifications of a pair after which nothing is received.                *)
(***************************************************************************)
EXTENDS Digest

CONSTANTS q1, MaxTime, MaxLog, MaxLate

MCQueues == {q1}
MCAgents == {}
MCQueueLeads == [q \in MCQueues |-> "lead_priya"]

\* rules_default.py: sla_breach, with seconds scaled down ...
MCBreach ==
  [entity_type |-> "queue", enabled |-> TRUE, entity_ids |-> NULL,
   conditions |-> <<[metric |-> "sla_utilization", comparator |-> ">=",
                     threshold |-> <<1, 1>>, clear_threshold |-> <<19, 20>>,
                     state_filter |-> NULL]>>,
   recipients |-> {"team_lead"}, escalate_to |-> {"head_of_support"},
   sustained_for_sec |-> 2, cooldown_sec |-> 4, escalate_after_sec |-> 3]

\* ... and queue_understaffed.
MCUnderstaffed ==
  [entity_type |-> "queue", enabled |-> TRUE, entity_ids |-> {q1},
   conditions |-> <<[metric |-> "agents_available", comparator |-> "<=",
                     threshold |-> <<0, 1>>, clear_threshold |-> NULL,
                     state_filter |-> NULL],
                    [metric |-> "tickets_waiting", comparator |-> ">=",
                     threshold |-> <<2, 1>>, clear_threshold |-> NULL,
                     state_filter |-> NULL]>>,
   recipients |-> {"team_lead"}, escalate_to |-> {},
   sustained_for_sec |-> 0, cooldown_sec |-> 3, escalate_after_sec |-> NULL]

MCRules == [sla_breach |-> MCBreach, queue_understaffed |-> MCUnderstaffed]

\* A queue rule that validation admits and that names only "agent:self".
MCSelfRules == [queue_understaffed |->
                  [MCUnderstaffed EXCEPT !.recipients = {"agent:self"}]]

Snap(wait, free, tickets) ==
  [tickets_waiting |-> tickets, longest_wait_sec |-> wait,
   sla_target_sec |-> 100, agents_available |-> free,
   volume_last_15m |-> 5, volume_forecast_next_15m |-> NULL]

\* Over the line, hovering between clear threshold and threshold, recovered,
\* and a snapshot with a null wait.
MCSnapshots == {Snap(120, 0, 3), Snap(97, 1, 3), Snap(50, 1, 0),
                Snap(NULL, 0, 1)}

SnapshotAt(x, t, s) ==
  [type |-> "queue_snapshot", entity |-> x, ts |-> t, snap |-> s]

MCEvents == {SnapshotAt(q1, t, s) : t \in 0..MaxTime, s \in MCSnapshots}
              \cup {SnapshotAt(NULL, t, Snap(50, 1, 0)) : t \in {1, MaxTime}}

\* An event is late by MaxLate at most; within that, any order may come.
InReach(e) == clock # NULL => clock - e.ts <= MaxLate

MCReceive == /\ \A k \in Pairs : Len(log[k]) < MaxLog
             /\ \E e \in Events : InReach(e) /\ Receive(e)

MCNext == \/ MCReceive
          \/ Tick
          \/ Settle
          \/ Raise

MCSpec == Init /\ [][MCNext]_vars
=============================================================================
