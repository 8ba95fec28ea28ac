------------------------------ MODULE MCReplay ------------------------------
(***************************************************************************)
(* run_replay with the default rules, leads and tick interval over one     *)
(* queue and one agent, whose lines are late, repeated, malformed, garbled,*)
(* without an entity or with two, and are read in any order; a null id is  *)
(* a queue and an agent of its own.  Timestamps are seconds after 09:30;   *)
(* MaxLines bounds the length of the file.                                 *)
(***************************************************************************)
EXTENDS Defaults

CONSTANTS MaxLines, NoQueue, NoAgent

MCQueues == {"billing", NoQueue}
MCAgents == {"a_11", NoAgent}
MCUnkeyed == {NoQueue, NoAgent}
MCQueueLeads == LeadOrNull(MCQueues)

Snapshot(id, type, q, t, wait, tickets) ==
  [event_id |-> id, type |-> type, queue_id |-> q, agent_id |-> NULL, ts |-> t,
   snap |-> [tickets_waiting |-> tickets, longest_wait_sec |-> wait,
             sla_target_sec |-> 120, agents_available |-> 0,
             volume_last_15m |-> 33, volume_forecast_next_15m |-> 22]]

Check(id, a, t, bad, since) ==
  [event_id |-> id, type |-> "adherence_check", queue_id |-> NULL,
   agent_id |-> a, ts |-> t, actual_state |-> "in_meeting",
   in_violation |-> bad, violation_started_at |-> since,
   queue_ids |-> {"billing"}]

StateChange(id, q, a, t) ==
  [event_id |-> id, type |-> "agent_state_change", queue_id |-> q,
   agent_id |-> a, ts |-> t, new_state |-> "on_call", queue_ids |-> NULL]

\* Utilisations 1.1 (breach, long enough before the next line to escalate),
\* 0.97 and 0.77 (on either side of the clear threshold), unknown, 1.08.
\* evt_10 comes a second time, newer and with another content; evt_12 is the
\* agent's and carries a queue_id.
MCKeyedLines ==
  {Snapshot("evt_1", "queue_snapshot", "billing", 0, 132, 12),
   Snapshot("evt_2", "queue_snapshot", "billing", 960, 116, 9),
   Snapshot("evt_3", "queue_snapshot", "billing", 960, 92, 12),
   Snapshot("evt_4", "queue_snapshot", "billing", 1005, NULL, 12),
   Snapshot("evt_5", "queue_snapshot", "billing", 1050, 130, 0),
   Snapshot("evt_6", "queue_snapshot", NULL, 60, 132, 12),
   Snapshot("evt_8", "queue_snapshot", "billing", NULL, 132, 12),
   Snapshot("evt_9", "heartbeat", "billing", 60, 132, 12),
   Snapshot(NULL, "queue_snapshot", "billing", 60, 132, 12),
   Check("evt_10", "a_11", 60, TRUE, -510),
   Check("evt_10", "a_11", 90, FALSE, NULL),
   StateChange("evt_11", NULL, "a_11", 45),
   StateChange("evt_12", "billing", "a_11", 30)}

MCLines == MCKeyedLines \cup
  {Snapshot("evt_7", "queue_snapshot", "billing", Garbled, 132, 12),
   Snapshot("evt_13", "queue_snapshot", NoQueue, 60, 132, 0),
   Check("evt_14", NoAgent, 60, TRUE, -600)}

MCEvents == {EventOf(raw) : raw \in {l \in MCLines : /\ ~Malformed(l)
                                                     /\ l.ts # Garbled}}

MCReplayNext == \/ lines < MaxLines /\ \E raw \in Lines : ReadLine(raw)
                \/ Process
                \/ AbortRead
                \/ AbortEngine
                \/ EndOfFile

MCReplaySpec == ReplayInit /\ [][MCReplayNext]_replayVars
=============================================================================
