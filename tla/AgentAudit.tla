----------------------------- MODULE AgentAudit -----------------------------
(***************************************************************************)
(* The engine observed by somebody who reads the agents' events.  Two      *)
(* history variables keep what the events said and do not look at World:   *)
(* the queues an agent was last reported to work, and the report that      *)
(* fixed the start of the violation the agent is reported in.              *)
(***************************************************************************)
EXTENDS Engine

VARIABLES roster,         \* agent -> the last queues an event named, or {}
          drift           \* agent -> [start, at], NULL when not in violation

agentAuditVars == <<vars, roster, drift>>

Unread == UNCHANGED <<roster, drift>>

Drift == [start : Int, at : Int]

ASSUME NullIsNoDrift == NULL \notin Drift

\* A report fixes the start if it gives one, or opens the violation.
DriftAfter(past, e, now) ==
  IF e.type # "adherence_check" THEN past
  ELSE IF ~e.in_violation THEN NULL
  ELSE IF e.violation_started_at # NULL
       THEN [start |-> e.violation_started_at, at |-> now]
  ELSE IF past = NULL THEN [start |-> e.ts, at |-> now] ELSE past

Read(e, now) ==
  IF e.entity \in Agents
  THEN /\ roster' = [roster EXCEPT ![e.entity] =
                       IF e.queue_ids \in {NULL, {}} THEN @ ELSE e.queue_ids]
       /\ drift' = [drift EXCEPT ![e.entity] = DriftAfter(@, e, now)]
  ELSE Unread

AgentAuditInit == /\ Init
                  /\ roster = [a \in Agents |-> {}]
                  /\ drift = [a \in Agents |-> NULL]

ReadSettle == Settle /\ Read(inflight, ClockAfter(inflight.ts))

AgentAuditNext == \/ \E e \in Events : Receive(e) /\ Unread
                  \/ Tick /\ Unread
                  \/ ReadSettle
                  \/ Raise /\ Unread

AgentAuditSpec == AgentAuditInit /\ [][AgentAuditNext]_agentAuditVars

-----------------------------------------------------------------------------
\* "null / [] => keep last known queues": a notification of an agent's alert
\* that goes to the team lead reaches the leads of the queues the agent was
\* last reported in, however many events without queues and ticks lie between;
\* the head of support when none of those queues has a lead; and nobody whom
\* the rule does not name otherwise.
RightLeadIsTold ==
  [][\A k \in Pairs :
       /\ k[2] \in Agents
       /\ Len(log'[k]) > Len(log[k])
       => LET n     == log'[k][Len(log'[k])]
              specs == IF n.kind = "escalated" THEN Rules[k[1]].escalate_to
                                               ELSE Rules[k[1]].recipients
              leads == LeadsOf(roster'[k[2]])
              owner == IF leads = {} THEN {HeadOfSupport} ELSE leads
              named == {k[2]} \cup specs \cup
                         IF "head_of_support" \in specs THEN {HeadOfSupport} ELSE {}
          IN  "team_lead" \in specs => /\ owner \subseteq n.to
                                       /\ n.to \subseteq owner \cup named
    ]_agentAuditVars

\* The rules that watch nothing but how long an agent has been in violation.
DriftPairs ==
  {k \in Pairs :
     LET conditions == Rules[k[1]].conditions
     IN  /\ Len(conditions) = 1
         /\ conditions[1].metric = "adherence_violation_sec"
         /\ conditions[1].comparator \in {">", ">="}
         /\ conditions[1].threshold[1] > 0}

\* The condition is threshold[1] \div threshold[2] seconds of violation.
Tolerance(k) == LET t == Rules[k[1]].conditions[1].threshold
                IN  t[1] \div t[2]

\* A violation that goes on alerts: once it has outlived the tolerance, and
\* sustained_for and two tick intervals have passed since and since the report
\* that fixed its start, the alert is firing, however often the checks repeat
\* that the agent is in violation without saying since when.
DriftIsNoticed ==
  inflight = NULL /\ clock # NULL => \A k \in DriftPairs :
    LET d     == drift[k[2]]
        grace == Rules[k[1]].sustained_for_sec + 2 * TickInterval
    IN  /\ Forgiving(Rules[k[1]]) /\ d # NULL
        /\ clock - d.at >= grace
        /\ clock - (d.start + Tolerance(k)) >= grace
        => alert[k].status = "FIRING"

\* world.py: "alerts late, never wrongly".  An adherence alert fires only for
\* an agent reported in violation since, by those reports, at least the
\* tolerance: the start of an earlier violation that ended never counts.
DriftIsReal ==
  [][\A k \in DriftPairs :
       /\ alert[k].status # "FIRING"
       /\ alert'[k].status = "FIRING"
       => /\ drift'[k[2]] # NULL
          /\ Now' - drift'[k[2]].start >= Tolerance(k)]_agentAuditVars
=============================================================================
