---------------------------- MODULE EngineProofs ----------------------------
(***************************************************************************)
(* Theorems about Engine, for every set of rules, entities and events and  *)
(* every tick interval.                                                    *)
(*                                                                         *)
(* The store's invariants concern one pair at a time, and a pass over many *)
(* pairs is one evaluation of each.  So the argument has three layers: what*)
(* each branch of an evaluation does to one pair (LEMMA ...Keeps), what a  *)
(* Sweep does to all of them, and what Next does.  The clock enters once:  *)
(* evaluation times never decrease (LEMMAS TickAdvances, CallAdvances).    *)
(***************************************************************************)
EXTENDS Engine, TLAPS

-----------------------------------------------------------------------------
(* One pair.  StoreInOrder, the cooldown and quietness are not inductive by *)
(* themselves: the AlertState must remember what the store shows.           *)

PairInv(rule, st, l) ==
  /\ Episodic(l)
  /\ Shows(l, st)
  /\ QuietThroughout(l)
  /\ KeepsGap(l, rule.cooldown_sec)
  /\ InOrder(l)
  /\ Open(l) => st.fire_was_suppressed = l[Len(l)].suppressed
  /\ \A i \in Pings(l) : /\ st.last_audible_activity # NULL
                         /\ l[i].ts <= st.last_audible_activity

\* What Append does to a sequence, in the form the provers need below.
LEMMA Appended ==
  ASSUME NEW S, NEW l \in Seq(S), NEW n \in S
  PROVE  /\ Append(l, n) \in Seq(S)
         /\ Append(l, n) # <<>>
         /\ Len(l) \in Nat
         /\ DOMAIN l = 1..Len(l)
         /\ Len(Append(l, n)) = Len(l) + 1
         /\ DOMAIN Append(l, n) = 1..(Len(l) + 1)
         /\ \A i \in 1..Len(l) : Append(l, n)[i] = l[i]
         /\ Append(l, n)[Len(l) + 1] = n
         /\ l = <<>> <=> Len(l) = 0
  OBVIOUS

\* Appending at the time of the evaluation keeps a store in order.
LEMMA AppendInOrder ==
  ASSUME NEW l \in Seq(Notification), NEW n \in Notification, NEW t \in Int,
         InOrder(l), NotAfter(l, t), n.ts = t
  PROVE  InOrder(Append(l, n)) /\ NotAfter(Append(l, n), t)
  BY Appended DEF InOrder, NotAfter, Notification

\* A fire opens an episode, keeping the cooldown's gap when it is audible.
LEMMA FireKeeps ==
  ASSUME NEW rule, NoiseControlsOK(rule), NEW st \in AlertState,
         NEW l \in Seq(Notification), NEW n \in Notification, NEW t \in Int,
         PairInv(rule, st, l), NotAfter(l, t),
         st.status # "FIRING", n.kind = "fired", n.ts = t,
         n.suppressed = InCooldown(rule, st, t)
  PROVE  PairInv(rule, Fire(rule, st, t), Append(l, n))
<1> DEFINE m == Append(l, n)
           s == Fire(rule, st, t)
<1>0. /\ m # <<>> /\ Len(m) = Len(l) + 1 /\ DOMAIN m = 1..(Len(l) + 1)
      /\ DOMAIN l = 1..Len(l) /\ Len(l) \in Nat
      /\ \A i \in 1..Len(l) : m[i] = l[i]
      /\ m[Len(l) + 1] = n
      /\ l = <<>> <=> Len(l) = 0
  BY Appended
<1> HIDE DEF m
<1>1. ~Open(l)
  BY DEF PairInv, Shows
<1>2. /\ s.status = "FIRING" /\ s.escalated = FALSE
      /\ s.fire_was_suppressed = n.suppressed
      /\ s.last_audible_activity = IF n.suppressed THEN st.last_audible_activity
                                                   ELSE t
  BY DEF Fire, AlertState
<1> HIDE DEF s
<1>3. Episodic(m)
  BY <1>0, <1>1 DEF PairInv, Episodic, Open
<1>4. Shows(m, s)
  BY <1>0, <1>2 DEF Shows, Open, EscalatedLast
<1>5. QuietThroughout(m)
  <2>1. 1 \in DOMAIN l => l[1].kind = "fired"
    BY DEF PairInv, Episodic
  <2> QED BY <1>0, <2>1 DEF PairInv, QuietThroughout
<1>6. \A i \in Pings(m) : i \in Pings(l) \/ (i = Len(l) + 1 /\ ~n.suppressed)
  BY <1>0 DEF Pings
<1>7. \A i \in Pings(l) : i \in 1..Len(l) /\ m[i] = l[i] /\ l[i].ts \in Int
  <2>1. \A i \in 1..Len(l) : l[i] \in Notification
    BY <1>0
  <2>2. Pings(l) \subseteq 1..Len(l)
    BY <1>0 DEF Pings
  <2> QED BY <1>0, <2>1, <2>2 DEF Notification
<1>8. ~n.suppressed => \A i \in Pings(l) : t - l[i].ts >= rule.cooldown_sec
  <2>1. \A i \in Pings(l) : /\ st.last_audible_activity \in Int
                            /\ l[i].ts <= st.last_audible_activity
    BY DEF PairInv, AlertState
  <2>2. rule.cooldown_sec \in Nat
    BY DEF NoiseControlsOK
  <2> QED BY <1>7, <2>1, <2>2, NullIsNoNumber DEF InCooldown
<1>9. KeepsGap(m, rule.cooldown_sec)
  BY <1>0, <1>6, <1>7, <1>8 DEF PairInv, KeepsGap
<1>10. \A i \in Pings(m) : /\ s.last_audible_activity # NULL
                           /\ m[i].ts <= s.last_audible_activity
  BY <1>0, <1>2, <1>6, <1>7, NullIsNoNumber DEF PairInv, NotAfter
<1>11. InOrder(m)
  BY AppendInOrder DEF PairInv, m
<1> QED
  BY <1>0, <1>2, <1>3, <1>4, <1>5, <1>9, <1>10, <1>11 DEF PairInv, m, s

\* A resolve closes the episode as quietly as it was opened.
LEMMA ResolveKeeps ==
  ASSUME NEW rule, NEW st \in AlertState,
         NEW l \in Seq(Notification), NEW n \in Notification, NEW t \in Int,
         PairInv(rule, st, l), NotAfter(l, t),
         st.status = "FIRING", n.kind = "resolved", n.ts = t,
         n.suppressed = st.fire_was_suppressed
  PROVE  PairInv(rule, Resolve(st, t), Append(l, n))
<1> DEFINE m == Append(l, n)
           s == Resolve(st, t)
<1>0. /\ m # <<>> /\ Len(m) = Len(l) + 1 /\ DOMAIN m = 1..(Len(l) + 1)
      /\ DOMAIN l = 1..Len(l) /\ Len(l) \in Nat
      /\ \A i \in 1..Len(l) : m[i] = l[i]
      /\ m[Len(l) + 1] = n
      /\ l = <<>> <=> Len(l) = 0
  BY Appended
<1> HIDE DEF m
<1>1. Open(l) /\ Len(l) > 0 /\ l[Len(l)].suppressed = n.suppressed
  BY <1>0 DEF PairInv, Shows, Open
<1>2. /\ s.status = "OK" /\ s.escalated = FALSE
      /\ s.last_audible_activity = IF n.suppressed THEN st.last_audible_activity
                                                   ELSE t
  BY DEF Resolve, AlertState
<1> HIDE DEF s
<1>3. Episodic(m)
  <2>1. \A i \in 1..Len(l) : i # 1 => m[i] = l[i] /\ m[i - 1] = l[i - 1]
    BY <1>0
  <2>2. Len(l) + 1 # 1 /\ m[Len(l) + 1].kind = "resolved"
        /\ m[(Len(l) + 1) - 1] = l[Len(l)] /\ l[Len(l)].kind # "resolved"
    BY <1>0, <1>1 DEF Open
  <2> QED BY <1>0, <2>1, <2>2 DEF PairInv, Episodic
<1>4. Shows(m, s) /\ ~Open(m)
  BY <1>0, <1>2 DEF Shows, Open, EscalatedLast
<1>5. QuietThroughout(m)
  <2>1. 1 \in DOMAIN l => l[1].kind = "fired"
    BY DEF PairInv, Episodic
  <2> QED BY <1>0, <1>1, <2>1 DEF PairInv, QuietThroughout
<1>6. \A i \in Pings(m) : i \in Pings(l) \/ (i = Len(l) + 1 /\ ~n.suppressed)
  BY <1>0 DEF Pings
<1>7. \A i \in Pings(l) : i \in 1..Len(l) /\ m[i] = l[i]
  BY <1>0 DEF Pings
<1>8. KeepsGap(m, rule.cooldown_sec)
  BY <1>0, <1>6, <1>7 DEF PairInv, KeepsGap
<1>9. \A i \in Pings(m) : /\ s.last_audible_activity # NULL
                          /\ m[i].ts <= s.last_audible_activity
  BY <1>0, <1>2, <1>6, <1>7, NullIsNoNumber DEF PairInv, NotAfter
<1>10. InOrder(m)
  BY AppendInOrder DEF PairInv, m
<1> QED
  BY <1>3, <1>4, <1>5, <1>8, <1>9, <1>10 DEF PairInv, m, s

\* An escalation is the second entry of an audible episode and moves nothing
\* that the cooldown counts from.
LEMMA EscalateKeeps ==
  ASSUME NEW rule, NEW st \in AlertState,
         NEW l \in Seq(Notification), NEW n \in Notification, NEW t \in Int,
         PairInv(rule, st, l), NotAfter(l, t),
         st.status = "FIRING", ~st.escalated, ~st.fire_was_suppressed,
         n.kind = "escalated", n.ts = t, n.suppressed = FALSE
  PROVE  PairInv(rule, [st EXCEPT !.escalated = TRUE], Append(l, n))
<1> DEFINE m == Append(l, n)
           s == [st EXCEPT !.escalated = TRUE]
<1>0. /\ m # <<>> /\ Len(m) = Len(l) + 1 /\ DOMAIN m = 1..(Len(l) + 1)
      /\ DOMAIN l = 1..Len(l) /\ Len(l) \in Nat
      /\ \A i \in 1..Len(l) : m[i] = l[i]
      /\ m[Len(l) + 1] = n
      /\ l = <<>> <=> Len(l) = 0
  BY Appended
<1> HIDE DEF m
<1>1. /\ Open(l) /\ ~EscalatedLast(l) /\ Len(l) \in 1..Len(l)
      /\ ~l[Len(l)].suppressed
  BY <1>0 DEF PairInv, Shows, Open
<1>2. l[Len(l)].kind = "fired" /\ l[Len(l)].suppressed = FALSE
  <2>1. l[Len(l)] \in Notification
    BY <1>1
  <2>2. l[Len(l)].kind \in Kinds /\ l[Len(l)].suppressed \in BOOLEAN
    BY <2>1 DEF Notification
  <2> QED BY <1>0, <1>1, <2>2 DEF Open, EscalatedLast, Kinds
<1>3. /\ s.status = "FIRING" /\ s.escalated = TRUE
      /\ s.fire_was_suppressed = FALSE
      /\ s.last_audible_activity = st.last_audible_activity
  BY DEF AlertState
<1> HIDE DEF s
<1>4. Episodic(m)
  <2>1. \A i \in 1..Len(l) : i # 1 => m[i] = l[i] /\ m[i - 1] = l[i - 1]
    BY <1>0
  <2>2. Len(l) + 1 # 1 /\ m[Len(l) + 1].kind = "escalated"
        /\ m[(Len(l) + 1) - 1].kind = "fired"
    BY <1>0, <1>1, <1>2
  <2> QED BY <1>0, <2>1, <2>2 DEF PairInv, Episodic
<1>5. Shows(m, s) /\ m[Len(m)].suppressed = FALSE
  BY <1>0, <1>3 DEF Shows, Open, EscalatedLast
<1>6. QuietThroughout(m)
  <2>1. 1 \in DOMAIN l => l[1].kind = "fired"
    BY DEF PairInv, Episodic
  <2>2. \A i \in 1..Len(l) :
          /\ m[i].kind # "fired" => m[i].suppressed = m[i - 1].suppressed
          /\ m[i].kind = "escalated" => ~m[i].suppressed
    BY <1>0, <2>1 DEF PairInv, QuietThroughout
  <2>3. /\ m[Len(l) + 1].suppressed = FALSE
        /\ m[(Len(l) + 1) - 1].suppressed = FALSE
    BY <1>0, <1>1, <1>2
  <2>4. SUFFICES ASSUME NEW i \in 1..(Len(l) + 1)
                 PROVE  /\ m[i].kind # "fired" => m[i].suppressed = m[i - 1].suppressed
                        /\ m[i].kind = "escalated" => ~m[i].suppressed
    BY <1>0 DEF QuietThroughout
  <2>5. CASE i \in 1..Len(l)
    BY <2>2, <2>5
  <2>6. CASE i = Len(l) + 1
    BY <2>3, <2>6
  <2> QED BY <1>0, <2>5, <2>6
<1>7. \A i \in Pings(m) : i \in Pings(l) /\ i \in 1..Len(l) /\ m[i] = l[i]
  BY <1>0 DEF Pings
<1>8. KeepsGap(m, rule.cooldown_sec)
  BY <1>7 DEF PairInv, KeepsGap
<1>9. \A i \in Pings(m) : /\ s.last_audible_activity # NULL
                          /\ m[i].ts <= s.last_audible_activity
  BY <1>3, <1>7 DEF PairInv
<1>10. InOrder(m)
  BY AppendInOrder DEF PairInv, m
<1> QED
  BY <1>3, <1>4, <1>5, <1>6, <1>8, <1>9, <1>10 DEF PairInv, m, s

\* Pending and clearing happen out of sight of the store.
LEMMA UnseenKeeps ==
  ASSUME NEW rule, NEW st \in AlertState, NEW s \in AlertState,
         NEW l \in Seq(Notification), PairInv(rule, st, l),
         st.status # "FIRING", s.status # "FIRING",
         s.last_audible_activity = st.last_audible_activity,
         s.escalated = st.escalated
  PROVE  PairInv(rule, s, l)
  BY DEF PairInv, Shows

\* The guards of an evaluation exclude each other, so that each one's effect
\* is what happens.
LEMMA EvaluateIs ==
  ASSUME NEW rule, NEW st, NEW obs, NEW t
  PROVE  LET s == Evaluate(rule, st, obs, t)
         IN  /\ Fires(rule, st, obs, t) => s = Fire(rule, st, t)
             /\ Resolves(st, obs) => s = Resolve(st, t)
             /\ Escalates(rule, st, obs, t) => s = [st EXCEPT !.escalated = TRUE]
             /\ Pends(rule, st, obs, t) => s = Pend(st, t)
             /\ Clears(st, obs) => s = Clear(st)
             /\ ~ \/ Fires(rule, st, obs, t) \/ Resolves(st, obs)
                  \/ Escalates(rule, st, obs, t)
                  \/ Pends(rule, st, obs, t) \/ Clears(st, obs)
                => s = st
  BY DEF Evaluate, Fires, Resolves, Escalates, Pends, Clears

\* One evaluation of one pair, whatever it observes: the store and the state
\* agree after it as they did before.
LEMMA EvaluateKeeps ==
  ASSUME NEW rule, NoiseControlsOK(rule), NEW st \in AlertState, NEW obs,
         NEW t \in Int, NEW l \in Seq(Notification),
         PairInv(rule, st, l), NotAfter(l, t)
  PROVE  /\ Evaluate(rule, st, obs, t) \in AlertState
         /\ Emits(rule, st, obs, t) = NULL
              => PairInv(rule, Evaluate(rule, st, obs, t), l)
         /\ \A n \in Notification :
              /\ Emits(rule, st, obs, t) # NULL
              /\ n.kind = Emits(rule, st, obs, t) /\ n.ts = t
              /\ n.suppressed = Suppressed(rule, st, n.kind, t)
              => PairInv(rule, Evaluate(rule, st, obs, t), Append(l, n))
<1> DEFINE s == Evaluate(rule, st, obs, t)
           kind == Emits(rule, st, obs, t)
<1>0. NULL \notin Kinds
  BY NullIsNoKind
<1>1. CASE Fires(rule, st, obs, t)
  <2>1. /\ s = Fire(rule, st, t) /\ kind = "fired" /\ st.status # "FIRING"
    BY <1>1 DEF Evaluate, Emits, Fires, Resolves, Escalates, Pends, Clears
  <2>2. Fire(rule, st, t) \in AlertState
    BY DEF Fire, AlertState, InCooldown, Statuses
  <2>3. \A n \in Notification :
          n.kind = "fired" => Suppressed(rule, st, n.kind, t) = InCooldown(rule, st, t)
    BY DEF Suppressed, InCooldown
  <2> QED BY <1>0, <2>1, <2>2, <2>3, FireKeeps DEF Kinds
<1>2. CASE Resolves(st, obs)
  <2>1. /\ s = Resolve(st, t) /\ kind = "resolved" /\ st.status = "FIRING"
    BY <1>2 DEF Evaluate, Emits, Fires, Resolves, Escalates, Pends, Clears
  <2>2. Resolve(st, t) \in AlertState
    BY DEF Resolve, AlertState, Statuses
  <2>3. \A n \in Notification : n.kind = "resolved" =>
          Suppressed(rule, st, n.kind, t) = st.fire_was_suppressed
    BY DEF Suppressed, AlertState
  <2> QED BY <1>0, <2>1, <2>2, <2>3, ResolveKeeps DEF Kinds
<1>3. CASE Escalates(rule, st, obs, t)
  <2>1. /\ s = [st EXCEPT !.escalated = TRUE] /\ kind = "escalated"
        /\ st.status = "FIRING" /\ ~st.escalated /\ ~st.fire_was_suppressed
    BY <1>3 DEF Evaluate, Emits, Fires, Resolves, Escalates, Pends, Clears
  <2>2. s \in AlertState
    BY <2>1 DEF AlertState
  <2>3. \A n \in Notification :
          n.kind = "escalated" => Suppressed(rule, st, n.kind, t) = FALSE
    BY DEF Suppressed
  <2>4. \A n \in Notification :
          n.kind = "escalated" /\ n.ts = t /\ n.suppressed = FALSE
          => PairInv(rule, [st EXCEPT !.escalated = TRUE], Append(l, n))
    BY <2>1, EscalateKeeps
  <2>5. \A n \in Notification :
          n.kind = "escalated" /\ n.ts = t
          /\ n.suppressed = Suppressed(rule, st, n.kind, t)
          => PairInv(rule, s, Append(l, n))
    BY <2>1, <2>3, <2>4
  <2> QED BY <1>0, <2>1, <2>2, <2>5 DEF Kinds
<1>4. CASE Pends(rule, st, obs, t) \/ Clears(st, obs)
  <2>1. /\ s = Pend(st, t) \/ s = Clear(st)
        /\ kind = NULL /\ st.status # "FIRING"
    BY <1>4 DEF Evaluate, Emits, Fires, Resolves, Escalates, Pends, Clears
  <2>2. /\ s \in AlertState /\ s.status # "FIRING"
        /\ s.last_audible_activity = st.last_audible_activity
        /\ s.escalated = st.escalated
    BY <2>1 DEF Pend, Clear, PendingSince, AlertState, Statuses
  <2> QED BY <2>1, <2>2, UnseenKeeps
<1>5. CASE ~ \/ Fires(rule, st, obs, t) \/ Resolves(st, obs)
             \/ Escalates(rule, st, obs, t)
             \/ Pends(rule, st, obs, t) \/ Clears(st, obs)
  BY <1>5 DEF Evaluate, Emits
<1> QED
  BY <1>1, <1>2, <1>3, <1>4, <1>5

-----------------------------------------------------------------------------
(* What the other modules' operators return. *)

\* The router names nobody but the people the organisation and the rule know.
LEMMA RecipientsKnown ==
  ASSUME NEW w \in WorldState, NEW k \in Pairs,
         NEW specs \in {Rules[k[1]].recipients, Rules[k[1]].escalate_to}
  PROVE  Recipients(w, specs, k[2]) \subseteq Addressees
<1>1. k[1] \in RuleIds /\ k[2] \in Queues \cup Agents
  BY DEF Pairs
<1>2. specs \subseteq Addressees
  BY <1>1 DEF Addressees
<1>3. Agents \subseteq Addressees /\ HeadOfSupport \in Addressees
  BY DEF Addressees
<1>4. QueuesBehind(w, k[2]) \subseteq Queues
  BY <1>1 DEF QueuesBehind, AgentOrNew, NewAgentState, WorldState, AgentState,
              OrNull
<1>5. TeamLead(w, k[2]) \subseteq Addressees
  BY <1>3, <1>4 DEF TeamLead, LeadsOf, Addressees
<1>6. ASSUME NEW s \in specs
      PROVE  ResolveOne(w, s, k[2]) \subseteq Addressees
  BY <1>2, <1>3, <1>5 DEF ResolveOne
<1> QED
  BY <1>6 DEF Recipients

\* An agent's event changes the record of its agent, to a record again.
LEMMA AgentApplied ==
  ASSUME NEW w \in WorldState, NEW e \in Event, e.entity # NULL,
         e.type # "queue_snapshot"
  PROVE  /\ e.entity \in Agents
         /\ \E b \in AgentState : Apply(w, e) = [w EXCEPT !.agents[e.entity] = b]
<1>1. CASE e.type = "agent_state_change"
  <2>1. /\ e.entity \in Agents /\ e.ts \in Int /\ e.new_state \in STRING
        /\ e.queue_ids \in OrNull(SUBSET Queues)
    BY <1>1 DEF Event, OrNull
  <2>2. AgentOrNew(w, e.entity) \in AgentState
    BY <2>1 DEF AgentOrNew, NewAgentState, AgentState, WorldState, OrNull
  <2>3. QueuesAfter(AgentOrNew(w, e.entity), e) \subseteq Queues
    BY <2>1, <2>2 DEF QueuesAfter, AgentState, OrNull
  <2> DEFINE b == [AgentOrNew(w, e.entity) EXCEPT
                     !.current_state = e.new_state,
                     !.state_since   = e.ts,
                     !.last_ts       = e.ts,
                     !.queue_ids     = QueuesAfter(AgentOrNew(w, e.entity), e)]
  <2>4. b \in AgentState
    BY <2>1, <2>2, <2>3 DEF AgentState, OrNull
  <2>5. Apply(w, e) = [w EXCEPT !.agents[e.entity] = b]
    BY <1>1 DEF Apply, ApplyStateChange
  <2> QED BY <2>1, <2>4, <2>5
<1>2. CASE e.type = "adherence_check"
  <2>1. /\ e.entity \in Agents /\ e.ts \in Int
        /\ e.actual_state \in OrNull(STRING) /\ e.in_violation \in BOOLEAN
        /\ e.violation_started_at \in OrNull(Int)
        /\ e.queue_ids \in OrNull(SUBSET Queues)
    BY <1>2 DEF Event, OrNull
  <2>2. AgentOrNew(w, e.entity) \in AgentState
    BY <2>1 DEF AgentOrNew, NewAgentState, AgentState, WorldState, OrNull
  <2>3. QueuesAfter(AgentOrNew(w, e.entity), e) \subseteq Queues
    BY <2>1, <2>2 DEF QueuesAfter, AgentState, OrNull
  <2> DEFINE a       == AgentOrNew(w, e.entity)
             differs == e.actual_state \notin {NULL, a.current_state}
             startedAt == StartedAt(a, e)
             b == [a EXCEPT !.current_state = IF differs THEN e.actual_state ELSE @,
                            !.state_since   = IF differs THEN e.ts ELSE @,
                            !.last_ts       = e.ts,
                            !.queue_ids     = QueuesAfter(a, e),
                            !.in_violation  = e.in_violation,
                            !.violation_started_at =
                                IF e.in_violation THEN startedAt ELSE NULL]
  <2>4. startedAt \in OrNull(Int)
    BY <2>1, <2>2 DEF StartedAt, AgentState, OrNull
  <2>5. differs => e.actual_state \in STRING
    BY <2>1 DEF OrNull
  <2>6. b \in AgentState
    <3> HIDE DEF startedAt, differs, a
    <3>1. a \in AgentState /\ QueuesAfter(a, e) \subseteq Queues
      BY <2>2, <2>3 DEF a
    <3>2. /\ (IF differs THEN e.actual_state ELSE a.current_state) \in OrNull(STRING)
          /\ (IF differs THEN e.ts ELSE a.state_since) \in OrNull(Int)
          /\ e.ts \in OrNull(Int)
          /\ (IF e.in_violation THEN startedAt ELSE NULL) \in OrNull(Int)
      BY <2>1, <2>4, <2>5, <3>1 DEF AgentState, OrNull
    <3>3. e.in_violation \in BOOLEAN
      BY <2>1
    <3> QED BY <3>1, <3>2, <3>3 DEF AgentState
  <2>7. ApplyAdherence(w, e) = [w EXCEPT !.agents[e.entity] = b]
    BY DEF ApplyAdherence
  <2> HIDE DEF b
  <2>8. Apply(w, e) = [w EXCEPT !.agents[e.entity] = b]
    BY <1>2, <2>7 DEF Apply
  <2> QED BY <2>1, <2>6, <2>8
<1> QED
  BY <1>1, <1>2 DEF Event

\* Applying an event that names its entity gives a world again.
LEMMA ApplyTyped ==
  ASSUME NEW w \in WorldState, NEW e \in Event, e.entity # NULL
  PROVE  Apply(w, e) \in WorldState
<1>1. CASE e.type = "queue_snapshot"
  <2>1. /\ e.entity \in Queues /\ e.ts \in Int
        /\ e.snap \in [SnapshotFields -> OrNull(Int)]
    BY <1>1 DEF Event, OrNull
  <2>2. ApplySnapshot(w, e) \in WorldState
    BY <2>1 DEF ApplySnapshot, WorldState, QueueState, OrNull
  <2> QED BY <1>1, <2>2 DEF Apply
<1>2. CASE e.type # "queue_snapshot"
  <2>1. PICK b \in AgentState : Apply(w, e) = [w EXCEPT !.agents[e.entity] = b]
    BY <1>2, AgentApplied
  <2> QED BY <1>2, <2>1, AgentApplied DEF WorldState, OrNull
<1> QED
  BY <1>1, <1>2

-----------------------------------------------------------------------------
(* All pairs. *)

\* A pass over any set of pairs, at a time no earlier than the store.
LEMMA SweepKeeps ==
  ASSUME NEW K, NEW w \in WorldState, NEW t \in Int,
         alert \in [Pairs -> AlertState], log \in [Pairs -> Seq(Notification)],
         \A k \in Pairs : /\ PairInv(Rules[k[1]], alert[k], log[k])
                          /\ NotAfter(log[k], t),
         Sweep(K, w, t)
  PROVE  /\ alert' \in [Pairs -> AlertState]
         /\ log' \in [Pairs -> Seq(Notification)]
         /\ \A k \in Pairs : /\ PairInv(Rules[k[1]], alert'[k], log'[k])
                             /\ NotAfter(log'[k], t)
<1> DEFINE obs(k)  == Observe(w, Rules[k[1]], k[2], t)
           kind(k) == Emits(Rules[k[1]], alert[k], obs(k), t)
           s(k)    == Evaluate(Rules[k[1]], alert[k], obs(k), t)
           n(k)    == [kind |-> kind(k), ts |-> t,
                       suppressed |-> Suppressed(Rules[k[1]], alert[k], kind(k), t),
                       to |-> Recipients(w, IF kind(k) = "escalated"
                                            THEN Rules[k[1]].escalate_to
                                            ELSE Rules[k[1]].recipients, k[2])]
<1>1. /\ alert' = [k \in Pairs |-> IF k \in K THEN s(k) ELSE alert[k]]
      /\ log' = [k \in Pairs |-> IF k \in K /\ kind(k) # NULL
                                 THEN Append(log[k], n(k)) ELSE log[k]]
  BY DEF Sweep, Deliver
<1> HIDE DEF obs
<1>2. SUFFICES ASSUME NEW k \in Pairs
               PROVE  /\ alert'[k] \in AlertState
                      /\ log'[k] \in Seq(Notification)
                      /\ PairInv(Rules[k[1]], alert'[k], log'[k])
                      /\ NotAfter(log'[k], t)
  BY <1>1
<1>3. NoiseControlsOK(Rules[k[1]])
  BY RulesAdmitted DEF Pairs, ValidRule
<1>4. alert[k] \in AlertState /\ log[k] \in Seq(Notification)
  OBVIOUS
<1>5. /\ s(k) \in AlertState
      /\ kind(k) = NULL => PairInv(Rules[k[1]], s(k), log[k])
      /\ \A m \in Notification :
           /\ kind(k) # NULL /\ m.kind = kind(k) /\ m.ts = t
           /\ m.suppressed = Suppressed(Rules[k[1]], alert[k], m.kind, t)
           => PairInv(Rules[k[1]], s(k), Append(log[k], m))
  BY <1>3, <1>4, EvaluateKeeps
<1>6. kind(k) # NULL => n(k) \in Notification
  <2>1. kind(k) # NULL => kind(k) \in Kinds
    BY DEF Emits, Kinds
  <2>2. Suppressed(Rules[k[1]], alert[k], kind(k), t) \in BOOLEAN
    BY <1>4 DEF Suppressed, AlertState
  <2>3. n(k).to \subseteq Addressees
    BY RecipientsKnown
  <2> QED BY <2>1, <2>2, <2>3 DEF Notification
<1>7. CASE k \in K /\ kind(k) # NULL
  <2>1. alert'[k] = s(k) /\ log'[k] = Append(log[k], n(k))
    BY <1>1, <1>7
  <2>2. PairInv(Rules[k[1]], s(k), Append(log[k], n(k)))
    BY <1>5, <1>6, <1>7
  <2>3. NotAfter(Append(log[k], n(k)), t)
    BY <1>4, <1>6, <1>7, AppendInOrder DEF PairInv
  <2>4. Append(log[k], n(k)) \in Seq(Notification)
    BY <1>4, <1>6, <1>7
  <2> QED BY <1>5, <2>1, <2>2, <2>3, <2>4
<1>8. CASE ~(k \in K /\ kind(k) # NULL)
  BY <1>1, <1>4, <1>5, <1>8
<1> QED
  BY <1>7, <1>8

-----------------------------------------------------------------------------
(* The clock. *)

\* The grid of ticks stays ahead of the clock, and a call under way has ticked
\* no further than its event.
ClockInv ==
  /\ clock = NULL <=> lastTick = NULL
  /\ clock # NULL => /\ clock < NextTick
                     /\ inflight = NULL => lastTick <= clock
                     /\ inflight # NULL => \/ lastTick <= clock
                                           \/ lastTick <= inflight.ts

ClockTyped == /\ inflight \in OrNull(Events)
              /\ clock \in OrNull(Int)
              /\ lastTick \in OrNull(Int)

\* An event in flight has a timestamp.
LEMMA EventTimed ==
  ASSUME NEW e \in Events
  PROVE  e \in Event /\ e.ts \in Int
  BY EventsTyped DEF Event

\* A tick is later than the clock and every tick before it.
LEMMA TickAdvances ==
  ASSUME ClockTyped, ClockInv, Tick
  PROVE  /\ NextTick \in Int /\ clock # NULL /\ Now \in Int /\ Now <= NextTick
         /\ ClockTyped' /\ ClockInv' /\ clock' # NULL /\ Now' = NextTick
<1>1. /\ inflight \in Events /\ inflight.ts \in Int /\ inflight # NULL
      /\ clock \in Int /\ lastTick \in Int /\ clock # NULL
  BY EventTimed DEF Tick, TickDue, ClockTyped, ClockInv, OrNull
<1>2. TickInterval \in Int /\ TickInterval > 0
  BY TickIntervalPositive
<1>3. /\ NextTick = lastTick + TickInterval /\ clock < NextTick
      /\ NextTick <= inflight.ts /\ lastTick' = NextTick
      /\ clock' = clock /\ inflight' = inflight
  BY <1>1 DEF Tick, TickDue, ClockInv, NextTick
<1>4. NextTick \in Int /\ Now \in Int /\ Now <= NextTick /\ Now' = NextTick
  BY <1>1, <1>2, <1>3 DEF Now
<1>5. ClockTyped'
  BY <1>3, <1>4 DEF ClockTyped, OrNull
<1>6. NextTick' = NextTick + TickInterval
  BY <1>3 DEF NextTick
<1>7. ClockInv'
  BY <1>1, <1>2, <1>3, <1>4, <1>6, NullIsNoNumber DEF ClockInv
<1> QED
  BY <1>1, <1>3, <1>4, <1>5, <1>7

\* The clock reaches the event, or stays when the event is late.
LEMMA CallAdvances ==
  ASSUME ClockTyped, ClockInv, inflight # NULL, ~TickDue,
         AdvanceClock(inflight), inflight' = NULL
  PROVE  /\ ClockAfter(inflight.ts) \in Int
         /\ ClockTyped' /\ ClockInv' /\ clock' # NULL
         /\ Now' = ClockAfter(inflight.ts)
         /\ clock # NULL => Now \in Int /\ Now <= ClockAfter(inflight.ts)
<1>1. inflight \in Events /\ inflight.ts \in Int
  BY EventTimed DEF ClockTyped, OrNull
<1>2. TickInterval \in Int /\ TickInterval > 0
  BY TickIntervalPositive
<1>3. CASE clock = NULL
  <2>1. clock' = inflight.ts /\ lastTick' = inflight.ts
    BY <1>3 DEF AdvanceClock, ClockAfter
  <2>2. NextTick' = inflight.ts + TickInterval
    BY <2>1 DEF NextTick
  <2>3. ClockTyped' /\ ClockInv'
    BY <1>1, <1>2, <2>1, <2>2, NullIsNoNumber DEF ClockTyped, ClockInv, OrNull
  <2> QED BY <1>1, <1>3, <2>1, <2>3, NullIsNoNumber DEF ClockAfter, Now
<1>4. CASE clock # NULL
  <2>1. clock \in Int /\ lastTick \in Int
    BY <1>4 DEF ClockTyped, ClockInv, OrNull
  <2>2. lastTick' = lastTick /\ clock' = ClockAfter(inflight.ts)
    BY <1>4 DEF AdvanceClock
  <2>3. NextTick' = lastTick + TickInterval /\ NextTick = lastTick + TickInterval
    BY <2>2 DEF NextTick
  <2>4. /\ ClockAfter(inflight.ts) \in Int /\ clock <= ClockAfter(inflight.ts)
        /\ inflight.ts <= ClockAfter(inflight.ts)
    BY <1>1, <1>4, <2>1 DEF ClockAfter
  <2>5. ClockAfter(inflight.ts) < lastTick + TickInterval
    BY <1>1, <1>2, <1>4, <2>1, <2>3 DEF ClockAfter, TickDue, ClockInv
  <2>6. lastTick <= ClockAfter(inflight.ts)
    BY <1>1, <1>4, <2>1, <2>4 DEF ClockInv
  <2>7. ClockTyped' /\ ClockInv' /\ clock' # NULL
    BY <2>1, <2>2, <2>3, <2>4, <2>5, <2>6, NullIsNoNumber
       DEF ClockTyped, ClockInv, OrNull
  <2>8. Now' = ClockAfter(inflight.ts)
    BY <2>1, <2>2, <2>4, <2>6 DEF Now
  <2>9. Now \in Int /\ Now <= ClockAfter(inflight.ts)
    BY <2>1, <2>4, <2>6 DEF Now
  <2> QED BY <2>4, <2>7, <2>8, <2>9
<1> QED
  BY <1>3, <1>4

-----------------------------------------------------------------------------
(* The inductive invariant and its theorems. *)

StoreInv ==
  \A k \in Pairs : /\ PairInv(Rules[k[1]], alert[k], log[k])
                   /\ log[k] # <<>> => clock # NULL /\ NotAfter(log[k], Now)

IInv == TypeOK /\ ClockInv /\ StoreInv

\* Nothing has happened yet.
LEMMA InitInv == Init => IInv
<1> SUFFICES ASSUME Init PROVE IInv
  OBVIOUS
<1>1. NewAlertState \in AlertState
  BY DEF NewAlertState, AlertState, Statuses
<1>2. NewWorld \in WorldState
  BY DEF NewWorld, WorldState, OrNull
<1>3. TypeOK /\ ClockInv
  BY <1>1, <1>2 DEF Init, TypeOK, ClockInv, OrNull
<1>4. ASSUME NEW k \in Pairs
      PROVE  PairInv(Rules[k[1]], alert[k], log[k]) /\ log[k] = <<>>
  <2>1. log[k] = <<>> /\ alert[k] = NewAlertState
    BY DEF Init
  <2>2. Pings(<<>>) = {}
    BY DEF Pings
  <2>3. Shows(<<>>, NewAlertState) /\ ~Open(<<>>)
    BY DEF Shows, Open, EscalatedLast, NewAlertState
  <2> QED
    BY <2>1, <2>2, <2>3
       DEF PairInv, Episodic, QuietThroughout, KeepsGap, InOrder
<1> QED
  BY <1>3, <1>4 DEF IInv, StoreInv

\* What the type invariant says of one pair.
LEMMA PairTyped ==
  ASSUME TypeOK, NEW k \in Pairs
  PROVE  /\ alert[k] \in AlertState /\ log[k] \in Seq(Notification)
         /\ \A i \in DOMAIN log[k] : log[k][i].ts \in Int
<1>1. alert[k] \in AlertState /\ log[k] \in Seq(Notification)
  BY DEF TypeOK
<1>2. \A i \in DOMAIN log[k] : log[k][i] \in Notification
  BY <1>1
<1> QED
  BY <1>1, <1>2 DEF Notification

\* A sweep no earlier than Now keeps every pair.
LEMMA SweepInv ==
  ASSUME IInv, NEW K, NEW w \in WorldState, NEW t \in Int, Sweep(K, w, t),
         clock # NULL => Now \in Int /\ Now <= t, clock' # NULL, Now' = t
  PROVE  /\ alert' \in [Pairs -> AlertState]
         /\ log' \in [Pairs -> Seq(Notification)]
         /\ StoreInv'
<1>1. ASSUME NEW k \in Pairs
      PROVE  NotAfter(log[k], t)
  <2>1. CASE log[k] = <<>>
    BY <2>1 DEF NotAfter
  <2>2. CASE log[k] # <<>>
    <3>1. \A i \in DOMAIN log[k] : log[k][i].ts \in Int
      BY PairTyped DEF IInv
    <3>2. NotAfter(log[k], Now) /\ Now \in Int /\ Now <= t
      BY <2>2 DEF IInv, StoreInv
    <3> QED BY <3>1, <3>2 DEF NotAfter
  <2> QED BY <2>1, <2>2
<1>2. \A k \in Pairs : /\ PairInv(Rules[k[1]], alert[k], log[k])
                       /\ NotAfter(log[k], t)
  BY <1>1 DEF IInv, StoreInv
<1>3. /\ alert \in [Pairs -> AlertState]
      /\ log \in [Pairs -> Seq(Notification)]
  BY DEF IInv, TypeOK
<1>4. /\ alert' \in [Pairs -> AlertState]
      /\ log' \in [Pairs -> Seq(Notification)]
      /\ \A k \in Pairs : /\ PairInv(Rules[k[1]], alert'[k], log'[k])
                          /\ NotAfter(log'[k], t)
  BY <1>2, <1>3, SweepKeeps
<1> QED
  BY <1>4 DEF StoreInv

LEMMA StepInv == IInv /\ [Next]_vars => IInv'
<1> SUFFICES ASSUME IInv, [Next]_vars PROVE IInv'
  OBVIOUS
<1>0. ClockTyped /\ ClockInv /\ TypeOK /\ StoreInv
  BY DEF IInv, TypeOK, ClockTyped
<1>1. ASSUME NEW e \in Events, Receive(e) PROVE IInv'
  <2>1. TypeOK'
    BY <1>0, <1>1 DEF TypeOK, Receive, OrNull
  <2>2. ClockInv'
    BY <1>0, <1>1 DEF ClockInv, Receive, NextTick
  <2>3. StoreInv'
    BY <1>0, <1>1 DEF StoreInv, Receive, Now
  <2> QED BY <2>1, <2>2, <2>3 DEF IInv
<1>2. CASE Tick
  <2>1. /\ NextTick \in Int /\ Now \in Int /\ Now <= NextTick
        /\ ClockTyped' /\ ClockInv' /\ clock' # NULL /\ Now' = NextTick
    BY <1>0, <1>2, TickAdvances
  <2>2. Sweep(TickPairs(world), world, NextTick) /\ world' = world
    BY <1>2 DEF Tick
  <2>3. /\ alert' \in [Pairs -> AlertState]
        /\ log' \in [Pairs -> Seq(Notification)] /\ StoreInv'
    BY <1>0, <2>1, <2>2, SweepInv DEF TypeOK
  <2>4. TypeOK'
    BY <1>0, <2>1, <2>2, <2>3 DEF TypeOK, ClockTyped
  <2> QED BY <2>1, <2>3, <2>4 DEF IInv
<1>3. CASE Settle
  <2>1. /\ inflight # NULL /\ ~TickDue /\ AdvanceClock(inflight)
        /\ inflight' = NULL /\ inflight.entity # NULL
        /\ world' = Apply(world, inflight)
        /\ Sweep(EventPairs(inflight), world', ClockAfter(inflight.ts))
    BY <1>3 DEF Settle
  <2>2. /\ ClockAfter(inflight.ts) \in Int
        /\ ClockTyped' /\ ClockInv' /\ clock' # NULL
        /\ Now' = ClockAfter(inflight.ts)
        /\ clock # NULL => Now \in Int /\ Now <= ClockAfter(inflight.ts)
    BY <1>0, <2>1, CallAdvances
  <2>3. inflight \in Event
    BY <1>0, <2>1, EventTimed DEF ClockTyped, OrNull
  <2>4. world' \in WorldState
    BY <1>0, <2>1, <2>3, ApplyTyped DEF TypeOK
  <2>5. /\ alert' \in [Pairs -> AlertState]
        /\ log' \in [Pairs -> Seq(Notification)] /\ StoreInv'
    BY <2>1, <2>2, <2>4, SweepInv
  <2>6. TypeOK'
    BY <2>2, <2>4, <2>5 DEF TypeOK, ClockTyped
  <2> QED BY <2>2, <2>5, <2>6 DEF IInv
<1>4. CASE Raise
  <2>1. /\ inflight # NULL /\ ~TickDue /\ AdvanceClock(inflight)
        /\ inflight' = NULL
        /\ world' = world /\ alert' = alert /\ log' = log
    BY <1>4 DEF Raise
  <2>2. /\ ClockAfter(inflight.ts) \in Int
        /\ ClockTyped' /\ ClockInv' /\ clock' # NULL
        /\ Now' = ClockAfter(inflight.ts)
        /\ clock # NULL => Now \in Int /\ Now <= ClockAfter(inflight.ts)
    BY <1>0, <2>1, CallAdvances
  <2>3. TypeOK'
    BY <1>0, <2>1, <2>2 DEF TypeOK, ClockTyped
  <2>4. StoreInv'
    <3> SUFFICES ASSUME NEW k \in Pairs
                 PROVE  /\ PairInv(Rules[k[1]], alert'[k], log'[k])
                        /\ log'[k] # <<>> => NotAfter(log'[k], Now')
      BY <2>2 DEF StoreInv
    <3>1. /\ PairInv(Rules[k[1]], alert[k], log[k])
          /\ log[k] # <<>> => clock # NULL /\ NotAfter(log[k], Now)
      BY <1>0 DEF StoreInv
    <3>2. \A i \in DOMAIN log[k] : log[k][i].ts \in Int
      BY <1>0, PairTyped
    <3>3. log[k] # <<>> => NotAfter(log[k], Now')
      BY <2>2, <3>1, <3>2 DEF NotAfter
    <3> QED BY <2>1, <3>1, <3>3
  <2> QED BY <2>2, <2>3, <2>4 DEF IInv
<1>5. CASE UNCHANGED vars
  BY <1>0, <1>5 DEF IInv, TypeOK, ClockInv, StoreInv, NextTick, Now, vars
<1> QED
  BY <1>1, <1>2, <1>3, <1>4, <1>5 DEF Next

\* IInv is an invariant.
THEOREM Invariance == Spec => []IInv
<1>1. Init => IInv
  BY InitInv
<1>2. IInv /\ [Next]_vars => IInv'
  BY StepInv
<1> QED
  BY <1>1, <1>2, PTL DEF Spec

\* Type correctness: whatever events arrive, the engine's clock, world, alert
\* states and store have the shapes the code's annotations give them.
THEOREM TypeCorrect == Spec => []TypeOK
<1>1. IInv => TypeOK
  BY DEF IInv
<1> QED
  BY <1>1, Invariance, PTL

\* No gap between events outruns the ticks: an idle engine is caught up.
THEOREM TicksAreCaughtUp == Spec => []TicksCaughtUp
<1>1. IInv => TicksCaughtUp
  BY DEF IInv, ClockInv, TicksCaughtUp
<1> QED
  BY <1>1, Invariance, PTL

\* Episodes: no double fire, and no resolve or escalation of what is not open.
THEOREM EpisodesAreWellFormed == Spec => []EpisodesWellFormed
<1>1. IInv => EpisodesWellFormed
  BY DEF IInv, StoreInv, PairInv, EpisodesWellFormed
<1> QED
  BY <1>1, Invariance, PTL

\* The store alone tells which alerts are open and which were escalated.
THEOREM StoreIsFaithful == Spec => []StoreShowsOpenAlerts
<1>1. IInv => StoreShowsOpenAlerts
  BY DEF IInv, StoreInv, PairInv, StoreShowsOpenAlerts
<1> QED
  BY <1>1, Invariance, PTL

\* Quiet fire, quiet resolve, and no escalation in between.
THEOREM QuietStaysQuiet == Spec => []QuietEpisodesStayQuiet
<1>1. IInv => QuietEpisodesStayQuiet
  BY DEF IInv, StoreInv, PairInv, QuietEpisodesStayQuiet
<1> QED
  BY <1>1, Invariance, PTL

\* The cooldown: the gap before every audible fire, for every rule and however
\* events arrive.
THEOREM CooldownHolds == Spec => []CooldownRespected
<1>1. IInv => CooldownRespected
  BY DEF IInv, StoreInv, PairInv, CooldownRespected
<1> QED
  BY <1>1, Invariance, PTL

\* The store of a pair is in time order and never ahead of the engine.
THEOREM StoreIsInOrder == Spec => []StoreInOrder
<1>1. IInv => StoreInOrder
  BY DEF IInv, StoreInv, PairInv, StoreInOrder
<1> QED
  BY <1>1, Invariance, PTL
=============================================================================
