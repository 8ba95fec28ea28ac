----------------------------- MODULE AuditProofs -----------------------------
(***************************************************************************)
(* Theorems about the observers of the engine, EngineAudit and AgentAudit, *)
(* for every set of rules, entities and events and every tick interval:    *)
(* what the engine's timers and the agents' records conclude agrees with   *)
(* what somebody outside wrote down of the evaluations and of the events.  *)
(*                                                                         *)
(* An observed run is a run of Engine, so EvalInv holds in it; each section*)
(* adds what relates the history variable to the engine's own state.       *)
(***************************************************************************)
EXTENDS EngineAudit, AgentAudit, WorldProofs

-----------------------------------------------------------------------------
(* EngineAudit. *)

\* An observed run is a run of the engine.
LEMMA AuditRefines == AuditSpec => Spec /\ []EvalInv
<1>1. AuditInit => Init
  BY DEF AuditInit
<1>2. [AuditNext]_auditVars => [Next]_vars
  BY DEF AuditNext, WatchedTick, WatchedSettle, auditVars, Next
<1>3. AuditSpec => Spec
  BY <1>1, <1>2, PTL DEF AuditSpec, Spec
<1> QED
  BY <1>3, EveryPairIsEvaluated, PTL

\* What Watch writes down of one pair.
LEMMA Watched ==
  ASSUME NEW K, NEW w, NEW t, Watch(K, w, t), NEW k \in Pairs
  PROVE  /\ trueSince'[k] =
              IF k \notin K THEN trueSince[k]
              ELSE IF Seen(w, k, t).active
                   THEN IF trueSince[k] = NULL THEN t ELSE trueSince[k]
              ELSE IF Seen(w, k, t).known THEN NULL ELSE trueSince[k]
         /\ steadySince'[k] =
              IF k \notin K THEN steadySince[k]
              ELSE IF ~Seen(w, k, t).active THEN NULL
              ELSE IF steadySince[k] = NULL THEN t ELSE steadySince[k]
<1> DEFINE obs == Seen(w, k, t)
<1>1. /\ trueSince'[k] = IF k \in K
                         THEN Since(trueSince[k], obs, obs.known /\ ~obs.active, t)
                         ELSE trueSince[k]
      /\ steadySince'[k] = IF k \in K
                           THEN Since(steadySince[k], obs, ~obs.active, t)
                           ELSE steadySince[k]
  BY DEF Watch, Seen
<1> HIDE DEF obs
<1>2. /\ trueSince'[k] =
           IF k \notin K THEN trueSince[k]
           ELSE IF obs.active
                THEN IF trueSince[k] = NULL THEN t ELSE trueSince[k]
           ELSE IF obs.known THEN NULL ELSE trueSince[k]
      /\ steadySince'[k] =
           IF k \notin K THEN steadySince[k]
           ELSE IF ~obs.active THEN NULL
           ELSE IF steadySince[k] = NULL THEN t ELSE steadySince[k]
  BY <1>1 DEF Since
<1> QED
  BY <1>2 DEF obs

\* Where an evaluation can lead: to a fire or a pending alert only on active
\* data, and away from neither while the data is active and still.
LEMMA EvaluateTo ==
  ASSUME NEW rule, NEW st \in AlertState, NEW obs, NEW t
  PROVE  LET s == Evaluate(rule, st, obs, t)
         IN  /\ s.status = "PENDING" =>
                  \/ ~obs.known /\ s = st
                  \/ /\ obs.known /\ obs.active /\ st.status # "FIRING"
                     /\ s.pending_since = PendingSince(st, t)
             /\ s.status = "FIRING" /\ st.status # "FIRING"
                  => Fires(rule, st, obs, t)
             /\ obs.known /\ obs.active /\ (st.status = "FIRING" => obs.still)
                  => s.status # "OK"
<1> DEFINE s == Evaluate(rule, st, obs, t)
<1>1. CASE Fires(rule, st, obs, t)
  <2>1. s = Fire(rule, st, t)
    BY <1>1, EvaluateIs
  <2> QED BY <1>1, <2>1 DEF Fire, AlertState
<1>2. CASE Resolves(st, obs)
  <2>1. s = Resolve(st, t)
    BY <1>2, EvaluateIs
  <2> QED BY <1>2, <2>1 DEF Resolve, Resolves, AlertState
<1>3. CASE Escalates(rule, st, obs, t)
  <2>1. s = [st EXCEPT !.escalated = TRUE]
    BY <1>3, EvaluateIs
  <2> QED BY <1>3, <2>1 DEF Escalates, AlertState
<1>4. CASE Pends(rule, st, obs, t)
  <2>1. s = Pend(st, t)
    BY <1>4, EvaluateIs
  <2> QED BY <1>4, <2>1 DEF Pend, Pends, AlertState
<1>5. CASE Clears(st, obs)
  <2>1. s = Clear(st)
    BY <1>5, EvaluateIs
  <2> QED BY <1>5, <2>1 DEF Clear, Clears, AlertState
<1>6. CASE ~ \/ Fires(rule, st, obs, t) \/ Resolves(st, obs)
             \/ Escalates(rule, st, obs, t)
             \/ Pends(rule, st, obs, t) \/ Clears(st, obs)
  <2>1. s = st
    BY <1>6, EvaluateIs
  <2>2. obs.known => st.status = "FIRING" /\ obs.still
    BY <1>6 DEF Fires, Resolves, Pends, Clears
  <2> QED BY <2>1, <2>2 DEF AlertState, Statuses
<1> QED
  BY <1>1, <1>2, <1>3, <1>4, <1>5, <1>6

\* A pending alert is no older than the first evaluation that found it true.
HeldInv == \A k \in Pairs :
  /\ trueSince[k] # NULL => /\ clock # NULL
                            /\ trueSince[k] \in Int /\ trueSince[k] <= Now
  /\ alert[k].status = "PENDING" =>
       trueSince[k] # NULL /\ trueSince[k] <= alert[k].pending_since

LEMMA HeldKept ==
  ASSUME EvalInv, HeldInv, NEW K, NEW w, NEW t \in Int,
         Sweep(K, w, t), Watch(K, w, t), clock' # NULL, Now' = t,
         clock # NULL => Now \in Int /\ Now <= t, NEW k \in Pairs
  PROVE  /\ trueSince'[k] # NULL => trueSince'[k] \in Int /\ trueSince'[k] <= t
         /\ alert'[k].status = "PENDING" =>
              /\ trueSince'[k] # NULL
              /\ trueSince'[k] <= alert'[k].pending_since
         /\ FiresNow(k) => /\ trueSince'[k] # NULL
                           /\ t - trueSince'[k] >= Rules[k[1]].sustained_for_sec
<1> DEFINE obs == Seen(w, k, t)
           st  == alert[k]
           s   == alert'[k]
           was == trueSince[k]
           now == trueSince'[k]
           sustained == Rules[k[1]].sustained_for_sec
<1>1. /\ st \in AlertState
      /\ st.status = "PENDING" => /\ st.pending_since \in Int
                                  /\ was # NULL /\ was <= st.pending_since
                                  /\ st.pending_since <= t
      /\ was # NULL => was \in Int /\ was <= t
  BY DEF EvalInv, IInv, TypeOK, TimedInv, Timed, HeldInv
<1>2. obs.active => obs.known
  BY SeenIs
<1>3. CASE k \notin K
  <2>1. s = st /\ now = was
    BY <1>3, SweepIs, Watched
  <2> QED BY <1>1, <2>1 DEF FiresNow
<1>4. CASE k \in K
  <2>1. s = Evaluate(Rules[k[1]], st, obs, t)
    BY <1>4, SweepIs
  <2>2. now = IF obs.active THEN IF was = NULL THEN t ELSE was
              ELSE IF obs.known THEN NULL ELSE was
    BY <1>4, Watched
  <2>3. /\ s.status = "PENDING" =>
             \/ ~obs.known /\ s = st
             \/ /\ obs.known /\ obs.active /\ st.status # "FIRING"
                /\ s.pending_since = PendingSince(st, t)
        /\ s.status = "FIRING" /\ st.status # "FIRING" =>
             /\ obs.known /\ obs.active
             /\ t - PendingSince(st, t) >= sustained
    <3>1. /\ s.status = "PENDING" =>
               \/ ~obs.known /\ s = st
               \/ /\ obs.known /\ obs.active /\ st.status # "FIRING"
                  /\ s.pending_since = PendingSince(st, t)
          /\ s.status = "FIRING" /\ st.status # "FIRING"
               => Fires(Rules[k[1]], st, obs, t)
      BY <1>1, <2>1, EvaluateTo
    <3> QED BY <3>1 DEF Fires, HeldLongEnough
  <2>4. st.status # "FIRING" /\ obs.active
          => now # NULL /\ now \in Int /\ now <= PendingSince(st, t)
    BY <1>1, <2>2, NullIsNoNumber DEF PendingSince, AlertState, Statuses
  <2>5. PendingSince(st, t) \in Int \/ st.status = "FIRING"
    BY <1>1 DEF PendingSince, AlertState, Statuses
  <2>6. sustained \in Int
    BY RulesAdmitted DEF Pairs, ValidRule, NoiseControlsOK
  <2>7. FiresNow(k) <=> st.status # "FIRING" /\ s.status = "FIRING"
    BY DEF FiresNow
  <2> HIDE DEF obs, st, s, was, now, sustained
  <2>8. now # NULL => now \in Int /\ now <= t
    BY <1>1, <2>2
  <2>9. s.status = "PENDING" => now # NULL /\ now <= s.pending_since
    BY <1>1, <1>2, <2>2, <2>3, <2>4
  <2>10. FiresNow(k) => now # NULL /\ t - now >= sustained
    BY <2>3, <2>4, <2>5, <2>6, <2>7
  <2> QED BY <2>8, <2>9, <2>10 DEF obs, st, s, was, now, sustained
<1> QED
  BY <1>3, <1>4

LEMMA HeldStep ==
  EvalInv /\ HeldInv /\ [AuditNext]_auditVars =>
    /\ HeldInv'
    /\ \A k \in Pairs : FiresNow(k) =>
         /\ trueSince'[k] # NULL
         /\ Now' - trueSince'[k] >= Rules[k[1]].sustained_for_sec
<1> SUFFICES ASSUME EvalInv, HeldInv, [AuditNext]_auditVars
             PROVE  /\ HeldInv'
                    /\ \A k \in Pairs : FiresNow(k) =>
                         /\ trueSince'[k] # NULL
                         /\ Now' - trueSince'[k] >= Rules[k[1]].sustained_for_sec
  OBVIOUS
<1>1. CASE \E e \in Events : Receive(e) /\ Unwatched
  BY <1>1 DEF Receive, Unwatched, HeldInv, Now, FiresNow
<1>2. CASE WatchedTick
  <2>1. Tick /\ Watch(TickPairs(world), world, NextTick)
    BY <1>2 DEF WatchedTick
  <2> QED BY <2>1, TickIs, HeldKept DEF HeldInv
<1>3. CASE WatchedSettle
  <2> DEFINE t == ClockAfter(inflight.ts)
  <2>1. Settle /\ Watch(EventPairs(inflight), world', t)
    BY <1>3 DEF WatchedSettle
  <2>2. /\ t \in Int /\ clock' # NULL /\ Now' = t
        /\ clock # NULL => Now \in Int /\ Now <= t
        /\ Sweep(EventPairs(inflight), world', t)
    BY <2>1, SettleIs
  <2> HIDE DEF t
  <2> QED BY <2>1, <2>2, HeldKept DEF HeldInv
<1>4. CASE Raise /\ Unwatched
  <2>1. /\ clock' # NULL /\ alert' = alert /\ trueSince' = trueSince
        /\ Now' \in Int /\ (clock # NULL => Now \in Int /\ Now <= Now')
    BY <1>4, RaiseIs DEF Unwatched
  <2> QED BY <2>1 DEF HeldInv, FiresNow
<1>5. CASE UNCHANGED auditVars
  BY <1>5 DEF auditVars, vars, HeldInv, Now, FiresNow
<1> QED
  BY <1>1, <1>2, <1>3, <1>4, <1>5 DEF AuditNext

\* sustained_for kills blips: an alert fires only after its condition was true
\* at every evaluation of sustained_for seconds.
THEOREM AlertsAreSustained == AuditSpec => SustainedBeforeFire
<1>1. AuditInit => HeldInv
  BY DEF AuditInit, Init, HeldInv, NewAlertState
<1>2. EvalInv /\ HeldInv /\ [AuditNext]_auditVars => HeldInv'
  BY HeldStep
<1>3. EvalInv /\ HeldInv /\ [AuditNext]_auditVars =>
        [\A k \in Pairs : FiresNow(k) =>
           /\ trueSince'[k] # NULL
           /\ Now' - trueSince'[k] >= Rules[k[1]].sustained_for_sec]_auditVars
  BY HeldStep
<1> QED
  BY <1>1, <1>2, <1>3, AuditRefines, PTL DEF AuditSpec, SustainedBeforeFire

\* While every evaluation finds a condition true, its data is known and the
\* alert of a forgiving rule is open, or pending since the first of them.
SteadyInv == \A k \in Pairs : steadySince[k] # NULL =>
  /\ clock # NULL /\ steadySince[k] \in Int /\ steadySince[k] <= Now
  /\ Seen(world, k, Now).known
  /\ Forgiving(Rules[k[1]]) =>
       /\ alert[k].status # "OK"
       /\ alert[k].status = "PENDING" => alert[k].pending_since <= steadySince[k]

\* One evaluation of one pair.
LEMMA SteadyKept ==
  ASSUME EvalInv, SteadyInv, NEW K, NEW w \in WorldState, WorldSound(w),
         NEW t \in Int, Sweep(K, w, t), Watch(K, w, t),
         clock # NULL => Now \in Int /\ Now <= t,
         NEW k \in Pairs, k \in K, steadySince'[k] # NULL
  PROVE  /\ steadySince'[k] \in Int /\ steadySince'[k] <= t
         /\ Seen(w, k, t).known
         /\ Forgiving(Rules[k[1]]) =>
              /\ alert'[k].status # "OK"
              /\ alert'[k].status = "PENDING"
                   => alert'[k].pending_since <= steadySince'[k]
<1> DEFINE rule == Rules[k[1]]
           obs == Seen(w, k, t)
           st  == alert[k]
           s   == alert'[k]
           was == steadySince[k]
           now == steadySince'[k]
<1>1. /\ st \in AlertState
      /\ st.status = "PENDING" => st.pending_since \in Int /\ st.pending_since <= t
      /\ was # NULL => /\ was \in Int /\ was <= t
                       /\ Forgiving(rule) =>
                            /\ st.status # "OK"
                            /\ st.status = "PENDING" => st.pending_since <= was
  BY DEF EvalInv, IInv, TypeOK, TimedInv, Timed, SteadyInv
<1>2. /\ now = IF ~obs.active THEN NULL ELSE IF was = NULL THEN t ELSE was
      /\ s = Evaluate(rule, st, obs, t)
  BY Watched, SweepIs
<1>3. obs.active /\ obs.known /\ (Forgiving(rule) => obs.still)
  BY <1>2, SeenIs, ActiveIsStill
<1>4. now = (IF was = NULL THEN t ELSE was) /\ now \in Int /\ now <= t
  BY <1>1, <1>2, <1>3
<1>5. /\ s.status = "PENDING" => s.pending_since = PendingSince(st, t)
      /\ s.status = "PENDING" => st.status # "FIRING"
      /\ Forgiving(rule) => s.status # "OK"
  BY <1>1, <1>2, <1>3, EvaluateTo
<1>6. s.status = "PENDING" /\ Forgiving(rule) => s.pending_since <= now
  BY <1>1, <1>4, <1>5 DEF PendingSince, AlertState, Statuses
<1> QED
  BY <1>3, <1>4, <1>5, <1>6

LEMMA SteadyStep ==
  EvalInv /\ SteadyInv /\ [AuditNext]_auditVars => SteadyInv'
<1> SUFFICES ASSUME EvalInv, SteadyInv, [AuditNext]_auditVars PROVE SteadyInv'
  OBVIOUS
<1>1. CASE \E e \in Events : Receive(e) /\ Unwatched
  BY <1>1 DEF Receive, Unwatched, SteadyInv, Now
<1>2. CASE WatchedTick
  <2>1. Tick /\ Watch(TickPairs(world), world, NextTick)
    BY <1>2 DEF WatchedTick
  <2>2. /\ NextTick \in Int /\ clock' # NULL /\ Now' = NextTick
        /\ clock # NULL /\ Now \in Int /\ Now <= NextTick
        /\ world' = world /\ world \in WorldState /\ WorldSound(world)
        /\ Sweep(TickPairs(world), world, NextTick)
    BY <2>1, TickIs
  <2>3. ASSUME NEW k \in Pairs, steadySince'[k] # NULL
        PROVE  /\ steadySince'[k] \in Int /\ steadySince'[k] <= NextTick
               /\ Seen(world, k, NextTick).known
               /\ Forgiving(Rules[k[1]]) =>
                    /\ alert'[k].status # "OK"
                    /\ alert'[k].status = "PENDING"
                         => alert'[k].pending_since <= steadySince'[k]
    <3>1. CASE k \in TickPairs(world)
      BY <2>1, <2>2, <2>3, <3>1, SteadyKept
    <3>2. CASE k \notin TickPairs(world)
      <4>1. steadySince'[k] = steadySince[k] /\ alert'[k] = alert[k]
        BY <2>1, <2>2, <3>2, Watched, SweepIs
      <4>2. Seen(world, k, NextTick).known
        BY <2>2, <2>3, <4>1, KnownInTime DEF SteadyInv
      <4> QED BY <2>2, <2>3, <4>1, <4>2 DEF SteadyInv
    <3> QED BY <3>1, <3>2
  <2> QED BY <2>2, <2>3 DEF SteadyInv
<1>3. CASE WatchedSettle
  <2> DEFINE t == ClockAfter(inflight.ts)
  <2>1. Settle /\ Watch(EventPairs(inflight), world', t)
    BY <1>3 DEF WatchedSettle
  <2>2. /\ t \in Int /\ clock' # NULL /\ Now' = t
        /\ clock # NULL => Now \in Int /\ Now <= t
        /\ world \in WorldState /\ WorldSound(world)
        /\ world' \in WorldState /\ WorldSound(world')
        /\ inflight \in Event /\ inflight.entity # NULL
        /\ world' = Apply(world, inflight)
        /\ Sweep(EventPairs(inflight), world', t)
    BY <2>1, SettleIs
  <2> HIDE DEF t
  <2>3. ASSUME NEW k \in Pairs, steadySince'[k] # NULL
        PROVE  /\ steadySince'[k] \in Int /\ steadySince'[k] <= t
               /\ Seen(world', k, t).known
               /\ Forgiving(Rules[k[1]]) =>
                    /\ alert'[k].status # "OK"
                    /\ alert'[k].status = "PENDING"
                         => alert'[k].pending_since <= steadySince'[k]
    <3>1. CASE k \in EventPairs(inflight)
      BY <2>1, <2>2, <2>3, <3>1, SteadyKept
    <3>2. CASE k \notin EventPairs(inflight)
      <4>1. steadySince'[k] = steadySince[k] /\ alert'[k] = alert[k]
        BY <2>1, <2>2, <3>2, Watched, SweepIs
      <4>2. Seen(world', k, t) = Seen(world, k, t)
        BY <2>2, <3>2, SeenElsewhere DEF EventPairs
      <4>3. Seen(world', k, t).known
        BY <2>2, <2>3, <4>1, <4>2, KnownInTime DEF SteadyInv
      <4> QED BY <2>2, <2>3, <4>1, <4>3 DEF SteadyInv
    <3> QED BY <3>1, <3>2
  <2> QED BY <2>2, <2>3 DEF SteadyInv
<1>4. CASE Raise /\ Unwatched
  <2>1. /\ clock' # NULL /\ alert' = alert /\ steadySince' = steadySince
        /\ Now' \in Int /\ (clock # NULL => Now \in Int /\ Now <= Now')
        /\ world' = world /\ world \in WorldState /\ WorldSound(world)
    BY <1>4, RaiseIs DEF Unwatched
  <2>2. ASSUME NEW k \in Pairs, steadySince[k] # NULL
        PROVE  Seen(world, k, Now').known
    BY <2>1, <2>2, KnownInTime DEF SteadyInv
  <2> QED BY <2>1, <2>2 DEF SteadyInv
<1>5. CASE UNCHANGED auditVars
  BY <1>5 DEF auditVars, vars, SteadyInv, Now
<1> QED
  BY <1>1, <1>2, <1>3, <1>4, <1>5 DEF AuditNext

\* The other direction: what every evaluation found true for sustained_for and
\* a tick interval has fired.
THEOREM SustainedAlertsFire == AuditSpec => []FiresOnceSustained
<1>1. AuditInit => SteadyInv
  BY DEF AuditInit, SteadyInv
<1>2. EvalInv /\ SteadyInv => FiresOnceSustained
  <2> SUFFICES ASSUME EvalInv, SteadyInv, inflight = NULL, clock # NULL,
                      NEW k \in Pairs, Forgiving(Rules[k[1]]),
                      steadySince[k] # NULL,
                      clock - steadySince[k]
                        >= Rules[k[1]].sustained_for_sec + TickInterval,
                      alert[k].status # "FIRING"
               PROVE  FALSE
    BY DEF FiresOnceSustained
  <2> DEFINE sustained == Rules[k[1]].sustained_for_sec
             since == alert[k].pending_since
  <2>0. Now = clock
    BY DEF EvalInv, IInv, ClockInv, TypeOK, OrNull, Now
  <2>1. /\ steadySince[k] \in Int /\ Seen(world, k, clock).known
        /\ alert[k].status # "OK"
        /\ alert[k].status = "PENDING" => since <= steadySince[k]
    BY <2>0 DEF SteadyInv
  <2>2. /\ clock \in Int /\ alert[k] \in AlertState
        /\ \E t \in Int : /\ t <= clock /\ clock - TickInterval < t
                          /\ JudgedAt(k, t)
        /\ Timed(alert[k], clock)
    BY <2>1, Recently
  <2>3. alert[k].status = "PENDING" /\ since \in Int
    BY <2>1, <2>2 DEF AlertState, Statuses, Timed
  <2>4. PICK t \in Int : clock - TickInterval < t /\ t - since < sustained
    BY <2>2, <2>3 DEF JudgedAt, Judged
  <2>5. sustained \in Int /\ TickInterval \in Int
    BY RulesAdmitted, TickIntervalPositive DEF Pairs, ValidRule, NoiseControlsOK
  <2>6. clock - steadySince[k] >= sustained + TickInterval
    OBVIOUS
  <2> HIDE DEF sustained, since
  <2> QED BY <2>1, <2>2, <2>3, <2>4, <2>5, <2>6
<1> QED
  BY <1>1, <1>2, SteadyStep, AuditRefines, PTL DEF AuditSpec

-----------------------------------------------------------------------------
(* AgentAudit. *)

LEMMA AgentAuditRefines == AgentAuditSpec => Spec /\ []EvalInv
<1>1. AgentAuditInit => Init
  BY DEF AgentAuditInit
<1>2. [AgentAuditNext]_agentAuditVars => [Next]_vars
  BY DEF AgentAuditNext, ReadSettle, agentAuditVars, Next
<1>3. AgentAuditSpec => Spec
  BY <1>1, <1>2, PTL DEF AgentAuditSpec, Spec
<1> QED
  BY <1>3, EveryPairIsEvaluated, PTL

\* The reader's notes agree with the engine's records: the queues, and for a
\* violation its start, noted at the clock.
AgentNoted(a) ==
  LET s == AgentOrNew(world, a)
  IN  /\ roster[a] = s.queue_ids
      /\ IF s.in_violation
         THEN /\ drift[a] \in Drift /\ drift[a].start = s.violation_started_at
              /\ clock # NULL /\ drift[a].at <= Now
         ELSE drift[a] = NULL

NotedInv == /\ roster \in [Agents -> SUBSET Queues]
            /\ DOMAIN drift = Agents
            /\ \A a \in Agents : AgentNoted(a)

\* The record of an agent, present or fresh.
LEMMA AgentTyped ==
  ASSUME NEW w \in WorldState, NEW a \in Agents
  PROVE  /\ AgentOrNew(w, a) \in AgentState
         /\ WorldSound(w) /\ AgentOrNew(w, a).in_violation
              => AgentOrNew(w, a).violation_started_at \in Int
  BY DEF AgentOrNew, NewAgentState, AgentState, WorldState, OrNull, WorldSound

\* The queues and the violation an agent's event leaves, read off the event
\* and the record before it.
LEMMA AgentAfter ==
  ASSUME NEW w \in WorldState, NEW e \in Event, e.entity \in Agents
  PROVE  LET was == AgentOrNew(w, e.entity)
             now == AgentOrNew(Apply(w, e), e.entity)
         IN  /\ e.type # "queue_snapshot"
             /\ now.queue_ids = IF e.queue_ids \in {NULL, {}}
                                THEN was.queue_ids ELSE e.queue_ids
             /\ e.queue_ids \in {NULL, {}} \/ e.queue_ids \in SUBSET Queues
             /\ e.type # "adherence_check" =>
                  /\ now.in_violation = was.in_violation
                  /\ now.violation_started_at = was.violation_started_at
             /\ e.type = "adherence_check" =>
                  /\ e.in_violation \in BOOLEAN
                  /\ e.violation_started_at \in Int \cup {NULL}
                  /\ now.in_violation = e.in_violation
                  /\ e.in_violation => now.violation_started_at = StartedAt(was, e)
<1> DEFINE was == AgentOrNew(w, e.entity)
           now == AgentOrNew(Apply(w, e), e.entity)
<1>1. was \in AgentState /\ e.entity \notin Queues /\ e.entity # NULL
  BY AgentTyped, EntitiesApart
<1>2. e.type # "queue_snapshot"
  BY <1>1 DEF Event, OrNull
<1>3. PICK b \in AgentState : Apply(w, e) = [w EXCEPT !.agents[e.entity] = b]
  BY <1>1, <1>2, AgentApplied
<1>4. now = Apply(w, e).agents[e.entity]
  BY <1>3, NullIsNoState DEF AgentOrNew, WorldState
<1>5. CASE e.type = "agent_state_change"
  <2>1. now = [was EXCEPT !.current_state = e.new_state,
                          !.state_since   = e.ts,
                          !.last_ts       = e.ts,
                          !.queue_ids     = QueuesAfter(was, e)]
    BY <1>4, <1>5 DEF Apply, ApplyStateChange, WorldState
  <2>2. e.queue_ids \in (SUBSET Queues) \cup {NULL}
    BY <1>5 DEF Event, OrNull
  <2> HIDE DEF now
  <2>3. /\ now.queue_ids = QueuesAfter(was, e)
        /\ now.in_violation = was.in_violation
        /\ now.violation_started_at = was.violation_started_at
    BY <1>1, <2>1 DEF AgentState
  <2> QED BY <1>5, <2>2, <2>3 DEF now, QueuesAfter
<1>6. CASE e.type = "adherence_check"
  <2> DEFINE differs == e.actual_state \notin {NULL, was.current_state}
  <2>1. now = [was EXCEPT !.current_state = IF differs THEN e.actual_state ELSE @,
                          !.state_since   = IF differs THEN e.ts ELSE @,
                          !.last_ts       = e.ts,
                          !.queue_ids     = QueuesAfter(was, e),
                          !.in_violation  = e.in_violation,
                          !.violation_started_at =
                              IF e.in_violation THEN StartedAt(was, e) ELSE NULL]
    BY <1>4, <1>6 DEF Apply, ApplyAdherence, WorldState
  <2>2. /\ e.queue_ids \in (SUBSET Queues) \cup {NULL} /\ e.in_violation \in BOOLEAN
        /\ e.violation_started_at \in Int \cup {NULL}
    BY <1>6 DEF Event, OrNull
  <2> HIDE DEF now, differs
  <2>3. /\ now.queue_ids = QueuesAfter(was, e)
        /\ now.in_violation = e.in_violation
        /\ e.in_violation => now.violation_started_at = StartedAt(was, e)
    BY <1>1, <2>1 DEF AgentState
  <2> QED BY <1>6, <2>2, <2>3 DEF now, QueuesAfter
<1> QED
  BY <1>2, <1>5, <1>6 DEF Event

\* A note is as long true as the agent's record stays and time moves on.
LEMMA NotedLater ==
  ASSUME NotedInv, NEW a \in Agents,
         roster'[a] = roster[a], drift'[a] = drift[a],
         AgentOrNew(world, a)' = AgentOrNew(world, a),
         clock' # NULL, Now' \in Int, clock # NULL => Now \in Int /\ Now <= Now'
  PROVE  AgentNoted(a)'
<1>1. AgentNoted(a)
  BY DEF NotedInv
<1>2. drift[a] \in Drift => drift[a].at \in Int
  BY DEF Drift
<1> QED
  BY <1>1, <1>2 DEF AgentNoted

\* A reader who notes an event knows what the engine's record will be.
LEMMA NotedRead ==
  ASSUME NotedInv, NEW w \in WorldState, w = world, WorldSound(w),
         NEW e \in Event, e.entity \in Agents, e.ts \in Int, NEW t \in Int,
         Read(e, t), world' = Apply(w, e), clock' # NULL, Now' = t,
         clock # NULL => Now \in Int /\ Now <= t
  PROVE  /\ AgentNoted(e.entity)'
         /\ roster' = [roster EXCEPT ![e.entity] = roster'[e.entity]]
         /\ drift' = [drift EXCEPT ![e.entity] = drift'[e.entity]]
         /\ roster'[e.entity] \in SUBSET Queues
         /\ drift'[e.entity] \in {drift[e.entity], NULL}
              \/ drift'[e.entity].at = t
<1> DEFINE a    == e.entity
           was  == AgentOrNew(w, a)
           now  == AgentOrNew(Apply(w, e), a)
           past == drift[a]
<1>1. /\ roster' = [roster EXCEPT ![a] =
                      IF e.queue_ids \in {NULL, {}} THEN @ ELSE e.queue_ids]
      /\ drift' = [drift EXCEPT ![a] = DriftAfter(@, e, t)]
  BY DEF Read
<1>2. /\ roster'[a] = IF e.queue_ids \in {NULL, {}} THEN roster[a]
                                                    ELSE e.queue_ids
      /\ drift'[a] = DriftAfter(past, e, t)
      /\ roster' = [roster EXCEPT ![a] = roster'[a]]
      /\ drift' = [drift EXCEPT ![a] = drift'[a]]
  BY <1>1 DEF NotedInv
<1>3. /\ roster[a] = was.queue_ids /\ roster[a] \in SUBSET Queues
      /\ was.in_violation => /\ past \in Drift
                             /\ past.start = was.violation_started_at
                             /\ clock # NULL /\ past.at <= Now
      /\ ~was.in_violation => past = NULL
  BY DEF NotedInv, AgentNoted
<1>4. /\ now.queue_ids = IF e.queue_ids \in {NULL, {}} THEN was.queue_ids
                                                       ELSE e.queue_ids
      /\ e.queue_ids \in {NULL, {}} \/ e.queue_ids \in SUBSET Queues
      /\ e.type # "adherence_check" =>
           /\ now.in_violation = was.in_violation
           /\ now.violation_started_at = was.violation_started_at
      /\ e.type = "adherence_check" =>
           /\ e.in_violation \in BOOLEAN
           /\ e.violation_started_at \in Int \cup {NULL}
           /\ now.in_violation = e.in_violation
           /\ e.in_violation => now.violation_started_at = StartedAt(was, e)
  BY AgentAfter
<1>5. was.in_violation \in BOOLEAN
  BY AgentTyped DEF AgentState
<1>6. past \in Drift => past.at \in Int /\ past # NULL
  BY NullIsNoDrift DEF Drift
<1>7. AgentOrNew(world, a)' = now
  BY DEF AgentOrNew
<1> HIDE DEF a, was, now, past
<1> DEFINE d == DriftAfter(past, e, t)
<1>8. \A n \in Int, m \in Int : /\ [start |-> n, at |-> m] \in Drift
                                 /\ [start |-> n, at |-> m].start = n
                                 /\ [start |-> n, at |-> m].at = m
  BY DEF Drift
<1>9. CASE e.type # "adherence_check"
  <2>1. d = past
    BY <1>9 DEF DriftAfter
  <2>2. IF now.in_violation
        THEN /\ d \in Drift /\ d.start = now.violation_started_at
             /\ d.at <= t
        ELSE d = NULL
    BY <1>3, <1>4, <1>5, <1>6, <1>9, <2>1
  <2> HIDE DEF d
  <2> QED BY <1>2, <1>3, <1>4, <1>7, <2>1, <2>2 DEF AgentNoted, d, a, past
<1>10. CASE e.type = "adherence_check"
  <2>1. CASE ~e.in_violation
    <3>1. d = NULL /\ ~now.in_violation
      BY <1>4, <1>10, <2>1 DEF DriftAfter
    <3> HIDE DEF d
    <3> QED BY <1>2, <1>3, <1>4, <1>7, <3>1 DEF AgentNoted, d, a, past
  <2>2. CASE e.in_violation /\ e.violation_started_at # NULL
    <3>1. /\ d = [start |-> e.violation_started_at, at |-> t]
          /\ now.violation_started_at = e.violation_started_at
          /\ now.in_violation /\ e.violation_started_at \in Int
      BY <1>4, <1>10, <2>2 DEF DriftAfter, StartedAt
    <3>2. d \in Drift /\ d.start = now.violation_started_at /\ d.at = t
      BY <1>8, <3>1
    <3> HIDE DEF d
    <3> QED BY <1>2, <1>3, <1>4, <1>7, <3>1, <3>2 DEF AgentNoted, d, a, past
  <2>3. CASE e.in_violation /\ e.violation_started_at = NULL /\ past = NULL
    <3>1. /\ d = [start |-> e.ts, at |-> t] /\ now.violation_started_at = e.ts
          /\ now.in_violation
      BY <1>3, <1>4, <1>5, <1>6, <1>10, <2>3 DEF DriftAfter, StartedAt
    <3>2. d \in Drift /\ d.start = now.violation_started_at /\ d.at = t
      BY <1>8, <3>1
    <3> HIDE DEF d
    <3> QED BY <1>2, <1>3, <1>4, <1>7, <3>1, <3>2 DEF AgentNoted, d, a, past
  <2>4. CASE e.in_violation /\ e.violation_started_at = NULL /\ past # NULL
    <3>1. /\ d = past /\ was.in_violation /\ now.in_violation
          /\ now.violation_started_at = was.violation_started_at
      BY <1>3, <1>4, <1>5, <1>10, <2>4 DEF DriftAfter, StartedAt
    <3>2. d \in Drift /\ d.start = now.violation_started_at /\ d.at <= t
      BY <1>3, <1>6, <3>1
    <3> HIDE DEF d
    <3> QED BY <1>2, <1>3, <1>4, <1>7, <3>1, <3>2 DEF AgentNoted, d, a, past
  <2> QED BY <2>1, <2>2, <2>3, <2>4
<1> QED
  BY <1>9, <1>10

LEMMA NotedStep ==
  EvalInv /\ NotedInv /\ [AgentAuditNext]_agentAuditVars => NotedInv'
<1> SUFFICES ASSUME EvalInv, NotedInv, [AgentAuditNext]_agentAuditVars
             PROVE  NotedInv'
  OBVIOUS
<1>0. roster \in [Agents -> SUBSET Queues] /\ DOMAIN drift = Agents
  BY DEF NotedInv
<1>1. CASE \E e \in Events : Receive(e) /\ Unread
  <2>1. /\ UNCHANGED <<clock, lastTick, world, roster, drift>>
    BY <1>1 DEF Receive, Unread
  <2> QED BY <2>1 DEF NotedInv, AgentNoted, AgentOrNew, Now
<1>2. CASE Tick /\ Unread
  <2>1. /\ clock' # NULL /\ Now' \in Int /\ clock # NULL
        /\ Now \in Int /\ Now <= Now' /\ world' = world
        /\ roster' = roster /\ drift' = drift
    BY <1>2, TickIs DEF Unread
  <2>2. \A a \in Agents : AgentNoted(a)'
    BY <2>1, NotedLater DEF AgentOrNew
  <2> QED BY <1>0, <2>1, <2>2 DEF NotedInv
<1>3. CASE ReadSettle
  <2> DEFINE t == ClockAfter(inflight.ts)
  <2>1. Settle /\ Read(inflight, t)
    BY <1>3 DEF ReadSettle
  <2>2. /\ t \in Int /\ clock' # NULL /\ Now' = t
        /\ clock # NULL => Now \in Int /\ Now <= t
        /\ world \in WorldState /\ WorldSound(world)
        /\ inflight \in Event /\ inflight.entity # NULL
        /\ inflight.ts \in Int /\ world' = Apply(world, inflight)
    BY <2>1, SettleIs DEF Event
  <2> HIDE DEF t
  <2>3. \A a \in Agents \ {inflight.entity} :
          AgentOrNew(world, a)' = AgentOrNew(world, a)
    BY <2>2, ApplyElsewhere DEF AgentOrNew
  <2>4. CASE inflight.entity \in Agents
    <3>0. PICK e \in Event : e = inflight
      BY <2>2
    <3> DEFINE x == e.entity
    <3>1. /\ AgentNoted(x)' /\ roster'[x] \in SUBSET Queues
          /\ roster' = [roster EXCEPT ![x] = roster'[x]]
          /\ drift' = [drift EXCEPT ![x] = drift'[x]]
      BY <2>1, <2>2, <2>4, <3>0, NotedRead
    <3>2. \A a \in Agents \ {x} : roster'[a] = roster[a] /\ drift'[a] = drift[a]
      BY <1>0, <3>1
    <3>3. \A a \in Agents \ {x} : AgentNoted(a)'
      BY <2>2, <2>3, <3>0, <3>2, NotedLater
    <3>4. roster' \in [Agents -> SUBSET Queues] /\ DOMAIN drift' = Agents
      BY <1>0, <3>1
    <3> QED BY <3>1, <3>3, <3>4 DEF NotedInv
  <2>5. CASE inflight.entity \notin Agents
    <3>1. roster' = roster /\ drift' = drift
      BY <2>1, <2>5 DEF Read, Unread
    <3>2. \A a \in Agents : AgentNoted(a)'
      BY <2>2, <2>3, <2>5, <3>1, NotedLater
    <3> QED BY <1>0, <3>1, <3>2 DEF NotedInv
  <2> QED BY <2>4, <2>5
<1>4. CASE Raise /\ Unread
  <2>1. /\ clock' # NULL /\ Now' \in Int
        /\ clock # NULL => Now \in Int /\ Now <= Now'
        /\ world' = world /\ roster' = roster /\ drift' = drift
    BY <1>4, RaiseIs DEF Unread
  <2>2. \A a \in Agents : AgentNoted(a)'
    BY <2>1, NotedLater DEF AgentOrNew
  <2> QED BY <1>0, <2>1, <2>2 DEF NotedInv
<1>5. CASE UNCHANGED agentAuditVars
  BY <1>5 DEF agentAuditVars, vars, NotedInv, AgentNoted, AgentOrNew, Now
<1> QED
  BY <1>1, <1>2, <1>3, <1>4, <1>5 DEF AgentAuditNext

LEMMA NotesAreTrue == AgentAuditSpec => [](EvalInv /\ NotedInv)
<1>1. AgentAuditInit => NotedInv
  <2> SUFFICES ASSUME AgentAuditInit PROVE NotedInv
    OBVIOUS
  <2>1. /\ roster = [a \in Agents |-> {}] /\ drift = [a \in Agents |-> NULL]
        /\ world = NewWorld
    BY DEF AgentAuditInit, Init
  <2>2. \A a \in Agents : AgentOrNew(world, a) = NewAgentState
    BY <2>1 DEF AgentOrNew, NewWorld
  <2> QED BY <2>1, <2>2 DEF NotedInv, AgentNoted, NewAgentState
<1> QED
  BY <1>1, NotedStep, AgentAuditRefines, PTL DEF AgentAuditSpec

\* Who answers for an agent, and who else a rule can name for one.
OwnersOf(leads) == IF leads = {} THEN {HeadOfSupport} ELSE leads

NamedFor(x, specs) ==
  {x} \cup specs \cup IF "head_of_support" \in specs THEN {HeadOfSupport} ELSE {}

\* Who a notification of an agent's alert that names the team lead goes to.
LEMMA LeadsTold ==
  ASSUME NEW w, NEW x \in Agents, NEW specs, "team_lead" \in specs
  PROVE  LET owner == OwnersOf(LeadsOf(AgentOrNew(w, x).queue_ids))
         IN  /\ owner \subseteq Recipients(w, specs, x)
             /\ Recipients(w, specs, x) \subseteq owner \cup NamedFor(x, specs)
<1> DEFINE owner == OwnersOf(LeadsOf(AgentOrNew(w, x).queue_ids))
<1>1. TeamLead(w, x) = owner
  BY EntitiesApart DEF TeamLead, QueuesBehind, OwnersOf
<1> HIDE DEF owner
<1>2. ResolveOne(w, "team_lead", x) = owner
  BY <1>1 DEF ResolveOne
<1>3. ASSUME NEW s \in specs
      PROVE  ResolveOne(w, s, x) \subseteq owner \cup NamedFor(x, specs)
  BY <1>1 DEF ResolveOne, NamedFor
<1>4. /\ owner \subseteq Recipients(w, specs, x)
      /\ Recipients(w, specs, x) \subseteq owner \cup NamedFor(x, specs)
  BY <1>2, <1>3 DEF Recipients
<1> QED
  BY <1>4 DEF owner

\* What a pass delivers for one pair: nothing, or one notification more.
LEMMA SweepDelivers ==
  ASSUME IInv, NEW K, NEW w, NEW t, Sweep(K, w, t), NEW k \in Pairs,
         Len(log'[k]) > Len(log[k])
  PROVE  LET n     == log'[k][Len(log'[k])]
             specs == IF n.kind = "escalated" THEN Rules[k[1]].escalate_to
                                              ELSE Rules[k[1]].recipients
         IN  n.to = Recipients(w, specs, k[2])
<1> DEFINE obs  == Observe(w, Rules[k[1]], k[2], t)
           kind == Emits(Rules[k[1]], alert[k], obs, t)
<1>1. log[k] \in Seq(Notification)
  BY DEF IInv, TypeOK
<1>2. log'[k] = IF k \in K /\ kind # NULL THEN Deliver(log[k], k, kind, w, t)
                                          ELSE log[k]
  BY DEF Sweep
<1> HIDE DEF kind
<1>3. log'[k] = Deliver(log[k], k, kind, w, t)
  BY <1>1, <1>2
<1>4. PICK n : /\ log'[k] = Append(log[k], n)
               /\ n.kind = kind
               /\ n.to = Recipients(w, IF kind = "escalated"
                                       THEN Rules[k[1]].escalate_to
                                       ELSE Rules[k[1]].recipients, k[2])
  BY <1>3 DEF Deliver
<1>5. log'[k][Len(log'[k])] = n
  BY <1>1, <1>4
<1> QED
  BY <1>4, <1>5

\* The lead of the queues an agent was last reported to work is told, through
\* any number of events without queues and ticks in between.
THEOREM TheRightLeadIsTold == AgentAuditSpec => RightLeadIsTold
<1>1. ASSUME EvalInv, NEW K, NEW w, NEW t, Sweep(K, w, t), NEW k \in Pairs,
             k[2] \in Agents, Len(log'[k]) > Len(log[k]),
             roster'[k[2]] = AgentOrNew(w, k[2]).queue_ids
      PROVE  LET n     == log'[k][Len(log'[k])]
                 specs == IF n.kind = "escalated" THEN Rules[k[1]].escalate_to
                                                  ELSE Rules[k[1]].recipients
                 leads == LeadsOf(roster'[k[2]])
                 owner == IF leads = {} THEN {HeadOfSupport} ELSE leads
                 named == {k[2]} \cup specs \cup
                   IF "head_of_support" \in specs THEN {HeadOfSupport} ELSE {}
             IN  "team_lead" \in specs => /\ owner \subseteq n.to
                                          /\ n.to \subseteq owner \cup named
  <2> DEFINE n     == log'[k][Len(log'[k])]
             specs == IF n.kind = "escalated" THEN Rules[k[1]].escalate_to
                                              ELSE Rules[k[1]].recipients
  <2>1. n.to = Recipients(w, specs, k[2])
    BY <1>1, SweepDelivers DEF EvalInv
  <2> HIDE DEF n, specs
  <2>2. "team_lead" \in specs =>
          LET owner == OwnersOf(LeadsOf(roster'[k[2]]))
          IN  /\ owner \subseteq n.to
              /\ n.to \subseteq owner \cup NamedFor(k[2], specs)
    BY <1>1, <2>1, LeadsTold
  <2> QED BY <2>2 DEF n, specs, OwnersOf, NamedFor
<1>2. EvalInv /\ NotedInv /\ NotedInv' /\ [AgentAuditNext]_agentAuditVars =>
        [\A k \in Pairs :
           /\ k[2] \in Agents
           /\ Len(log'[k]) > Len(log[k])
           => LET n     == log'[k][Len(log'[k])]
                  specs == IF n.kind = "escalated" THEN Rules[k[1]].escalate_to
                                                   ELSE Rules[k[1]].recipients
                  leads == LeadsOf(roster'[k[2]])
                  owner == IF leads = {} THEN {HeadOfSupport} ELSE leads
                  named == {k[2]} \cup specs \cup
                    IF "head_of_support" \in specs THEN {HeadOfSupport} ELSE {}
              IN  "team_lead" \in specs => /\ owner \subseteq n.to
                                           /\ n.to \subseteq owner \cup named
        ]_agentAuditVars
  <2> SUFFICES ASSUME EvalInv, NotedInv', [AgentAuditNext]_agentAuditVars,
                      NEW k \in Pairs, k[2] \in Agents,
                      Len(log'[k]) > Len(log[k])
               PROVE  \E K, w, t : /\ Sweep(K, w, t)
                                  /\ roster'[k[2]] = AgentOrNew(w, k[2]).queue_ids
    BY <1>1
  <2>0. roster'[k[2]] = AgentOrNew(world', k[2]).queue_ids
    BY DEF NotedInv, AgentNoted, AgentOrNew
  <2>1. CASE log' = log
    <3>1. log[k] \in Seq(Notification)
      BY DEF EvalInv, IInv, TypeOK
    <3> QED BY <2>1, <3>1
  <2>2. CASE Tick
    BY <2>0, <2>2, TickIs
  <2>3. CASE Settle
    BY <2>0, <2>3, SettleIs
  <2> QED
    BY <2>1, <2>2, <2>3 DEF AgentAuditNext, ReadSettle, Receive, Raise,
                            agentAuditVars, vars
<1> QED
  BY <1>2, NotesAreTrue, PTL DEF AgentAuditSpec, RightLeadIsTold

\* A ratio is beyond n \div d at the latest when it is beyond the whole number,
\* and what is not below n is not below n \div d.
LEMMA WholePart ==
  ASSUME NEW n \in Int, NEW d \in Nat \ {0}, NEW m \in Int
  PROVE  /\ n \div d \in Int
         /\ m * d >= n => m >= n \div d
         /\ m > n \div d => m * d > n
<1> DEFINE q == n \div d
           r == n % d
<1>1. q \in Int /\ r \in Int /\ 0 <= r /\ r < d /\ n = d * q + r
  OBVIOUS
<1> HIDE DEF q, r
<1>2. q * d \in Int /\ d * q = q * d /\ m * d \in Int /\ (m + 1) * d = m * d + d
      /\ (q + 1) * d = q * d + d /\ d \in Int /\ d > 0
  BY <1>1
<1>3. m < q => (m + 1) * d <= q * d
  <2>1. m < q => m + 1 <= q /\ m + 1 \in Int
    BY <1>1
  <2> QED BY <1>1, <1>2, <2>1, Scaled
<1>4. m > q => (q + 1) * d <= m * d
  <2>1. m > q => q + 1 <= m /\ q + 1 \in Int
    BY <1>1
  <2> QED BY <1>1, <1>2, <2>1, Scaled
<1>5. m * d >= n => m >= q
  BY <1>1, <1>2, <1>3
<1>6. m > q => m * d > n
  BY <1>1, <1>2, <1>4
<1> QED
  BY <1>1, <1>5, <1>6 DEF q

\* What the rules that watch violations see: a violation at least as old as
\* the tolerance, and certainly one that is older.
LEMMA DriftSeen ==
  ASSUME NEW w \in WorldState, WorldSound(w), NEW k \in DriftPairs, NEW t \in Int
  PROVE  LET a == AgentOrNew(w, k[2])
         IN  /\ k \in Pairs /\ k[2] \in Agents /\ Tolerance(k) \in Int
             /\ Seen(w, k, t).active =>
                  a.in_violation /\ t - a.violation_started_at >= Tolerance(k)
             /\ a.in_violation /\ t - a.violation_started_at > Tolerance(k)
                  => Seen(w, k, t).active
<1> DEFINE conditions == Rules[k[1]].conditions
           c == conditions[1]
           a == AgentOrNew(w, k[2])
           n == c.threshold[1]
           d == c.threshold[2]
<1>1. /\ k \in Pairs /\ Len(conditions) = 1
      /\ c.metric = "adherence_violation_sec" /\ c.comparator \in {">", ">="}
      /\ n > 0
  BY DEF DriftPairs
<1>2. /\ conditions \in Seq(ConditionRecord) /\ 1 \in DOMAIN conditions
      /\ ValidCondition(c, Rules[k[1]].entity_type)
      /\ k[2] \in EntitiesOf(Rules[k[1]])
  BY <1>1, ConditionsTyped, RulesAdmitted, HasCondition DEF Pairs, ValidRule
<1>3. DOMAIN conditions = {1}
  BY <1>1, <1>2
<1>4. c.threshold \in Ratio
  BY <1>1, <1>2, Thresholds
<1>5. k[2] \in Agents /\ k[2] \notin Queues
  <2>1. c.metric \notin QUEUE_METRICS
    BY <1>1 DEF QUEUE_METRICS
  <2>2. Rules[k[1]].entity_type # "queue"
    BY <1>2, <2>1 DEF ValidCondition, MetricsOf
  <2> QED BY <1>2, <2>2, EntitiesApart DEF EntitiesOf
<1>6. n \in Int /\ d \in Nat \ {0} /\ Tolerance(k) = n \div d
  BY <1>4 DEF Ratio, Tolerance
<1>7. Seen(w, k, t).active <=> /\ Value(w, k, 1, t) # NULL
                               /\ Compare(Value(w, k, 1, t), c.comparator, c.threshold)
  BY <1>1, <1>3, SeenIs
<1>8. CASE w.agents[k[2]] = NULL
  <2>1. k[2] \notin KnownEntities(w)
    BY <1>5, <1>8 DEF KnownEntities
  <2>2. Value(w, k, 1, t) = NULL /\ ~a.in_violation
    BY <1>8, <2>1 DEF Value, ResolveMetric, AgentOrNew, NewAgentState
  <2> QED BY <1>1, <1>5, <1>6, <1>7, <2>2, WholePart
<1>9. CASE w.agents[k[2]] # NULL
  <2>1. Value(w, k, 1, t) = IF a.in_violation
                            THEN Whole(t - a.violation_started_at) ELSE Whole(0)
    BY <1>1, <1>5, <1>9 DEF Value, ResolveMetric, KnownEntities, AgentOrNew,
                            AgentMetric
  <2>2. /\ a.in_violation \in BOOLEAN
        /\ a.in_violation => a.violation_started_at \in Int
    BY <1>5, AgentTyped DEF AgentState
  <2> DEFINE m == t - a.violation_started_at
  <2>3. CASE ~a.in_violation
    <3>1. Value(w, k, 1, t) = <<0, 1>>
      BY <2>1, <2>3 DEF Whole
    <3>2. ~Compare(<<0, 1>>, c.comparator, c.threshold)
      <4> HIDE DEF c
      <4>1. 0 * c.threshold[2] = 0 /\ c.threshold[1] * 1 = c.threshold[1]
        BY <1>6
      <4> QED BY <1>1, <1>6, <4>1 DEF Compare
    <3> QED BY <1>1, <1>5, <1>6, <1>7, <2>3, <3>1, <3>2, WholePart
  <2>4. CASE a.in_violation
    <3>1. Value(w, k, 1, t) = <<m, 1>> /\ m \in Int /\ <<m, 1>> # NULL
      <4>1. m \in Int
        BY <2>2, <2>4
      <4>2. <<m, 1>> \in Ratio
        BY <4>1 DEF Ratio
      <4> QED BY <2>1, <2>4, <4>1, <4>2, NullIsNoNumber DEF Whole
    <3> HIDE DEF m, c, a
    <3>2. /\ Compare(<<m, 1>>, c.comparator, c.threshold) => m * d >= n
          /\ m * d > n => Compare(<<m, 1>>, c.comparator, c.threshold)
      <4>1. c.threshold[1] * 1 = n /\ m * d \in Int
        BY <1>6, <3>1
      <4> QED BY <1>1, <1>6, <4>1 DEF Compare
    <3>3. /\ n \div d \in Int
          /\ m * d >= n => m >= n \div d
          /\ m > n \div d => m * d > n
      BY <1>6, <3>1, WholePart
    <3> QED BY <1>1, <1>5, <1>6, <1>7, <2>4, <3>1, <3>2, <3>3 DEF m, a
  <2> QED BY <2>2, <2>3, <2>4
<1> QED
  BY <1>8, <1>9

\* The violation a reader knows of, as the rules see it.
LEMMA DriftKnown ==
  ASSUME NEW w \in WorldState, WorldSound(w), NEW k \in DriftPairs, NEW t \in Int,
         NEW d, LET a == AgentOrNew(w, k[2])
                IN  IF a.in_violation
                    THEN d \in Drift /\ d.start = a.violation_started_at
                    ELSE d = NULL
  PROVE  /\ Seen(w, k, t).active
              => d # NULL /\ d.start \in Int /\ t - d.start >= Tolerance(k)
         /\ d # NULL => /\ d.at \in Int /\ d.start \in Int
                        /\ k[2] \in KnownEntities(w)
                        /\ t - d.start > Tolerance(k) => Seen(w, k, t).active
<1> DEFINE a == AgentOrNew(w, k[2])
<1>1. /\ k[2] \in Agents /\ a.in_violation \in BOOLEAN
      /\ d \in Drift => d # NULL /\ d.at \in Int /\ d.start \in Int
  BY DriftSeen, AgentTyped, NullIsNoDrift DEF Drift, AgentState
<1>2. a.in_violation => k[2] \in KnownEntities(w)
  BY <1>1 DEF AgentOrNew, NewAgentState, KnownEntities
<1> QED
  BY <1>1, <1>2, DriftSeen

\* Adherence alerts are never wrong: whoever is reported is, by the reports, in
\* violation for at least the tolerance.
THEOREM DriftAlertsAreReal == AgentAuditSpec => DriftIsReal
<1>1. ASSUME EvalInv, NEW K, NEW w \in WorldState, WorldSound(w), NEW t \in Int,
             Sweep(K, w, t), NEW k \in DriftPairs, w = world', t = Now',
             NotedInv', alert[k].status # "FIRING", alert'[k].status = "FIRING"
      PROVE  /\ drift'[k[2]] # NULL
             /\ Now' - drift'[k[2]].start >= Tolerance(k)
  <2>1. k \in Pairs /\ k[2] \in Agents
    BY <1>1, DriftSeen
  <2>2. alert[k] \in AlertState
    BY <1>1, <2>1 DEF EvalInv, IInv, TypeOK
  <2>3. alert'[k] = Evaluate(Rules[k[1]], alert[k], Seen(w, k, t), t)
    BY <1>1, <2>1, SweepIs
  <2>4. Fires(Rules[k[1]], alert[k], Seen(w, k, t), t)
    BY <1>1, <2>2, <2>3, EvaluateTo
  <2>5. Seen(w, k, t).active
    BY <2>4 DEF Fires
  <2>6. LET a == AgentOrNew(w, k[2])
        IN  IF a.in_violation
            THEN drift'[k[2]] \in Drift /\ drift'[k[2]].start = a.violation_started_at
            ELSE drift'[k[2]] = NULL
    BY <1>1, <2>1 DEF NotedInv, AgentNoted, AgentOrNew
  <2> QED BY <1>1, <2>5, <2>6, DriftKnown
<1>2. EvalInv /\ NotedInv /\ NotedInv' /\ [AgentAuditNext]_agentAuditVars =>
        [\A k \in DriftPairs :
           /\ alert[k].status # "FIRING"
           /\ alert'[k].status = "FIRING"
           => /\ drift'[k[2]] # NULL
              /\ Now' - drift'[k[2]].start >= Tolerance(k)]_agentAuditVars
  <2> SUFFICES ASSUME EvalInv, NotedInv', [AgentAuditNext]_agentAuditVars,
                      NEW k \in DriftPairs,
                      alert[k].status # "FIRING", alert'[k].status = "FIRING"
               PROVE  /\ world' \in WorldState /\ WorldSound(world') /\ Now' \in Int
                      /\ \E K : Sweep(K, world', Now')
    BY <1>1
  <2>1. CASE alert' = alert
    BY <2>1
  <2>2. CASE Tick
    <3>1. /\ Sweep(TickPairs(world), world, NextTick) /\ world' = world
          /\ Now' = NextTick /\ NextTick \in Int
          /\ world \in WorldState /\ WorldSound(world)
      BY <2>2, TickIs
    <3>2. Sweep(TickPairs(world), world', Now')
      BY <3>1
    <3> QED BY <3>1, <3>2
  <2>3. CASE Settle
    <3>1. /\ Sweep(EventPairs(inflight), world', ClockAfter(inflight.ts))
          /\ Now' = ClockAfter(inflight.ts) /\ Now' \in Int
          /\ world' \in WorldState /\ WorldSound(world')
      BY <2>3, SettleIs
    <3>2. Sweep(EventPairs(inflight), world', Now')
      BY <3>1
    <3> QED BY <3>1, <3>2
  <2> QED
    BY <2>1, <2>2, <2>3 DEF AgentAuditNext, ReadSettle, Receive, Raise,
                            agentAuditVars, vars
<1> QED
  BY <1>2, NotesAreTrue, PTL DEF AgentAuditSpec, DriftIsReal

\* From when on a violation with these notes d is sure to be seen.
Onset(k, d) == IF d.at > d.start + Tolerance(k) THEN d.at
               ELSE d.start + Tolerance(k) + 1

\* An evaluation at u or later has seen it, and the alert is open, or pending
\* since less than a tick interval after the onset.
SeenBy(st, k, d, u) ==
  Onset(k, d) <= u =>
    /\ st.status # "OK"
    /\ st.status = "PENDING" => st.pending_since < Onset(k, d) + TickInterval

\* Some evaluation since the last tick, and since the notes, counts.
NoticedInv == \A k \in DriftPairs :
  Forgiving(Rules[k[1]]) /\ drift[k[2]] # NULL =>
    \E u \in Int : /\ lastTick <= u /\ u <= Now
                  /\ SeenBy(alert[k], k, drift[k[2]], u)

\* One evaluation: the first since the notes, or the next after that at u.
LEMMA NoticedKept ==
  ASSUME EvalInv, NEW K, NEW w \in WorldState, WorldSound(w), NEW t \in Int,
         Sweep(K, w, t), clock # NULL => Now \in Int /\ Now <= t,
         NEW k \in DriftPairs, k \in K, Forgiving(Rules[k[1]]),
         NEW d, d # NULL, LET a == AgentOrNew(w, k[2])
                          IN  IF a.in_violation
                              THEN /\ d \in Drift
                                   /\ d.start = a.violation_started_at
                              ELSE d = NULL,
         \/ d.at = t
         \/ \E u \in Int : SeenBy(alert[k], k, d, u) /\ t <= u + TickInterval
  PROVE  SeenBy(alert'[k], k, d, t)
<1> DEFINE st == alert[k]
           s  == alert'[k]
           obs == Seen(w, k, t)
           onset == Onset(k, d)
<1>1. /\ k \in Pairs /\ Tolerance(k) \in Int /\ d.at \in Int /\ d.start \in Int
      /\ t - d.start > Tolerance(k) => obs.active
  BY DriftSeen, DriftKnown
<1>2. onset \in Int /\ d.at <= onset /\ d.start + Tolerance(k) < onset
  BY <1>1 DEF Onset
<1>3. /\ st \in AlertState
      /\ st.status = "PENDING" => st.pending_since \in Int /\ st.pending_since <= t
  BY <1>1 DEF EvalInv, IInv, TypeOK, TimedInv, Timed
<1>4. s = Evaluate(Rules[k[1]], st, obs, t)
  BY <1>1, SweepIs
<1>5. TickInterval \in Int /\ TickInterval > 0
  BY TickIntervalPositive
<1>6. SUFFICES ASSUME onset <= t
               PROVE  /\ s.status # "OK"
                      /\ s.status = "PENDING"
                           => s.pending_since < onset + TickInterval
  BY DEF SeenBy, Onset
<1>7. obs.active
  BY <1>1, <1>2, <1>6
<1>8. obs.known /\ obs.still
  BY <1>1, <1>7, SeenIs, ActiveIsStill
<1>9. /\ s.status # "OK"
      /\ s.status = "PENDING" =>
           st.status # "FIRING" /\ s.pending_since = PendingSince(st, t)
  BY <1>3, <1>4, <1>7, <1>8, EvaluateTo
<1>10. CASE d.at = t
  <2>1. s.status = "PENDING" => PendingSince(st, t) <= t /\ PendingSince(st, t) \in Int
    BY <1>3, <1>9 DEF PendingSince, AlertState, Statuses
  <2> HIDE DEF s, st, onset
  <2> QED BY <1>2, <1>5, <1>9, <1>10, <2>1
<1>11. CASE \E u \in Int : SeenBy(alert[k], k, d, u) /\ t <= u + TickInterval
  <2>1. PICK u \in Int : SeenBy(alert[k], k, d, u) /\ t <= u + TickInterval
    BY <1>11
  <2>2. CASE onset <= u
    <3>1. /\ st.status # "OK"
          /\ st.status = "PENDING" => st.pending_since < onset + TickInterval
      BY <2>1, <2>2 DEF SeenBy
    <3>2. s.status = "PENDING" => /\ st.status = "PENDING"
                                  /\ s.pending_since = st.pending_since
      BY <1>3, <1>9, <3>1 DEF PendingSince, AlertState, Statuses
    <3> QED BY <1>9, <3>1, <3>2
  <2>3. CASE u < onset
    <3>1. s.status = "PENDING" => PendingSince(st, t) <= t /\ PendingSince(st, t) \in Int
      BY <1>3, <1>9 DEF PendingSince, AlertState, Statuses
    <3> HIDE DEF s, st, onset
    <3> QED BY <1>2, <1>5, <1>9, <2>1, <2>3, <3>1
  <2> QED BY <1>2, <2>1, <2>2, <2>3
<1> QED
  BY <1>10, <1>11

LEMMA NoticedStep ==
  /\ EvalInv /\ NotedInv /\ NoticedInv
  /\ NotedInv' /\ [AgentAuditNext]_agentAuditVars
  => NoticedInv'
<1> SUFFICES ASSUME EvalInv, NotedInv, NoticedInv, NotedInv',
                    [AgentAuditNext]_agentAuditVars
             PROVE  NoticedInv'
  OBVIOUS
<1>1. CASE \E e \in Events : Receive(e) /\ Unread
  BY <1>1 DEF Receive, Unread, NoticedInv, SeenBy, Now
<1>2. CASE Tick /\ Unread
  <2>1. /\ NextTick \in Int /\ clock' # NULL /\ Now' = NextTick
        /\ clock # NULL /\ Now \in Int /\ Now <= NextTick
        /\ world' = world /\ world \in WorldState /\ WorldSound(world)
        /\ lastTick' = NextTick /\ lastTick \in Int /\ drift' = drift
        /\ Sweep(TickPairs(world), world, NextTick)
    BY <1>2, TickIs DEF Unread
  <2> SUFFICES ASSUME NEW k \in DriftPairs, Forgiving(Rules[k[1]]),
                      drift[k[2]] # NULL
               PROVE  SeenBy(alert'[k], k, drift[k[2]], NextTick)
    BY <2>1 DEF NoticedInv
  <2>2. PICK t \in Int : t = NextTick
    BY <2>1
  <2> DEFINE d == drift[k[2]]
  <2>3. LET a == AgentOrNew(world, k[2])
        IN  IF a.in_violation THEN d \in Drift /\ d.start = a.violation_started_at
                              ELSE d = NULL
    BY <2>1, <2>2, DriftSeen DEF NotedInv, AgentNoted
  <2>4. k \in TickPairs(world)
    BY <2>1, <2>2, <2>3, DriftKnown, DriftSeen DEF TickPairs
  <2>5. PICK u \in Int : lastTick <= u /\ SeenBy(alert[k], k, d, u)
    BY <2>2 DEF NoticedInv
  <2>6. t <= u + TickInterval
    BY <2>1, <2>2, <2>5, TickIntervalPositive DEF NextTick
  <2> HIDE DEF d
  <2>7. SeenBy(alert'[k], k, d, t)
    BY <2>1, <2>2, <2>3, <2>4, <2>5, <2>6, NoticedKept DEF d
  <2> QED BY <2>2, <2>7 DEF d
<1>3. CASE ReadSettle
  <2>1. Settle /\ Read(inflight, ClockAfter(inflight.ts))
    BY <1>3 DEF ReadSettle
  <2>2. PICK t \in Int, e \in Event : t = ClockAfter(inflight.ts) /\ e = inflight
    BY <2>1, SettleIs
  <2>3. /\ clock' # NULL /\ Now' = t
        /\ clock # NULL => /\ Now \in Int /\ Now <= t
                           /\ lastTick \in Int /\ lastTick' = lastTick
                           /\ t < lastTick + TickInterval
        /\ lastTick' \in Int /\ lastTick' <= t
        /\ world \in WorldState /\ WorldSound(world)
        /\ world' \in WorldState /\ WorldSound(world')
        /\ e.entity # NULL /\ e.ts \in Int /\ world' = Apply(world, e)
        /\ Sweep(EventPairs(e), world', t)
    BY <2>1, <2>2, SettleIs DEF Event
  <2> SUFFICES ASSUME NEW k \in DriftPairs, Forgiving(Rules[k[1]]),
                      drift'[k[2]] # NULL
               PROVE  \E u \in Int : /\ lastTick' <= u /\ u <= t
                                    /\ SeenBy(alert'[k], k, drift'[k[2]], u)
    BY <2>3 DEF NoticedInv
  <2>4. k \in Pairs /\ k[2] \in Agents
    BY <2>3, DriftSeen
  <2>5. ASSUME drift'[k[2]] = drift[k[2]]
        PROVE  /\ clock # NULL
               /\ \E u \in Int : /\ lastTick <= u /\ u <= Now
                                /\ SeenBy(alert[k], k, drift'[k[2]], u)
    <3>1. clock # NULL
      BY <2>4, <2>5 DEF NotedInv, AgentNoted
    <3> QED BY <2>5, <3>1 DEF NoticedInv
  <2>6. CASE k[2] = e.entity
    <3>1. PICK d : d = drift'[k[2]]
      OBVIOUS
    <3>2. LET a == AgentOrNew(world', k[2])
          IN  IF a.in_violation THEN d \in Drift /\ d.start = a.violation_started_at
                                ELSE d = NULL
      BY <2>4, <3>1 DEF NotedInv, AgentNoted, AgentOrNew
    <3>3. drift'[e.entity] \in {drift[e.entity], NULL} \/ drift'[e.entity].at = t
      BY <2>1, <2>2, <2>3, <2>4, <2>6, NotedRead
    <3>4. \/ d.at = t
          \/ \E u \in Int : SeenBy(alert[k], k, d, u) /\ t <= u + TickInterval
      <4>1. CASE d.at = t
        BY <4>1
      <4>2. CASE drift'[k[2]] = drift[k[2]]
        <5>1. PICK u \in Int : lastTick <= u /\ SeenBy(alert[k], k, d, u)
          BY <2>5, <3>1, <4>2
        <5>2. t <= u + TickInterval
          BY <2>3, <2>5, <4>2, <5>1, TickIntervalPositive
        <5> QED BY <5>1, <5>2
      <4> QED BY <2>6, <3>1, <3>3, <4>1, <4>2
    <3>5. k \in EventPairs(e)
      BY <2>4, <2>6 DEF EventPairs
    <3>6. PICK w \in WorldState : w = world'
      BY <2>3
    <3>7. SeenBy(alert'[k], k, d, t)
      BY <2>3, <3>1, <3>2, <3>4, <3>5, <3>6, NoticedKept
    <3> QED BY <2>3, <3>1, <3>7
  <2>7. CASE k[2] # e.entity
    <3>1. alert'[k] = alert[k]
      BY <2>3, <2>4, <2>7, SweepIs DEF EventPairs
    <3>2. drift'[k[2]] = drift[k[2]]
      BY <2>1, <2>2, <2>4, <2>7 DEF Read, Unread, NotedInv
    <3>3. PICK u \in Int : /\ lastTick <= u /\ u <= Now
                           /\ SeenBy(alert[k], k, drift'[k[2]], u)
      BY <2>5, <3>2
    <3>4. lastTick' <= u /\ u <= t
      BY <2>3, <2>5, <3>2, <3>3
    <3> QED BY <3>1, <3>3, <3>4
  <2> QED BY <2>6, <2>7
<1>4. CASE Raise /\ Unread
  <2>1. /\ Now' \in Int /\ alert' = alert /\ drift' = drift
        /\ clock # NULL => Now \in Int /\ Now <= Now' /\ lastTick' = lastTick
        /\ world \in WorldState /\ WorldSound(world)
    BY <1>4, RaiseIs DEF Unread
  <2> SUFFICES ASSUME NEW k \in DriftPairs, Forgiving(Rules[k[1]]),
                      drift[k[2]] # NULL
               PROVE  \E u \in Int : /\ lastTick' <= u /\ u <= Now'
                                    /\ SeenBy(alert[k], k, drift[k[2]], u)
    BY <2>1 DEF NoticedInv
  <2>2. PICK u \in Int : /\ lastTick <= u /\ u <= Now
                         /\ SeenBy(alert[k], k, drift[k[2]], u)
    BY DEF NoticedInv
  <2>3. clock # NULL
    <3>1. k[2] \in Agents
      BY <2>1, DriftSeen
    <3> QED BY <3>1 DEF NotedInv, AgentNoted
  <2> QED BY <2>1, <2>2, <2>3
<1>5. CASE UNCHANGED agentAuditVars
  BY <1>5 DEF agentAuditVars, vars, NoticedInv, Now
<1> QED
  BY <1>1, <1>2, <1>3, <1>4, <1>5 DEF AgentAuditNext

\* A violation that goes on alerts: whatever reports and ticks interleave, the
\* alert is open once the violation has outlived the tolerance, sustained_for
\* and two tick intervals.
THEOREM DriftGetsNoticed == AgentAuditSpec => []DriftIsNoticed
<1>1. AgentAuditInit => NoticedInv
  <2> SUFFICES ASSUME AgentAuditInit, NEW k \in DriftPairs PROVE drift[k[2]] = NULL
    BY DEF NoticedInv
  <2>1. /\ drift = [a \in Agents |-> NULL] /\ NewWorld \in WorldState
        /\ WorldSound(NewWorld)
    BY DEF AgentAuditInit, NewWorld, WorldState, WorldSound, OrNull
  <2>2. k[2] \in Agents
    <3>1. \A t \in Int : k[2] \in Agents
      BY <2>1, DriftSeen
    <3> QED BY <3>1
  <2> QED BY <2>1, <2>2
<1>2. EvalInv /\ NotedInv /\ NoticedInv => DriftIsNoticed
  <2> SUFFICES ASSUME EvalInv, NotedInv, NoticedInv, inflight = NULL, clock # NULL,
                      NEW k \in DriftPairs, Forgiving(Rules[k[1]]),
                      drift[k[2]] # NULL,
                      clock - drift[k[2]].at
                        >= Rules[k[1]].sustained_for_sec + 2 * TickInterval,
                      clock - (drift[k[2]].start + Tolerance(k))
                        >= Rules[k[1]].sustained_for_sec + 2 * TickInterval,
                      alert[k].status # "FIRING"
               PROVE  FALSE
    BY DEF DriftIsNoticed
  <2> DEFINE d == drift[k[2]]
             onset == Onset(k, d)
             sustained == Rules[k[1]].sustained_for_sec
             since == alert[k].pending_since
  <2>1. /\ clock \in Int /\ lastTick \in Int /\ lastTick <= clock
        /\ clock < lastTick + TickInterval /\ Now = clock
        /\ world \in WorldState /\ WorldSound(world)
    BY DEF EvalInv, IInv, ClockInv, TypeOK, OrNull, Now, NextTick, FreshInv
  <2>2. k \in Pairs /\ k[2] \in Agents /\ Tolerance(k) \in Int
    BY <2>1, DriftSeen
  <2>3. LET a == AgentOrNew(world, k[2])
        IN  IF a.in_violation THEN d \in Drift /\ d.start = a.violation_started_at
                              ELSE d = NULL
    BY <2>2 DEF NotedInv, AgentNoted
  <2>4. /\ d.at \in Int /\ d.start \in Int
        /\ clock - d.start > Tolerance(k) => Seen(world, k, clock).active
    BY <2>1, <2>3, DriftKnown
  <2>5. sustained \in Nat /\ TickInterval \in Nat /\ TickInterval > 0
    BY <2>2, RulesAdmitted, TickIntervalPositive
       DEF Pairs, ValidRule, NoiseControlsOK
  <2>6. /\ clock - d.at >= sustained + 2 * TickInterval
        /\ clock - (d.start + Tolerance(k)) >= sustained + 2 * TickInterval
    OBVIOUS
  <2>7. PICK u \in Int : lastTick <= u /\ SeenBy(alert[k], k, d, u)
    BY DEF NoticedInv
  <2> HIDE DEF d, sustained
  <2>8. /\ onset \in Int
        /\ clock - onset >= sustained + 2 * TickInterval - 1
        /\ clock - d.start > Tolerance(k)
    BY <2>1, <2>2, <2>4, <2>5, <2>6 DEF Onset
  <2> HIDE DEF onset
  <2>9. onset <= u
    BY <2>1, <2>5, <2>7, <2>8
  <2>10. /\ alert[k].status # "OK"
         /\ alert[k].status = "PENDING" => since < onset + TickInterval
    BY <2>7, <2>9 DEF SeenBy, onset
  <2>11. Seen(world, k, clock).known
    BY <2>2, <2>4, <2>8, SeenIs
  <2>12. /\ alert[k] \in AlertState /\ Timed(alert[k], clock)
         /\ \E t \in Int : /\ t <= clock /\ clock - TickInterval < t
                           /\ JudgedAt(k, t)
    BY <2>2, <2>10, <2>11, Recently
  <2>13. alert[k].status = "PENDING" /\ since \in Int
    BY <2>10, <2>12 DEF AlertState, Statuses, Timed
  <2>14. PICK t \in Int : clock - TickInterval < t /\ t - since < sustained
    BY <2>12, <2>13 DEF JudgedAt, Judged, sustained
  <2> HIDE DEF since
  <2>15. since < onset + TickInterval
    BY <2>10, <2>13
  <2> QED BY <2>1, <2>5, <2>8, <2>13, <2>14, <2>15
<1> QED
  BY <1>1, <1>2, NoticedStep, NotesAreTrue, PTL DEF AgentAuditSpec
=============================================================================
