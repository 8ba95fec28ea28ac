----------------------------- MODULE WorldProofs -----------------------------
(***************************************************************************)
(* What the alerts of Engine have to do with the data, for every set of    *)
(* rules, entities and events and every tick interval: nothing is judged   *)
(* by data from the future, and between two calls no alert and no timer    *)
(* lags behind what the world shows.                                       *)
(*                                                                         *)
(* The argument: a metric is constant in time or grows with it (LEMMA      *)
(* MetricInTime), events touch one entity (ApplyElsewhere), and every pair *)
(* whose data is known was evaluated, against the world as it still is, at *)
(* some time since the last tick (SweptInv).                               *)
(***************************************************************************)
EXTENDS EngineProofs

-----------------------------------------------------------------------------
(* The world. *)

\* A known agent was seen at some time, and a violation has a start: the case
\* AgentMetric leaves out does not occur.
WorldSound(w) ==
  \A a \in Agents : w.agents[a] # NULL =>
    /\ w.agents[a].last_ts \in Int
    /\ w.agents[a].in_violation => w.agents[a].violation_started_at \in Int

\* An event touches the record of its entity and no other.
LEMMA ApplyElsewhere ==
  ASSUME NEW w \in WorldState, NEW e \in Event, e.entity # NULL
  PROVE  /\ \A q \in Queues \ {e.entity} : Apply(w, e).queues[q] = w.queues[q]
         /\ \A a \in Agents \ {e.entity} : Apply(w, e).agents[a] = w.agents[a]
<1>1. CASE e.type = "queue_snapshot"
  BY <1>1 DEF Apply, ApplySnapshot, Event, WorldState, OrNull
<1>2. CASE e.type = "agent_state_change"
  BY <1>2 DEF Apply, ApplyStateChange, Event, WorldState, OrNull
<1>3. CASE e.type = "adherence_check"
  BY <1>3 DEF Apply, ApplyAdherence, Event, WorldState, OrNull
<1> QED
  BY <1>1, <1>2, <1>3 DEF Event

\* What an event leaves of its entity: seen at the event's time, in a state no
\* younger than that, and with a start if there is a violation.
LEMMA ApplyHere ==
  ASSUME NEW w \in WorldState, WorldSound(w), NEW e \in Event, e.entity # NULL
  PROVE  /\ e.entity \in Queues => Apply(w, e).queues[e.entity].last_ts = e.ts
         /\ e.entity \in Agents
              => LET was == AgentOrNew(w, e.entity)
                     a   == Apply(w, e).agents[e.entity]
                 IN  /\ a.last_ts = e.ts
                     /\ a.state_since \in {was.state_since, e.ts}
                     /\ a.in_violation => a.violation_started_at \in Int
<1>1. CASE e.type = "queue_snapshot"
  <2>1. e.entity \in Queues /\ e.entity \notin Agents
    BY <1>1, EntitiesApart DEF Event, OrNull
  <2> QED BY <1>1, <2>1 DEF Apply, ApplySnapshot, WorldState
<1>2. CASE e.type = "agent_state_change"
  <2>1. e.entity \in Agents /\ e.entity \notin Queues
    BY <1>2, EntitiesApart DEF Event, OrNull
  <2>2. AgentOrNew(w, e.entity) \in AgentState
    BY <2>1 DEF AgentOrNew, NewAgentState, AgentState, WorldState, OrNull
  <2>3. AgentOrNew(w, e.entity).in_violation
          => AgentOrNew(w, e.entity).violation_started_at \in Int
    BY <2>1 DEF AgentOrNew, NewAgentState, WorldSound
  <2> QED BY <1>2, <2>1, <2>2, <2>3
             DEF Apply, ApplyStateChange, WorldState, AgentState
<1>3. CASE e.type = "adherence_check"
  <2>1. e.entity \in Agents /\ e.entity \notin Queues
    BY <1>3, EntitiesApart DEF Event, OrNull
  <2>2. AgentOrNew(w, e.entity) \in AgentState
    BY <2>1 DEF AgentOrNew, NewAgentState, AgentState, WorldState, OrNull
  <2>3. AgentOrNew(w, e.entity).in_violation
          => AgentOrNew(w, e.entity).violation_started_at \in Int
    BY <2>1 DEF AgentOrNew, NewAgentState, WorldSound
  <2>4. StartedAt(AgentOrNew(w, e.entity), e) \in Int
    BY <1>3, <2>3 DEF StartedAt, Event, OrNull
  <2> QED BY <1>3, <2>1, <2>2, <2>4
             DEF Apply, ApplyAdherence, WorldState, AgentState
<1> QED
  BY <1>1, <1>2, <1>3 DEF Event

-----------------------------------------------------------------------------
(* Metrics in time. *)

\* Between two events a metric of a pair stays as it is, or is the age of
\* something: it grows by one every second.
LEMMA MetricInTime ==
  ASSUME NEW w \in WorldState, WorldSound(w), NEW k \in Pairs,
         NEW i \in DOMAIN Rules[k[1]].conditions
  PROVE  LET c        == Rules[k[1]].conditions[i]
             value(t) == ResolveMetric(w, c, k[2], t)
         IN  \/ \E v \in Ratio \cup {NULL} : \A t \in Int : value(t) = v
             \/ /\ c.metric \in AGENT_METRICS
                /\ \E s \in Int : \A t \in Int : value(t) = <<t - s, 1>>
<1> DEFINE c == Rules[k[1]].conditions[i]
           value(t) == ResolveMetric(w, c, k[2], t)
<1>1. /\ ValidCondition(c, Rules[k[1]].entity_type)
      /\ k[2] \in EntitiesOf(Rules[k[1]])
  BY RulesAdmitted DEF Pairs, ValidRule
<1> HIDE DEF c
<1>2. CASE k[2] \notin KnownEntities(w)
  BY <1>2 DEF ResolveMetric
<1>3. CASE k[2] \in KnownEntities(w) /\ k[2] \in Queues
  <2>1. c.metric \in QUEUE_METRICS
    BY <1>1, <1>3, EntitiesApart DEF EntitiesOf, ValidCondition, MetricsOf
  <2>2. w.queues[k[2]] \in QueueState
    BY <1>3, EntitiesApart DEF KnownEntities, WorldState, OrNull
  <2> DEFINE s == w.queues[k[2]].snap
  <2>3. \A f \in SnapshotFields : s[f] \in Int \cup {NULL}
    BY <2>2 DEF QueueState, OrNull
  <2>4. /\ s.longest_wait_sec \in Int \cup {NULL}
        /\ s.sla_target_sec \in Int \cup {NULL}
        /\ s.volume_last_15m \in Int \cup {NULL}
        /\ s.volume_forecast_next_15m \in Int \cup {NULL}
    BY <2>2 DEF QueueState, SnapshotFields, OrNull
  <2>5. ASSUME NEW n \in Int \cup {NULL}, NEW d \in Int \cup {NULL}
        PROVE  Quotient(n, d) \in Ratio \cup {NULL}
    <3>1. CASE n = NULL \/ d \in {NULL, 0}
      BY <3>1 DEF Quotient
    <3>2. CASE ~(n = NULL \/ d \in {NULL, 0})
      <4>1. n \in Int /\ d \in Int /\ d # 0
        BY <3>2
      <4>2. Quotient(n, d) = IF d > 0 THEN <<n, d>> ELSE <<-n, -d>>
        BY <3>2 DEF Quotient
      <4> QED BY <4>1, <4>2 DEF Ratio
    <3> QED BY <3>1, <3>2
  <2> HIDE DEF s
  <2>6. QueueMetric(c.metric, s) \in Ratio \cup {NULL}
    <3>1. CASE c.metric \in {"sla_utilization", "volume_vs_forecast"}
      BY <2>4, <2>5, <3>1 DEF QueueMetric
    <3>2. CASE c.metric \in {"tickets_waiting", "longest_wait_sec",
                             "agents_available"}
      <4>1. /\ QueueMetric(c.metric, s) = IF s[c.metric] = NULL THEN NULL
                                          ELSE Whole(s[c.metric])
            /\ c.metric \in SnapshotFields
        BY <3>2 DEF QueueMetric, SnapshotFields
      <4>2. \A n \in Int : Whole(n) \in Ratio
        BY DEF Whole, Ratio
      <4> QED BY <2>3, <4>1, <4>2
    <3> QED BY <2>1, <3>1, <3>2 DEF QUEUE_METRICS
  <2>7. \A t \in Int : value(t) = QueueMetric(c.metric, s)
    BY <1>3 DEF ResolveMetric, s
  <2> QED BY <2>6, <2>7 DEF c
<1>4. CASE k[2] \in KnownEntities(w) /\ k[2] \notin Queues
  <2>1. k[2] \in Agents /\ c.metric \in AGENT_METRICS
    BY <1>1, <1>4 DEF EntitiesOf, ValidCondition, MetricsOf, KnownEntities
  <2> DEFINE a == w.agents[k[2]]
  <2>2. a \in AgentState /\ (a.in_violation => a.violation_started_at \in Int)
    BY <1>4, <2>1 DEF KnownEntities, WorldState, OrNull, WorldSound
  <2>3. /\ a.state_since \in Int \cup {NULL} /\ a.in_violation \in BOOLEAN
    BY <2>2 DEF AgentState, OrNull
  <2> HIDE DEF a
  <2>4. \A t \in Int : value(t) = AgentMetric(c, a, t)
    BY <1>4 DEF ResolveMetric, a
  <2>5. Whole(0) \in Ratio
    BY DEF Whole, Ratio
  <2>6. CASE c.metric = "state_duration_sec"
    <3>1. CASE a.current_state = c.state_filter /\ a.state_since # NULL
      <4>1. a.state_since \in Int
            /\ \A t \in Int : value(t) = <<t - a.state_since, 1>>
        BY <2>3, <2>4, <2>6, <3>1 DEF AgentMetric, Whole
      <4> QED BY <2>1, <4>1 DEF c
    <3>2. CASE ~(a.current_state = c.state_filter /\ a.state_since # NULL)
      <4>1. \A t \in Int : value(t) = Whole(0)
        BY <2>4, <2>6, <3>2 DEF AgentMetric
      <4> QED BY <2>5, <4>1 DEF c
    <3> QED BY <3>1, <3>2
  <2>7. CASE c.metric = "adherence_violation_sec"
    <3>1. CASE a.in_violation
      <4>1. a.violation_started_at \in Int
            /\ \A t \in Int : value(t) = <<t - a.violation_started_at, 1>>
        BY <2>2, <2>4, <2>7, <3>1 DEF AgentMetric, Whole
      <4> QED BY <2>1, <4>1 DEF c
    <3>2. CASE ~a.in_violation
      <4>1. \A t \in Int : value(t) = Whole(0)
        BY <2>4, <2>7, <3>2 DEF AgentMetric
      <4> QED BY <2>5, <4>1 DEF c
    <3> QED BY <3>1, <3>2
  <2> QED BY <2>1, <2>6, <2>7 DEF AGENT_METRICS
<1> QED
  BY <1>2, <1>3, <1>4

-----------------------------------------------------------------------------
(* Comparisons. *)

\* Multiplying by a positive number keeps the order, both ways.
LEMMA Scaled ==
  ASSUME NEW a \in Int, NEW b \in Int, NEW c \in Int, c > 0
  PROVE  /\ a * c \in Int /\ b * c \in Int
         /\ a <= b <=> a * c <= b * c
         /\ a < b <=> a * c < b * c
  OBVIOUS

\* A ratio beyond a second one is beyond every one that lies behind that.
LEMMA RatiosOrdered ==
  ASSUME NEW n \in Int, NEW d \in Int, d > 0, NEW p \in Int, NEW q \in Int, q > 0,
         NEW r \in Int, NEW s \in Int, s > 0
  PROVE  /\ n * q >= p * d /\ r * q <= p * s => n * s >= r * d
         /\ n * q > p * d /\ r * q <= p * s => n * s > r * d
         /\ n * q <= p * d /\ r * q >= p * s => n * s <= r * d
         /\ n * q < p * d /\ r * q >= p * s => n * s < r * d
<1>1. /\ n * q \in Int /\ p * d \in Int /\ r * q \in Int /\ p * s \in Int
      /\ n * s \in Int /\ r * d \in Int
  OBVIOUS
<1>2. /\ (n * q) * s = (n * s) * q /\ (p * d) * s = (p * s) * d
      /\ (r * q) * d = (r * d) * q
  OBVIOUS
<1>3. /\ n * q >= p * d => (n * q) * s >= (p * d) * s
      /\ n * q > p * d => (n * q) * s > (p * d) * s
      /\ n * q <= p * d => (n * q) * s <= (p * d) * s
      /\ n * q < p * d => (n * q) * s < (p * d) * s
  BY <1>1, Scaled
<1>4. /\ r * q <= p * s => (r * q) * d <= (p * s) * d
      /\ r * q >= p * s => (r * q) * d >= (p * s) * d
  BY <1>1, Scaled
<1>5. /\ (n * s) * q >= (r * d) * q => n * s >= r * d
      /\ (n * s) * q > (r * d) * q => n * s > r * d
      /\ (n * s) * q <= (r * d) * q => n * s <= r * d
      /\ (n * s) * q < (r * d) * q => n * s < r * d
  BY <1>1, Scaled
<1> DEFINE A == (n * s) * q
           B == (p * s) * d
           C == (r * d) * q
<1>6. A \in Int /\ B \in Int /\ C \in Int
  BY <1>1
<1>7. /\ n * q >= p * d /\ r * q <= p * s => A >= B /\ B >= C
      /\ n * q > p * d /\ r * q <= p * s => A > B /\ B >= C
      /\ n * q <= p * d /\ r * q >= p * s => A <= B /\ B <= C
      /\ n * q < p * d /\ r * q >= p * s => A < B /\ B <= C
  BY <1>2, <1>3, <1>4
<1>8. /\ A >= C => n * s >= r * d
      /\ A > C => n * s > r * d
      /\ A <= C => n * s <= r * d
      /\ A < C => n * s < r * d
  BY <1>5
<1> HIDE DEF A, B, C
<1> QED
  BY <1>6, <1>7, <1>8

\* What a condition compares with: two ratios.
LEMMA Thresholds ==
  ASSUME NEW k \in Pairs, NEW i \in DOMAIN Rules[k[1]].conditions
  PROVE  LET c == Rules[k[1]].conditions[i]
         IN  c.threshold \in Ratio /\ ClearThreshold(c) \in Ratio
<1>1. Rules[k[1]].conditions[i] \in ConditionRecord
  BY ConditionsTyped DEF Pairs
<1> QED
  BY <1>1 DEF ConditionRecord, ClearThreshold

\* Of a forgiving rule, what meets a threshold meets the clear threshold.
LEMMA MetIsNotClear ==
  ASSUME NEW k \in Pairs, Forgiving(Rules[k[1]]),
         NEW i \in DOMAIN Rules[k[1]].conditions, NEW v \in Ratio
  PROVE  LET c == Rules[k[1]].conditions[i]
         IN  Compare(v, c.comparator, c.threshold)
               => Compare(v, c.comparator, ClearThreshold(c))
<1> DEFINE c == Rules[k[1]].conditions[i]
           clear == ClearThreshold(c)
<1>1. c.threshold \in Ratio /\ clear \in Ratio
  BY Thresholds
<1>2. \/ clear = c.threshold
      \/ /\ c.comparator \in {">", ">="}
         /\ clear[1] * c.threshold[2] <= c.threshold[1] * clear[2]
      \/ /\ c.comparator \in {"<", "<="}
         /\ clear[1] * c.threshold[2] >= c.threshold[1] * clear[2]
  BY DEF Forgiving
<1> HIDE DEF c, clear
<1>3. CASE clear = c.threshold
  BY <1>3 DEF c, clear
<1>4. CASE clear # c.threshold
  <2>1. /\ v[1] \in Int /\ v[2] \in Int /\ v[2] > 0
        /\ clear[1] \in Int /\ clear[2] \in Int /\ clear[2] > 0
        /\ c.threshold[1] \in Int /\ c.threshold[2] \in Int /\ c.threshold[2] > 0
    BY <1>1 DEF Ratio
  <2> DEFINE L == v[1] * c.threshold[2]
             R == c.threshold[1] * v[2]
             P == v[1] * clear[2]
             Q == clear[1] * v[2]
  <2>2. /\ clear[1] * c.threshold[2] <= c.threshold[1] * clear[2]
             => (L >= R => P >= Q) /\ (L > R => P > Q)
        /\ clear[1] * c.threshold[2] >= c.threshold[1] * clear[2]
             => (L <= R => P <= Q) /\ (L < R => P < Q)
    <3> DEFINE n == v[1]
               d == v[2]
               p == c.threshold[1]
               q == c.threshold[2]
               r == clear[1]
               s == clear[2]
    <3>1. /\ n \in Int /\ d \in Int /\ d > 0 /\ p \in Int /\ q \in Int /\ q > 0
          /\ r \in Int /\ s \in Int /\ s > 0
      BY <2>1
    <3> HIDE DEF n, d, p, q, r, s
    <3>2. /\ r * q <= p * s => /\ n * q >= p * d => n * s >= r * d
                               /\ n * q > p * d => n * s > r * d
          /\ r * q >= p * s => /\ n * q <= p * d => n * s <= r * d
                               /\ n * q < p * d => n * s < r * d
      BY <3>1, RatiosOrdered
    <3> QED BY <3>2 DEF n, d, p, q, r, s
  <2>3. /\ Compare(v, c.comparator, c.threshold)
             <=> \/ c.comparator = ">"  /\ L > R
                 \/ c.comparator = ">=" /\ L >= R
                 \/ c.comparator = "<"  /\ L < R
                 \/ c.comparator = "<=" /\ L <= R
                 \/ c.comparator = "==" /\ L = R
        /\ Compare(v, c.comparator, clear)
             <=> \/ c.comparator = ">"  /\ P > Q
                 \/ c.comparator = ">=" /\ P >= Q
                 \/ c.comparator = "<"  /\ P < Q
                 \/ c.comparator = "<=" /\ P <= Q
                 \/ c.comparator = "==" /\ P = Q
    BY DEF Compare
  <2> HIDE DEF L, R, P, Q
  <2>4. Compare(v, c.comparator, c.threshold) => Compare(v, c.comparator, clear)
    BY <1>2, <1>4, <2>2, <2>3
  <2> QED BY <2>4 DEF c, clear
<1> QED
  BY <1>3, <1>4

\* A condition on an age: once it is over a line it stays, and what holds of a
\* younger and of an older one holds in between.
LEMMA AgesCompared ==
  ASSUME NEW x \in Int, NEW y \in Int, x <= y, NEW line \in Ratio
  PROVE  /\ \A op \in {">", ">="} :
              Compare(<<x, 1>>, op, line) => Compare(<<y, 1>>, op, line)
         /\ \A z \in Int, op \in VALID_COMPARATORS :
              /\ y <= z
              /\ Compare(<<x, 1>>, op, line) /\ Compare(<<z, 1>>, op, line)
              => Compare(<<y, 1>>, op, line)
<1> DEFINE n == line[1]
           d == line[2]
<1>1. n \in Int /\ d \in Int /\ d > 0
  BY DEF Ratio
<1> HIDE DEF n, d
<1>2. \A u \in Int : u * d \in Int
  BY <1>1
<1>3. \A u \in Int, op \in VALID_COMPARATORS :
        Compare(<<u, 1>>, op, line)
          <=> \/ op = ">"  /\ u * d > n
              \/ op = ">=" /\ u * d >= n
              \/ op = "<"  /\ u * d < n
              \/ op = "<=" /\ u * d <= n
              \/ op = "==" /\ u * d = n
  BY <1>1 DEF Compare, VALID_COMPARATORS, n, d
<1>4. x * d <= y * d
  BY <1>1, Scaled
<1>5. \A z \in Int : y <= z => y * d <= z * d
  BY <1>1, Scaled
<1> QED
  BY <1>1, <1>2, <1>3, <1>4, <1>5 DEF VALID_COMPARATORS

-----------------------------------------------------------------------------
(* What an evaluation sees, over time and across events. *)

Value(w, k, i, t) == ResolveMetric(w, Rules[k[1]].conditions[i], k[2], t)

Seen(w, k, t) == Observe(w, Rules[k[1]], k[2], t)

\* Observe, unfolded.
LEMMA SeenIs ==
  ASSUME NEW w, NEW k \in Pairs, NEW t
  PROVE  LET conditions == Rules[k[1]].conditions
         IN  /\ Seen(w, k, t).known \in BOOLEAN
             /\ Seen(w, k, t).known
                  <=> \A i \in DOMAIN conditions : Value(w, k, i, t) # NULL
             /\ Seen(w, k, t).active
                  <=> /\ Seen(w, k, t).known
                      /\ \A i \in DOMAIN conditions :
                           Compare(Value(w, k, i, t), conditions[i].comparator,
                                   conditions[i].threshold)
             /\ Seen(w, k, t).still
                  <=> /\ Seen(w, k, t).known
                      /\ \A i \in DOMAIN conditions :
                           Compare(Value(w, k, i, t), conditions[i].comparator,
                                   ClearThreshold(conditions[i]))
  BY DEF Seen, Observe, Value

\* MetricInTime, for the values of one condition.
LEMMA ValueInTime ==
  ASSUME NEW w \in WorldState, WorldSound(w), NEW k \in Pairs,
         NEW i \in DOMAIN Rules[k[1]].conditions
  PROVE  \/ \E v \in Ratio \cup {NULL} : \A t \in Int : Value(w, k, i, t) = v
         \/ /\ Rules[k[1]].conditions[i].metric \in AGENT_METRICS
            /\ \E s \in Int : \A t \in Int : Value(w, k, i, t) = <<t - s, 1>>
  BY MetricInTime DEF Value

\* Data that is known stays known, and is a number.
LEMMA KnownInTime ==
  ASSUME NEW w \in WorldState, WorldSound(w), NEW k \in Pairs,
         NEW t \in Int, NEW u \in Int
  PROVE  /\ Seen(w, k, t).known <=> Seen(w, k, u).known
         /\ Seen(w, k, t).known => \A i \in DOMAIN Rules[k[1]].conditions :
                                     Value(w, k, i, t) \in Ratio
<1>1. ASSUME NEW i \in DOMAIN Rules[k[1]].conditions
      PROVE  /\ Value(w, k, i, t) # NULL <=> Value(w, k, i, u) # NULL
             /\ Value(w, k, i, t) \in Ratio \cup {NULL}
  <2>1. CASE \E v \in Ratio \cup {NULL} : \A x \in Int : Value(w, k, i, x) = v
    BY <2>1
  <2>2. CASE \E s \in Int : \A x \in Int : Value(w, k, i, x) = <<x - s, 1>>
    <3>1. PICK s \in Int : \A x \in Int : Value(w, k, i, x) = <<x - s, 1>>
      BY <2>2
    <3>2. \A x \in Int : <<x - s, 1>> \in Ratio
      BY DEF Ratio
    <3> QED BY <3>1, <3>2, NullIsNoNumber
  <2> QED BY <2>1, <2>2, ValueInTime
<1> QED
  BY <1>1, SeenIs

\* A queue's data does not change with the time it is looked at.
LEMMA QueueSeenAlike ==
  ASSUME NEW w, NEW k \in Pairs, k[2] \in Queues, NEW t, NEW u
  PROVE  Seen(w, k, t) = Seen(w, k, u)
<1>1. \A c : ResolveMetric(w, c, k[2], t) = ResolveMetric(w, c, k[2], u)
  BY DEF ResolveMetric
<1> QED
  BY <1>1 DEF Seen, Observe

\* A rule that forgives fires on nothing that it would resolve.
LEMMA ActiveIsStill ==
  ASSUME NEW w \in WorldState, WorldSound(w), NEW k \in Pairs, NEW t \in Int,
         Forgiving(Rules[k[1]]), Seen(w, k, t).active
  PROVE  Seen(w, k, t).still
<1>1. Seen(w, k, t).known
  BY SeenIs
<1>2. \A i \in DOMAIN Rules[k[1]].conditions : Value(w, k, i, t) \in Ratio
  BY <1>1, KnownInTime
<1> QED
  BY <1>1, <1>2, SeenIs, MetIsNotClear

\* A lasting rule that still holds does so until the next event.
LEMMA StillLasts ==
  ASSUME NEW w \in WorldState, WorldSound(w), NEW k \in Pairs,
         NEW t \in Int, NEW u \in Int, t <= u,
         Lasting(Rules[k[1]]), Seen(w, k, t).still
  PROVE  Seen(w, k, u).still
<1>1. Seen(w, k, u).known
  BY SeenIs, KnownInTime
<1>2. ASSUME NEW i \in DOMAIN Rules[k[1]].conditions
      PROVE  Compare(Value(w, k, i, u), Rules[k[1]].conditions[i].comparator,
                     ClearThreshold(Rules[k[1]].conditions[i]))
  <2> DEFINE c == Rules[k[1]].conditions[i]
             line == ClearThreshold(c)
  <2>1. line \in Ratio /\ Compare(Value(w, k, i, t), c.comparator, line)
    BY SeenIs, Thresholds
  <2>2. CASE \E v \in Ratio \cup {NULL} : \A x \in Int : Value(w, k, i, x) = v
    BY <2>1, <2>2
  <2>3. CASE /\ c.metric \in AGENT_METRICS
             /\ \E s \in Int : \A x \in Int : Value(w, k, i, x) = <<x - s, 1>>
    <3>1. PICK s \in Int : \A x \in Int : Value(w, k, i, x) = <<x - s, 1>>
      BY <2>3
    <3>2. c.comparator \in {">", ">="}
      BY <2>3 DEF Lasting, AGENT_METRICS, QUEUE_METRICS
    <3>3. t - s \in Int /\ u - s \in Int /\ t - s <= u - s
      OBVIOUS
    <3>4. Value(w, k, i, t) = <<t - s, 1>> /\ Value(w, k, i, u) = <<u - s, 1>>
      BY <3>1
    <3> HIDE DEF c, line
    <3>5. \A op \in {">", ">="} : Compare(<<t - s, 1>>, op, line)
                                    => Compare(<<u - s, 1>>, op, line)
      BY <2>1, <3>3, AgesCompared
    <3>6. Compare(<<u - s, 1>>, c.comparator, line)
      BY <2>1, <3>2, <3>4, <3>5
    <3> QED BY <3>4, <3>6 DEF c, line
  <2> QED BY <2>2, <2>3, ValueInTime
<1> QED
  BY <1>1, <1>2, SeenIs

\* What is active at two times between events was active all along.
LEMMA ActiveBetween ==
  ASSUME NEW w \in WorldState, WorldSound(w), NEW k \in Pairs,
         NEW t \in Int, NEW u \in Int, NEW x \in Int, t <= u, u <= x,
         Seen(w, k, t).active, Seen(w, k, x).active
  PROVE  Seen(w, k, u).active
<1>1. Seen(w, k, u).known
  BY SeenIs, KnownInTime
<1>2. ASSUME NEW i \in DOMAIN Rules[k[1]].conditions
      PROVE  Compare(Value(w, k, i, u), Rules[k[1]].conditions[i].comparator,
                     Rules[k[1]].conditions[i].threshold)
  <2> DEFINE c == Rules[k[1]].conditions[i]
  <2>1. /\ c.threshold \in Ratio
        /\ Compare(Value(w, k, i, t), c.comparator, c.threshold)
        /\ Compare(Value(w, k, i, x), c.comparator, c.threshold)
    BY SeenIs, Thresholds
  <2>2. CASE \E v \in Ratio \cup {NULL} : \A y \in Int : Value(w, k, i, y) = v
    BY <2>1, <2>2
  <2>3. CASE \E s \in Int : \A y \in Int : Value(w, k, i, y) = <<y - s, 1>>
    <3>1. PICK s \in Int : \A y \in Int : Value(w, k, i, y) = <<y - s, 1>>
      BY <2>3
    <3>2. c.comparator \in VALID_COMPARATORS
      BY RulesAdmitted DEF Pairs, ValidRule, ValidCondition
    <3>3. /\ t - s \in Int /\ u - s \in Int /\ x - s \in Int
          /\ t - s <= u - s /\ u - s <= x - s
      OBVIOUS
    <3>4. /\ Value(w, k, i, t) = <<t - s, 1>> /\ Value(w, k, i, u) = <<u - s, 1>>
          /\ Value(w, k, i, x) = <<x - s, 1>>
      BY <3>1
    <3> HIDE DEF c
    <3>5. \A op \in VALID_COMPARATORS :
            /\ Compare(<<t - s, 1>>, op, c.threshold)
            /\ Compare(<<x - s, 1>>, op, c.threshold)
            => Compare(<<u - s, 1>>, op, c.threshold)
      BY <2>1, <3>3, AgesCompared
    <3>6. Compare(<<u - s, 1>>, c.comparator, c.threshold)
      BY <2>1, <3>2, <3>4, <3>5
    <3> QED BY <3>4, <3>6 DEF c
  <2> QED BY <2>2, <2>3, ValueInTime
<1> QED
  BY <1>1, <1>2, SeenIs

\* An event changes what is seen of its own entity only.
LEMMA SeenElsewhere ==
  ASSUME NEW w \in WorldState, NEW e \in Event, e.entity # NULL,
         NEW k \in Pairs, k[2] # e.entity, NEW t
  PROVE  Seen(Apply(w, e), k, t) = Seen(w, k, t)
<1>1. k[2] \in Queues \cup Agents
  BY DEF Pairs
<1>2. /\ k[2] \in Queues => Apply(w, e).queues[k[2]] = w.queues[k[2]]
      /\ k[2] \in Agents => Apply(w, e).agents[k[2]] = w.agents[k[2]]
  BY ApplyElsewhere
<1>3. k[2] \in KnownEntities(Apply(w, e)) <=> k[2] \in KnownEntities(w)
  BY <1>1, <1>2 DEF KnownEntities
<1>4. \A c : ResolveMetric(Apply(w, e), c, k[2], t) = ResolveMetric(w, c, k[2], t)
  BY <1>1, <1>2, <1>3 DEF ResolveMetric
<1> QED
  BY <1>4 DEF Seen, Observe

-----------------------------------------------------------------------------
(* One evaluation. *)

\* The timers of an AlertState, set and not ahead of t.
Timed(st, t) ==
  /\ st.status = "PENDING" => st.pending_since \in Int /\ st.pending_since <= t
  /\ st.status = "FIRING" => st.firing_since \in Int /\ st.firing_since <= t

\* How an evaluation at t that saw obs leaves an AlertState: an open alert is
\* justified, no timer is due, and what need not be held and is active fires.
Judged(rule, st, obs, t) ==
  /\ Forgiving(rule) /\ st.status = "FIRING" => obs.still
  /\ st.status = "PENDING" => t - st.pending_since < rule.sustained_for_sec
  /\ /\ st.status = "FIRING" /\ ~st.fire_was_suppressed
     /\ ~st.escalated /\ rule.escalate_after_sec # NULL
     => \/ t <= st.firing_since
        \/ t - st.firing_since < rule.escalate_after_sec
  /\ Forgiving(rule) /\ rule.sustained_for_sec = 0 /\ obs.active
     => st.status = "FIRING"

LEMMA EvaluateTimed ==
  ASSUME NEW rule, NEW st \in AlertState, NEW obs, NEW t \in Int,
         st.status # "OK" => Timed(st, t)
  PROVE  Timed(Evaluate(rule, st, obs, t), t)
<1> DEFINE s == Evaluate(rule, st, obs, t)
<1>1. CASE Fires(rule, st, obs, t)
  <2>1. s = Fire(rule, st, t)
    BY <1>1, EvaluateIs
  <2> QED BY <2>1 DEF Timed, Fire, AlertState
<1>2. CASE Resolves(st, obs)
  <2>1. s = Resolve(st, t)
    BY <1>2, EvaluateIs DEF Resolves
  <2> QED BY <2>1 DEF Timed, Resolve, AlertState
<1>3. CASE Escalates(rule, st, obs, t)
  <2>1. s = [st EXCEPT !.escalated = TRUE]
    BY <1>3, EvaluateIs DEF Escalates
  <2> QED BY <2>1 DEF Timed, AlertState
<1>4. CASE Pends(rule, st, obs, t)
  <2>1. s = Pend(st, t) /\ st.status # "FIRING"
    BY <1>4, EvaluateIs DEF Pends
  <2> QED BY <2>1 DEF Timed, Pend, PendingSince, AlertState, Statuses
<1>5. CASE Clears(st, obs)
  <2>1. s = Clear(st)
    BY <1>5, EvaluateIs DEF Clears
  <2> QED BY <2>1 DEF Timed, Clear, AlertState
<1>6. CASE ~ \/ Fires(rule, st, obs, t) \/ Resolves(st, obs)
             \/ Escalates(rule, st, obs, t)
             \/ Pends(rule, st, obs, t) \/ Clears(st, obs)
  BY <1>6, EvaluateIs DEF Timed
<1> QED
  BY <1>1, <1>2, <1>3, <1>4, <1>5, <1>6

LEMMA EvaluateJudges ==
  ASSUME NEW rule, NoiseControlsOK(rule), NEW st \in AlertState, NEW obs,
         NEW t \in Int, st.status # "OK" => Timed(st, t),
         obs.known, Forgiving(rule) /\ obs.active => obs.still
  PROVE  Judged(rule, Evaluate(rule, st, obs, t), obs, t)
<1> DEFINE s == Evaluate(rule, st, obs, t)
<1>0. rule.sustained_for_sec \in Nat
  BY DEF NoiseControlsOK
<1>1. CASE Fires(rule, st, obs, t)
  <2>0. s = Fire(rule, st, t)
    BY <1>1, EvaluateIs
  <2>1. s.status = "FIRING" /\ s.firing_since = t /\ obs.active
    BY <1>1, <2>0 DEF Fires, Fire, AlertState
  <2> HIDE DEF s
  <2>2. Judged(rule, s, obs, t)
    BY <2>1 DEF Judged
  <2> QED BY <2>2 DEF s
<1>2. CASE Resolves(st, obs)
  <2>0. s = Resolve(st, t)
    BY <1>2, EvaluateIs
  <2>1. s.status = "OK" /\ ~obs.still
    BY <1>2, <2>0 DEF Resolves, Resolve, AlertState
  <2> HIDE DEF s
  <2>2. Judged(rule, s, obs, t)
    BY <2>1 DEF Judged
  <2> QED BY <2>2 DEF s
<1>3. CASE Escalates(rule, st, obs, t)
  <2>0. s = [st EXCEPT !.escalated = TRUE]
    BY <1>3, EvaluateIs
  <2>1. s.status = "FIRING" /\ s.escalated /\ obs.still
    BY <1>3, <2>0 DEF Escalates, AlertState
  <2> HIDE DEF s
  <2>2. Judged(rule, s, obs, t)
    BY <2>1 DEF Judged
  <2> QED BY <2>2 DEF s
<1>4. CASE Pends(rule, st, obs, t)
  <2>0. s = Pend(st, t)
    BY <1>4, EvaluateIs
  <2>1. /\ s.status = "PENDING" /\ s.pending_since = PendingSince(st, t)
        /\ ~HeldLongEnough(rule, st, t)
    BY <1>4, <2>0 DEF Pends, Pend, AlertState
  <2>2. PendingSince(st, t) \in Int /\ PendingSince(st, t) <= t
    BY <1>4 DEF PendingSince, Pends, Timed, AlertState, Statuses
  <2>3. t - PendingSince(st, t) < rule.sustained_for_sec
    BY <1>0, <2>1, <2>2 DEF HeldLongEnough
  <2> HIDE DEF s
  <2>4. Judged(rule, s, obs, t)
    BY <1>0, <2>1, <2>2, <2>3 DEF Judged
  <2> QED BY <2>4 DEF s
<1>5. CASE Clears(st, obs)
  <2>0. s = Clear(st)
    BY <1>5, EvaluateIs
  <2>1. s.status = "OK" /\ ~obs.active
    BY <1>5, <2>0 DEF Clears, Clear, AlertState
  <2> HIDE DEF s
  <2>2. Judged(rule, s, obs, t)
    BY <2>1 DEF Judged
  <2> QED BY <2>2 DEF s
<1>6. CASE ~ \/ Fires(rule, st, obs, t) \/ Resolves(st, obs)
             \/ Escalates(rule, st, obs, t)
             \/ Pends(rule, st, obs, t) \/ Clears(st, obs)
  <2>1. s = st /\ st.status = "FIRING" /\ obs.still
    BY <1>6, EvaluateIs DEF Fires, Resolves, Pends, Clears
  <2>2. rule.escalate_after_sec \in Nat \cup {NULL}
    BY DEF NoiseControlsOK
  <2>3. /\ rule.escalate_after_sec # NULL /\ ~st.escalated
        /\ ~st.fire_was_suppressed
        => t - st.firing_since < rule.escalate_after_sec
    BY <1>6, <2>1, <2>2 DEF Escalates, Timed
  <2> HIDE DEF s
  <2>4. Judged(rule, s, obs, t)
    BY <2>1, <2>3 DEF Judged
  <2> QED BY <2>4 DEF s
<1> QED
  BY <1>1, <1>2, <1>3, <1>4, <1>5, <1>6

\* An alert ends only when what is seen does not meet the clear thresholds.
LEMMA StillFiring ==
  ASSUME NEW rule, NEW st \in AlertState, NEW obs, NEW t,
         st.status = "FIRING", obs.known => obs.still
  PROVE  Evaluate(rule, st, obs, t).status = "FIRING"
<1>1. Evaluate(rule, st, obs, t) \in {st, [st EXCEPT !.escalated = TRUE]}
  BY DEF Evaluate, Fires, Resolves, Escalates, Pends, Clears
<1> QED
  BY <1>1 DEF AlertState

-----------------------------------------------------------------------------
(* The world never holds data later than the evaluation time, whatever the *)
(* order of the events: the clock reaches an event before it is applied.   *)

FreshInv == NoFutureData /\ WorldSound(world)

LEMMA FreshInit == Init => FreshInv
  BY DEF Init, FreshInv, NoFutureData, WorldSound, NewWorld

\* The type of what is known of an entity.
LEMMA EntitiesTyped ==
  ASSUME NEW w \in WorldState
  PROVE  /\ \A q \in Queues : w.queues[q] # NULL => w.queues[q].last_ts \in Int
         /\ \A a \in Agents : w.agents[a] # NULL =>
              /\ w.agents[a].last_ts \in Int \cup {NULL}
              /\ w.agents[a].state_since \in Int \cup {NULL}
<1>1. \A q \in Queues : w.queues[q] # NULL => w.queues[q] \in QueueState
  BY DEF WorldState, OrNull
<1>2. \A a \in Agents : w.agents[a] # NULL => w.agents[a] \in AgentState
  BY DEF WorldState, OrNull
<1> QED
  BY <1>1, <1>2 DEF QueueState, AgentState, OrNull

\* As time passes a world that was fresh stays so.
LEMMA FreshLater ==
  ASSUME FreshInv, TypeOK, world' = world,
         clock # NULL => clock' # NULL /\ Now \in Int /\ Now' \in Int /\ Now <= Now'
  PROVE  NoFutureData' /\ WorldSound(world)'
<1>1. \A q \in Queues : world.queues[q] # NULL => world.queues[q].last_ts \in Int
  BY EntitiesTyped DEF TypeOK
<1>2. \A a \in Agents : world.agents[a] # NULL => world.agents[a].last_ts \in Int
  BY DEF FreshInv, WorldSound
<1>3. WorldSound(world)'
  BY DEF FreshInv, WorldSound
<1>4. ASSUME NEW q \in Queues, world.queues[q] # NULL
      PROVE  clock' # NULL /\ world.queues[q].last_ts <= Now'
  BY <1>1, <1>4 DEF FreshInv, NoFutureData
<1>5. ASSUME NEW a \in Agents, world.agents[a] # NULL
      PROVE  /\ clock' # NULL /\ world.agents[a].last_ts <= Now'
             /\ world.agents[a].state_since # NULL =>
                  world.agents[a].state_since <= Now'
  <2>1. world.agents[a].state_since \in Int \cup {NULL}
    BY <1>5, EntitiesTyped DEF TypeOK
  <2> QED BY <1>2, <1>5, <2>1 DEF FreshInv, NoFutureData
<1> QED
  BY <1>3, <1>4, <1>5 DEF NoFutureData

\* An event is applied when the clock has reached it.
LEMMA FreshApplied ==
  ASSUME FreshInv, TypeOK, inflight \in Event, inflight # NULL,
         inflight.entity # NULL, world' = Apply(world, inflight),
         clock' # NULL, Now' \in Int, inflight.ts <= Now',
         clock # NULL => Now \in Int /\ Now <= Now'
  PROVE  NoFutureData' /\ WorldSound(world)'
<1> DEFINE e == inflight
<1>0. /\ world \in WorldState /\ world' \in WorldState /\ WorldSound(world)
      /\ e.ts \in Int
  BY ApplyTyped DEF TypeOK, FreshInv, Event
<1>1. ASSUME NEW q \in Queues, world'.queues[q] # NULL
      PROVE  world'.queues[q].last_ts <= Now'
  <2>1. CASE q = e.entity
    BY <1>0, <2>1, ApplyHere
  <2>2. CASE q # e.entity
    <3>1. world'.queues[q] = world.queues[q]
      BY <1>0, <2>2, ApplyElsewhere
    <3>2. world.queues[q].last_ts \in Int
      BY <1>0, <1>1, <3>1, EntitiesTyped
    <3> QED BY <1>1, <3>1, <3>2 DEF FreshInv, NoFutureData
  <2> QED BY <2>1, <2>2
<1>2. ASSUME NEW a \in Agents, world'.agents[a] # NULL
      PROVE  LET s == world'.agents[a]
             IN  /\ s.last_ts \in Int /\ s.last_ts <= Now'
                 /\ s.state_since # NULL => s.state_since <= Now'
                 /\ s.in_violation => s.violation_started_at \in Int
  <2>1. CASE a = e.entity
    <3> DEFINE was == AgentOrNew(world, a)
               s == world'.agents[a]
    <3>1. /\ s.last_ts = e.ts /\ s.state_since \in {was.state_since, e.ts}
          /\ s.in_violation => s.violation_started_at \in Int
      BY <1>0, <2>1, ApplyHere
    <3>2. was.state_since # NULL => was.state_since <= Now'
      <4>1. CASE world.agents[a] = NULL
        BY <4>1 DEF AgentOrNew, NewAgentState
      <4>2. CASE world.agents[a] # NULL
        <5>1. clock # NULL /\ Now \in Int /\ Now <= Now'
          BY <4>2 DEF FreshInv, NoFutureData
        <5>2. world.agents[a].state_since # NULL =>
                /\ world.agents[a].state_since \in Int
                /\ world.agents[a].state_since <= Now
          BY <1>0, <4>2, EntitiesTyped DEF FreshInv, NoFutureData
        <5> QED BY <4>2, <5>1, <5>2 DEF AgentOrNew
      <4> QED BY <4>1, <4>2
    <3> HIDE DEF was, s
    <3>3. /\ s.last_ts \in Int /\ s.last_ts <= Now'
          /\ s.state_since # NULL => s.state_since <= Now'
      BY <1>0, <3>1, <3>2
    <3> QED BY <3>1, <3>3 DEF s
  <2>2. CASE a # e.entity
    <3>1. world'.agents[a] = world.agents[a]
      BY <1>0, <2>2, ApplyElsewhere
    <3>2. /\ world.agents[a].last_ts \in Int
          /\ world.agents[a].state_since \in Int \cup {NULL}
          /\ world.agents[a].in_violation
               => world.agents[a].violation_started_at \in Int
      BY <1>0, <1>2, <3>1, EntitiesTyped DEF WorldSound
    <3> QED BY <1>2, <3>1, <3>2 DEF FreshInv, NoFutureData
  <2> QED BY <2>1, <2>2
<1>3. WorldSound(world)'
  BY <1>2 DEF WorldSound
<1> QED
  BY <1>1, <1>2, <1>3 DEF NoFutureData

LEMMA FreshStep == IInv /\ FreshInv /\ [Next]_vars => FreshInv'
<1> SUFFICES ASSUME IInv, FreshInv, [Next]_vars PROVE FreshInv'
  OBVIOUS
<1>0. ClockTyped /\ ClockInv /\ TypeOK
  BY DEF IInv, TypeOK, ClockTyped
<1>1. CASE \E e \in Events : Receive(e)
  BY <1>1 DEF Receive, FreshInv, NoFutureData, WorldSound, Now
<1>2. CASE Tick
  <2>1. /\ clock' # NULL /\ Now \in Int /\ Now' \in Int /\ Now <= Now'
        /\ world' = world
    BY <1>0, <1>2, TickAdvances DEF Tick
  <2> QED BY <1>0, <2>1, FreshLater DEF FreshInv
<1>3. CASE Settle
  <2>1. /\ inflight # NULL /\ ~TickDue /\ AdvanceClock(inflight)
        /\ inflight' = NULL /\ inflight.entity # NULL
        /\ world' = Apply(world, inflight)
    BY <1>3 DEF Settle
  <2>2. /\ ClockAfter(inflight.ts) \in Int /\ clock' # NULL
        /\ Now' = ClockAfter(inflight.ts)
        /\ clock # NULL => Now \in Int /\ Now <= ClockAfter(inflight.ts)
    BY <1>0, <2>1, CallAdvances
  <2>3. inflight \in Event /\ inflight.ts \in Int
    BY <1>0, <2>1, EventTimed DEF ClockTyped, OrNull
  <2>4. inflight.ts <= ClockAfter(inflight.ts)
    BY <1>0, <2>3 DEF ClockAfter, ClockTyped, OrNull
  <2> QED BY <1>0, <2>1, <2>2, <2>3, <2>4, FreshApplied DEF FreshInv
<1>4. CASE Raise
  <2>1. /\ inflight # NULL /\ ~TickDue /\ AdvanceClock(inflight)
        /\ inflight' = NULL /\ world' = world
    BY <1>4 DEF Raise
  <2>2. /\ ClockAfter(inflight.ts) \in Int /\ clock' # NULL
        /\ Now' = ClockAfter(inflight.ts)
        /\ clock # NULL => Now \in Int /\ Now <= ClockAfter(inflight.ts)
    BY <1>0, <2>1, CallAdvances
  <2> QED BY <1>0, <2>1, <2>2, FreshLater DEF FreshInv
<1>5. CASE UNCHANGED vars
  BY <1>5 DEF vars, FreshInv, NoFutureData, WorldSound, Now
<1> QED
  BY <1>1, <1>2, <1>3, <1>4, <1>5 DEF Next

\* No event is judged by, and no world ever holds, data from the future.
THEOREM NothingIsFromTheFuture == Spec => []NoFutureData
<1>1. Init => IInv /\ FreshInv
  BY InitInv, FreshInit
<1>2. (IInv /\ FreshInv) /\ [Next]_vars => (IInv /\ FreshInv)'
  BY StepInv, FreshStep
<1>3. FreshInv => NoFutureData
  BY DEF FreshInv
<1> QED
  BY <1>1, <1>2, <1>3, PTL DEF Spec

-----------------------------------------------------------------------------
(* Every pair whose data is known was evaluated since the last tick. *)

TimedInv == \A k \in Pairs :
  alert[k].status # "OK" => clock # NULL /\ Timed(alert[k], Now)

\* The AlertState is as an evaluation at t of the present world left it.
JudgedAt(k, t) == Judged(Rules[k[1]], alert[k], Seen(world, k, t), t)

SweptInv == clock # NULL => \A k \in Pairs :
  Seen(world, k, Now).known =>
    \E t \in Int : lastTick <= t /\ t <= Now /\ JudgedAt(k, t)

EvalInv == IInv /\ FreshInv /\ TimedInv /\ SweptInv

LEMMA EvalInit == Init => TimedInv /\ SweptInv
  BY DEF Init, TimedInv, SweptInv, NewAlertState

\* An admitted rule has a condition.
LEMMA HasCondition ==
  ASSUME NEW k \in Pairs
  PROVE  1 \in DOMAIN Rules[k[1]].conditions
<1>1. /\ Rules[k[1]].conditions # <<>>
      /\ Rules[k[1]].conditions \in Seq(ConditionRecord)
  BY RulesAdmitted, ConditionsTyped DEF Pairs, ValidRule
<1> QED
  BY <1>1

\* Before the first event there is no data.
LEMMA NothingKnown ==
  ASSUME FreshInv, clock = NULL, NEW k \in Pairs, NEW t
  PROVE  ~Seen(world, k, t).known
<1>1. k[2] \notin KnownEntities(world)
  BY DEF FreshInv, NoFutureData, KnownEntities
<1>2. \A i \in DOMAIN Rules[k[1]].conditions : Value(world, k, i, t) = NULL
  BY <1>1 DEF Value, ResolveMetric
<1> QED
  BY <1>2, SeenIs, HasCondition

\* What a pass over the pairs of K leaves: an alert outside K as it was, one
\* inside as the evaluation of what was seen leaves it.
LEMMA SweepIs ==
  ASSUME NEW K, NEW w, NEW t, Sweep(K, w, t), NEW k \in Pairs
  PROVE  alert'[k] = IF k \in K
                     THEN Evaluate(Rules[k[1]], alert[k], Seen(w, k, t), t)
                     ELSE alert[k]
  BY DEF Sweep, Seen

LEMMA SweepTimed ==
  ASSUME IInv, TimedInv, NEW K, NEW w, NEW t \in Int, Sweep(K, w, t),
         clock # NULL => Now \in Int /\ Now <= t, clock' # NULL, Now' = t
  PROVE  TimedInv'
<1> SUFFICES ASSUME NEW k \in Pairs, alert'[k].status # "OK"
             PROVE  Timed(alert'[k], t)
  BY DEF TimedInv
<1>1. alert[k] \in AlertState
  BY DEF IInv, TypeOK
<1>2. alert[k].status # "OK" => Timed(alert[k], t)
  BY DEF TimedInv, Timed
<1>3. CASE k \in K
  BY <1>1, <1>2, <1>3, SweepIs, EvaluateTimed
<1>4. CASE k \notin K
  <2>1. alert'[k] = alert[k]
    BY <1>4, SweepIs
  <2> QED BY <1>2, <2>1
<1> QED
  BY <1>3, <1>4

LEMMA SweepJudges ==
  ASSUME IInv, TimedInv, NEW K, NEW w \in WorldState, WorldSound(w),
         NEW t \in Int, Sweep(K, w, t),
         clock # NULL => Now \in Int /\ Now <= t,
         NEW k \in Pairs, k \in K, Seen(w, k, t).known
  PROVE  Judged(Rules[k[1]], alert'[k], Seen(w, k, t), t)
<1>1. alert[k] \in AlertState /\ NoiseControlsOK(Rules[k[1]])
  BY RulesAdmitted DEF IInv, TypeOK, Pairs, ValidRule
<1>2. alert[k].status # "OK" => Timed(alert[k], t)
  BY DEF TimedInv, Timed
<1>3. Forgiving(Rules[k[1]]) /\ Seen(w, k, t).active => Seen(w, k, t).still
  BY ActiveIsStill
<1>4. alert'[k] = Evaluate(Rules[k[1]], alert[k], Seen(w, k, t), t)
  BY SweepIs
<1> QED
  BY <1>1, <1>2, <1>3, <1>4, EvaluateJudges

LEMMA EvalStep ==
  EvalInv /\ FreshInv' /\ IInv' /\ [Next]_vars => TimedInv' /\ SweptInv'
<1> SUFFICES ASSUME EvalInv, FreshInv', IInv', [Next]_vars
             PROVE  TimedInv' /\ SweptInv'
  OBVIOUS
<1>0. /\ ClockTyped /\ ClockInv /\ TypeOK /\ IInv /\ FreshInv /\ TimedInv
      /\ SweptInv /\ world \in WorldState /\ WorldSound(world)
      /\ world' \in WorldState /\ WorldSound(world')
  BY DEF EvalInv, IInv, FreshInv, TypeOK, ClockTyped, WorldSound
<1>1. CASE \E e \in Events : Receive(e)
  BY <1>0, <1>1 DEF Receive, TimedInv, SweptInv, JudgedAt, Now
<1>2. CASE Tick
  <2>1. /\ NextTick \in Int /\ Now \in Int /\ Now <= NextTick
        /\ clock # NULL /\ clock' # NULL /\ Now' = NextTick
    BY <1>0, <1>2, TickAdvances
  <2>2. /\ Sweep(TickPairs(world), world, NextTick)
        /\ world' = world /\ lastTick' = NextTick
    BY <1>2 DEF Tick
  <2>3. TimedInv'
    BY <1>0, <2>1, <2>2, SweepTimed
  <2>4. ASSUME NEW k \in Pairs, Seen(world, k, NextTick).known
        PROVE  Judged(Rules[k[1]], alert'[k], Seen(world, k, NextTick), NextTick)
    <3>1. k \in TickPairs(world)
      <4>1. CASE k[2] \notin KnownEntities(world)
        <5>1. \A i \in DOMAIN Rules[k[1]].conditions :
                Value(world, k, i, NextTick) = NULL
          BY <4>1 DEF Value, ResolveMetric
        <5> QED BY <2>4, <5>1, SeenIs, HasCondition
      <4>2. CASE k[2] \in KnownEntities(world)
        BY <4>2 DEF TickPairs
      <4> QED BY <4>1, <4>2
    <3> QED BY <1>0, <2>1, <2>2, <2>4, <3>1, SweepJudges
  <2>5. SweptInv'
    BY <2>1, <2>2, <2>4 DEF SweptInv, JudgedAt
  <2> QED BY <2>3, <2>5
<1>3. CASE Settle
  <2> DEFINE t == ClockAfter(inflight.ts)
  <2>1. /\ inflight # NULL /\ ~TickDue /\ AdvanceClock(inflight)
        /\ inflight' = NULL /\ inflight.entity # NULL
        /\ world' = Apply(world, inflight)
        /\ Sweep(EventPairs(inflight), world', t)
    BY <1>3 DEF Settle
  <2>2. /\ t \in Int /\ clock' # NULL /\ Now' = t
        /\ clock # NULL => Now \in Int /\ Now <= t
        /\ lastTick' \in Int /\ lastTick' <= t
        /\ clock # NULL => lastTick' = lastTick
    <3>1. /\ ClockAfter(inflight.ts) \in Int
          /\ ClockTyped' /\ ClockInv' /\ clock' # NULL
          /\ Now' = ClockAfter(inflight.ts)
          /\ clock # NULL => Now \in Int /\ Now <= ClockAfter(inflight.ts)
      BY <1>0, <2>1, CallAdvances
    <3>2. lastTick' \in Int /\ lastTick' <= clock' /\ clock' = t
      BY <2>1, <3>1 DEF ClockTyped, ClockInv, OrNull, AdvanceClock
    <3>3. clock # NULL => lastTick' = lastTick
      BY <2>1 DEF AdvanceClock
    <3> QED BY <3>1, <3>2, <3>3
  <2>3. inflight \in Event
    BY <1>0, <2>1, EventTimed DEF ClockTyped, OrNull
  <2> HIDE DEF t
  <2>4. TimedInv'
    BY <1>0, <2>1, <2>2, SweepTimed
  <2>5. ASSUME NEW k \in Pairs, Seen(world', k, t).known
        PROVE  \E u \in Int : /\ lastTick' <= u /\ u <= t
                              /\ Judged(Rules[k[1]], alert'[k], Seen(world', k, u), u)
    <3>1. CASE k[2] = inflight.entity
      <4>1. k \in EventPairs(inflight)
        BY <3>1 DEF EventPairs
      <4>2. Judged(Rules[k[1]], alert'[k], Seen(world', k, t), t)
        BY <1>0, <2>1, <2>2, <2>5, <4>1, SweepJudges
      <4> QED BY <2>2, <4>2
    <3>2. CASE k[2] # inflight.entity
      <4>1. \A u \in Int : Seen(world', k, u) = Seen(world, k, u)
        BY <1>0, <2>1, <2>3, <3>2, SeenElsewhere
      <4>2. clock # NULL
        BY <1>0, <2>2, <2>5, <4>1, NothingKnown
      <4>3. Seen(world, k, Now).known
        BY <1>0, <2>2, <2>5, <4>1, <4>2, KnownInTime
      <4>4. PICK u \in Int : lastTick <= u /\ u <= Now /\ JudgedAt(k, u)
        BY <1>0, <4>2, <4>3 DEF SweptInv
      <4>5. alert'[k] = alert[k]
        BY <2>1, <3>2, SweepIs DEF EventPairs
      <4>6. lastTick' <= u /\ u <= t
        BY <2>2, <4>2, <4>4
      <4> QED BY <4>1, <4>4, <4>5, <4>6 DEF JudgedAt
    <3> QED BY <3>1, <3>2
  <2>6. SweptInv'
    BY <2>2, <2>5 DEF SweptInv, JudgedAt
  <2> QED BY <2>4, <2>6
<1>4. CASE Raise
  <2> DEFINE t == ClockAfter(inflight.ts)
  <2>1. /\ inflight # NULL /\ ~TickDue /\ AdvanceClock(inflight)
        /\ inflight' = NULL /\ world' = world /\ alert' = alert
    BY <1>4 DEF Raise
  <2>2. /\ t \in Int /\ clock' # NULL /\ Now' = t
        /\ clock # NULL => Now \in Int /\ Now <= t
    BY <1>0, <2>1, CallAdvances
  <2>3. clock # NULL => lastTick' = lastTick
    BY <2>1 DEF AdvanceClock
  <2> HIDE DEF t
  <2>4. TimedInv'
    <3> SUFFICES ASSUME NEW k \in Pairs, alert[k].status # "OK"
                 PROVE  Timed(alert[k], t)
      BY <2>1, <2>2 DEF TimedInv
    <3>1. clock # NULL /\ Timed(alert[k], Now)
      BY <1>0 DEF TimedInv
    <3> QED BY <2>2, <3>1 DEF Timed
  <2>5. ASSUME NEW k \in Pairs, Seen(world, k, t).known
        PROVE  \E u \in Int : lastTick' <= u /\ u <= t /\ JudgedAt(k, u)
    <3>1. clock # NULL
      BY <1>0, <2>2, <2>5, NothingKnown
    <3>2. Seen(world, k, Now).known
      BY <1>0, <2>2, <2>5, <3>1, KnownInTime
    <3>3. PICK u \in Int : lastTick <= u /\ u <= Now /\ JudgedAt(k, u)
      BY <1>0, <3>1, <3>2 DEF SweptInv
    <3> QED BY <2>2, <2>3, <3>1, <3>3
  <2>6. SweptInv'
    BY <2>1, <2>2, <2>5 DEF SweptInv, JudgedAt
  <2> QED BY <2>4, <2>6
<1>5. CASE UNCHANGED vars
  BY <1>0, <1>5 DEF vars, TimedInv, SweptInv, JudgedAt, Now
<1> QED
  BY <1>1, <1>2, <1>3, <1>4, <1>5 DEF Next

-----------------------------------------------------------------------------
(* Theorems. *)

\* Every pair the world has data for is as an evaluation since the last tick
\* left it, and no timer runs ahead of the engine's time.
THEOREM EveryPairIsEvaluated == Spec => []EvalInv
<1>1. Init => EvalInv
  BY InitInv, FreshInit, EvalInit DEF EvalInv
<1>2. EvalInv /\ [Next]_vars => EvalInv'
  BY StepInv, FreshStep, EvalStep DEF EvalInv
<1> QED
  BY <1>1, <1>2, PTL DEF Spec

\* Between two calls: the evaluation SweptInv speaks of is less than a tick
\* interval old.
LEMMA Recently ==
  ASSUME EvalInv, inflight = NULL, clock # NULL, NEW k \in Pairs,
         Seen(world, k, clock).known
  PROVE  /\ clock \in Int /\ world \in WorldState /\ WorldSound(world)
         /\ alert[k] \in AlertState
         /\ alert[k].status # "OK" => Timed(alert[k], clock)
         /\ \E t \in Int : /\ t <= clock /\ clock - TickInterval < t
                           /\ JudgedAt(k, t)
<1>1. /\ clock \in Int /\ lastTick \in Int /\ lastTick <= clock
      /\ clock < lastTick + TickInterval /\ Now = clock
  BY DEF EvalInv, IInv, ClockInv, TypeOK, OrNull, Now, NextTick
<1>2. /\ world \in WorldState /\ WorldSound(world) /\ alert[k] \in AlertState
      /\ alert[k].status # "OK" => Timed(alert[k], clock)
  BY <1>1 DEF EvalInv, IInv, TypeOK, FreshInv, TimedInv
<1>3. PICK t \in Int : lastTick <= t /\ t <= clock /\ JudgedAt(k, t)
  BY <1>1 DEF EvalInv, SweptInv
<1>4. clock - TickInterval < t
  BY <1>1, <1>3, TickIntervalPositive
<1> QED
  BY <1>1, <1>2, <1>3, <1>4

\* No alert outlives the data that justifies it: whatever is open between two
\* calls holds at the clock against the clear thresholds.
THEOREM OpenAlertsAreJustified == Spec => []FiringIsJustified
<1>1. EvalInv => FiringIsJustified
  <2> SUFFICES ASSUME EvalInv, inflight = NULL, NEW k \in Pairs,
                      Forgiving(Rules[k[1]]), Lasting(Rules[k[1]]),
                      alert[k].status = "FIRING", Seen(world, k, clock).known
               PROVE  Seen(world, k, clock).still
    BY DEF FiringIsJustified, Seen
  <2>1. clock # NULL
    BY DEF EvalInv, TimedInv
  <2>2. PICK t \in Int : t <= clock /\ JudgedAt(k, t)
    BY <2>1, Recently
  <2>3. Seen(world, k, t).still
    BY <2>2 DEF JudgedAt, Judged
  <2> QED BY <2>1, <2>2, <2>3, Recently, StillLasts
<1> QED
  BY <1>1, EveryPairIsEvaluated, PTL

\* No timer is overdue by a tick interval: what was pending long enough has
\* fired, what was open long enough has escalated.
THEOREM TimersAreNotOverdue == Spec => []TimersAreSwept
<1>1. EvalInv => TimersAreSwept
  <2> SUFFICES ASSUME EvalInv, inflight = NULL, clock # NULL, NEW k \in Pairs,
                      Seen(world, k, clock).known
               PROVE  LET rule == Rules[k[1]]
                          st   == alert[k]
                      IN  /\ st.status = "PENDING" => clock - st.pending_since
                               < rule.sustained_for_sec + TickInterval
                          /\ /\ st.status = "FIRING" /\ ~st.fire_was_suppressed
                             /\ ~st.escalated /\ rule.escalate_after_sec # NULL
                             => clock - st.firing_since
                                  < rule.escalate_after_sec + TickInterval
    BY DEF TimersAreSwept, Seen
  <2> DEFINE rule == Rules[k[1]]
             st   == alert[k]
  <2>1. clock \in Int /\ (st.status # "OK" => Timed(st, clock))
    BY Recently DEF Timed
  <2>2. PICK t \in Int : /\ t <= clock /\ clock - TickInterval < t
                         /\ JudgedAt(k, t)
    BY Recently
  <2>3. Judged(rule, st, Seen(world, k, t), t)
    BY <2>2 DEF JudgedAt
  <2>4. /\ rule.sustained_for_sec \in Nat
        /\ rule.escalate_after_sec \in Nat \cup {NULL}
    BY RulesAdmitted DEF Pairs, ValidRule, NoiseControlsOK
  <2>5. TickInterval \in Nat
    BY TickIntervalPositive
  <2> HIDE DEF rule, st
  <2>6. st.status = "PENDING" =>
          clock - st.pending_since < rule.sustained_for_sec + TickInterval
    BY <2>1, <2>2, <2>3, <2>4, <2>5 DEF Judged, Timed
  <2>7. /\ st.status = "FIRING" /\ ~st.fire_was_suppressed
        /\ ~st.escalated /\ rule.escalate_after_sec # NULL
        => clock - st.firing_since < rule.escalate_after_sec + TickInterval
    BY <2>1, <2>2, <2>3, <2>4, <2>5 DEF Judged, Timed
  <2> QED BY <2>6, <2>7 DEF rule, st
<1> QED
  BY <1>1, EveryPairIsEvaluated, PTL

\* A rule without a sustained_for fires within a tick interval of the time its
\* condition became true, although no event came in between.
THEOREM DurationAlertsFirePromptly == Spec => []DurationAlertsArePrompt
<1>1. EvalInv => DurationAlertsArePrompt
  <2> SUFFICES ASSUME EvalInv, inflight = NULL, clock # NULL, NEW k \in Pairs,
                      Rules[k[1]].sustained_for_sec = 0, Forgiving(Rules[k[1]]),
                      Seen(world, k, clock - TickInterval).active,
                      Seen(world, k, clock).active
               PROVE  alert[k].status = "FIRING"
    BY DEF DurationAlertsArePrompt, Seen
  <2>1. Seen(world, k, clock).known
    BY SeenIs
  <2>2. clock \in Int /\ world \in WorldState /\ WorldSound(world)
    BY <2>1, Recently
  <2>3. PICK t \in Int : /\ t <= clock /\ clock - TickInterval < t
                         /\ JudgedAt(k, t)
    BY <2>1, Recently
  <2>4. clock - TickInterval \in Int /\ clock - TickInterval <= t
    BY <2>2, <2>3, TickIntervalPositive
  <2>5. Seen(world, k, t).active
    BY <2>2, <2>3, <2>4, ActiveBetween
  <2> QED BY <2>3, <2>5 DEF JudgedAt, Judged
<1> QED
  BY <1>1, EveryPairIsEvaluated, PTL

\* Silence is not recovery: no tick ends the alert of a queue, because the
\* data it is open for is still the data the world shows.
THEOREM SilenceEndsNothing == Spec => SilenceIsNotRecovery
<1>1. EvalInv /\ [Next]_vars =>
        [\A k \in Pairs :
           /\ k[2] \in Queues /\ Forgiving(Rules[k[1]])
           /\ alert[k].status = "FIRING" /\ alert'[k].status # "FIRING"
           => inflight # NULL /\ inflight.entity = k[2] /\ inflight' = NULL]_vars
  <2> SUFFICES ASSUME EvalInv, [Next]_vars, NEW k \in Pairs,
                      k[2] \in Queues, Forgiving(Rules[k[1]]),
                      alert[k].status = "FIRING", alert'[k].status # "FIRING"
               PROVE  inflight # NULL /\ inflight.entity = k[2] /\ inflight' = NULL
    OBVIOUS
  <2>0. /\ ClockTyped /\ ClockInv /\ alert[k] \in AlertState
        /\ world \in WorldState /\ WorldSound(world)
    BY DEF EvalInv, IInv, TypeOK, ClockTyped, FreshInv
  <2>1. CASE alert' = alert
    BY <2>1
  <2>2. CASE Tick
    <3>1. /\ NextTick \in Int /\ clock # NULL /\ Now \in Int
          /\ Sweep(TickPairs(world), world, NextTick)
      BY <2>0, <2>2, TickAdvances DEF Tick
    <3>2. Seen(world, k, NextTick).known => Seen(world, k, NextTick).still
      <4>1. SUFFICES ASSUME Seen(world, k, NextTick).known
                     PROVE  Seen(world, k, NextTick).still
        OBVIOUS
      <4>2. \A t \in Int : Seen(world, k, t) = Seen(world, k, NextTick)
        BY QueueSeenAlike
      <4>3. PICK t \in Int : JudgedAt(k, t)
        BY <3>1, <4>1, <4>2 DEF EvalInv, SweptInv
      <4> QED BY <4>2, <4>3 DEF JudgedAt, Judged
    <3>3. alert'[k].status = "FIRING"
      BY <2>0, <3>1, <3>2, SweepIs, StillFiring
    <3> QED BY <3>3
  <2>3. CASE Settle
    <3>1. k \in EventPairs(inflight)
      BY <2>3, SweepIs DEF Settle
    <3> QED BY <2>3, <3>1 DEF Settle, EventPairs
  <2>4. CASE \E e \in Events : Receive(e)
    BY <2>1, <2>4 DEF Receive
  <2>5. CASE Raise
    BY <2>1, <2>5 DEF Raise
  <2> QED BY <2>1, <2>2, <2>3, <2>4, <2>5 DEF Next, vars
<1> QED
  BY <1>1, EveryPairIsEvaluated, PTL DEF Spec, SilenceIsNotRecovery

-----------------------------------------------------------------------------
(* The steps of Engine that evaluate, with the facts their proofs share.   *)

LEMMA TickIs ==
  ASSUME EvalInv, Tick
  PROVE  /\ NextTick \in Int /\ clock' # NULL /\ Now' = NextTick
         /\ clock # NULL /\ Now \in Int /\ Now <= NextTick
         /\ world' = world /\ world \in WorldState /\ WorldSound(world)
         /\ lastTick' = NextTick /\ lastTick \in Int
         /\ Sweep(TickPairs(world), world, NextTick)
<1>1. ClockTyped /\ ClockInv /\ TypeOK /\ FreshInv
  BY DEF EvalInv, IInv, TypeOK, ClockTyped
<1>2. lastTick \in Int
  BY <1>1 DEF ClockTyped, ClockInv, OrNull, Tick, TickDue
<1> QED
  BY <1>1, <1>2, TickAdvances DEF Tick, TypeOK, FreshInv

LEMMA SettleIs ==
  ASSUME EvalInv, Settle
  PROVE  LET t == ClockAfter(inflight.ts)
         IN  /\ t \in Int /\ clock' # NULL /\ Now' = t
             /\ clock # NULL => /\ Now \in Int /\ Now <= t
                                /\ lastTick \in Int /\ lastTick' = lastTick
                                /\ t < lastTick + TickInterval
             /\ lastTick' \in Int /\ lastTick' <= t
             /\ inflight \in Event /\ inflight.entity # NULL /\ inflight.ts <= t
             /\ world' = Apply(world, inflight)
             /\ world \in WorldState /\ WorldSound(world)
             /\ world' \in WorldState /\ WorldSound(world')
             /\ Sweep(EventPairs(inflight), world', t)
<1> DEFINE t == ClockAfter(inflight.ts)
<1>1. ClockTyped /\ ClockInv /\ TypeOK /\ FreshInv /\ IInv
  BY DEF EvalInv, IInv, TypeOK, ClockTyped
<1>2. /\ inflight # NULL /\ ~TickDue /\ AdvanceClock(inflight)
      /\ inflight' = NULL /\ inflight.entity # NULL
      /\ world' = Apply(world, inflight)
      /\ Sweep(EventPairs(inflight), world', t)
  BY DEF Settle
<1>3. /\ t \in Int /\ ClockTyped' /\ ClockInv' /\ clock' # NULL /\ Now' = t
      /\ clock # NULL => Now \in Int /\ Now <= t
  BY <1>1, <1>2, CallAdvances
<1>4. inflight \in Event /\ inflight.ts \in Int
  BY <1>1, <1>2, EventTimed DEF ClockTyped, OrNull
<1>5. world \in WorldState /\ WorldSound(world) /\ world' \in WorldState
  BY <1>1, <1>2, <1>4, ApplyTyped DEF TypeOK, FreshInv
<1>6. FreshInv'
  BY <1>1, FreshStep DEF Next
<1>7. /\ clock' = t /\ lastTick' \in Int /\ lastTick' <= t
      /\ t < lastTick' + TickInterval
  BY <1>2, <1>3 DEF AdvanceClock, ClockTyped, ClockInv, OrNull, NextTick
<1>8. inflight.ts <= t
  BY <1>1, <1>4 DEF ClockAfter, ClockTyped, OrNull
<1>9. clock # NULL => lastTick \in Int /\ lastTick' = lastTick
  BY <1>1, <1>2 DEF AdvanceClock, ClockTyped, ClockInv, OrNull
<1> HIDE DEF t
<1>10. WorldSound(world')
  BY <1>6 DEF FreshInv, WorldSound
<1>11. clock # NULL => t < lastTick + TickInterval
  BY <1>7, <1>9
<1> QED
  BY <1>2, <1>3, <1>4, <1>5, <1>7, <1>8, <1>9, <1>10, <1>11 DEF t

LEMMA RaiseIs ==
  ASSUME EvalInv, Raise
  PROVE  LET t == ClockAfter(inflight.ts)
         IN  /\ t \in Int /\ clock' # NULL /\ Now' = t
             /\ clock # NULL => /\ Now \in Int /\ Now <= t
                                /\ lastTick' = lastTick
             /\ world' = world /\ alert' = alert /\ log' = log
             /\ world \in WorldState /\ WorldSound(world)
<1>1. ClockTyped /\ ClockInv /\ TypeOK /\ FreshInv
  BY DEF EvalInv, IInv, TypeOK, ClockTyped
<1> QED
  BY <1>1, CallAdvances DEF Raise, AdvanceClock, TypeOK, FreshInv
=============================================================================
