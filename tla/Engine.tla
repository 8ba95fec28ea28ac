------------------------------- MODULE Engine -------------------------------
(***************************************************************************)
(* app/engine.py, class Engine, with the sink app/replay.py injects.       *)
(*                                                                         *)
(* Engine.process_event is split at its loop iterations: Receive hands an  *)
(* accepted event over, every Tick is one pass of the while loop of        *)
(* _advance_clock, and Settle is the rest of the call (the clock reaches   *)
(* the event, the event is applied, the entity's rules are evaluated).     *)
(* The engine is single threaded and runs the call to its end: while an    *)
(* event is in flight nothing but that event's next step is enabled.       *)
(*                                                                         *)
(* The pairs evaluated by one tick, or by one event, touch disjoint state, *)
(* so a pass over them is one simultaneous update.  log[k] is what the     *)
(* sink received of pair k: Notifier.store restricted to k, in order.      *)
(***************************************************************************)
EXTENDS Routing, RuleValidation, AlertLifecycle, Sequences

CONSTANTS Rules,          \* rule id -> rule (Engine.rules before filtering)
          TickInterval,   \* tick_interval_sec
          Events          \* the accepted events a run may hand over

RuleIds == DOMAIN Rules

EntitiesOf(rule) == IF rule.entity_type = "queue" THEN Queues ELSE Agents

\* (rule, entity) pairs an enabled rule is evaluated for.
Pairs == {k \in RuleIds \X (Queues \cup Agents) :
            /\ Rules[k[1]].enabled
            /\ k[2] \in EntitiesOf(Rules[k[1]])
            /\ AppliesTo(Rules[k[1]], k[2])}

ASSUME TickIntervalPositive == TickInterval \in Nat \ {0}
ASSUME RulesAdmitted == \A r \in RuleIds : ValidRule(Rules[r])
ASSUME ConditionsTyped ==
  \A r \in RuleIds : Rules[r].conditions \in Seq(ConditionRecord)
ASSUME EventsTyped == Events \subseteq Event
ASSUME NullIsNoEvent == NULL \notin Events
ASSUME EntitiesApart == Queues \cap Agents = {} /\ NULL \notin Queues \cup Agents

VARIABLES inflight,       \* the event process_event is working on, or NULL
          clock,          \* _clock: event-time watermark, or NULL
          lastTick,       \* _last_tick, or NULL
          world,          \* World
          alert,          \* states: AlertState per pair
          log             \* notifications delivered, per pair

vars == <<inflight, clock, lastTick, world, alert, log>>

\* Whom a notification of some rule can name.
Addressees == Agents \cup {HeadOfSupport} \cup LeadsOf(Queues)
                \cup UNION {Rules[r].recipients \cup Rules[r].escalate_to :
                             r \in RuleIds}

Notification == [kind : Kinds, ts : Int, suppressed : BOOLEAN,
                 to : SUBSET Addressees]

-----------------------------------------------------------------------------
\* The sink: route (an escalation goes to escalate_to, everything else to
\* recipients), then append to the store.
Deliver(l, k, kind, w, now) ==
  LET rule  == Rules[k[1]]
      specs == IF kind = "escalated" THEN rule.escalate_to ELSE rule.recipients
  IN  Append(l, [kind |-> kind, ts |-> now,
                 suppressed |-> Suppressed(rule, alert[k], kind, now),
                 to |-> Recipients(w, specs, k[2])])

\* Evaluate every pair of K against world w at time now.
Sweep(K, w, now) ==
  LET obs(k)  == Observe(w, Rules[k[1]], k[2], now)
      emit(k) == Emits(Rules[k[1]], alert[k], obs(k), now)
  IN  /\ alert' = [k \in Pairs |->
                     IF k \in K
                     THEN Evaluate(Rules[k[1]], alert[k], obs(k), now)
                     ELSE alert[k]]
      /\ log' = [k \in Pairs |->
                   IF k \in K /\ emit(k) # NULL
                   THEN Deliver(log[k], k, emit(k), w, now)
                   ELSE log[k]]

\* Mutant: the sweep covers the queues only.
TickPairsQueues(w) == {k \in Pairs : k[2] \in KnownEntities(w) \cap Queues}

\* The rules a tick evaluates: every pair whose entity the world knows.
TickPairs(w) == {k \in Pairs : k[2] \in KnownEntities(w)}

\* Mutant: an event that does not advance the clock evaluates nothing.
EventPairsOnTime(e) ==
  {k \in Pairs : k[2] = e.entity /\ (clock = NULL \/ e.ts > clock)}

\* The rules an event evaluates: those that apply to its entity.
EventPairs(e) == {k \in Pairs : k[2] = e.entity}

NextTick == lastTick + TickInterval

\* Mutant: the tick that falls on the event itself is left out.
TickDueStrict == /\ inflight # NULL /\ clock # NULL
                 /\ inflight.ts > clock
                 /\ NextTick < inflight.ts

\* The while loop of _advance_clock still has an iteration to run.
TickDue == /\ inflight # NULL /\ clock # NULL
           /\ inflight.ts > clock
           /\ NextTick <= inflight.ts

\* Mutant: a late event rewinds the clock.
ClockRewound(ts) == ts

\* Event time only moves forward.
ClockAfter(ts) == IF clock = NULL THEN ts ELSE IF ts > clock THEN ts ELSE clock

-----------------------------------------------------------------------------
Init == /\ inflight = NULL
        /\ clock = NULL
        /\ lastTick = NULL
        /\ world = NewWorld
        /\ alert = [k \in Pairs |-> NewAlertState]
        /\ log = [k \in Pairs |-> <<>>]

\* Mutant: the event is applied before the clock has advanced to it.
ReceiveApplying(e) == /\ inflight = NULL
                      /\ inflight' = e
                      /\ world' = IF e.entity = NULL THEN world
                                                      ELSE Apply(world, e)
                      /\ UNCHANGED <<clock, lastTick, alert, log>>

\* process_event is called with e.  Nothing is asked of the order of the
\* events: one may be older than what its entity already shows.
Receive(e) == /\ inflight = NULL
              /\ inflight' = e
              /\ UNCHANGED <<clock, lastTick, world, alert, log>>

\* Mutant: the loop forgets that it ticked.
TickAgain == /\ TickDue
             /\ Sweep(TickPairs(world), world, NextTick)
             /\ UNCHANGED <<inflight, lastTick, clock, world>>

\* One intermediate tick, against the world before the event.
Tick == /\ TickDue
        /\ lastTick' = NextTick
        /\ Sweep(TickPairs(world), world, NextTick)
        /\ UNCHANGED <<inflight, clock, world>>

\* The clock reaches the event (a late one does not rewind it).
AdvanceClock(e) ==
  /\ clock' = ClockAfter(e.ts)
  /\ lastTick' = IF clock = NULL THEN e.ts ELSE lastTick

\* The event is applied and its entity's rules are evaluated at the clock.
Settle == /\ inflight # NULL /\ ~TickDue
          /\ inflight.entity # NULL
          /\ AdvanceClock(inflight)
          /\ world' = Apply(world, inflight)
          /\ Sweep(EventPairs(inflight), world', ClockAfter(inflight.ts))
          /\ inflight' = NULL

\* An accepted event without the key of its entity: World.apply raises KeyError
\* after the clock has advanced, and the exception leaves process_event.  (A
\* key that is there with null raises nothing.)
Raise == /\ inflight # NULL /\ ~TickDue
         /\ inflight.entity = NULL
         /\ AdvanceClock(inflight)
         /\ inflight' = NULL
         /\ UNCHANGED <<world, alert, log>>

Next == \/ \E e \in Events : Receive(e)
        \/ Tick
        \/ Settle
        \/ Raise

Spec == Init /\ [][Next]_vars

\* process_event is a call of the program: once made it keeps running.
CallProgress == WF_vars(Tick) /\ WF_vars(Settle) /\ WF_vars(Raise)

FairSpec == Spec /\ CallProgress

-----------------------------------------------------------------------------
TypeOK == /\ inflight \in OrNull(Events)
          /\ clock \in OrNull(Int)
          /\ lastTick \in OrNull(Int)
          /\ world \in WorldState
          /\ alert \in [Pairs -> AlertState]
          /\ log \in [Pairs -> Seq(Notification)]

\* The time of the latest evaluation: a tick of the call in progress, or the
\* clock.
Now == IF lastTick > clock THEN lastTick ELSE clock

\* Every idle engine has run exactly the ticks that fit behind its clock: a
\* gap of any length between two events is swept at every interval.
TicksCaughtUp ==
  /\ clock = NULL <=> lastTick = NULL
  /\ inflight = NULL /\ clock # NULL => /\ lastTick <= clock
                                        /\ clock < NextTick

\* process_event's docstring: nothing is judged by data "from the future".
\* Whenever rules are evaluated at Now, the world holds only data no later.
NoFutureData ==
  /\ \A q \in Queues : world.queues[q] # NULL =>
       clock # NULL /\ world.queues[q].last_ts <= Now
  /\ \A a \in Agents : world.agents[a] # NULL =>
       /\ clock # NULL /\ world.agents[a].last_ts <= Now
       /\ world.agents[a].state_since # NULL =>
            world.agents[a].state_since <= Now

\* The golden replay test's promise for one pair: an episode opens with one
\* fire, escalates at most once and closes with one resolve; no double fire,
\* no resolve and no escalation of an alert that is not open.
Episodic(l) ==
  \A i \in DOMAIN l :
    LET before == IF i = 1 THEN "resolved" ELSE l[i - 1].kind
    IN  /\ l[i].kind = "fired" <=> before = "resolved"
        /\ l[i].kind = "escalated" => before = "fired"

EpisodesWellFormed == \A k \in Pairs : Episodic(log[k])

Open(l) == l # <<>> /\ l[Len(l)].kind # "resolved"

EscalatedLast(l) == l # <<>> /\ l[Len(l)].kind = "escalated"

\* The open alerts a reader reconstructs from the store (server.py's
\* _open_alerts_for_rule, the digest, the browser) are those the engine is in.
Shows(l, st) == /\ st.status = "FIRING" <=> Open(l)
                /\ st.escalated <=> EscalatedLast(l)

StoreShowsOpenAlerts == \A k \in Pairs : Shows(log[k], alert[k])

\* "quiet fire => quiet resolve", and a quiet episode does not escalate:
\* whoever was not told of a fire is told nothing of its end.
QuietThroughout(l) ==
  \A i \in DOMAIN l :
    /\ l[i].kind # "fired" => l[i].suppressed = l[i - 1].suppressed
    /\ l[i].kind = "escalated" => ~l[i].suppressed

QuietEpisodesStayQuiet == \A k \in Pairs : QuietThroughout(log[k])

\* The entries a cooldown counts from: fires and resolves the subscriber heard.
Pings(l) == {i \in DOMAIN l : l[i].kind # "escalated" /\ ~l[i].suppressed}

\* cooldown_sec, "min gap between audible fires per entity": an audible fire
\* keeps the gap to every earlier audible fire and resolve of its pair, with
\* any number of suppressed episodes in between.
KeepsGap(l, gap) ==
  \A i, j \in Pings(l) :
    j < i /\ l[i].kind = "fired" => l[i].ts - l[j].ts >= gap

CooldownRespected ==
  \A k \in Pairs : KeepsGap(log[k], Rules[k[1]].cooldown_sec)

\* The store is chronological and never ahead of the evaluation time, although
\* late events arrive and ticks run behind the event that causes them.
InOrder(l) == \A i, j \in DOMAIN l : i < j => l[i].ts <= l[j].ts

NotAfter(l, t) == \A i \in DOMAIN l : l[i].ts <= t

StoreInOrder ==
  \A k \in Pairs :
    /\ InOrder(log[k])
    /\ log[k] # <<>> => clock # NULL /\ NotAfter(log[k], Now)

\* What a clear threshold is for: whatever meets the threshold meets it too.
\* validate_rule_input does not look at it, and an alert of a rule that has it
\* on the other side ends at the next evaluation of the data that fired it.
Forgiving(rule) ==
  \A i \in DOMAIN rule.conditions :
    LET c     == rule.conditions[i]
        clear == ClearThreshold(c)
    IN  \/ clear = c.threshold
        \/ /\ c.comparator \in {">", ">="}
           /\ clear[1] * c.threshold[2] <= c.threshold[1] * clear[2]
        \/ /\ c.comparator \in {"<", "<="}
           /\ clear[1] * c.threshold[2] >= c.threshold[1] * clear[2]

\* No condition of the rule turns false by the passing of time alone.
Lasting(rule) == \A i \in DOMAIN rule.conditions :
                   \/ rule.conditions[i].metric \in QUEUE_METRICS
                   \/ rule.conditions[i].comparator \in {">", ">="}

\* Between two calls no alert is left firing against data that says it is
\* over: known data at the clock still holds against the clear thresholds.
FiringIsJustified ==
  inflight = NULL => \A k \in Pairs :
    LET rule == Rules[k[1]]
        obs  == Observe(world, rule, k[2], clock)
    IN  Forgiving(rule) /\ Lasting(rule)
          => (alert[k].status = "FIRING" /\ obs.known => obs.still)

\* The tick "is not optional": between two calls no timer is overdue by a tick
\* interval.  A pending alert with known data has not outlived sustained_for,
\* nor an open, audible, unescalated one escalate_after, by that much.
TimersAreSwept ==
  inflight = NULL /\ clock # NULL => \A k \in Pairs :
    LET rule == Rules[k[1]]
        st   == alert[k]
    IN  Observe(world, rule, k[2], clock).known =>
          /\ st.status = "PENDING" =>
               clock - st.pending_since < rule.sustained_for_sec + TickInterval
          /\ /\ st.status = "FIRING" /\ ~st.fire_was_suppressed
             /\ ~st.escalated /\ rule.escalate_after_sec # NULL
             => clock - st.firing_since < rule.escalate_after_sec + TickInterval

\* "so duration-based rules fire close to when they crossed the line, not
\* whenever the next event happens to show up": a rule that need not be held,
\* and whose condition was true a tick interval ago and is true, is firing.
DurationAlertsArePrompt ==
  inflight = NULL /\ clock # NULL => \A k \in Pairs :
    LET rule == Rules[k[1]]
        activeAt(t) == Observe(world, rule, k[2], t).active
    IN  /\ rule.sustained_for_sec = 0 /\ Forgiving(rule)
        /\ activeAt(clock - TickInterval) /\ activeAt(clock)
        => alert[k].status = "FIRING"

\* routing.py's "fallback: someone owns it": every notification that is not
\* suppressed names somebody, whatever is known of the entity's queues.
SomeoneIsTold ==
  \A k \in Pairs : \A i \in DOMAIN log[k] :
    ~log[k][i].suppressed => log[k][i].to # {}

\* "silence must not auto-resolve an alert": a queue's alert ends only while
\* an event of that queue is settled, never on a tick.
SilenceIsNotRecovery ==
  [][\A k \in Pairs :
       /\ k[2] \in Queues /\ Forgiving(Rules[k[1]])
       /\ alert[k].status = "FIRING" /\ alert'[k].status # "FIRING"
       => inflight # NULL /\ inflight.entity = k[2] /\ inflight' = NULL]_vars

-----------------------------------------------------------------------------
(* What a subscriber makes of the store: the phase, start and last audible *)
(* fire or recovery of a pair, read off its notifications alone.           *)

PhaseOf(l) ==
  IF ~Open(l) THEN "quiet"
  ELSE IF l[Len(l)].kind = "escalated" THEN "escalated"
  ELSE IF l[Len(l)].suppressed THEN "muted" ELSE "audible"

SinceOf(l) ==
  IF ~Open(l) THEN NULL
  ELSE IF l[Len(l)].kind = "escalated" THEN l[Len(l) - 1].ts ELSE l[Len(l)].ts

PingOf(l) ==
  IF Pings(l) = {} THEN NULL
  ELSE l[CHOOSE i \in Pings(l) : \A j \in Pings(l) : j <= i].ts

Promise == INSTANCE AlertContract WITH
  Subscriptions <- Pairs,
  Cooldown      <- [k \in Pairs |-> Rules[k[1]].cooldown_sec],
  EscalateAfter <- [k \in Pairs |-> Rules[k[1]].escalate_after_sec],
  Never         <- NULL,
  now           <- IF clock = NULL THEN NULL ELSE Now,
  phase         <- [k \in Pairs |-> PhaseOf(log[k])],
  since         <- [k \in Pairs |-> SinceOf(log[k])],
  ping          <- [k \in Pairs |-> PingOf(log[k])]

\* The engine keeps the promise of its noise controls to every subscriber.
KeepsContract == Promise!Contract

\* A call of process_event returns: the while loop of _advance_clock ends.
CallsReturn == inflight # NULL ~> inflight = NULL
=============================================================================
