# Intraday notifications: a TLA+ verification project

These modules model the notification system in `src/`: the engine that turns a
feed of queue snapshots, agent state changes and adherence checks into alerts,
the pipeline that feeds it, the rule service around it and the page on top.
TLC checks them on small instances. TLAPS proves every safety property of the
passing runs, and the two refinements, for every set of rules, entities, events,
lines, requests and handlers that meets the assumptions of section 4.

`PROJECT.json` lists the components, the runs, the source lines behind each
definition, the hazards, the findings and the theorems. This file explains
them.

## 1. The system

```
 events.jsonl -> Ingestor.accept -> Engine.process_event -> sink -> Notifier.store
                 (ingest.py)        (engine.py, world.py)   (replay.py, routing.py)
                                                                  |
 rules table <-> endpoints (server.py, db.py) -- _last_run <------+--> digest
                      |
                 static/index.html (one page, one person, several personas)
```

| Component | State it keeps | Operations | What makes it correct |
|---|---|---|---|
| Ingestor | `_seen_ids`, `_entity_watermark`, `IngestStats` | `accept`, `read_jsonl` | an id is accepted once, whatever comes under it; the lines of one key (`queue_id`, or else `agent_id`, whatever the type) in time order; every line is counted and every drop is in the audit trail |
| World | last snapshot per queue, `AgentState` per agent | `apply`, `resolve_metric` | an entity shows its newest data; missing data is unknown and not zero; a queue keeps its last value through silence |
| Engine | `_clock`, `_last_tick`, `states` per (rule, entity) | `process_event`, which runs `_advance_clock`, `tick`, `_evaluate` | sustained-for, hysteresis, cooldown, escalation and resolution as `models.py` promises; timers swept although no event announces them; nothing judged by data of the future |
| Router and digest | none | `recipients`, `build_digest` | somebody owns each alert; the digest agrees with the engine |
| Replay pipeline | the notifications of one run | `run_replay` | only a line that ingest passed reaches the engine, and only between two calls; the sink routes and stores every notification |
| Rule validation | none | `validate_rule_input` | every stored rule can be evaluated and announced |
| Rule service | the `rules` table, `_last_run`; the table outlives the process | POST, PATCH, DELETE `/rules`, first visit of an agent, POST `/replay`, seeding at import | overlapping requests lose no row, store no invalid rule and leave no alert open |
| Presets | none (`DEFAULT_RULES`, `QUEUE_LEADS`) | | the rules make sense together, not only one by one |
| Browser page | persona, notifications, view, tray, status strip, replay button | boot, select, replay, rule buttons, tray | a person sees their own notifications and a strip that agrees with the server; the replay button comes back |

How they interact. `run_replay` calls `accept` and then `process_event`, and
reads the next line only when the call is back. The engine calls the injected
sink, which routes against the world of that moment and appends to the store.
The endpoints run on a pool of threads over one SQLite file, and publish the
result of a replay in `_last_run`: the notifier, then the digest, a text computed
from the notifier's store at that moment.
The page sends one request per await, and its handlers interleave there.

Where it is hard:

* Two notions of time. Events carry event time, may be late, and may leave gaps
  that the engine sweeps tick by tick, judging each tick by the world *before*
  the event.
* Noise controls that interact: a cooldown anchored at the last audible fire or
  recovery, quiet episodes, escalation, hysteresis, unknown data.
* The store is read back by the DELETE endpoint, by the digest and by the page;
  each of them reconstructs the open alerts from notifications alone, and DELETE
  appends to it.
* An entity is named by one key to the ingestor and by another to the world.
* Read-then-write requests on a shared table; a process that may stop while it
  seeds; a module-level result that requests use while others replace it.
* Async handlers that read the selected persona before or after an await.

## 2. The modules

| Module | Models | How it corresponds |
|---|---|---|
| `Models` | `models.py` | comparators, clear threshold, `applies_to`. A float is a ratio `<<n, d>>`, compared exactly |
| `World` | `world.py` | a world is a value; the operators take one and return one, so that a caller chooses which world judges a rule. `ResolveMetric` gives `NULL` for unknown. `Observe` is what `_evaluate` sees of a pair |
| `RuleValidation` | `rule_validation.py` | `ValidRule` is "no errors". It is all `Engine` assumes of its rules |
| `AlertLifecycle` | `_evaluate`, `_fire`, `_resolve`, `_maybe_escalate` | each branch is a guard (`Fires`, `Resolves`, `Escalates`, `Pends`, `Clears`) and an effect on an `AlertState` |
| `Routing` | `class Router` | recipient specs to sets of people, against a world |
| `Engine` | `class Engine` and the sink | `Receive` hands an event over, `Tick` is one pass of the catch-up loop, `Settle` the rest of the call, `Raise` the KeyError of an event without its entity |
| `AlertContract` | what the noise controls promise | abstract: phase, start and last ping of each pair, no engine in it |
| `Digest` | `build_digest` | the loop of the code, pair by pair, as a recursive function |
| `EngineAudit` | nothing of the code | an observer with timers of its own |
| `AgentAudit` | nothing of the code | an observer who reads the agents' events: the queues an agent was last reported in (`roster`), the report that fixed the start of its violation (`drift`) |
| `EngineProofs`, `ContractProofs`, `WorldProofs` | nothing of the code | the theorems about `Engine`: its store, the contract it implements, its world and deadlines |
| `AuditProofs`, `DigestProofs`, `ReplayProofs`, `RuleServiceProofs`, `BrowserProofs` | nothing of the code | the theorems about the modules they are named after |
| `Ingest` | `class Ingestor` | `accept` as one action per way to return or raise. A line of any type may carry a `queue_id`, an `agent_id`, both or none, missing or null: `Key` is the id `accept` looks at, `EntityOf` the one the world does |
| `Replay` | `run_replay` | `Ingest` and `Engine` composed, with the ways a replay aborts: a line that is not JSON, a `ts` that is no time, an event without its entity, a recipient that cannot be printed |
| `Defaults` | `rules_default.py`, the org map of `routing.py` | the six presets and the leads at their real values, for `Replay` to run with |
| `RuleService` | `server.py` over `db.py` | requests split at their SQL statements and list operations; `Start`, `SeedRule`, `Crash`; `Listed` is what GET `/notifications` answers, and a digest is the set of alerts its text says are ongoing (`Ongoing`) |
| `Browser` | `static/index.html` | handlers, `boot` among them, split at their awaits; the server answers in any order, may fail, may restart |
| `MC*` | nothing of the code | instances for TLC |

Five choices need a word.

*A call is split although nothing runs beside it.* The engine has one thread,
so while an event is in flight only that call's next step is enabled. The split
shows every intermediate world to the invariants and lets TLC check that the
loop ends.

*A pass over the pairs is one update.* The pairs of a tick touch disjoint
states, so their order cannot be told from the states. `log[k]` is
`Notifier.store` restricted to pair `k`: the order within a pair is kept, the
order between pairs at one instant is not.

*`Engine` asks nothing of the order of its events.* One may be older than what
its entity already shows, since `accept` lets such an event through when it
carries another entity's key. What ingest does for the order is the subject of
`WorldIsNewest` and of run `agent_regresses`.

*History variables never feed back.* `trueSince`, `steadySince`, `roster` and
`drift` (audits), `newest` and `crossed` (`Replay`), `overlapped`
(`RuleService`) and `calm`, `failed`, `missed` (`Browser`) are read by
properties only, and no guard mentions them.

*`FindOpen` is one step.* The loop of `_open_alerts_for_rule` walks a list that
only grows and reads it to its end, so its result is that of the store at the
moment the loop ends.

## 3. What is checked

Runs that must pass:

| Run | Question | Properties |
|---|---|---|
| `engine_queue` | Do the noise controls hold for a queue whose snapshots come in any order, late ones included? | `TicksCaughtUp`, `EpisodesWellFormed`, `StoreShowsOpenAlerts`, `QuietEpisodesStayQuiet`, `CooldownRespected`, `StoreInOrder`, `DigestMatchesEngine`, `SilenceIsNotRecovery`, and `KeepsContract`: `Engine` implements `AlertContract` |
| `engine_agents` | Do duration rules, which no event announces, fire and resolve in time, judged by no future data? Does a reader of the events alone agree with when adherence alerts fire and with who is told? | `TypeOK`, `NoFutureData`, `FiringIsJustified`, `TimersAreSwept`, `DurationAlertsArePrompt`, `DriftIsNoticed`, `DriftIsReal`, `RightLeadIsTold` |
| `engine_audit` | Does an observer that ignores the engine's timers agree with when it fires, and do calls return? | `SustainedBeforeFire`, `FiresOnceSustained`, `CallsReturn` |
| `replay` | With the default rules, and lines late, repeated, reused, doubly keyed or broken: does the world follow the newest data of every entity whose lines are checked under its own id, is every line counted, does nothing but a passed line move the engine, and is a queue in breach always also at risk? | `IngestTypeOK`, `WorldIsNewest`, `EveryLineCounted`, `FeedsEngine`, `BreachImpliesAtRisk` |
| `rule_service` | Do overlapping requests, replays and crashes keep the table valid, lose or resurrect no row, close every alert of a deleted rule for every reader, and serve a digest that names every alert still open in the notifications they serve? | `ServiceTypeOK`, `RowsValid`, `RowLife`, `DeleteClosesAlerts`, `DigestNamesOpenAlerts` |
| `browser` | Does a person who waits for each handler see their own notifications and a status strip that agrees with the server, and does the replay button come back? | `PatientPersonaSeesOwnFeed`, `PatientStripIsCurrent`, `OneReplayPerPage`, `ReplayButtonReturns` |

Runs in which the code contradicts what the repository says of it. Each has an
entry under `findings` with the lines on both sides.

| Run | The text | What the run shows |
|---|---|---|
| `missing_fields` | missing fields are "tolerated here" | one accepted line without its entity id raises in `World.apply` and ends the replay |
| `agent_regresses` | "An event older than what we've already processed for that entity would regress state, so we drop it" | an agent's event that carries a `queue_id` is checked against the queue's watermark, and takes the agent back in time |
| `nobody_told` | "an alert nobody receives is a bug" | a queue rule addressed to `agent:self` alone is valid and tells nobody |
| `lost_patch` | "Only fields present in the request JSON are changed" | the second of two overlapping PATCHes puts back the first one's field |
| `personal_rule` | "Return this agent's personal adherence-nudge rule" | a rule created under a name that slugs to `adherence_<agent>` takes that id, and every later visit of the agent is answered with it |
| `stale_persona` | "never shows stale data from a previously-selected persona" | two switches answered in the other order leave the first persona's notifications |

Some things the texts leave open are kept as the code has them, and are neither
a finding nor a property.

* Validation does not look at `clear_threshold`: one on the far side of its
  threshold (`> 10`, cleared at 13) is admitted, and an alert of such a rule
  fires and is resolved by the next tick from the same data. The properties
  about when an alert starts and ends therefore speak of rules whose clear
  thresholds are met by whatever meets the threshold (`Forgiving`), as all
  presets' are; `FiringIsJustified` also of rules that no passing of time alone
  makes false (`Lasting`), which a `<` on a duration is not.
* An episode whose fire fell in a cooldown never escalates, even when it outlives
  the cooldown: the contract makes quiet episodes quiet to their end.
* Those an escalation reached are not told of the recovery, which goes to the
  rule's recipients, resolved anew. `golden_expected.txt` has it so.
* An id that comes again is a duplicate, whatever it brings. In `events.jsonl`
  `evt_01HXYZ050` comes with two timestamps, and the newer one is lost.
* The digest is that of the end of the replay. A DELETE that comes later closes
  alerts the digest goes on naming. And two replays that overlap may leave the
  notifications of one and the digest of the other until the next replay.

### Bounds, and why they are enough

* Engine runs. Times run from 0 to `MaxTime` (6 or 7) with a tick every 2
  seconds; `sustained_for`, `cooldown` and `escalate_after` are between 0 and 4
  and are not multiples of one another. So a tick falls on an event, beside one
  and several times before one; each timer expires on a tick, on an event and
  between them. Nothing is received once a pair has `MaxLog` notifications (3 or
  4), which leaves room for an episode that fires, escalates and resolves, and
  for the next one inside or outside its cooldown. Arrivals are in any order,
  each at most `MaxLate` = 2 seconds, a whole tick interval, behind the clock,
  be that behind another entity's event or behind one of its own. Events with a
  missing id are among them.
* `MCEngineQueue` has two rules on one queue: one with hysteresis and every
  control, one with two conditions and a cooldown only. Four snapshots: over
  the line, between the two thresholds, recovered, and one with a null.
  Rules concern entities one at a time and share only the clock and the world,
  so a second queue would add interleavings of events that differ only in when
  the clock moves, which the missing-id events provide.
* `MCEngineAgents` has one agent, two queues of which one has no lead, and the
  three ways a violation can start: with a given start, with none, and
  continued. A disabled rule is there to be ignored. An agent's last queues
  change, are repeated and are left out, with ticks between.
* `MCReplay` reads up to `MaxLines` = 5 lines out of sixteen, each possibly
  repeatedly: late, equal in time, malformed in three ways, unreadable, without
  entity, with a null one, for a queue, for an agent, for an agent with a
  `queue_id` (`evt_12`), and one id with two contents (`evt_10`); the file may
  break off at any line. The two runs that look for something else leave out
  what would end the replay first (`MCKeyedLines`). A null `queue_id` is a queue
  of its own to the world (`None`), and so is a null `agent_id`. Rules, leads and
  tick interval are the real ones; the utilisations lie on every side of the
  presets' lines and of the clear threshold, one is unknown, and the gaps are
  long enough for a breach to escalate and for an agent to run out of the 10
  minutes. Five lines let a watermark be set, a late line meet it, an id be
  repeated, another key cross it and the file end, all in one run.
* `MCRuleService` has two requests at a time (an anomaly of the table needs
  two), two default rules, an id that collides, an agent's own rule, patches
  that are valid alone and not together, `MaxRuns` = 2 replays per process (a
  digest left over from the run before shows only when there are two, and a
  DELETE between or after them), and a replay that leaves one alert fired and suppressed, one escalated and one
  closed. Clients
  are symmetric: no definition orders or names them.
* `MCBrowser` has two personas of different roles and two handlers at a time.
  It is not bounded otherwise: the page has finitely many states, because
  of the notifications only whose they are and whether an alert is open in
  them is kept. The head of support takes the lead's place in
  `stale_persona`, for the digest card.

`CHECK_DEADLOCK FALSE` stands where a run may end: an engine or a feed at its
bound, and a replay that is done or aborted. The rule service and the page
never stop, and their runs check deadlock.

### Fairness

* `CallProgress` (`Tick`, `Settle`, `Raise` weakly fair): a call that was made
  keeps running, as a thread of Python does. Nothing says that a further event
  comes. `CallsReturn` needs it and says that the catch-up loop ends.
* `Settles` (`Answer` or `Continue` of each handler weakly fair): `fetch` settles, with an answer
  or an error, and the event loop runs a handler whose answer is there. Nobody
  is obliged to click. `ReplayButtonReturns` needs it.

The other liveness questions of the engine are about a deadline and are stated
as safety: at most a tick late (`TimersAreSwept`, `FiresOnceSustained`,
`DurationAlertsArePrompt`).

## 4. What is proved

Every invariant and action property of the passing runs is a theorem: the run
shows it on a small instance, the theorem for all values of the constants that
meet the assumptions below, that is for every set of rules that validation
admits, all queues, agents, leads and typed events in any order, every positive
tick interval, lines with any ids and repetitions, any number of requests and
of handlers. The exceptions are the two liveness properties.

| Module | Theorem | Property |
|---|---|---|
| `EngineProofs` | `TypeCorrect` | `TypeOK` |
| | `TicksAreCaughtUp` | `TicksCaughtUp` |
| | `EpisodesAreWellFormed` | `EpisodesWellFormed` |
| | `StoreIsFaithful` | `StoreShowsOpenAlerts` |
| | `QuietStaysQuiet` | `QuietEpisodesStayQuiet` |
| | `CooldownHolds` | `CooldownRespected` |
| | `StoreIsInOrder` | `StoreInOrder` |
| `ContractProofs` | `EngineKeepsContract` | `KeepsContract` (refinement of `AlertContract`) |
| `WorldProofs` | `NothingIsFromTheFuture` | `NoFutureData` |
| | `OpenAlertsAreJustified` | `FiringIsJustified` |
| | `TimersAreNotOverdue` | `TimersAreSwept` |
| | `DurationAlertsFirePromptly` | `DurationAlertsArePrompt` |
| | `SilenceEndsNothing` | `SilenceIsNotRecovery` |
| `DigestProofs` | `DigestTellsTheEngine` | `DigestMatchesEngine` |
| `AuditProofs` | `AlertsAreSustained` | `SustainedBeforeFire` |
| | `SustainedAlertsFire` | `FiresOnceSustained` |
| | `TheRightLeadIsTold` | `RightLeadIsTold` |
| | `DriftAlertsAreReal` | `DriftIsReal` |
| | `DriftGetsNoticed` | `DriftIsNoticed` |
| `ReplayProofs` | `IngestIsTyped` | `IngestTypeOK` |
| | `ReplayFeedsEngine` | `FeedsEngine` (refinement of `Engine`) |
| | `WorldFollowsTheNewest` | `WorldIsNewest` |
| | `LinesAreCounted` | `EveryLineCounted` |
| | `BreachIsAtRisk` | `BreachImpliesAtRisk` |
| `RuleServiceProofs` | `ServiceIsTyped` | `ServiceTypeOK` |
| | `StoredRulesAreValid` | `RowsValid` |
| | `RowsLiveByRequests` | `RowLife` |
| | `DigestFollowsTheRun` | `DigestNamesOpenAlerts` |
| | `DeletedRulesLeaveNothingOpen` | `DeleteClosesAlerts` |
| `BrowserProofs` | `ButtonFollowsReplay` | `OneReplayPerPage` |
| | `PatientPersonaReadsOwn` | `PatientPersonaSeesOwnFeed` |
| | `PatientStripFollowsRun` | `PatientStripIsCurrent` |

### Assumptions

All are named, in the module that declares the constants, and TLC evaluates
them in the runs.

* `None` is nothing else: `NullIsNoNumber`, `NullIsNoKind`, `NullIsNoState`,
  `NullIsNoEvent`, `NullIsNoDrift`, `NullIsNoRequest`, `GarbledIsNoTime`.
* Shapes that the code's annotations and request models give: `ConditionsTyped`,
  `EventsTyped`, `DraftsTyped`, `PatchesTyped`, `ReplayStoreTyped`,
  `RolesGiven`; and `IdsTyped`: what a line has under `queue_id` is a queue and
  under `agent_id` an agent, or is not there.
* One that no code makes sure of: `LinesAreEvents`, that the *payload* of a line
  `accept` lets through is typed as the feed's is. `accept` looks at `event_id`,
  `type`, `ts` and the two ids only; for these nothing is assumed but their
  types. A payload that is not typed (a string for a number, say) makes Python
  raise somewhere, which these modules do not follow.
* What the code makes sure of or fixes: `RulesAdmitted` (every rule passed
  `ValidRule`), `TickIntervalPositive`, `DefaultsValid` and `TemplateGiven` (of
  `DEFAULT_RULES`). `EntitiesApart` (no id is both a queue and an agent) is so
  in the feed and the org map.

Two theorems carry a hypothesis of their own. `BreachIsAtRisk` is about a table
that holds the two presets as they are (`PresetsKept`), whatever else it holds.
`DeletedRulesLeaveNothingOpen` is about a replay that told the readers of a fire
of its recovery (`ToldOrOpen`). It holds of the 25 notifications the code makes
of `events.jsonl` and of the store of the runs, and would fail for a feed in
which an agent changes queues between fire and recovery: then the recovery goes
to other leads, and a DELETE has nothing open to close.

Three properties except something by their own words. `WorldIsNewest` says
nothing of an entity that a line named under another key, or that was checked
under another's (`crossed`), and counts a line under a known id as unread.
`DigestNamesOpenAlerts` says nothing once two replays overlapped. The page's two
are about a person who waits (`calm`), and about the time after a load or a
reload that succeeded.

### The store (`EngineProofs`)

None of the store's properties is inductive. That the next fire keeps the
cooldown depends on the `AlertState` remembering a time no earlier than any
ping in the store; that a resolve is quiet when the fire was, on
`fire_was_suppressed` agreeing with the last entry; that the store stays
ordered, on evaluation times never going back, although late events arrive and
ticks run behind the clock. So the invariant is

    IInv == TypeOK /\ ClockInv /\ StoreInv

where `ClockInv` places the last tick relative to the clock and to the event in
flight, and `StoreInv` holds `PairInv` of each pair: the log is episodic,
quiet throughout, in order and keeps its gaps, and the `AlertState` shows what
the log shows.

The argument has three layers. `FireKeeps`, `ResolveKeeps`, `EscalateKeeps` and
`UnseenKeeps` treat one branch of one evaluation; `EvaluateKeeps` puts the
branches together. `SweepKeeps` lifts it to a pass over any set of pairs.
`TickAdvances` and `CallAdvances` show that an evaluation is never earlier than
the one before. `StepInv` combines them action by action.

### The contract (`ContractProofs`)

The refinement mapping reads notifications alone, the engine decides by its
`AlertState`. `MirrorInv` ties them together: the last ping in the log is the
cooldown's anchor, the log's episode starts at `firing_since`. Then each branch
of an evaluation is one action of the contract for its pair (`EvaluateMoves`),
and a pass of the engine is one `Pass`.

### The world and the deadlines (`WorldProofs`)

A metric is constant in time or grows with it (`MetricInTime`), so that what an
evaluation saw is still so until the data changes, and a rule that forgives
keeps an alert it has fired (`ActiveIsStill`, `StillLasts`). `EvalInv` adds to
`IInv` that the world holds no future data, that no timer runs ahead, and
(`SweptInv`) that each pair with known data is as some evaluation of the present
world since the last tick left it (`Judged`). The deadlines follow from
`SweptInv` between two calls, when the last tick is less than an interval away.

### The observers (`AuditProofs`)

An observed run is a run of `Engine`, so `EvalInv` holds in it. `HeldInv`: a
pending timer never starts before the observer's. `SteadyInv`: what was found
true without interruption is pending since no later, or firing. `NotedInv`: an
agent's queues in the world are the roster, its violation starts where the notes
say. `NoticedInv`: the pair was evaluated since the last tick under a violation
the notes know.

### The digest (`DigestProofs`)

The digest folds over a store of any length. That its recursive function has a
value (`Computed`) and agrees with itself on the beginning of a longer store
(`Beginning`) is shown by a least counterexample: a set of natural numbers has a
least element (`LeastNumber`), from the library's facts on well-founded
relations. What remains is one equation, `DigestGrows`, and an invariant per pair
(`Tells`).

### The pipeline (`ReplayProofs`)

That each step of `Replay` is a step of `Engine` or leaves it alone needs no
invariant: `Engine` takes its events in any order, so what is to be shown is that
a line is handed over between two calls only and that all else leaves the engine
be. So every theorem about `Spec` is one about replays. How far an entity has
come is kept twice, as `_entity_watermark` and as the world's `last_ts`:
`FeedInv` says that both are the newest time read, but for the event in flight
and for the entities that were crossed. `CountInv` counts the lines.
`BreachIsAtRisk` adds to `EvalInv` that both pairs of a queue are always
evaluated together.

### The rule service (`RuleServiceProofs`)

`ServiceInv` says of the table that each row is typed and valid, and of each
request in progress what it carries: a PATCH or a create a rule it has
validated, a DELETE the places of the fires it found. Validity survives
overlapping requests because a write is a whole row. `DigestInv`: a
store only loses open alerts, since other requests append nothing but
resolutions; so a digest built from it at any moment lies between what is open
now and what was open at the end of the replay (`Names`), and without overlap
the one replay under way builds it from the notifier it published.
`CloseInv`: what a DELETE has found stays all there is to close, since a store
only grows, and what other requests append only closes alerts (`OnlyCloses`).

### The page (`BrowserProofs`)

`PageInv` says which handler waits for which request and that the replay button
is off for exactly one of them. A person who waits has one handler in progress
(`OneTask`), and a view renderMain waits for is that of the persona selected
(`MainInv`), so that it repairs the page after a load that failed. Then either
what is shown is their own, or that handler is about to load it (`FeedInv`), and
the strip is that of the run, or is about to be read again (`StripInv`).

### Checked by TLC only

* Liveness (`CallsReturn`, `ReplayButtonReturns`): fairness and ENABLED are out
  of the prover's reach. Of the first the theorem `TicksAreCaughtUp` and the
  lemma `TickAdvances` give the measure: each pass brings the last tick one
  interval nearer to the event.
* The properties that the violation runs refute. Each is false of the code, so
  there is nothing to prove.

## 5. What is not modelled, and why

* Message texts, severities, notification ids, console output, the audit file:
  no control depends on them, but that printing may raise (`Printable`).
  `NotificationRepo` and `RuleRepo.set_enabled` have no caller but the tests.
* Timestamps are integers. Naive and aware datetimes are not told apart; a
  timestamp that cannot be parsed is `Garbled`.
* Floats are exact ratios; rounding at a threshold is not modelled.
* Two more exceptions of `World.apply` (no `new_state`, an unreadable
  `violation_started_at`) end a replay the way the missing id does, which
  stands for them. Other payloads of the wrong types are not followed (see
  `LinesAreEvents`).
* On which thread of the pool a SQLite connection is opened and used is a
  matter of FastAPI and `sqlite3`.
* Of the page: the badge, the forms, whether there is a digest to show, and the
  layout. A page loaded when the server already has a run says "No data loaded"
  until its own first replay, which is why `PatientStripIsCurrent` starts there.
  Every view fails with a 409 before the first replay; `failed` stands for it,
  until renderMain has shown a view.
* Of the server: the listing of rules, the vocabulary and the identities, which
  read and change nothing. GET `/notifications` is modelled (`Listed`).
* The clock of the machine is used nowhere but as the timestamp of a DELETE's
  notices; that value is left out.

## 6. Plan

Done, in this order: `Models`, `World`, `RuleValidation`, `AlertLifecycle`,
`Routing`, `Engine` with its invariants; `AlertContract` and the refinement;
`EngineAudit`; `Ingest` and `Replay`; `EngineProofs`; `Digest`; `RuleService`;
`Browser`; then the presets (`Defaults`) under the pipeline, the agents'
observer (`AgentAudit`), the readers of a run, its digest and the personal
rules in `RuleService`, and the status strip in `Browser`.

Then raw lines with both ids, reused ids and the digest as a text of its moment.
Then the proofs: `ContractProofs`, `WorldProofs`, `AuditProofs`, `ReplayProofs`,
`RuleServiceProofs`, `BrowserProofs` and `DigestProofs`.

Next, in this order:

1. An abstract specification of the rules table (whole rows, atomic requests),
   with `RuleService` shown to implement it but for lost updates.
2. The termination measure of the catch-up loop as an action property: each
   `Tick` brings `NextTick` nearer to the event in flight by one interval.
3. What the leads of `Defaults` add: that no alert of the presets is addressed to
   nobody, whatever the events.

Left aside: `RuleService` composed with `Browser`, for the rule that a visit on
behalf of the wrong persona creates. Each side is modelled, and the product is
too large for TLC to say more than the two say apart.
