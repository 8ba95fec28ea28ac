---------------------------- MODULE ReplayProofs ----------------------------
(***************************************************************************)
(* Theorems about run_replay, for every feed (any lines, in any order, any *)
(* number of times), every set of rules and every tick interval: each step *)
(* is one of the engine or leaves it alone, the world follows the newest   *)
(* lines of each entity that is checked by its own id, and every line is   *)
(* accounted for.                                                          *)
(*                                                                         *)
(* The two stages keep the same fact twice: _entity_watermark in Ingest and*)
(* last_ts in World.  FeedInv says that they agree between two calls, and  *)
(* differ by the event in flight during one, for an entity no line crossed.*)
(***************************************************************************)
EXTENDS Defaults, WorldProofs

-----------------------------------------------------------------------------
(* Ingest. *)

\* The ids of a line.
LEMMA IdsOfLine ==
  ASSUME NEW raw \in Lines
  PROVE  /\ Key(raw) \in Queues \cup Agents \cup {NULL}
         /\ EntityOf(raw) \in Queues \cup Agents \cup {NULL}
  BY IdsTyped DEF Key, EntityOf, OrNull

\* An accepted line, as an event.
LEMMA LineTyped ==
  ASSUME NEW raw \in Lines, ~Malformed(raw), raw.ts # Garbled
  PROVE  /\ EventOf(raw) \in Events /\ EventOf(raw) \in Event
         /\ EventOf(raw).ts = raw.ts /\ EventOf(raw).entity = EntityOf(raw)
         /\ raw.ts \in Int /\ raw.event_id \in EventIds
<1> DEFINE e == EventOf(raw)
<1>1. e \in Events /\ e \in Event
  BY LinesAreEvents, EventsTyped
<1>2. {"ts", "entity"} \subseteq DOMAIN e
  BY <1>1 DEF Event
<1>3. e.ts = raw.ts /\ e.entity = EntityOf(raw)
  BY <1>2 DEF EventOf
<1>4. e.ts \in Int
  BY <1>1 DEF Event
<1>5. raw.event_id \in EventIds
  BY DEF Malformed, EventIds
<1> QED
  BY <1>1, <1>3, <1>4, <1>5

\* Whatever accept makes of a line, its records keep their types.
LEMMA IngestKeepsType ==
  ASSUME IngestTypeOK, NEW raw \in Lines,
         Accept(raw) \/ Reject(raw) \/ RaiseOnTs(raw)
  PROVE  IngestTypeOK'
<1>1. ~Malformed(raw) => raw.event_id \in EventIds
  BY DEF Malformed, EventIds
<1>2. CASE Accept(raw)
  <2>1. ~Malformed(raw) /\ raw.ts # Garbled
    BY <1>2 DEF Accept, New
  <2>2. raw.ts \in Int /\ Key(raw) \in Queues \cup Agents \cup {NULL}
    BY <2>1, LineTyped, IdsOfLine
  <2>3. watermark' \in [Queues \cup Agents -> OrNull(Int)]
    BY <1>2, <2>2 DEF Accept, IngestTypeOK, OrNull
  <2>4. stats' \in IngestStats
    BY <1>2 DEF Accept, IngestTypeOK, IngestStats
  <2>5. seen' \subseteq EventIds
    BY <1>1, <1>2, <2>1 DEF Accept, IngestTypeOK
  <2> QED BY <2>3, <2>4, <2>5 DEF IngestTypeOK
<1>3. CASE SkipMalformed(raw)
  BY <1>3 DEF SkipMalformed, IngestTypeOK, IngestStats
<1>4. CASE DropDuplicate(raw)
  <2> DEFINE trail == Append(stats.dropped_events, raw.event_id)
             count == stats.duplicates + 1
  <2>1. trail \in Seq(EventIds) /\ count \in Nat
    BY <1>1, <1>4 DEF DropDuplicate, New, IngestTypeOK, IngestStats
  <2>2. stats' = [stats EXCEPT !.duplicates = count, !.dropped_events = trail]
    BY <1>4 DEF DropDuplicate, IngestTypeOK, IngestStats
  <2> HIDE DEF trail, count
  <2>3. stats' \in IngestStats
    BY <2>1, <2>2 DEF IngestTypeOK, IngestStats
  <2> QED BY <1>1, <1>4, <2>3 DEF DropDuplicate, New, IngestTypeOK
<1>5. CASE DropStale(raw)
  <2> DEFINE trail == Append(stats.dropped_events, raw.event_id)
             count == stats.stale_dropped + 1
  <2>1. trail \in Seq(EventIds) /\ count \in Nat
    BY <1>1, <1>5 DEF DropStale, New, IngestTypeOK, IngestStats
  <2>2. stats' = [stats EXCEPT !.stale_dropped = count, !.dropped_events = trail]
    BY <1>5 DEF DropStale, IngestTypeOK, IngestStats
  <2> HIDE DEF trail, count
  <2>3. stats' \in IngestStats
    BY <2>1, <2>2 DEF IngestTypeOK, IngestStats
  <2> QED BY <1>1, <1>5, <2>3 DEF DropStale, New, IngestTypeOK
<1>6. CASE RaiseOnTs(raw)
  BY <1>1, <1>6 DEF RaiseOnTs, New, IngestTypeOK
<1> QED
  BY <1>2, <1>3, <1>4, <1>5, <1>6 DEF Reject

\* Ingest's watermarks have the types the code's annotations give them.
THEOREM IngestIsTyped == ReplaySpec => []IngestTypeOK
<1>1. ReplayInit => IngestTypeOK
  <2>1. <<>> \in Seq(EventIds)
    OBVIOUS
  <2> QED BY <2>1 DEF ReplayInit, IngestInit, IngestTypeOK, IngestStats, OrNull
<1>2. IngestTypeOK /\ [ReplayNext]_replayVars => IngestTypeOK'
  <2> SUFFICES ASSUME IngestTypeOK, [ReplayNext]_replayVars PROVE IngestTypeOK'
    OBVIOUS
  <2>1. CASE \E raw \in Lines : ReadLine(raw)
    BY <2>1, IngestKeepsType DEF ReadLine, PassOn, Skip, AbortIngest
  <2>2. CASE UNCHANGED ingestVars
    BY <2>2 DEF ingestVars, IngestTypeOK
  <2> QED BY <2>1, <2>2
             DEF ReplayNext, Process, AbortRead, AbortEngine, EndOfFile, replayVars
<1> QED
  BY <1>1, <1>2, PTL DEF ReplaySpec

-----------------------------------------------------------------------------
(* The two records of how far an entity has come. *)

FeedInv ==
  /\ IngestTypeOK
  /\ \A x \in (Queues \cup Agents) \ crossed :
       /\ newest[x] = watermark[x]
       /\ watermark[x] = IF inflight # NULL /\ x = inflight.entity
                         THEN inflight.ts ELSE LastSeen(world, x)

\* The world knows the entity of an event it was given, at the event's time.
LEMMA SeenOnceApplied ==
  ASSUME NEW w \in WorldState, WorldSound(w), NEW e \in Event, e.entity # NULL,
         NEW x \in Queues \cup Agents
  PROVE  LastSeen(Apply(w, e), x) = IF x = e.entity THEN e.ts ELSE LastSeen(w, x)
<1>1. CASE x # e.entity
  BY <1>1, ApplyElsewhere DEF LastSeen
<1>2. CASE x = e.entity /\ e.type = "queue_snapshot"
  <2>1. x \in Queues /\ e.ts \in Int /\ e.snap \in [SnapshotFields -> OrNull(Int)]
    BY <1>2 DEF Event, OrNull
  <2>2. Apply(w, e).queues[x] = [last_ts |-> e.ts, snap |-> e.snap]
    BY <1>2, <2>1 DEF Apply, ApplySnapshot, WorldState
  <2>3. Apply(w, e).queues[x] # NULL
    BY <2>1, <2>2, NullIsNoState DEF QueueState
  <2> QED BY <1>2, <2>1, <2>2, <2>3 DEF LastSeen
<1>3. CASE x = e.entity /\ e.type # "queue_snapshot"
  <2>1. PICK b \in AgentState : Apply(w, e) = [w EXCEPT !.agents[e.entity] = b]
    BY <1>3, AgentApplied
  <2>2. x \in Agents /\ x \notin Queues
    BY <1>3, AgentApplied, EntitiesApart
  <2>3. Apply(w, e).agents[x] = b /\ b # NULL
    BY <1>3, <2>1, <2>2, NullIsNoState DEF WorldState
  <2>4. Apply(w, e).agents[x].last_ts = e.ts
    BY <1>3, <2>2, ApplyHere
  <2> QED BY <1>3, <2>2, <2>3, <2>4 DEF LastSeen
<1> QED
  BY <1>1, <1>2, <1>3

\* What accept makes of a line that has no place in time, or none of its own,
\* leaves every watermark as it is.
LEMMA UndatedKeeps ==
  ASSUME NEW raw \in Lines, ~Dated(raw), Accept(raw) \/ Reject(raw) \/ RaiseOnTs(raw)
  PROVE  watermark' = watermark
  BY DEF Dated, Accept, Reject, SkipMalformed, DropDuplicate, DropStale, RaiseOnTs

\* A dated line is accepted, and is then its key's watermark, or is older than
\* that.
LEMMA DatedMoves ==
  ASSUME IngestTypeOK, NEW raw \in Lines, Dated(raw),
         Accept(raw) \/ Reject(raw) \/ RaiseOnTs(raw),
         NEW x \in Queues \cup Agents
  PROVE  /\ raw.ts \in Int /\ watermark[x] \in Int \cup {NULL}
         /\ x # Key(raw) => watermark'[x] = watermark[x]
         /\ x = Key(raw) =>
              \/ /\ watermark'[x] = raw.ts
                 /\ watermark[x] # NULL => watermark[x] <= raw.ts
              \/ /\ watermark'[x] = watermark[x]
                 /\ watermark[x] # NULL /\ raw.ts < watermark[x]
<1>1. /\ raw.ts \in Int /\ watermark[x] \in Int \cup {NULL} /\ x # NULL
      /\ watermark \in [Queues \cup Agents -> Int \cup {NULL}]
  BY LineTyped, EntitiesApart DEF Dated, New, IngestTypeOK, OrNull
<1>2. Accept(raw) \/ DropStale(raw)
  BY DEF Dated, New, Reject, SkipMalformed, DropDuplicate, RaiseOnTs
<1>3. CASE Accept(raw)
  <2>1. ~Stale(raw)
    BY <1>3 DEF Accept
  <2>2. watermark' = IF Key(raw) = NULL THEN watermark
                     ELSE [watermark EXCEPT ![Key(raw)] = raw.ts]
    BY <1>3 DEF Accept
  <2>3. x # Key(raw) => watermark'[x] = watermark[x]
    BY <1>1, <2>2
  <2>4. x = Key(raw) => /\ watermark'[x] = raw.ts
                        /\ watermark[x] # NULL => watermark[x] <= raw.ts
    BY <1>1, <2>1, <2>2 DEF Stale
  <2> QED BY <1>1, <2>3, <2>4
<1>4. CASE DropStale(raw)
  BY <1>1, <1>4 DEF DropStale, Stale
<1> QED
  BY <1>2, <1>3, <1>4

\* Of an entity checked by its own id, the newest time read is the watermark: a
\* late line is not newer, and an accepted one is what the watermark becomes.
LEMMA NewestIsWatermark ==
  ASSUME FeedInv, NEW raw \in Lines, NextLine(raw),
         Accept(raw) \/ Reject(raw) \/ RaiseOnTs(raw),
         NEW x \in (Queues \cup Agents) \ crossed'
  PROVE  /\ x \notin crossed /\ newest'[x] = watermark'[x]
         /\ Dated(raw) => (x = EntityOf(raw) <=> x = Key(raw))
<1>1. /\ x \in Queues \cup Agents
      /\ newest'[x] = IF /\ Dated(raw) /\ EntityOf(raw) = x
                         /\ newest[x] = NULL \/ newest[x] < raw.ts
                      THEN raw.ts ELSE newest[x]
      /\ crossed' = IF Dated(raw) THEN crossed \cup Crosses(raw) ELSE crossed
  BY DEF NextLine
<1>2. x \notin crossed
  BY <1>1
<1>3. newest[x] = watermark[x]
  BY <1>1, <1>2 DEF FeedInv
<1>4. CASE ~Dated(raw)
  BY <1>1, <1>2, <1>3, <1>4, UndatedKeeps
<1>5. CASE Dated(raw)
  <2>1. x = EntityOf(raw) <=> x = Key(raw)
    BY <1>1, <1>5 DEF Crosses
  <2>2. newest'[x] = watermark'[x]
    BY <1>1, <1>3, <1>5, <2>1, DatedMoves, NullIsNoNumber DEF FeedInv
  <2> QED BY <1>2, <2>1, <2>2
<1> QED
  BY <1>4, <1>5

LEMMA FeedInit == ReplayInit => EvalInv /\ FeedInv
<1> SUFFICES ASSUME ReplayInit PROVE EvalInv /\ FeedInv
  OBVIOUS
<1>1. EvalInv
  BY InitInv, FreshInit, EvalInit DEF ReplayInit, EvalInv
<1>2. IngestTypeOK
  <2>1. <<>> \in Seq(EventIds)
    OBVIOUS
  <2> QED BY <2>1 DEF ReplayInit, IngestInit, IngestTypeOK, IngestStats, OrNull
<1>3. \A x \in Queues \cup Agents : LastSeen(world, x) = NULL
  BY DEF ReplayInit, Init, NewWorld, LastSeen
<1> QED
  BY <1>1, <1>2, <1>3 DEF ReplayInit, Init, IngestInit, FeedInv

\* A step of run_replay is a step of the engine, or of the rest alone.
LEMMA ReplaySteps ==
  ASSUME [ReplayNext]_replayVars
  PROVE  [Next]_vars
<1>1. ASSUME NEW raw \in Lines, PassOn(raw) PROVE Next
  <2>1. Accept(raw) /\ Receive(EventOf(raw))
    BY <1>1 DEF PassOn
  <2>2. EventOf(raw) \in Events
    BY <2>1, LineTyped DEF Accept, New
  <2> QED BY <2>1, <2>2 DEF Next
<1>2. Process \/ AbortEngine => Next
  BY DEF Process, AbortEngine, Next
<1>3. EndOfFile \/ AbortRead \/ UNCHANGED replayVars
        \/ (\E raw \in Lines : Skip(raw) \/ AbortIngest(raw))
        => UNCHANGED vars
  BY DEF EndOfFile, AbortRead, Skip, AbortIngest, replayVars
<1> QED
  BY <1>1, <1>2, <1>3 DEF ReplayNext, ReadLine

LEMMA FeedStep ==
  ASSUME EvalInv, FeedInv, [ReplayNext]_replayVars
  PROVE  FeedInv'
<1>1. CASE \E raw \in Lines : ReadLine(raw)
  <2>1. PICK raw \in Lines : ReadLine(raw)
    BY <1>1
  <2>2. /\ NextLine(raw)
        /\ Accept(raw) \/ Reject(raw) \/ RaiseOnTs(raw)
        /\ inflight = NULL /\ world' = world
    BY <2>1 DEF ReadLine, PassOn, Skip, AbortIngest, NextLine, Receive, vars
  <2>3. IngestTypeOK' /\ IngestTypeOK
    BY <2>2, IngestKeepsType DEF FeedInv
  <2>4. ASSUME NEW x \in (Queues \cup Agents) \ crossed'
        PROVE  /\ newest'[x] = watermark'[x]
               /\ watermark'[x] = IF inflight' # NULL /\ x = inflight'.entity
                                  THEN inflight'.ts ELSE LastSeen(world', x)
    <3>1. /\ x \notin crossed /\ newest'[x] = watermark'[x]
          /\ Dated(raw) => (x = EntityOf(raw) <=> x = Key(raw))
      BY <2>2, <2>4, NewestIsWatermark
    <3>2. x \in Queues \cup Agents /\ watermark[x] = LastSeen(world, x)
      BY <2>2, <2>4, <3>1 DEF FeedInv
    <3>3. CASE PassOn(raw)
      <4>1. /\ Dated(raw) /\ inflight' = EventOf(raw)
            /\ watermark' = IF Key(raw) = NULL THEN watermark
                            ELSE [watermark EXCEPT ![Key(raw)] = raw.ts]
        BY <3>3 DEF PassOn, Accept, Dated, Receive
      <4>2. /\ EventOf(raw).ts = raw.ts /\ EventOf(raw).entity = EntityOf(raw)
            /\ EventOf(raw) \in Events
        BY <4>1, LineTyped DEF Dated, New
      <4>3. watermark'[x] = IF x = Key(raw) THEN raw.ts ELSE watermark[x]
        BY <2>3, <3>2, <4>1, EntitiesApart DEF IngestTypeOK
      <4>4. inflight' # NULL
        BY <4>1, <4>2, NullIsNoEvent
      <4> QED BY <2>2, <3>1, <3>2, <4>1, <4>2, <4>3, <4>4
    <3>4. CASE Skip(raw) \/ AbortIngest(raw)
      <4>1. watermark' = watermark /\ inflight' = inflight
        BY <3>4 DEF Skip, AbortIngest, Reject, SkipMalformed, DropDuplicate,
                    DropStale, RaiseOnTs, vars
      <4> QED BY <2>2, <3>1, <3>2, <4>1
    <3> QED BY <2>1, <3>3, <3>4 DEF ReadLine
  <2> QED BY <2>3, <2>4 DEF FeedInv
<1>2. CASE /\ UNCHANGED <<ingestVars, history>>
           /\ \/ Settle \/ Raise
              \/ inflight' = inflight /\ world' = world
  <2>1. IngestTypeOK'
    BY <1>2 DEF ingestVars, FeedInv, IngestTypeOK
  <2>2. newest' = newest /\ watermark' = watermark /\ crossed' = crossed
    BY <1>2 DEF ingestVars, history
  <2>3. ASSUME NEW x \in (Queues \cup Agents) \ crossed
        PROVE  watermark'[x] = IF inflight' # NULL /\ x = inflight'.entity
                               THEN inflight'.ts ELSE LastSeen(world', x)
    <3>0. watermark[x] = IF inflight # NULL /\ x = inflight.entity
                         THEN inflight.ts ELSE LastSeen(world, x)
      BY DEF FeedInv
    <3>1. CASE inflight' = inflight /\ world' = world
      BY <2>2, <3>0, <3>1
    <3>2. CASE Settle
      <4>1. /\ inflight' = NULL /\ inflight # NULL /\ inflight \in Event
            /\ inflight.entity # NULL /\ world' = Apply(world, inflight)
            /\ world \in WorldState /\ WorldSound(world)
        BY <3>2, SettleIs DEF Settle
      <4>2. PICK e \in Event : e = inflight
        BY <4>1
      <4> QED BY <2>2, <3>0, <4>1, <4>2, SeenOnceApplied
    <3>3. CASE Raise
      <4>1. /\ inflight' = NULL /\ inflight # NULL /\ inflight.entity = NULL
            /\ world' = world
        BY <3>3 DEF Raise
      <4> QED BY <2>2, <3>0, <4>1, EntitiesApart
    <3> QED BY <1>2, <3>1, <3>2, <3>3
  <2> QED BY <2>1, <2>2, <2>3 DEF FeedInv
<1>3. Tick \/ UNCHANGED vars => inflight' = inflight /\ world' = world
  BY DEF Tick, vars
<1> QED
  BY <1>1, <1>2, <1>3
     DEF ReplayNext, Process, AbortRead, AbortEngine, EndOfFile, replayVars

\* FeedInv and the engine's own invariant hold of every replay.
LEMMA FeedAlways == ReplaySpec => [](EvalInv /\ FeedInv)
<1>1. ReplayInit => EvalInv /\ FeedInv
  BY FeedInit
<1>2. (EvalInv /\ FeedInv) /\ [ReplayNext]_replayVars => (EvalInv /\ FeedInv)'
  <2> SUFFICES ASSUME EvalInv, FeedInv, [ReplayNext]_replayVars
               PROVE  EvalInv' /\ FeedInv'
    OBVIOUS
  <2>1. [Next]_vars
    BY ReplaySteps
  <2>2. EvalInv'
    BY <2>1, StepInv, FreshStep, EvalStep DEF EvalInv
  <2> QED BY <2>2, FeedStep
<1> QED
  BY <1>1, <1>2, PTL DEF ReplaySpec

\* Every step of run_replay is one of the engine or leaves it alone, whatever
\* the order of the lines and the ids they carry, so that every theorem about
\* Spec is one about replays.
THEOREM ReplayFeedsEngine == ReplaySpec => FeedsEngine
<1>1. ReplayInit => Init
  BY DEF ReplayInit
<1>2. [ReplayNext]_replayVars => [Next]_vars
  BY ReplaySteps
<1> QED
  BY <1>1, <1>2, PTL DEF ReplaySpec, FeedsEngine, Spec

\* Between two calls the world shows each entity that no line crossed at the
\* newest time read of it, in lines whose event id was new.
THEOREM WorldFollowsTheNewest == ReplaySpec => []WorldIsNewest
<1>1. FeedInv => WorldIsNewest
  BY DEF FeedInv, WorldIsNewest
<1> QED
  BY <1>1, FeedAlways, PTL

-----------------------------------------------------------------------------
(* The summary. *)

\* What makes EveryLineCounted inductive: the types of the counters, and that
\* an aborted replay reads no further line.
CountInv == IngestTypeOK /\ lines \in Nat /\ EveryLineCounted

\* An id in the trail of dropped events was seen.
LEMMA Trailed ==
  ASSUME NEW trail \in Seq(EventIds), NEW id \in EventIds, NEW ids,
         \A i \in DOMAIN trail : trail[i] \in ids
  PROVE  /\ Len(Append(trail, id)) = Len(trail) + 1
         /\ \A i \in DOMAIN Append(trail, id) :
              Append(trail, id)[i] \in ids \cup {id}
  BY Appended

LEMMA CountStep ==
  ASSUME CountInv, [ReplayNext]_replayVars
  PROVE  CountInv'
<1>0. stats \in IngestStats /\ stats.dropped_events \in Seq(EventIds)
  BY DEF CountInv, IngestTypeOK, IngestStats
<1>9. /\ lines \in Nat /\ stats.accepted \in Nat /\ stats.duplicates \in Nat
      /\ stats.stale_dropped \in Nat /\ stats.malformed \in Nat
  BY DEF CountInv, IngestTypeOK, IngestStats
<1>1. ASSUME NEW raw \in Lines, ReadLine(raw)
      PROVE  CountInv'
  <2>1. /\ status = "reading" /\ inflight = NULL /\ lines' = lines + 1
        /\ Accept(raw) \/ Reject(raw) \/ RaiseOnTs(raw)
    BY <1>1 DEF ReadLine, PassOn, Skip, AbortIngest, NextLine
  <2>10. lines' = lines + 1
    BY <2>1
  <2>2. IngestTypeOK' /\ lines' \in Nat
    BY <1>0, <2>1, IngestKeepsType DEF CountInv
  <2>3. /\ lines = stats.accepted + stats.duplicates + stats.stale_dropped
                     + stats.malformed
        /\ Len(stats.dropped_events) = stats.duplicates + stats.stale_dropped
    BY <2>1 DEF CountInv, EveryLineCounted
  <2>11. PICK acc \in Nat, dup \in Nat, old \in Nat, bad \in Nat :
              /\ acc = stats.accepted /\ dup = stats.duplicates
              /\ old = stats.stale_dropped /\ bad = stats.malformed
    BY <1>9
  <2>12. lines' = acc + dup + old + bad + 1
    BY <2>3, <2>10, <2>11
  <2>9. \A i \in DOMAIN stats.dropped_events : stats.dropped_events[i] \in seen
    BY <2>1 DEF CountInv, EveryLineCounted
  <2>4. CASE PassOn(raw)
    <3>1. /\ status' = status /\ seen' = seen \cup {raw.event_id}
          /\ stats' = [stats EXCEPT !.accepted = stats.accepted + 1]
      BY <2>1, <2>4 DEF PassOn, Accept
    <3>2. /\ stats'.accepted = stats.accepted + 1 /\ stats'.duplicates = stats.duplicates
          /\ stats'.stale_dropped = stats.stale_dropped
          /\ stats'.malformed = stats.malformed
          /\ stats'.dropped_events = stats.dropped_events
      BY <1>0, <3>1 DEF IngestStats
    <3>3. lines' = stats'.accepted + stats'.duplicates + stats'.stale_dropped
                     + stats'.malformed
      <4>1. lines' = (acc + 1) + dup + old + bad
        BY <2>12
      <4> QED BY <2>11, <3>2, <4>1
    <3>4. Len(stats'.dropped_events) = stats'.duplicates + stats'.stale_dropped
      BY <2>3, <3>2
    <3>5. \A i \in DOMAIN stats'.dropped_events : stats'.dropped_events[i] \in seen'
      BY <2>9, <3>1, <3>2
    <3>6. stats'.accepted > 0
      BY <1>9, <3>2
    <3> QED BY <2>1, <2>2, <3>1, <3>3, <3>4, <3>5, <3>6 DEF CountInv, EveryLineCounted
  <2>5. CASE AbortIngest(raw)
    BY <2>2, <2>5 DEF AbortIngest, CountInv, EveryLineCounted
  <2>6. CASE Skip(raw) /\ SkipMalformed(raw)
    <3>1. /\ status' = status /\ seen' = seen /\ inflight' = inflight
          /\ stats' = [stats EXCEPT !.malformed = stats.malformed + 1]
      BY <2>6 DEF Skip, SkipMalformed, vars
    <3>2. /\ stats'.accepted = stats.accepted /\ stats'.duplicates = stats.duplicates
          /\ stats'.stale_dropped = stats.stale_dropped
          /\ stats'.malformed = stats.malformed + 1
          /\ stats'.dropped_events = stats.dropped_events
      BY <1>0, <3>1 DEF IngestStats
    <3>3. lines' = stats'.accepted + stats'.duplicates + stats'.stale_dropped
                     + stats'.malformed
      <4>1. lines' = acc + dup + old + (bad + 1)
        BY <2>12
      <4> QED BY <2>11, <3>2, <4>1
    <3>4. Len(stats'.dropped_events) = stats'.duplicates + stats'.stale_dropped
      BY <2>3, <3>2
    <3>5. \A i \in DOMAIN stats'.dropped_events : stats'.dropped_events[i] \in seen'
      BY <2>9, <3>1, <3>2
    <3> QED BY <2>1, <2>2, <3>1, <3>3, <3>4, <3>5 DEF CountInv, EveryLineCounted
  <2>7. CASE Skip(raw) /\ DropDuplicate(raw)
    <3> DEFINE trail == Append(stats.dropped_events, raw.event_id)
    <3>1. /\ status' = status /\ seen' = seen /\ inflight' = inflight
          /\ raw.event_id \in seen
          /\ stats' = [stats EXCEPT !.duplicates = stats.duplicates + 1,
                                    !.dropped_events = trail]
      BY <1>0, <2>7 DEF Skip, DropDuplicate, vars, IngestStats
    <3>2. Len(trail) = Len(stats.dropped_events) + 1
      BY <1>0, <2>9, <3>1, Trailed DEF CountInv, IngestTypeOK
    <3>3. \A i \in DOMAIN trail : trail[i] \in seen
      BY <1>0, <2>9, <3>1, Trailed DEF CountInv, IngestTypeOK
    <3> HIDE DEF trail
    <3>4. /\ stats'.accepted = stats.accepted /\ stats'.malformed = stats.malformed
          /\ stats'.stale_dropped = stats.stale_dropped
          /\ stats'.duplicates = stats.duplicates + 1
      BY <1>0, <3>1 DEF IngestStats
    <3>7. stats'.dropped_events = trail
      BY <1>0, <3>1 DEF IngestStats
    <3>5. lines' = stats'.accepted + stats'.duplicates + stats'.stale_dropped
                     + stats'.malformed
      <4>1. lines' = acc + (dup + 1) + old + bad
        BY <2>12
      <4> QED BY <2>11, <3>4, <4>1
    <3>6. Len(trail) = stats'.duplicates + stats'.stale_dropped
      BY <1>9, <2>3, <3>2, <3>4
    <3> QED BY <2>1, <2>2, <3>1, <3>3, <3>5, <3>6, <3>7 DEF CountInv, EveryLineCounted
  <2>8. CASE Skip(raw) /\ DropStale(raw)
    <3> DEFINE trail == Append(stats.dropped_events, raw.event_id)
    <3>1. /\ status' = status /\ inflight' = inflight
          /\ seen' = seen \cup {raw.event_id} /\ raw.event_id \in EventIds
          /\ stats' = [stats EXCEPT !.stale_dropped = stats.stale_dropped + 1,
                                    !.dropped_events = trail]
      BY <1>0, <2>8 DEF Skip, DropStale, New, Malformed, EventIds, vars,
                        IngestStats
    <3>2. Len(trail) = Len(stats.dropped_events) + 1
      BY <1>0, <2>9, <3>1, Trailed
    <3>3. \A i \in DOMAIN trail : trail[i] \in seen'
      BY <1>0, <2>9, <3>1, Trailed
    <3> HIDE DEF trail
    <3>4. /\ stats'.accepted = stats.accepted /\ stats'.malformed = stats.malformed
          /\ stats'.stale_dropped = stats.stale_dropped + 1
          /\ stats'.duplicates = stats.duplicates
      BY <1>0, <3>1 DEF IngestStats
    <3>7. stats'.dropped_events = trail
      BY <1>0, <3>1 DEF IngestStats
    <3>5. lines' = stats'.accepted + stats'.duplicates + stats'.stale_dropped
                     + stats'.malformed
      <4>1. lines' = acc + dup + (old + 1) + bad
        BY <2>12
      <4> QED BY <2>11, <3>4, <4>1
    <3>6. Len(trail) = stats'.duplicates + stats'.stale_dropped
      BY <1>9, <2>3, <3>2, <3>4
    <3> QED BY <2>1, <2>2, <3>1, <3>3, <3>5, <3>6, <3>7 DEF CountInv, EveryLineCounted
  <2> QED BY <1>1, <2>4, <2>5, <2>6, <2>7, <2>8 DEF ReadLine, Skip, Reject
<1>2. CASE /\ UNCHANGED <<ingestVars, lines>>
           /\ \/ status' = "aborted"
              \/ status # "aborted" /\ inflight' = NULL
              \/ status' = status /\ (inflight' = NULL \/ inflight' = inflight)
  BY <1>2 DEF CountInv, EveryLineCounted, IngestTypeOK, ingestVars
<1> QED
  BY <1>1, <1>2
     DEF ReplayNext, Process, Tick, Settle, AbortRead, AbortEngine, EndOfFile,
         replayVars, vars

\* Every line run_replay reads is counted once, and the audit trail names all
\* that were dropped.
THEOREM LinesAreCounted == ReplaySpec => []EveryLineCounted
<1>1. ReplayInit => CountInv
  <2>1. ReplayInit => IngestTypeOK
    BY FeedInit DEF FeedInv
  <2> QED BY <2>1 DEF ReplayInit, Init, IngestInit, CountInv, EveryLineCounted
<1>2. CountInv /\ [ReplayNext]_replayVars => CountInv'
  BY CountStep
<1>3. CountInv => EveryLineCounted
  BY DEF CountInv
<1> QED
  BY <1>1, <1>2, <1>3, PTL DEF ReplaySpec

-----------------------------------------------------------------------------
(* The presets: at risk and breach watch the same ratio of a queue, and the *)
(* line at which a breach is over (19/20) lies above the one at which the   *)
(* queue is at risk (4/5).                                                  *)

AtRisk(q) == <<"sla_at_risk", q>>
Breach(q) == <<"sla_breach", q>>

\* The rules table holds the two presets as they are; what else it holds, and
\* what the leads and the tick interval are, does not matter.
PresetsKept == /\ {"sla_at_risk", "sla_breach"} \subseteq RuleIds
               /\ Rules["sla_at_risk"] = SlaAtRisk
               /\ Rules["sla_breach"] = SlaBreach

LEMMA PresetsAre ==
  ASSUME PresetsKept, NEW q \in Queues
  PROVE  /\ AtRisk(q) \in Pairs /\ Breach(q) \in Pairs
         /\ AtRisk(q)[2] = q /\ Breach(q)[2] = q
         /\ Rules[AtRisk(q)[1]] = SlaAtRisk /\ Rules[Breach(q)[1]] = SlaBreach
<1>1. /\ AtRisk(q)[1] = "sla_at_risk" /\ Breach(q)[1] = "sla_breach"
      /\ AtRisk(q)[2] = q /\ Breach(q)[2] = q
  BY DEF AtRisk, Breach
<1>2. /\ SlaAtRisk.enabled /\ SlaAtRisk.entity_type = "queue"
      /\ SlaAtRisk.entity_ids = NULL
      /\ SlaBreach.enabled /\ SlaBreach.entity_type = "queue"
      /\ SlaBreach.entity_ids = NULL
  BY DEF SlaAtRisk, SlaBreach, Preset
<1>3. AtRisk(q) \in RuleIds \X (Queues \cup Agents)
      /\ Breach(q) \in RuleIds \X (Queues \cup Agents)
  BY DEF PresetsKept, AtRisk, Breach
<1> QED
  BY <1>1, <1>2, <1>3 DEF PresetsKept, Pairs, EntitiesOf, AppliesTo

\* What the two presets ask of the ratio, and that neither has to be held.
LEMMA PresetsAsk ==
  /\ SlaAtRisk.sustained_for_sec = 0 /\ SlaBreach.sustained_for_sec = 0
  /\ DOMAIN SlaAtRisk.conditions = {1} /\ DOMAIN SlaBreach.conditions = {1}
  /\ LET a == SlaAtRisk.conditions[1]
         b == SlaBreach.conditions[1]
     IN  /\ a.metric = b.metric /\ a.metric = "sla_utilization"
         /\ a.comparator = ">=" /\ b.comparator = ">="
         /\ a.threshold = <<4, 5>> /\ ClearThreshold(a) = <<4, 5>>
         /\ b.threshold = <<1, 1>> /\ ClearThreshold(b) = <<19, 20>>
  /\ Forgiving(SlaAtRisk) /\ Forgiving(SlaBreach)
<1> DEFINE a == SlaAtRisk.conditions[1]
           b == SlaBreach.conditions[1]
<1>1. /\ SlaAtRisk.sustained_for_sec = 0 /\ SlaBreach.sustained_for_sec = 0
      /\ SlaAtRisk.conditions = <<Condition("sla_utilization", ">=", <<4, 5>>)>>
      /\ SlaBreach.conditions = <<[Condition("sla_utilization", ">=", Whole(1))
                                     EXCEPT !.clear_threshold = <<19, 20>>]>>
  BY DEF SlaAtRisk, SlaBreach, Preset
<1>2. /\ DOMAIN SlaAtRisk.conditions = {1} /\ DOMAIN SlaBreach.conditions = {1}
      /\ a = Condition("sla_utilization", ">=", <<4, 5>>)
      /\ b = [Condition("sla_utilization", ">=", Whole(1))
                EXCEPT !.clear_threshold = <<19, 20>>]
  BY <1>1
<1> HIDE DEF a, b
<1>3. /\ a.metric = b.metric /\ a.metric = "sla_utilization"
      /\ a.comparator = ">=" /\ b.comparator = ">="
      /\ a.threshold = <<4, 5>> /\ a.clear_threshold = NULL
      /\ b.threshold = <<1, 1>> /\ b.clear_threshold = <<19, 20>>
  BY <1>2 DEF Condition, Whole
<1>4. <<19, 20>> # NULL
  BY NullIsNoNumber DEF Ratio
<1>5. ClearThreshold(a) = <<4, 5>> /\ ClearThreshold(b) = <<19, 20>>
  BY <1>3, <1>4 DEF ClearThreshold
<1>6. ClearThreshold(b)[1] * b.threshold[2] <= b.threshold[1] * ClearThreshold(b)[2]
  BY <1>3, <1>5
<1>7. Forgiving(SlaAtRisk)
  BY <1>2, <1>3, <1>5 DEF Forgiving, a
<1>8. Forgiving(SlaBreach)
  BY <1>2, <1>3, <1>6 DEF Forgiving, b
<1> QED
  BY <1>1, <1>2, <1>3, <1>5, <1>7, <1>8 DEF a, b

\* One evaluation of both presets, of the same data: whatever leaves the breach
\* open leaves the warning open.
LEMMA PresetsJudged ==
  ASSUME PresetsKept, EvalInv, NEW K, NEW w \in WorldState, WorldSound(w),
         NEW t \in Int, Sweep(K, w, t), clock # NULL => Now \in Int /\ Now <= t,
         NEW q \in Queues, AtRisk(q) \in K <=> Breach(q) \in K,
         alert[Breach(q)].status = "FIRING" => alert[AtRisk(q)].status = "FIRING",
         alert'[Breach(q)].status = "FIRING"
  PROVE  alert'[AtRisk(q)].status = "FIRING"
<1> DEFINE a == AtRisk(q)
           b == Breach(q)
<1>0. /\ a \in Pairs /\ b \in Pairs /\ a[2] = q /\ b[2] = q
      /\ Rules[a[1]] = SlaAtRisk /\ Rules[b[1]] = SlaBreach
  BY PresetsAre
<1>1. IInv /\ TimedInv
  BY DEF EvalInv
<1> HIDE DEF a, b
<1>2. Value(w, a, 1, t) = Value(w, b, 1, t)
  <2>1. q \in KnownEntities(w) => q \in Queues
    OBVIOUS
  <2> QED BY <1>0, PresetsAsk DEF Value, ResolveMetric
<1>3. Seen(w, a, t).known <=> Seen(w, b, t).known
  BY <1>0, <1>2, PresetsAsk, SeenIs
<1>4. CASE b \notin K
  <2>1. alert'[a] = alert[a] /\ alert'[b] = alert[b]
    BY <1>0, <1>4, SweepIs DEF a, b
  <2> QED BY <2>1 DEF a, b
<1>5. CASE b \in K /\ ~Seen(w, b, t).known
  <2>1. \A rule, st, obs : ~obs.known => Evaluate(rule, st, obs, t) = st
    BY DEF Evaluate, Fires, Resolves, Escalates, Pends, Clears
  <2>2. alert'[a] = alert[a] /\ alert'[b] = alert[b]
    BY <1>0, <1>3, <1>5, <2>1, SweepIs DEF a, b
  <2> QED BY <2>2 DEF a, b
<1>6. CASE b \in K /\ Seen(w, b, t).known
  <2>1. /\ Judged(SlaBreach, alert'[b], Seen(w, b, t), t)
        /\ Judged(SlaAtRisk, alert'[a], Seen(w, a, t), t)
    BY <1>0, <1>1, <1>3, <1>6, SweepJudges DEF a, b
  <2>2. Seen(w, b, t).still
    BY <2>1, PresetsAsk DEF Judged, b
  <2>3. Compare(Value(w, b, 1, t), ">=", <<19, 20>>)
    BY <1>0, <2>2, PresetsAsk, SeenIs
  <2>4. Value(w, b, 1, t) \in Ratio
    BY <1>0, <1>6, PresetsAsk, KnownInTime
  <2>5. \A v \in Ratio : Compare(v, ">=", <<19, 20>>) => Compare(v, ">=", <<4, 5>>)
    BY DEF Compare, Ratio
  <2>6. Seen(w, a, t).active
    BY <1>0, <1>2, <1>3, <1>6, <2>3, <2>4, <2>5, PresetsAsk, SeenIs
  <2> QED BY <2>1, <2>6, PresetsAsk DEF Judged, a
<1> QED
  BY <1>4, <1>5, <1>6

\* A queue in breach is also at risk, whatever else is in the rules table and
\* whatever the feed does.
THEOREM BreachIsAtRisk ==
  ASSUME PresetsKept
  PROVE  ReplaySpec => []BreachImpliesAtRisk
<1>1. Init => BreachImpliesAtRisk
  BY PresetsAre DEF Init, BreachImpliesAtRisk, NewAlertState, AtRisk, Breach
<1>2. EvalInv /\ BreachImpliesAtRisk /\ [Next]_vars => BreachImpliesAtRisk'
  <2> SUFFICES ASSUME EvalInv, BreachImpliesAtRisk, [Next]_vars, NEW q \in Queues,
                      alert'[Breach(q)].status = "FIRING"
               PROVE  alert'[AtRisk(q)].status = "FIRING"
    BY DEF BreachImpliesAtRisk, AtRisk, Breach
  <2>0. alert[Breach(q)].status = "FIRING" => alert[AtRisk(q)].status = "FIRING"
    BY DEF BreachImpliesAtRisk, AtRisk, Breach
  <2>1. CASE Tick
    <3>1. /\ NextTick \in Int /\ Now \in Int /\ Now <= NextTick
          /\ world \in WorldState /\ WorldSound(world)
          /\ Sweep(TickPairs(world), world, NextTick)
      BY <2>1, TickIs
    <3>2. AtRisk(q) \in TickPairs(world) <=> Breach(q) \in TickPairs(world)
      BY PresetsAre DEF TickPairs
    <3> QED BY <2>0, <3>1, <3>2, PresetsJudged
  <2>2. CASE Settle
    <3>1. PICK t : t = ClockAfter(inflight.ts)
      OBVIOUS
    <3>2. PICK w : w = world'
      OBVIOUS
    <3>3. /\ t \in Int
          /\ clock # NULL => Now \in Int /\ Now <= t
          /\ w \in WorldState /\ WorldSound(w)
          /\ Sweep(EventPairs(inflight), w, t)
      BY <2>2, <3>1, <3>2, SettleIs
    <3>4. AtRisk(q) \in EventPairs(inflight) <=> Breach(q) \in EventPairs(inflight)
      BY PresetsAre DEF EventPairs
    <3> QED BY <2>0, <3>3, <3>4, PresetsJudged
  <2>3. CASE alert' = alert
    BY <2>0, <2>3
  <2> QED BY <2>1, <2>2, <2>3 DEF Next, Receive, Raise, vars
<1>3. ReplaySpec => Spec /\ []EvalInv
  BY ReplayFeedsEngine, EveryPairIsEvaluated, PTL DEF FeedsEngine
<1> QED
  BY <1>1, <1>2, <1>3, PTL DEF Spec
=============================================================================
