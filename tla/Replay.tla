------------------------------- MODULE Replay -------------------------------
(***************************************************************************)
(* app/replay.py, run_replay: the pipeline that joins Ingest to Engine.    *)
(*                                                                         *)
(* The loop reads the next line only when process_event has returned, and  *)
(* an exception of either stage, of json.loads or of the printing leaves   *)
(* run_replay.  The order and the repetitions of the lines are those of    *)
(* the file, which is any sequence over Lines.                             *)
(***************************************************************************)
EXTENDS Ingest, Engine

CONSTANT BrokenLines      \* whether the file may hold a line that is not JSON

\* What Ingest does not look at, the payload, is taken to be typed as the
\* feed's is.
ASSUME LinesAreEvents ==
  \A raw \in Lines : ~Malformed(raw) /\ raw.ts # Garbled => EventOf(raw) \in Events

VARIABLES status,         \* "reading", "done" or "aborted" by an exception
          lines,          \* how many lines were read
          newest,         \* history: the latest ts read for each entity
          crossed         \* history: entities read of, or checked, as another

history == <<newest, crossed>>

replayVars == <<vars, ingestVars, status, lines, history>>

ReplayInit == /\ Init
              /\ IngestInit
              /\ status = "reading"
              /\ lines = 0
              /\ newest = [x \in Queues \cup Agents |-> NULL]
              /\ crossed = {}

\* A line of a new event that can be placed in time.
Dated(raw) == New(raw) /\ raw.ts # Garbled

\* The entities of a line that accept checks under another one's watermark,
\* or under none.
Crosses(raw) == IF Key(raw) = EntityOf(raw) THEN {} ELSE {Key(raw), EntityOf(raw)}

\* for raw in read_jsonl(path)
NextLine(raw) ==
  /\ status = "reading" /\ inflight = NULL
  /\ lines' = lines + 1
  /\ newest' = [x \in Queues \cup Agents |->
                  IF /\ Dated(raw) /\ EntityOf(raw) = x
                     /\ newest[x] = NULL \/ newest[x] < raw.ts
                  THEN raw.ts ELSE newest[x]]
  /\ crossed' = IF Dated(raw) THEN crossed \cup Crosses(raw) ELSE crossed

PassOn(raw) == /\ NextLine(raw)
               /\ Accept(raw)
               /\ Receive(EventOf(raw))
               /\ UNCHANGED status

\* Mutant: a line that is dropped still moves the engine's clock.
SkipTimed(raw) == /\ NextLine(raw)
                  /\ Reject(raw)
                  /\ clock' = IF Malformed(raw) THEN clock ELSE ClockAfter(raw.ts)
                  /\ UNCHANGED <<inflight, lastTick, world, alert, log, status>>

Skip(raw) == /\ NextLine(raw)
             /\ Reject(raw)
             /\ UNCHANGED <<vars, status>>

AbortIngest(raw) == /\ NextLine(raw)
                    /\ RaiseOnTs(raw)
                    /\ status' = "aborted"
                    /\ UNCHANGED vars

\* json.loads raises on the next line.
AbortRead == /\ status = "reading" /\ inflight = NULL /\ BrokenLines
             /\ status' = "aborted"
             /\ UNCHANGED <<vars, ingestVars, lines, history>>

Process == /\ Tick \/ Settle
           /\ UNCHANGED <<ingestVars, status, lines, history>>

AbortEngine == /\ Raise
               /\ status' = "aborted"
               /\ UNCHANGED <<ingestVars, lines, history>>

\* format_line joins the recipients of what was not suppressed, and raises
\* when a null agent id is one of them.
Printable == \A k \in Pairs : \A i \in DOMAIN log[k] :
               ~log[k][i].suppressed => log[k][i].to \cap Unkeyed = {}

EndOfFile == /\ status = "reading" /\ inflight = NULL
             /\ status' = IF Printable THEN "done" ELSE "aborted"
             /\ UNCHANGED <<vars, ingestVars, lines, history>>

ReadLine(raw) == PassOn(raw) \/ Skip(raw) \/ AbortIngest(raw)

ReplayNext == \/ \E raw \in Lines : ReadLine(raw)
              \/ Process
              \/ AbortRead
              \/ AbortEngine
              \/ EndOfFile

ReplaySpec == ReplayInit /\ [][ReplayNext]_replayVars

-----------------------------------------------------------------------------
\* Every step of run_replay is one of the engine or leaves it alone: no line
\* is handed over during a call, and a dropped one touches no engine state.
FeedsEngine == Spec

\* last_ts, of a queue or an agent
LastSeen(w, x) ==
  IF x \in Queues
  THEN IF w.queues[x] = NULL THEN NULL ELSE w.queues[x].last_ts
  ELSE IF w.agents[x] = NULL THEN NULL ELSE w.agents[x].last_ts

\* Between two calls the world shows each entity at the newest timestamp read
\* for it, whatever the order of the lines: no late line takes it back, and
\* none is dropped for being late that is not.  A line whose event id was read
\* before is a duplicate to the code, whatever it holds, and counts as unread.
\* Of an entity once checked under another key, nothing is said.
WorldIsNewest ==
  status # "aborted" /\ inflight = NULL =>
    \A x \in (Queues \cup Agents) \ crossed : newest[x] = LastSeen(world, x)

\* ingest.py: "An event older than what we've already processed for that
\* entity would regress state, so we drop it."  No step takes an entity back
\* in time.  An agent's event that carries a queue_id is checked against the
\* queue's watermark, and may be older than what the agent shows.
StateNeverRegresses ==
  [][\A x \in Queues \cup Agents :
       LastSeen(world, x) # NULL => LastSeen(world, x) <= LastSeen(world', x)]_replayVars

\* The summary run_replay prints: every line read is counted once, and the
\* audit trail names each line that was dropped.
EveryLineCounted ==
  status # "aborted" =>
    /\ lines = stats.accepted + stats.duplicates + stats.stale_dropped
                 + stats.malformed
    /\ Len(stats.dropped_events) = stats.duplicates + stats.stale_dropped
    /\ \A i \in DOMAIN stats.dropped_events : stats.dropped_events[i] \in seen
    /\ inflight # NULL => stats.accepted > 0

\* ingest.py: "Null / missing fields -> tolerated here".  A replay of lines
\* that are JSON and whose timestamps can all be read is not cut short.  An
\* accepted event without its entity id makes World.apply raise, and the replay
\* ends there.
MissingFieldsTolerated ==
  ~BrokenLines /\ (\A raw \in Lines : raw.ts # Garbled) => status # "aborted"
=============================================================================
