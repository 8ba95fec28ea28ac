------------------------------- MODULE Ingest -------------------------------
(***************************************************************************)
(* app/ingest.py: class Ingestor, which accepts an event id once and drops *)
(* what is older than the watermark the line is checked against.           *)
(*                                                                         *)
(* A raw line has an event_id, a type, a ts, a queue_id, an agent_id and   *)
(* the payload of its type.  NULL is a key that is not there; a ts that    *)
(* parse_ts cannot read is Garbled.  A line of any type may carry either   *)
(* id, and an id may come again with another content.  accept is one       *)
(* action per way it returns, or raises.                                   *)
(***************************************************************************)
EXTENDS World, Sequences

CONSTANTS Lines,          \* the raw lines a feed may hold
          Garbled,        \* a ts that is not a timestamp
          Unkeyed         \* the entity ids that are there and null

VALID_TYPES == {"queue_snapshot", "agent_state_change", "adherence_check"}

EventIds == {raw.event_id : raw \in Lines} \ {NULL}

ASSUME IdsTyped == \A raw \in Lines : /\ raw.queue_id \in OrNull(Queues)
                                     /\ raw.agent_id \in OrNull(Agents)
ASSUME GarbledIsNoTime == Garbled \notin Int \cup {NULL}

VARIABLES seen,           \* _seen_ids
          watermark,      \* _entity_watermark: latest accepted ts per entity
          stats           \* IngestStats

ingestVars == <<seen, watermark, stats>>

IngestStats == [accepted : Nat, duplicates : Nat, stale_dropped : Nat,
                malformed : Nat, dropped_events : Seq(EventIds)]

\* The entity an event is about: its type says which of the ids names it.
EntityOf(raw) ==
  IF raw.type = "queue_snapshot" THEN raw.queue_id ELSE raw.agent_id

\* The dict accept returns, as an event.
EventOf(raw) ==
  [f \in (DOMAIN raw \ {"event_id", "queue_id", "agent_id"}) \cup {"entity"} |->
     IF f = "entity" THEN EntityOf(raw) ELSE raw[f]]

-----------------------------------------------------------------------------
Malformed(raw) ==
  raw.event_id = NULL \/ raw.type \notin VALID_TYPES \/ raw.ts = NULL

New(raw) == ~Malformed(raw) /\ raw.event_id \notin seen

\* entity_key: the queue_id of a line of any type, or else its agent_id.  A
\* null id is passed over, and a line that has no other goes unchecked.
Key(raw) ==
  IF raw.queue_id \notin Unkeyed \cup {NULL} THEN raw.queue_id
  ELSE IF raw.agent_id \notin Unkeyed \cup {NULL} THEN raw.agent_id ELSE NULL

\* Mutant: one watermark for the whole feed.
StaleAnyEntity(raw) ==
  \E x \in Queues \cup Agents : watermark[x] # NULL /\ raw.ts < watermark[x]

\* A line with the same key was accepted at a later time.
Stale(raw) == /\ Key(raw) # NULL
              /\ watermark[Key(raw)] # NULL
              /\ raw.ts < watermark[Key(raw)]

IngestInit == /\ seen = {}
              /\ watermark = [x \in Queues \cup Agents |-> NULL]
              /\ stats = [accepted |-> 0, duplicates |-> 0, stale_dropped |-> 0,
                          malformed |-> 0, dropped_events |-> <<>>]

SkipMalformed(raw) ==
  /\ Malformed(raw)
  /\ stats' = [stats EXCEPT !.malformed = @ + 1]
  /\ UNCHANGED <<seen, watermark>>

\* Mutant: a duplicate is counted and missing from the audit trail.
DropDuplicateUnlisted(raw) ==
  /\ ~Malformed(raw) /\ raw.event_id \in seen
  /\ stats' = [stats EXCEPT !.duplicates = @ + 1]
  /\ UNCHANGED <<seen, watermark>>

DropDuplicate(raw) ==
  /\ ~Malformed(raw) /\ raw.event_id \in seen
  /\ stats' = [stats EXCEPT !.duplicates = @ + 1,
                            !.dropped_events = Append(@, raw.event_id)]
  /\ UNCHANGED <<seen, watermark>>

\* parse_ts raises ValueError, after the id was remembered.
RaiseOnTs(raw) ==
  /\ New(raw) /\ raw.ts = Garbled
  /\ seen' = seen \cup {raw.event_id}
  /\ UNCHANGED <<watermark, stats>>

\* Mutant: the audit trail gets the key instead of the event.
DropStaleByKey(raw) ==
  /\ New(raw) /\ raw.ts # Garbled /\ Stale(raw)
  /\ seen' = seen \cup {raw.event_id}
  /\ stats' = [stats EXCEPT !.stale_dropped = @ + 1,
                            !.dropped_events = Append(@, Key(raw))]
  /\ UNCHANGED watermark

DropStale(raw) ==
  /\ New(raw) /\ raw.ts # Garbled /\ Stale(raw)
  /\ seen' = seen \cup {raw.event_id}
  /\ stats' = [stats EXCEPT !.stale_dropped = @ + 1,
                            !.dropped_events = Append(@, raw.event_id)]
  /\ UNCHANGED watermark

Accept(raw) ==
  /\ New(raw) /\ raw.ts # Garbled /\ ~Stale(raw)
  /\ seen' = seen \cup {raw.event_id}
  /\ watermark' = IF Key(raw) = NULL THEN watermark
                  ELSE [watermark EXCEPT ![Key(raw)] = raw.ts]
  /\ stats' = [stats EXCEPT !.accepted = @ + 1]

\* accept(raw) returning None
Reject(raw) == SkipMalformed(raw) \/ DropDuplicate(raw) \/ DropStale(raw)

IngestTypeOK == /\ seen \subseteq EventIds
                /\ watermark \in [Queues \cup Agents -> OrNull(Int)]
                /\ stats \in IngestStats
=============================================================================
