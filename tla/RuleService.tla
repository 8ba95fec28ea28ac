---------------------------- MODULE RuleService ----------------------------
(***************************************************************************)
(* app/server.py over app/db.py: the rules table, the requests that read   *)
(* and write it, the results of /replay, and the process that serves them. *)
(*                                                                         *)
(* The endpoints are plain functions, which FastAPI runs in a pool of      *)
(* threads with one SQLite connection each.  A statement of SQLite is      *)
(* atomic and so is one list or dict operation of Python; between two of   *)
(* them any other request may run.  A request is split there, and its      *)
(* local variables are the record request[c].  Reads that change nothing   *)
(* and answer at once (404, 422, an existing adherence rule) are not steps.*)
(*                                                                         *)
(* The table survives the process; _last_run does not.  At import the      *)
(* process seeds an empty table, one committed transaction per rule.       *)
(***************************************************************************)
EXTENDS RuleValidation, Sequences, Functions

CONSTANTS Clients,        \* requests in progress at once
          Agents,
          RuleIds,        \* every id a rule can get
          Suffixed,       \* base id -> the ids a collision may turn it into
          AdherenceId,    \* agent -> its _personal_adherence_rule_id
          Drafts,         \* what POST may carry: [base, rule], base the slug
          Patches,        \* what PATCH may carry: field -> value
          DefaultRules,   \* DEFAULT_RULES: a sequence of [id, rule]
          ReplayStore     \* the notifications a replay of events.jsonl gives

\* RuleIn and RuleUpdate: what a request may set, name and severity left out.
RuleFields == {"entity_type", "conditions", "recipients", "entity_ids",
               "sustained_for_sec", "cooldown_sec", "escalate_after_sec",
               "escalate_to", "enabled"}

\* What the type of a field in the request model admits.
FieldsTyped(fields) ==
  /\ "entity_type" \in DOMAIN fields => fields.entity_type \in {"queue", "agent"}
  /\ "enabled" \in DOMAIN fields => fields.enabled \in BOOLEAN

RuleTyped(rule) == DOMAIN rule = RuleFields /\ FieldsTyped(rule)

\* Mutant: an explicit null is taken for any field.
NullsAllowedAnywhere(provided) == TRUE

\* _NULLABLE_PATCH_FIELDS: elsewhere an explicit null is a 422.
NullsAllowed(provided) ==
  \A f \in DOMAIN provided :
    provided[f] = NULL => f \in {"entity_ids", "escalate_after_sec"}

StoreEntry == [kind : {"fired", "escalated", "resolved"}, rule : RuleIds,
               entity : STRING, suppressed : BOOLEAN, to : SUBSET STRING]

\* What an alert is, to the digest and to a DELETE: a rule and an entity.
Alerts == RuleIds \X STRING

ASSUME DraftsTyped == \A d \in Drafts : RuleTyped(d.rule)
ASSUME PatchesTyped ==
  \A p \in Patches :
    /\ DOMAIN p \subseteq RuleFields
    /\ FieldsTyped([f \in {g \in DOMAIN p : p[g] # NULL} |-> p[f]])
ASSUME DefaultsValid ==
  /\ DefaultRules \in Seq(Range(DefaultRules)) \ {<<>>}
  /\ \A i \in DOMAIN DefaultRules : /\ RuleTyped(DefaultRules[i].rule)
                                    /\ ValidRule(DefaultRules[i].rule)
ASSUME TemplateGiven ==
  \E i \in DOMAIN DefaultRules : DefaultRules[i].id = "adherence_10m"
ASSUME ReplayStoreTyped == ReplayStore \in Seq(StoreEntry)
ASSUME NullIsNoRequest ==
  /\ NULL \notin [step : {"build"}, notifier : Nat]
  /\ NULL \notin [step : {"digest"}, digest : SUBSET Alerts]
  /\ NULL \notin [step : {"close"}, id : RuleIds, notifier : Nat,
                  todo : SUBSET Nat]

VARIABLES table,          \* rules: id -> rule, for the ids that have a row
          server,         \* "down", "seeding" or "up"
          seeded,         \* how many default rules the seeding has inserted
          stores,         \* the Notifier.store of each /replay of the process
          last_run,       \* _last_run: the notifier (an index of stores) and
                          \* the digest (the alerts its text says are still
                          \* open), NULL before the first replay
          request,        \* the call each client is in, NULL for none
          overlapped      \* history: two replays of this process overlapped

serviceVars == <<table, server, seeded, stores, last_run, request, overlapped>>

Rows == DOMAIN table

\* Entry m of store is about the alert that entry j is about.
SameAlert(store, j, m) ==
  store[m].rule = store[j].rule /\ store[m].entity = store[j].entity

\* Mutant: an escalated alert does not count as open.
OpenForFiredLast(store, id) ==
  {j \in DOMAIN store :
     /\ store[j].rule = id /\ store[j].kind = "fired"
     /\ \A m \in DOMAIN store : m > j => ~SameAlert(store, j, m)}

\* _open_alerts_for_rule: the fires that nothing but an escalation follows, by
\* their positions (a store only grows).  The loop reads the store to its end
\* while others append to it, so what it returns is true of the store when it
\* ends.
OpenFor(store, id) ==
  {j \in DOMAIN store :
     /\ store[j].rule = id /\ store[j].kind = "fired"
     /\ \A m \in DOMAIN store :
          m > j /\ SameAlert(store, j, m) => store[m].kind = "escalated"}

\* build_digest, at one pair of open_fired: a fire puts it there, a RESOLVED
\* takes it out, an escalation does neither.  (The code goes by ts; a RESOLVED
\* of a DELETE has the time of the call, later than any of the feed.)
Ongoing(store) ==
  {<<store[j].rule, store[j].entity>> :
     j \in {i \in DOMAIN store :
              /\ store[i].kind = "fired"
              /\ \A m \in DOMAIN store :
                   m > i /\ SameAlert(store, i, m) => store[m].kind # "resolved"}}

\* GET /notifications: what one recipient (NULL for all) reads of a store, by
\* positions and in store order.
Listed(store, include_suppressed, recipient) ==
  {i \in DOMAIN store :
     /\ (include_suppressed \/ ~store[i].suppressed)
     /\ (recipient = NULL \/ recipient \in store[i].to)}

ServiceInit ==
  /\ table = << >>
  /\ server = "down"
  /\ seeded = 0
  /\ stores = <<>>
  /\ last_run = [notifier |-> NULL, digest |-> NULL]
  /\ request = [c \in Clients |-> NULL]
  /\ overlapped = FALSE

\* Mutant: INSERT OR REPLACE.
InsertOrReplace(id, rule) ==
  table' = [i \in Rows \cup {id} |-> IF i = id THEN rule ELSE table[i]]

\* RuleRepo.create: an id that is taken makes the INSERT fail
\* (IntegrityError, which the endpoints answer with a 500).
Insert(id, rule) ==
  table' = [i \in Rows \cup {id} |-> IF i \in Rows THEN table[i] ELSE rule]

-----------------------------------------------------------------------------
(* The process: import, seeding, crash. *)

\* seed_defaults_if_empty: the count decides once, before the first insert.
Start == /\ server = "down"
         /\ server' = IF Rows = {} THEN "seeding" ELSE "up"
         /\ UNCHANGED <<table, seeded, stores, last_run, request, overlapped>>

SeedRule == /\ server = "seeding"
            /\ LET next == DefaultRules[seeded + 1]
               IN  Insert(next.id, next.rule)
            /\ IF seeded + 1 = Len(DefaultRules)
               THEN server' = "up" /\ seeded' = 0
               ELSE seeded' = seeded + 1 /\ UNCHANGED server
            /\ UNCHANGED <<stores, last_run, request, overlapped>>

Crash == /\ server # "down"
         /\ server' = "down"
         /\ seeded' = 0
         /\ stores' = <<>>
         /\ last_run' = [notifier |-> NULL, digest |-> NULL]
         /\ request' = [c \in Clients |-> NULL]
         /\ overlapped' = FALSE
         /\ UNCHANGED table

-----------------------------------------------------------------------------
(* Requests. *)

Idle(c) == server = "up" /\ request[c] = NULL

In(c, step) == request[c] # NULL /\ request[c].step = step

Goto(c, r) == request' = [request EXCEPT ![c] = r]

Answer(c) == Goto(c, NULL)

SameProcess == UNCHANGED <<server, seeded>>
SameRun     == UNCHANGED <<stores, last_run, overlapped>>

\* Rule(... provided.get(field, existing.field) ...)
Merge(existing, provided) ==
  [f \in DOMAIN existing |->
     IF f \in DOMAIN provided THEN provided[f] ELSE existing[f]]

\* PATCH: read the row, merge, validate; then write the whole row.
BeginPatch(c, id, provided) ==
  /\ Idle(c) /\ id \in Rows /\ NullsAllowed(provided)
  /\ LET merged == Merge(table[id], provided)
     IN  /\ ValidRule(merged)
         /\ Goto(c, [step |-> "update", id |-> id, rule |-> merged,
                     provided |-> provided])
  /\ UNCHANGED table /\ SameProcess /\ SameRun

\* Mutant: UPDATE sets the provided columns only.
FinishPatchColumns(c) ==
  /\ In(c, "update")
  /\ table' = [id \in Rows |-> IF id = request[c].id
                               THEN Merge(table[id], request[c].provided)
                               ELSE table[id]]
  /\ Answer(c)
  /\ SameProcess /\ SameRun

\* UPDATE ... WHERE id = ?: the whole row; no row, no effect, and the answer is
\* 200 anyway.
FinishPatch(c) ==
  /\ In(c, "update")
  /\ table' = [id \in Rows |-> IF id = request[c].id
                               THEN request[c].rule ELSE table[id]]
  /\ Answer(c)
  /\ SameProcess /\ SameRun

\* _generate_rule_id: the slug, or a suffixed one that is free right now.
FreshIds(base) == IF base \notin Rows THEN {base} ELSE Suffixed[base] \ Rows

BeginCreate(c, draft) ==
  /\ Idle(c) /\ ValidRule(draft.rule)
  /\ \E id \in FreshIds(draft.base) :
       Goto(c, [step |-> "insert", id |-> id, rule |-> draft.rule])
  /\ UNCHANGED table /\ SameProcess /\ SameRun

\* The org-wide rule a personal one is copied from: the code's DEFAULT_RULES,
\* whatever the row of that id has become.
Template ==
  DefaultRules[CHOOSE i \in DOMAIN DefaultRules :
                 DefaultRules[i].id = "adherence_10m"].rule

Personal(template, a) ==
  [template EXCEPT !.recipients = {"agent:self", "team_lead"},
                   !.entity_ids = {a}, !.escalate_after_sec = NULL,
                   !.escalate_to = {}, !.enabled = TRUE]

\* GET /agents/{id}/adherence-rule, on a first visit.
BeginVisit(c, a) ==
  /\ Idle(c) /\ AdherenceId[a] \notin Rows
  /\ Goto(c, [step |-> "insert", id |-> AdherenceId[a],
              rule |-> Personal(Template, a)])
  /\ UNCHANGED table /\ SameProcess /\ SameRun

\* The INSERT, after a check another request may have overtaken.
FinishCreate(c) ==
  /\ In(c, "insert")
  /\ Insert(request[c].id, request[c].rule)
  /\ Answer(c)
  /\ SameProcess /\ SameRun

\* DELETE: read the row; find the open alerts in the last run; deliver a
\* RESOLVED for each; then remove the row, if it is still there.
BeginDelete(c, id) ==
  /\ Idle(c) /\ id \in Rows
  /\ Goto(c, [step |-> "find", id |-> id])
  /\ UNCHANGED table /\ SameProcess /\ SameRun

FindOpen(c) ==
  /\ In(c, "find")
  /\ LET n == last_run.notifier
     IN  Goto(c, [step |-> "close", id |-> request[c].id, notifier |-> n,
                  todo |-> IF n = NULL THEN {}
                           ELSE OpenFor(stores[n], request[c].id)])
  /\ UNCHANGED table /\ SameProcess /\ SameRun

\* The next one, to those its fire went to, and never suppressed.
CloseOne(c) ==
  /\ In(c, "close")
  /\ \E i \in request[c].todo :
       /\ \A j \in request[c].todo : i <= j
       /\ LET n     == request[c].notifier
              fired == stores[n][i]
          IN  stores' = [stores EXCEPT ![n] =
                Append(@, [fired EXCEPT !.kind = "resolved", !.suppressed = FALSE])]
       /\ Goto(c, [request[c] EXCEPT !.todo = @ \ {i}])
  /\ UNCHANGED <<table, last_run, overlapped>> /\ SameProcess

FinishDelete(c) ==
  /\ In(c, "close") /\ request[c].todo = {}
  /\ table' = Restrict(table, Rows \ {request[c].id})
  /\ Answer(c)
  /\ SameProcess /\ SameRun

\* POST /replay: the pipeline runs on objects of its own; then the notifier is
\* published; then the digest of its store is computed, from a copy sorted()
\* takes at once; then it is published.  Rules come from DEFAULT_RULES and not
\* from the table.
Replaying(c) == \E step \in {"publish", "build", "digest"} : In(c, step)

BeginReplay(c) ==
  /\ Idle(c)
  /\ Goto(c, [step |-> "publish"])
  /\ overlapped' = (overlapped \/ \E d \in Clients : Replaying(d))
  /\ UNCHANGED <<table, stores, last_run>> /\ SameProcess

PublishNotifier(c) ==
  /\ In(c, "publish")
  /\ stores' = Append(stores, ReplayStore)
  /\ last_run' = [last_run EXCEPT !.notifier = Len(stores')]
  /\ Goto(c, [step |-> "build", notifier |-> Len(stores')])
  /\ UNCHANGED <<table, overlapped>> /\ SameProcess

BuildDigest(c) ==
  /\ In(c, "build")
  /\ Goto(c, [step |-> "digest", digest |-> Ongoing(stores[request[c].notifier])])
  /\ UNCHANGED table /\ SameProcess /\ SameRun

\* Mutant: a digest that is there is not replaced.
PublishDigestOnce(c) ==
  /\ In(c, "digest")
  /\ last_run' = [last_run EXCEPT !.digest =
                    IF @ = NULL THEN request[c].digest ELSE @]
  /\ Answer(c)
  /\ UNCHANGED <<table, stores, overlapped>> /\ SameProcess

PublishDigest(c) ==
  /\ In(c, "digest")
  /\ last_run' = [last_run EXCEPT !.digest = request[c].digest]
  /\ Answer(c)
  /\ UNCHANGED <<table, stores, overlapped>> /\ SameProcess

ServiceNext ==
  \/ Start
  \/ SeedRule
  \/ Crash
  \/ \E c \in Clients :
       \/ \E id \in RuleIds, p \in Patches : BeginPatch(c, id, p)
       \/ FinishPatch(c)
       \/ \E d \in Drafts : BeginCreate(c, d)
       \/ \E a \in Agents : BeginVisit(c, a)
       \/ FinishCreate(c)
       \/ \E id \in RuleIds : BeginDelete(c, id)
       \/ FindOpen(c)
       \/ CloseOne(c)
       \/ FinishDelete(c)
       \/ BeginReplay(c)
       \/ PublishNotifier(c)
       \/ BuildDigest(c)
       \/ PublishDigest(c)

ServiceSpec == ServiceInit /\ [][ServiceNext]_serviceVars

-----------------------------------------------------------------------------
\* A row has every column of a rule, and the last run, if any, is a replay of
\* this process.
ServiceTypeOK ==
  /\ \A id \in Rows : RuleTyped(table[id]) /\ NoiseControlsOK(table[id])
  /\ server \in {"down", "seeding", "up"}
  /\ seeded \in 0..Len(DefaultRules)
  /\ stores \in Seq(Seq(StoreEntry))
  /\ last_run \in [notifier : DOMAIN stores \cup {NULL},
                   digest : {NULL} \cup SUBSET Alerts]

\* "422 (same rules as creation) if the resulting merged rule is invalid":
\* every stored rule is valid as a whole, though each of two overlapping
\* PATCHes is validated against a row the other one then replaces.
RowsValid == \A id \in Rows : ValidRule(table[id])

\* A rule appears by a create or the seeding, changes by a PATCH of its id and
\* vanishes by a DELETE of it: no create overwrites a row that appeared after
\* its check, no PATCH brings back a row that was deleted meanwhile, and
\* seeding never overwrites "rules a user has since edited".
Due(id, step) ==
  \E c \in Clients : In(c, step) /\ request[c].id = id /\ request'[c] = NULL

RowLife ==
  [][/\ \A id \in Rows' \ Rows : Due(id, "insert") \/ server = "seeding"
     /\ \A id \in Rows \ Rows' : Due(id, "close")
     /\ \A id \in Rows \cap Rows' :
          table'[id] # table[id] => Due(id, "update")]_serviceVars

\* delete_rule: "so nothing dangles silently from a team lead's perspective".
\* When a DELETE is done, nobody who reads the run it looked at, in whole or
\* their own entries of it, with the suppressed ones or without, finds an alert
\* of the rule that was fired and not resolved: escalated alerts included,
\* whatever other DELETEs closed meanwhile.
Dangling(store, shown, id) ==
  \E i \in shown :
    /\ store[i].rule = id /\ store[i].kind = "fired"
    /\ ~\E j \in shown : /\ j > i /\ SameAlert(store, i, j)
                         /\ store[j].kind = "resolved"

Readers(store) == {NULL} \cup UNION {store[i].to : i \in DOMAIN store}

DeleteClosesAlerts ==
  [][\A id \in RuleIds, c \in Clients :
       /\ In(c, "close") /\ request'[c] = NULL /\ server' = "up"
       /\ request[c].id = id /\ request[c].notifier # NULL
       => LET store == stores[request[c].notifier]
          IN  \A r \in Readers(store), loud \in BOOLEAN :
                ~Dangling(store, Listed(store, loud, r), id)]_serviceVars

\* "/digest -> the head-of-support digest from the most recent /replay": between
\* two replays, in a process whose replays never overlapped, the digest names
\* every alert that a DELETE would still find open in the notifications
\* /notifications serves, and none that the replay had closed.  It is computed
\* once: a DELETE that comes after it appends a RESOLVED and leaves the digest
\* as it is, so what it names and the notifications no longer show open is what
\* DELETEs closed.  Replays that overlapped may leave the notifications of one
\* and the digest of the other.
DigestNamesOpenAlerts ==
  ~overlapped /\ ~(\E c \in Clients : Replaying(c)) =>
    \/ last_run.notifier = NULL /\ last_run.digest = NULL
    \/ /\ last_run.notifier \in DOMAIN stores
       /\ LET store == stores[last_run.notifier]
          IN  \A id \in RuleIds : \A i \in OpenFor(store, id) :
                <<id, store[i].entity>> \in last_run.digest
       /\ last_run.digest \subseteq Ongoing(ReplayStore)

\* RuleUpdate: "Only fields present in the request JSON are changed".  A PATCH
\* that overlaps another one writes back the old values of the fields it does
\* not mention.
PatchKeepsOtherFields ==
  [][\A c \in Clients :
       LET r == request[c] IN
       In(c, "update") /\ request'[c] = NULL /\ server' = "up"
         /\ r.id \in Rows
       => \A f \in DOMAIN table[r.id] \ DOMAIN r.provided :
            table'[r.id][f] = table[r.id][f]]_serviceVars

\* get_or_create_adherence_rule: "Return this agent's personal adherence-nudge
\* rule".  As long as nobody edits it, the row under an agent's personal id is
\* the rule of that agent.  A created rule whose name slugs to that id has it
\* first, and every later visit is answered with the other rule.
PersonalRuleIsOwn ==
  \A a \in Agents :
    AdherenceId[a] \in Rows => table[AdherenceId[a]] = Personal(Template, a)
=============================================================================
