------------------------------- MODULE Browser -------------------------------
(***************************************************************************)
(* static/index.html: one page over the server, used by one person who     *)
(* switches between personas.                                              *)
(*                                                                         *)
(* Each event handler is an async function: it runs without interruption   *)
(* to its next await, and any other handler may run before the answer      *)
(* arrives.  A handler in progress is a task; pc names the request it is   *)
(* waiting for.  A feed is abstracted to the persona it belongs to; of a   *)
(* view its role and persona are kept, of the tray whose entries it lists  *)
(* and whether it is the one with the digest card (with state.digest there *)
(* or not); of the org-wide notifications, and the status strip made of    *)
(* them, whether an alert is open in them.  The badge, the forms and the   *)
(* layout are left out.                                                    *)
(***************************************************************************)
EXTENDS Naturals

CONSTANTS NULL,
          Personas,       \* what the identity selector offers
          RoleOf,         \* persona -> "lead", "hos" or "agent"
          Tasks           \* slots 1, 2, ... for the handlers in progress

Roles   == {"lead", "hos", "agent"}
Replies == {"ok", "error", "open", "clear"}

\* A handler in progress, and a view on the page.
Task == [kind  : {"boot", "main", "replay", "edit", "delete", "template", "save"},
         pc    : {"org", "schema", "view", "post", "digest", "rule"},
         reply : Replies \cup {NULL},
         role  : Roles \cup {NULL},
         who   : Personas \cup {NULL}]
View == [role : Roles, who : Personas]

ASSUME RolesGiven == \A id \in Personas : RoleOf[id] \in Roles
ASSUME NullIsNoState == NULL \notin Roles \cup Replies \cup Task \cup View

VARIABLES identity,       \* state.identity
          schema,         \* state.schema has been loaded
          feed,           \* whose entries state.notifications holds
          page,           \* the view main shows: [role, who], NULL for none
          tray,           \* the open tray: [items, card], NULL when closed
          disabled,       \* the replay button
          task,           \* the handler in each slot, or NULL
          lastReplay,     \* state.lastReplay is there
          strip,          \* the status strip: "unloaded", "open" or "clear"
          run,            \* the server's last run: whether it has "open" alerts
                          \* or is "clear", NULL for none (it answers 409)
          calm,           \* history: no two handlers ever overlapped
          failed,         \* history: the load of a view failed, and renderMain
                          \* has not shown one since
          missed          \* history: while calm, a request that changes the run
                          \* or the last one that reads it for the strip failed

browserVars ==
  <<identity, schema, feed, page, tray, disabled, task, lastReplay,
    strip, run, calm, failed, missed>>

stripVars == <<lastReplay, strip, missed>>

Quiet == \A i \in Tasks : task[i] = NULL

\* renderTray
TrayFor(id, f) == [items |-> IF id = NULL THEN NULL ELSE f,
                   card  |-> id # NULL /\ RoleOf[id] = "hos"]

\* renderStatusStrip, from what the org-wide request returned.
StripOf(reply) == IF ~lastReplay THEN "unloaded"
                  ELSE IF reply = "error" THEN "clear" ELSE reply

\* Mutant: renderMain leaves an open tray alone.
NotRefreshed(id, f) == UNCHANGED tray

\* renderTray, when the tray is open.
Refreshed(id, f) == tray' = IF tray = NULL THEN NULL ELSE TrayFor(id, f)

\* Mutant: the button is enabled only at the end of the try block.
ReturnWithoutFinally(i) ==
  /\ task' = [task EXCEPT ![i] = NULL]
  /\ disabled' = (disabled /\ (task[i].kind # "replay" \/ task[i].reply # "ok"))

\* The handler of slot i returns; replay's finally gives the button back.
Return(i) == /\ task' = [task EXCEPT ![i] = NULL]
             /\ disabled' = (disabled /\ task[i].kind # "replay")

Await(i, kind, pc, role, who) ==
  task' = [task EXCEPT ![i] =
    [kind |-> kind, pc |-> pc, reply |-> NULL, role |-> role, who |-> who]]

\* render{Lead,Hos,Agent}View: the persona is read once, before the requests.
\* Without a persona that read is a TypeError.
LoadView(i, kind, role, id) ==
  IF id = NULL THEN /\ task' = [task EXCEPT ![i] = NULL]
                    /\ UNCHANGED disabled
  ELSE Await(i, kind, "view", role, id) /\ UNCHANGED disabled

\* renderMain, up to its first await; id is state.identity as it is now.  Of
\* its callers only replay's handler has something left to do afterwards.
RenderMain(i, caller, id) ==
  LET kind == IF caller = "replay" THEN caller ELSE "main" IN
  IF id = NULL
  THEN /\ feed' = NULL
       /\ page' = NULL
       /\ Refreshed(NULL, NULL)
       /\ task' = [task EXCEPT ![i] = NULL]
       /\ disabled' = (disabled /\ caller # "replay")
  ELSE /\ IF schema THEN Await(i, kind, "view", RoleOf[id], id)
                    ELSE Await(i, kind, "schema", NULL, NULL)
       /\ UNCHANGED <<feed, page, tray, disabled>>

-----------------------------------------------------------------------------
\* boot() has the identities and is waiting for the org-wide notifications.
BrowserInit ==
  /\ identity = NULL /\ schema = FALSE /\ feed = NULL
  /\ page = NULL /\ tray = NULL /\ disabled = FALSE
  /\ task = [i \in Tasks |->
       IF i = 1 THEN [kind |-> "boot", pc |-> "org", reply |-> NULL,
                      role |-> NULL, who |-> NULL]
       ELSE NULL]
  /\ lastReplay = FALSE /\ strip = "unloaded"
  /\ run \in {NULL, "open", "clear"}
  /\ calm = TRUE /\ failed = FALSE /\ missed = FALSE

\* A handler starts; it takes the first free slot.
Starts(i) == /\ task[i] = NULL
             /\ \A j \in Tasks : j < i => task[j] # NULL
             /\ calm' = (calm /\ Quiet)
             /\ missed' = (missed /\ calm')
             /\ UNCHANGED <<lastReplay, strip, run, failed>>

\* The identity selector's change event.
Select(i, id) == /\ Starts(i) /\ identity # id
                 /\ identity' = id
                 /\ RenderMain(i, "select", id)
                 /\ UNCHANGED schema

\* Mutant: the button can be clicked while its handler runs.
ClickReplayAgain(i) ==
  /\ Starts(i)
  /\ disabled' = TRUE
  /\ Await(i, "replay", "post", NULL, NULL)
  /\ UNCHANGED <<identity, schema, feed, page, tray>>

ClickReplay(i) == /\ Starts(i) /\ ~disabled
                  /\ disabled' = TRUE
                  /\ Await(i, "replay", "post", NULL, NULL)
                  /\ UNCHANGED <<identity, schema, feed, page, tray>>

\* Buttons of the view on the page, which send a POST, PATCH or DELETE: edit
\* is the lead's enable/disable and the head of support's new rule.
LeadButtons  == {"edit", "delete", "template"}
HosButtons   == {"edit", "delete"}
AgentButtons == {"save"}

Buttons(role) == CASE role = "lead"  -> LeadButtons
                   [] role = "hos"   -> HosButtons
                   [] role = "agent" -> AgentButtons

ClickRule(i) ==
  /\ Starts(i) /\ page # NULL
  /\ \E b \in Buttons(page.role) : Await(i, b, "rule", NULL, NULL)
  /\ UNCHANGED <<identity, schema, feed, page, tray, disabled>>

OpenTray == /\ tray = NULL
            /\ tray' = TrayFor(identity, feed)
            /\ UNCHANGED <<identity, schema, feed, page, disabled,
                           task, run, calm, failed, stripVars>>

CloseTray == /\ tray # NULL
             /\ tray' = NULL
             /\ UNCHANGED <<identity, schema, feed, page, disabled,
                            task, run, calm, failed, stripVars>>

-----------------------------------------------------------------------------
(* The server, seen from here: it answers in any order and may fail, also  *)
(* after it has done what it was asked for; the process may restart, and   *)
(* then has no last run.                                                   *)

\* What a request may make of the run: a replay of events.jsonl ends with open
\* alerts, a DELETE may close what was open.
RunsAfter(t) ==
  CASE t.pc = "post"                                    -> {"open"}
    [] t.pc = "rule" /\ t.kind = "delete" /\ run # NULL -> {run, "clear"}
    [] OTHER                                            -> {run}

Answer(i) ==
  /\ task[i] # NULL /\ task[i].reply = NULL
  /\ \/ /\ run # NULL \/ task[i].pc \notin {"view", "digest", "org"}
        /\ run' \in RunsAfter(task[i])
        /\ task' = [task EXCEPT ![i].reply =
                             IF task[i].pc = "org" THEN run ELSE "ok"]
     \/ /\ run' \in RunsAfter(task[i]) \cup {run}
        /\ task' = [task EXCEPT ![i].reply = "error"]
  /\ UNCHANGED <<identity, schema, feed, page, tray, disabled, calm,
                 failed, stripVars>>

Restart == /\ run # NULL
           /\ run' = NULL
           /\ UNCHANGED <<identity, schema, feed, page, tray, disabled,
                          task, calm, failed, stripVars>>

-----------------------------------------------------------------------------
(* The handlers after each await. *)

Arrives(i, pc) == /\ task[i] # NULL /\ task[i].pc = pc /\ task[i].reply # NULL
                  /\ UNCHANGED <<identity, run, calm>>

\* renderMain goes on with the persona that is selected by now.
SchemaArrives(i) ==
  /\ Arrives(i, "schema")
  /\ IF task[i].reply = "ok" /\ identity # NULL
     THEN Await(i, task[i].kind, "view", RoleOf[identity], identity)
          /\ UNCHANGED disabled
     ELSE Return(i)
  /\ schema' = (schema \/ task[i].reply = "ok")
  /\ failed' = (failed \/ task[i].reply = "error")
  /\ UNCHANGED <<feed, page, tray, stripVars>>

\* template and save call their view directly and leave the tray as it is.
ViewArrives(i) ==
  /\ Arrives(i, "view")
  /\ IF task[i].reply = "ok"
     THEN /\ feed' = task[i].who
          /\ page' = [role |-> task[i].role, who |-> task[i].who]
          /\ IF task[i].kind \in {"template", "save"} THEN UNCHANGED tray
             ELSE Refreshed(identity, feed')
     ELSE UNCHANGED <<feed, page, tray>>
  /\ failed' = (\/ task[i].reply = "error"
                \/ failed /\ task[i].kind \in {"template", "save"})
  /\ Return(i)
  /\ UNCHANGED <<schema, stripVars>>

\* Mutant: a deleted rule's alerts stay in the strip.
AfterDeleteNoReload(i) == RenderMain(i, "delete", identity)

AfterDelete(i) == /\ Await(i, "delete", "org", NULL, NULL)
                  /\ UNCHANGED <<feed, page, tray, disabled>>

RuleArrives(i) ==
  /\ Arrives(i, "rule")
  /\ LET kind == task[i].kind
     IN  CASE task[i].reply = "error" ->
                Return(i) /\ UNCHANGED <<feed, page, tray>>
           [] task[i].reply = "ok" /\ kind = "delete" ->
                AfterDelete(i)
           [] task[i].reply = "ok" /\ kind = "edit" ->
                RenderMain(i, kind, identity)
           [] task[i].reply = "ok" /\ kind = "template" ->
                LoadView(i, kind, "lead", identity)
                /\ UNCHANGED <<feed, page, tray>>
           [] task[i].reply = "ok" /\ kind = "save" ->
                LoadView(i, kind, "agent", identity)
                /\ UNCHANGED <<feed, page, tray>>
  /\ missed' = (calm /\ (missed \/ (/\ task[i].reply = "error"
                                    /\ task[i].kind = "delete")))
  /\ UNCHANGED <<schema, failed, lastReplay, strip>>

ReplayArrives(i) ==
  /\ Arrives(i, "post")
  /\ IF task[i].reply = "ok"
     THEN Await(i, "replay", "digest", NULL, NULL) /\ UNCHANGED disabled
     ELSE Return(i)
  /\ lastReplay' = (lastReplay \/ task[i].reply = "ok")
  /\ missed' = (calm /\ (missed \/ task[i].reply = "error"))
  /\ UNCHANGED <<schema, feed, page, tray, failed, strip>>

DigestArrives(i) ==
  /\ Arrives(i, "digest")
  /\ Await(i, "replay", "org", NULL, NULL)
  /\ UNCHANGED <<schema, feed, page, tray, disabled, failed, stripVars>>

\* refreshOrgWideNotifications takes every error for "no replay run yet"; then
\* renderMain.
OrgWideArrives(i) ==
  /\ Arrives(i, "org")
  /\ strip' = StripOf(task[i].reply)
  /\ missed' = (calm /\ task[i].reply = "error")
  /\ RenderMain(i, task[i].kind, identity)
  /\ UNCHANGED <<schema, failed, lastReplay>>

Continue(i) == \/ SchemaArrives(i)
               \/ ViewArrives(i)
               \/ RuleArrives(i)
               \/ ReplayArrives(i)
               \/ DigestArrives(i)
               \/ OrgWideArrives(i)

BrowserNext == \/ \E i \in Tasks : \/ \E id \in Personas \cup {NULL} : Select(i, id)
                                   \/ ClickReplay(i)
                                   \/ ClickRule(i)
                                   \/ Answer(i)
                                   \/ Continue(i)
               \/ OpenTray
               \/ CloseTray
               \/ Restart

BrowserSpec == BrowserInit /\ [][BrowserNext]_browserVars

\* fetch settles, and the event loop runs a handler whose answer is there.
Settles == \A i \in Tasks : WF_browserVars(Answer(i) \/ Continue(i))

FairBrowserSpec == BrowserSpec /\ Settles

-----------------------------------------------------------------------------
\* A person who waits for each handler to finish, and whose last load
\* succeeded, reads their own entries: in state.notifications, on the page and
\* in the tray, whichever handlers ran, whether the tray was open meanwhile, and
\* whatever failed before renderMain last showed a view.  (Before the first
\* replay every load fails with a 409.)
PatientPersonaSeesOwnFeed ==
  calm /\ Quiet /\ ~failed =>
    /\ feed = identity
    /\ identity = NULL <=> page = NULL
    /\ page # NULL => page = [role |-> RoleOf[identity], who |-> identity]
    /\ tray # NULL => /\ tray.items = identity
                      /\ tray.card => RoleOf[identity] = "hos"

\* The strip counts "org-wide open alerts": for a person who waits, after a
\* replay of this page and until the server loses it, it says whether an alert
\* is open in the server's run, after deletes that closed some as well; unless
\* a replay, a DELETE or the last reload failed, after which it may say "all
\* clear" while alerts are open.
PatientStripIsCurrent ==
  calm /\ Quiet /\ ~missed /\ lastReplay /\ run # NULL => strip = run

\* The replay button is disabled for as long as its handler runs, on every
\* path through the handler, so that one page has one replay at a time ...
OneReplayPerPage ==
  disabled <=> \E i \in Tasks : task[i] # NULL /\ task[i].kind = "replay"

\* ... and it comes back.
ReplayButtonReturns == disabled ~> ~disabled

\* The comment in renderMain: the tray is refreshed "so it never shows stale
\* data from a previously-selected persona".  Loads are answered in any order
\* and the last answer wins, although none fails.
TrayIsNeverStale ==
  Quiet /\ ~failed /\ identity # NULL /\ tray # NULL =>
    /\ tray.items \in {identity, NULL}
    /\ tray.card => RoleOf[identity] = "hos"
=============================================================================
