--------------------------- MODULE BrowserProofs ---------------------------
(***************************************************************************)
(* Proofs about Browser, for any personas and any number of handlers in    *)
(* progress at once.                                                       *)
(***************************************************************************)
EXTENDS Browser, TLAPS

-----------------------------------------------------------------------------
(* Which handler waits for which request. *)

Fits(t) ==
  /\ t.pc \in {"post", "digest"} => t.kind = "replay"
  /\ t.pc = "rule" => t.kind \in {"edit", "delete", "template", "save"}
  /\ t.pc = "org" => /\ t.kind \in {"boot", "delete", "replay"}
                     /\ t.reply \in {NULL, "error", "open", "clear"}
  /\ t.pc # "org" => t.reply \in {NULL, "error", "ok"}
  /\ t.pc = "schema" => t.kind \in {"main", "replay"}
  /\ t.pc = "view" => /\ t.kind \in {"main", "replay", "template", "save"}
                      /\ t.role # NULL /\ t.who # NULL

Running(t) == t \in Task /\ Fits(t)

TypeInv ==
  /\ DOMAIN task = Tasks
  /\ \A i \in Tasks : task[i] # NULL => Running(task[i])
  /\ identity \in Personas \cup {NULL}
  /\ page \in View \cup {NULL}
  /\ run \in {NULL, "open", "clear"}
  /\ {disabled, schema, calm, failed, missed, lastReplay} \subseteq BOOLEAN

\* A slot gets another task, or none, and the other slots stay.
Put(i, t) == task' = [task EXCEPT ![i] = t]

LEMMA PutIs ==
  ASSUME TypeInv, NEW i \in Tasks, NEW t, Put(i, t)
  PROVE  /\ DOMAIN task' = Tasks
         /\ task'[i] = t
         /\ \A j \in Tasks \ {i} : task'[j] = task[j]
BY DEF TypeInv, Put

LEMMA PutTyped ==
  ASSUME TypeInv, NEW i \in Tasks, NEW t, Put(i, t),
         t # NULL => Running(t),
         identity' \in Personas \cup {NULL},
         page' \in View \cup {NULL},
         run' \in {NULL, "open", "clear"},
         {disabled', schema', calm', failed', missed', lastReplay'} \subseteq BOOLEAN
  PROVE  TypeInv'
<1>1. /\ DOMAIN task' = Tasks
      /\ task'[i] = t
      /\ \A j \in Tasks \ {i} : task'[j] = task[j]
  BY PutIs
<1>2. \A j \in Tasks : task'[j] # NULL => Running(task'[j])
  BY <1>1 DEF TypeInv
<1> QED BY <1>1, <1>2 DEF TypeInv

\* The task an Await leaves in its slot.
Waiting(kind, pc, role, who) ==
  [kind |-> kind, pc |-> pc, reply |-> NULL, role |-> role, who |-> who]

LEMMA AwaitPuts ==
  ASSUME NEW i, NEW kind, NEW pc, NEW role, NEW who
  PROVE  Await(i, kind, pc, role, who) <=> Put(i, Waiting(kind, pc, role, who))
BY DEF Await, Put, Waiting

LEMMA WaitingIs ==
  ASSUME NEW kind \in {"boot", "main", "replay", "edit", "delete", "template", "save"},
         NEW pc \in {"org", "schema", "view", "post", "digest", "rule"},
         NEW role \in Roles \cup {NULL}, NEW who \in Personas \cup {NULL}
  PROVE  /\ Waiting(kind, pc, role, who) \in Task
         /\ Waiting(kind, pc, role, who) # NULL
         /\ Waiting(kind, pc, role, who).kind = kind
         /\ Waiting(kind, pc, role, who).pc = pc
         /\ Waiting(kind, pc, role, who).reply = NULL
         /\ Waiting(kind, pc, role, who).role = role
         /\ Waiting(kind, pc, role, who).who = who
<1>1. Waiting(kind, pc, role, who) \in Task
  BY DEF Waiting, Task
<1> QED BY <1>1, NullIsNoState DEF Waiting

\* renderMain leaves a task that goes on with its caller, or none when there is
\* no persona.
Rendered(i, caller, id, t) ==
  /\ Put(i, t)
  /\ t # NULL =>
       /\ Running(t) /\ id # NULL
       /\ t.kind = (IF caller = "replay" THEN "replay" ELSE "main")
       /\ t.pc \in {"schema", "view"}
       /\ t.pc = "view" => t.role = RoleOf[id] /\ t.who = id
       /\ UNCHANGED <<feed, page, tray, disabled>>
  /\ t = NULL =>
       /\ id = NULL /\ feed' = NULL /\ page' = NULL
       /\ Refreshed(NULL, NULL)
       /\ disabled' = (disabled /\ caller # "replay")

LEMMA RenderMainIs ==
  ASSUME NEW i \in Tasks, NEW caller, NEW id \in Personas \cup {NULL},
         RenderMain(i, caller, id)
  PROVE  \E t : Rendered(i, caller, id, t)
<1> DEFINE kind == IF caller = "replay" THEN caller ELSE "main"
<1>1. CASE id = NULL
  BY <1>1 DEF RenderMain, Rendered, Put
<1>2. CASE id # NULL /\ schema
  <2>1. RoleOf[id] \in Roles /\ RoleOf[id] # NULL
    BY <1>2, RolesGiven, NullIsNoState DEF Roles
  <2>2. PICK t : t = Waiting(kind, "view", RoleOf[id], id)
    OBVIOUS
  <2>3. Put(i, t) /\ UNCHANGED <<feed, page, tray, disabled>>
    BY <1>2, <2>2, AwaitPuts DEF RenderMain
  <2>4. /\ t \in Task /\ t # NULL /\ t.kind = kind /\ t.pc = "view"
        /\ t.reply = NULL /\ t.role = RoleOf[id] /\ t.who = id
    BY <2>1, <2>2, WaitingIs
  <2>5. Rendered(i, caller, id, t)
    BY <1>2, <2>1, <2>3, <2>4 DEF Rendered, Running, Fits
  <2> QED BY <2>5
<1>3. CASE id # NULL /\ ~schema
  <2>1. PICK t : t = Waiting(kind, "schema", NULL, NULL)
    OBVIOUS
  <2>2. Put(i, t) /\ UNCHANGED <<feed, page, tray, disabled>>
    BY <1>3, <2>1, AwaitPuts DEF RenderMain
  <2>3. /\ t \in Task /\ t # NULL /\ t.kind = kind /\ t.pc = "schema"
        /\ t.reply = NULL
    BY <2>1, WaitingIs
  <2>4. Rendered(i, caller, id, t)
    BY <1>3, <2>2, <2>3 DEF Rendered, Running, Fits
  <2> QED BY <2>4
<1> QED BY <1>1, <1>2, <1>3

-----------------------------------------------------------------------------
(* What each action does to its slot. *)

\* A handler goes on waiting, for a request of its own.
Waits(i, t) == Put(i, t) /\ t # NULL /\ Running(t) /\ UNCHANGED disabled

LEMMA AwaitWaits ==
  ASSUME NEW i, NEW kind \in {"boot", "main", "replay", "edit", "delete",
                              "template", "save"},
         NEW pc \in {"org", "schema", "view", "post", "digest", "rule"},
         NEW role \in Roles \cup {NULL}, NEW who \in Personas \cup {NULL},
         pc \in {"post", "digest"} => kind = "replay",
         pc = "rule" => kind \in {"edit", "delete", "template", "save"},
         pc = "org" => kind \in {"boot", "delete", "replay"},
         pc = "schema" => kind \in {"main", "replay"},
         pc = "view" => /\ kind \in {"main", "replay", "template", "save"}
                        /\ role # NULL /\ who # NULL,
         Await(i, kind, pc, role, who)
  PROVE  \E t : /\ Put(i, t) /\ t # NULL /\ Running(t)
               /\ t.kind = kind /\ t.pc = pc /\ t.reply = NULL
               /\ t.role = role /\ t.who = who
<1>1. PICK t : t = Waiting(kind, pc, role, who)
  OBVIOUS
<1>2. /\ t \in Task /\ t # NULL /\ t.kind = kind /\ t.pc = pc
      /\ t.reply = NULL /\ t.role = role /\ t.who = who
  BY <1>1, WaitingIs
<1>3. Put(i, t)
  BY <1>1, AwaitPuts
<1>4. Fits(t)
  BY <1>2 DEF Fits
<1> QED BY <1>2, <1>3, <1>4 DEF Running

\* The task t is task[i] with an answer.
Answered(i, t) ==
  /\ Waits(i, t)
  /\ task[i] # NULL
  /\ t.kind = task[i].kind /\ t.pc = task[i].pc
  /\ t.role = task[i].role /\ t.who = task[i].who
  /\ t.reply \in {"ok", "error", "open", "clear"}
  /\ t.pc = "org" => t.reply \in {"error", run}
  /\ run' \in {NULL, "open", "clear"}
  /\ run' = run \/ t.pc = "post" \/ (t.pc = "rule" /\ t.kind = "delete")
  /\ UNCHANGED <<identity, schema, feed, page, tray, calm, failed, stripVars>>

LEMMA AnswerIs ==
  ASSUME TypeInv, NEW i \in Tasks, Answer(i)
  PROVE  \E t : Answered(i, t)
<1>1. PICK q : q = task[i]
  OBVIOUS
<1>2. q # NULL /\ q \in Task /\ Fits(q)
  BY <1>1 DEF TypeInv, Running, Answer
<1>3. PICK r : /\ task' = [task EXCEPT ![i].reply = r]
               /\ r \in {"ok", "error", "open", "clear"}
               /\ r = "error" \/ IF q.pc = "org" THEN r = run ELSE r = "ok"
  <2>1. run # NULL => run \in {"ok", "error", "open", "clear"}
    BY DEF TypeInv
  <2> QED BY <1>1, <2>1 DEF Answer
<1>4. PICK t : t = [q EXCEPT !.reply = r]
  OBVIOUS
<1>5. /\ t \in Task /\ t.kind = q.kind /\ t.pc = q.pc /\ t.reply = r
      /\ t.role = q.role /\ t.who = q.who
  BY <1>2, <1>3, <1>4 DEF Task, Replies
<1>6. Put(i, t)
  BY <1>1, <1>3, <1>4 DEF Put
<1>7. t # NULL /\ Running(t)
  <2>1. run \in {NULL, "open", "clear"}
    BY DEF TypeInv
  <2>2. q.pc = "org" => r \in {NULL, "error", "open", "clear"}
    BY <1>3, <2>1
  <2>3. q.pc # "org" => r \in {"error", "ok"}
    BY <1>3
  <2>4. Fits(t)
    BY <1>2, <1>5, <2>2, <2>3 DEF Fits
  <2> QED BY <1>5, <2>4, NullIsNoState DEF Running
<1>8. run' \in RunsAfter(q) \cup {run}
  BY <1>1 DEF Answer
<1>9. /\ run' \in {NULL, "open", "clear"}
      /\ run' = run \/ q.pc = "post" \/ (q.pc = "rule" /\ q.kind = "delete")
  BY <1>8 DEF RunsAfter, TypeInv
<1>10. UNCHANGED <<identity, schema, feed, page, tray, disabled, calm, failed, stripVars>>
  BY DEF Answer
<1>11. q.pc = "org" => r \in {"error", run}
  BY <1>3
<1> QED
  BY <1>1, <1>2, <1>3, <1>5, <1>6, <1>7, <1>9, <1>10, <1>11 DEF Answered, Waits

\* What the handlers in SchemaArrives and RuleArrives do next.
LEMMA SchemaIs ==
  ASSUME TypeInv, NEW i \in Tasks, SchemaArrives(i)
  PROVE  \/ \E t : /\ Waits(i, t) /\ task[i].reply = "ok" /\ identity # NULL
                   /\ t.kind = task[i].kind /\ t.kind \in {"main", "replay"}
                   /\ t.pc = "view" /\ t.role = RoleOf[identity]
                   /\ t.who = identity
         \/ Return(i) /\ (task[i].reply = "error" \/ identity = NULL)
<1>1. PICK q : q = task[i]
  OBVIOUS
<1>2. /\ q # NULL /\ Fits(q) /\ q.pc = "schema" /\ q.reply # NULL
      /\ q.kind \in {"main", "replay"} /\ q.reply \in {"error", "ok"}
  BY <1>1 DEF TypeInv, Running, SchemaArrives, Arrives, Fits
<1>3. CASE q.reply = "ok" /\ identity # NULL
  <2>1. identity \in Personas /\ RoleOf[identity] \in Roles /\ RoleOf[identity] # NULL
    BY <1>3, RolesGiven, NullIsNoState DEF TypeInv
  <2>2. Await(i, q.kind, "view", RoleOf[identity], identity) /\ UNCHANGED disabled
    BY <1>1, <1>3 DEF SchemaArrives
  <2>3. PICK t : /\ Put(i, t) /\ t # NULL /\ Running(t)
                 /\ t.kind = q.kind /\ t.pc = "view" /\ t.reply = NULL
                 /\ t.role = RoleOf[identity] /\ t.who = identity
    BY <1>2, <1>3, <2>1, <2>2, AwaitWaits
  <2> QED BY <1>1, <1>2, <1>3, <2>2, <2>3 DEF Waits
<1>4. CASE ~(q.reply = "ok" /\ identity # NULL)
  BY <1>1, <1>2, <1>4 DEF SchemaArrives
<1> QED BY <1>3, <1>4

LEMMA LoadViewIs ==
  ASSUME TypeInv, NEW i \in Tasks, NEW kind \in {"template", "save"},
         NEW role \in Roles, LoadView(i, kind, role, identity)
  PROVE  \/ \E t : /\ Waits(i, t) /\ identity # NULL
                   /\ t.kind = kind /\ t.pc = "view"
                   /\ t.role = role /\ t.who = identity
         \/ Put(i, NULL) /\ UNCHANGED disabled /\ identity = NULL
<1>1. CASE identity = NULL
  BY <1>1 DEF LoadView, Put
<1>2. CASE identity # NULL
  <2>1. identity \in Personas /\ role # NULL
    BY <1>2, NullIsNoState DEF TypeInv
  <2>2. Await(i, kind, "view", role, identity) /\ UNCHANGED disabled
    BY <1>2 DEF LoadView
  <2> QED BY <1>2, <2>1, <2>2, AwaitWaits DEF Waits
<1> QED BY <1>1, <1>2

\* The outcomes of RuleArrives.
RuleOutcome(i) ==
  \/ Return(i) /\ task[i].reply = "error" /\ UNCHANGED <<feed, page, tray>>
  \/ \E t : /\ Waits(i, t) /\ task[i].reply = "ok" /\ task[i].kind = "delete"
           /\ t.kind = "delete" /\ t.pc = "org" /\ t.reply = NULL
           /\ UNCHANGED <<feed, page, tray>>
  \/ \E t : Rendered(i, "edit", identity, t) /\ task[i].kind = "edit"
  \/ \E t : /\ Waits(i, t) /\ identity # NULL
           /\ task[i].kind \in {"template", "save"} /\ t.kind = task[i].kind
           /\ t.pc = "view" /\ t.who = identity
           /\ t.role = (IF t.kind = "template" THEN "lead" ELSE "agent")
           /\ UNCHANGED <<feed, page, tray>>
  \/ /\ Put(i, NULL) /\ UNCHANGED disabled /\ identity = NULL
     /\ task[i].kind \in {"template", "save"}
     /\ UNCHANGED <<feed, page, tray>>

LEMMA RuleIs ==
  ASSUME TypeInv, NEW i \in Tasks, RuleArrives(i)
  PROVE  RuleOutcome(i)
<1>1. PICK q : q = task[i]
  OBVIOUS
<1>2. /\ q # NULL /\ Fits(q) /\ q.pc = "rule" /\ q.reply # NULL
      /\ q.kind \in {"edit", "delete", "template", "save"}
      /\ q.reply \in {"error", "ok"}
  BY <1>1 DEF TypeInv, Running, RuleArrives, Arrives, Fits
<1>3. CASE q.reply = "error"
  BY <1>1, <1>3 DEF RuleArrives, RuleOutcome
<1>4. CASE q.reply = "ok" /\ q.kind = "delete"
  <2>1. Await(i, "delete", "org", NULL, NULL) /\ UNCHANGED <<feed, page, tray, disabled>>
    BY <1>1, <1>4 DEF RuleArrives, AfterDelete
  <2>2. \E t : /\ Put(i, t) /\ t # NULL /\ Running(t)
              /\ t.kind = "delete" /\ t.pc = "org" /\ t.reply = NULL
    BY <2>1, AwaitWaits
  <2> QED BY <1>1, <1>4, <2>1, <2>2 DEF RuleOutcome, Waits
<1>5. CASE q.reply = "ok" /\ q.kind = "edit"
  <2>1. RenderMain(i, "edit", identity)
    BY <1>1, <1>5 DEF RuleArrives
  <2>2. identity \in Personas \cup {NULL}
    BY DEF TypeInv
  <2> QED BY <1>1, <1>5, <2>1, <2>2, RenderMainIs DEF RuleOutcome
<1>6. CASE q.reply = "ok" /\ q.kind = "template"
  <2>1. LoadView(i, "template", "lead", identity) /\ UNCHANGED <<feed, page, tray>>
    BY <1>1, <1>6 DEF RuleArrives
  <2>2. "lead" \in Roles
    BY DEF Roles
  <2> QED BY <1>1, <1>6, <2>1, <2>2, LoadViewIs DEF RuleOutcome
<1>7. CASE q.reply = "ok" /\ q.kind = "save"
  <2>1. LoadView(i, "save", "agent", identity) /\ UNCHANGED <<feed, page, tray>>
    BY <1>1, <1>7 DEF RuleArrives
  <2>2. "agent" \in Roles
    BY DEF Roles
  <2> QED BY <1>1, <1>7, <2>1, <2>2, LoadViewIs DEF RuleOutcome
<1> QED BY <1>2, <1>3, <1>4, <1>5, <1>6, <1>7

-----------------------------------------------------------------------------
(* One replay per page. *)

Replays(t) == t # NULL /\ t.kind = "replay"

\* The button is off for one handler, which no other handler can turn on.
ButtonInv ==
  /\ OneReplayPerPage
  /\ \A i, j \in Tasks : Replays(task[i]) /\ Replays(task[j]) => i = j

PageInv == TypeInv /\ ButtonInv

LEMMA SwapKeepsButton ==
  ASSUME PageInv, NEW i \in Tasks, NEW t, Put(i, t),
         Replays(t) <=> Replays(task[i]),
         disabled' = disabled
  PROVE  ButtonInv'
<1>1. /\ task'[i] = t
      /\ \A j \in Tasks \ {i} : task'[j] = task[j]
  BY PutIs DEF PageInv
<1>2. \A j \in Tasks : Replays(task[j])' <=> Replays(task[j])
  BY <1>1 DEF Replays
<1> QED BY <1>2 DEF PageInv, ButtonInv, OneReplayPerPage, Replays

LEMMA EndKeepsButton ==
  ASSUME PageInv, NEW i \in Tasks, task[i] # NULL, Put(i, NULL),
         disabled' = (disabled /\ task[i].kind # "replay")
  PROVE  ButtonInv'
<1>1. /\ task'[i] = NULL
      /\ \A j \in Tasks \ {i} : task'[j] = task[j]
  BY PutIs DEF PageInv
<1>2. \A j \in Tasks : Replays(task[j])' <=> Replays(task[j]) /\ j # i
  BY <1>1 DEF Replays
<1>3. CASE Replays(task[i])
  <2>1. /\ \A j \in Tasks : ~Replays(task[j])'
        /\ ~disabled'
    BY <1>2, <1>3 DEF PageInv, ButtonInv, Replays
  <2> QED BY <2>1 DEF ButtonInv, OneReplayPerPage, Replays
<1>4. CASE ~Replays(task[i])
  <2>1. disabled' = disabled
    BY <1>4 DEF Replays, PageInv, TypeInv
  <2>2. \A j \in Tasks : Replays(task[j])' <=> Replays(task[j])
    BY <1>2, <1>4
  <2> QED BY <2>1, <2>2 DEF PageInv, ButtonInv, OneReplayPerPage, Replays
<1> QED BY <1>3, <1>4

\* renderMain keeps the button off for its caller, and gives it back when it
\* ends there and then.
LEMMA RenderKeepsButton ==
  ASSUME PageInv, NEW i \in Tasks, NEW caller, NEW id, NEW t,
         Rendered(i, caller, id, t),
         \/ task[i] = NULL /\ caller # "replay"
         \/ task[i] # NULL /\ (task[i].kind = "replay" <=> caller = "replay")
  PROVE  ButtonInv'
<1>1. CASE t # NULL
  BY <1>1, SwapKeepsButton DEF Rendered, Replays
<1>2. CASE t = NULL /\ task[i] = NULL
  <2>1. disabled' = disabled
    BY <1>2 DEF Rendered, PageInv, TypeInv
  <2> QED BY <1>2, <2>1, SwapKeepsButton DEF Rendered, Replays
<1>3. CASE t = NULL /\ task[i] # NULL
  <2>1. disabled' = (disabled /\ task[i].kind # "replay")
    BY <1>3 DEF Rendered
  <2> QED BY <1>3, <2>1, EndKeepsButton DEF Rendered
<1> QED BY <1>1, <1>2, <1>3

LEMMA PageInit == BrowserInit => PageInv
<1> SUFFICES ASSUME BrowserInit PROVE PageInv
  OBVIOUS
<1>1. PICK t : t = Waiting("boot", "org", NULL, NULL)
  OBVIOUS
<1>2. /\ t \in Task /\ t # NULL /\ t.kind = "boot" /\ t.pc = "org" /\ t.reply = NULL
  BY <1>1, WaitingIs
<1>3. /\ DOMAIN task = Tasks
      /\ \A i \in Tasks : task[i] = IF i = 1 THEN t ELSE NULL
  BY <1>1 DEF BrowserInit, Waiting
<1>4. Running(t)
  BY <1>2 DEF Running, Fits
<1>5. TypeInv
  BY <1>3, <1>4 DEF BrowserInit, TypeInv
<1>6. ButtonInv
  BY <1>2, <1>3 DEF BrowserInit, ButtonInv, OneReplayPerPage, Replays
<1> QED BY <1>5, <1>6 DEF PageInv

LEMMA PageStep == PageInv /\ [BrowserNext]_browserVars => PageInv'
<1> SUFFICES ASSUME PageInv, [BrowserNext]_browserVars PROVE PageInv'
  OBVIOUS
<1>0. TypeInv /\ ButtonInv
  BY DEF PageInv
<1>b. {disabled, schema, calm, failed, missed, lastReplay} \subseteq BOOLEAN
  BY <1>0 DEF TypeInv
\* A handler starts, and does not touch what Starts leaves alone.
<1>s. ASSUME NEW i \in Tasks, Starts(i)
      PROVE  /\ task[i] = NULL /\ {calm', missed'} \subseteq BOOLEAN
             /\ UNCHANGED <<run, failed, lastReplay>>
  BY <1>s, <1>b DEF Starts
<1>1. ASSUME NEW i \in Tasks, NEW id \in Personas \cup {NULL}, Select(i, id)
      PROVE  PageInv'
  <2>1. PICK t : Rendered(i, "select", id, t)
    BY <1>1, RenderMainIs DEF Select
  <2>2. /\ task[i] = NULL /\ {calm', missed'} \subseteq BOOLEAN
        /\ UNCHANGED <<run, failed, lastReplay, schema>> /\ identity' = id
    BY <1>1, <1>s DEF Select
  <2>3. Put(i, t) /\ (t # NULL => Running(t))
    BY <2>1 DEF Rendered
  <2>4. page' \in View \cup {NULL} /\ disabled' \in BOOLEAN
    BY <1>0, <2>1 DEF Rendered, TypeInv
  <2>5. TypeInv'
    BY <1>0, <1>b, <2>2, <2>3, <2>4, PutTyped DEF TypeInv
  <2>6. ButtonInv'
    BY <2>1, <2>2, RenderKeepsButton
  <2> QED BY <2>5, <2>6 DEF PageInv
<1>2. ASSUME NEW i \in Tasks, ClickReplay(i) PROVE PageInv'
  <2>1. PICK t : /\ Put(i, t) /\ t # NULL /\ Running(t) /\ t.kind = "replay"
    BY <1>2, AwaitWaits DEF ClickReplay
  <2>2. /\ task[i] = NULL /\ {calm', missed'} \subseteq BOOLEAN
        /\ UNCHANGED <<run, failed, lastReplay, schema, identity, page>>
        /\ ~disabled /\ disabled'
    BY <1>2, <1>s DEF ClickReplay
  <2>3. TypeInv'
    BY <1>0, <1>b, <2>1, <2>2, <1>2, PutTyped DEF TypeInv, ClickReplay
  <2>4. /\ task'[i] = t
        /\ \A j \in Tasks \ {i} : task'[j] = task[j]
    BY <1>0, <2>1, PutIs
  <2>5. \A j \in Tasks : ~Replays(task[j])
    BY <1>0, <2>2 DEF ButtonInv, OneReplayPerPage, Replays
  <2>6. \A j \in Tasks : Replays(task[j])' <=> j = i
    BY <2>1, <2>4, <2>5 DEF Replays
  <2>7. ButtonInv'
    BY <2>2, <2>6 DEF ButtonInv, OneReplayPerPage, Replays
  <2> QED BY <2>3, <2>7 DEF PageInv
<1>3. ASSUME NEW i \in Tasks, ClickRule(i) PROVE PageInv'
  <2>1. page \in View /\ page.role \in {"lead", "hos", "agent"}
    BY <1>0, <1>3 DEF ClickRule, TypeInv, View, Roles
  <2>2. PICK b \in {"edit", "delete", "template", "save"} :
          Await(i, b, "rule", NULL, NULL)
    BY <1>3, <2>1 DEF ClickRule, Buttons, LeadButtons, HosButtons, AgentButtons
  <2>3. PICK t : /\ Put(i, t) /\ t # NULL /\ Running(t) /\ t.kind = b
    BY <2>2, AwaitWaits
  <2>4. /\ task[i] = NULL /\ {calm', missed'} \subseteq BOOLEAN
        /\ UNCHANGED <<run, failed, lastReplay, schema, identity, page, disabled>>
    BY <1>3, <1>s DEF ClickRule
  <2>5. TypeInv'
    BY <1>0, <1>b, <2>3, <2>4, PutTyped DEF TypeInv
  <2>6. ButtonInv'
    BY <2>3, <2>4, SwapKeepsButton DEF Replays
  <2> QED BY <2>5, <2>6 DEF PageInv
<1>4. ASSUME NEW i \in Tasks, Answer(i) PROVE PageInv'
  <2>1. PICK t : Answered(i, t)
    BY <1>0, <1>4, AnswerIs
  <2>2. /\ Put(i, t) /\ t # NULL /\ Running(t) /\ task[i] # NULL
        /\ t.kind = task[i].kind /\ run' \in {NULL, "open", "clear"}
        /\ UNCHANGED <<identity, schema, page, calm, failed, disabled, lastReplay, missed>>
    BY <2>1 DEF Answered, Waits, stripVars
  <2>3. TypeInv'
    BY <1>0, <1>b, <2>2, PutTyped DEF TypeInv
  <2>4. ButtonInv'
    BY <2>2, SwapKeepsButton DEF Replays
  <2> QED BY <2>3, <2>4 DEF PageInv
\* The handler of slot i goes on.
<1>a. ASSUME NEW i \in Tasks, Continue(i)
      PROVE  /\ task[i] # NULL /\ Fits(task[i])
             /\ UNCHANGED <<identity, run, calm>>
             /\ {schema', failed', missed', lastReplay'} \subseteq BOOLEAN
  BY <1>0, <1>b, <1>a
  DEF Continue, SchemaArrives, ViewArrives, RuleArrives, ReplayArrives,
      DigestArrives, OrgWideArrives, Arrives, stripVars, TypeInv, Running
<1>t. ASSUME NEW i \in Tasks, NEW t, Continue(i), Put(i, t),
             t # NULL => Running(t), page' \in View \cup {NULL},
             disabled' \in BOOLEAN
      PROVE  TypeInv'
  BY <1>0, <1>b, <1>a, <1>t, PutTyped DEF TypeInv
<1>r. ASSUME NEW i \in Tasks, Continue(i), Return(i), page' \in View \cup {NULL}
      PROVE  PageInv'
  <2>1. Put(i, NULL) /\ disabled' = (disabled /\ task[i].kind # "replay")
    BY <1>r DEF Return, Put
  <2>2. TypeInv'
    BY <1>b, <1>r, <1>t, <2>1
  <2>3. ButtonInv'
    BY <1>a, <1>r, <2>1, EndKeepsButton
  <2> QED BY <2>2, <2>3 DEF PageInv
<1>w. ASSUME NEW i \in Tasks, Continue(i), NEW t, Waits(i, t),
             t.kind = "replay" <=> task[i].kind = "replay", UNCHANGED page
      PROVE  PageInv'
  <2>1. TypeInv'
    BY <1>0, <1>b, <1>w, <1>t DEF Waits, TypeInv
  <2>2. ButtonInv'
    BY <1>a, <1>w, SwapKeepsButton DEF Waits, Replays
  <2> QED BY <2>1, <2>2 DEF PageInv
<1>m. ASSUME NEW i \in Tasks, Continue(i), NEW caller, NEW t,
             Rendered(i, caller, identity, t),
             task[i].kind = "replay" <=> caller = "replay"
      PROVE  PageInv'
  <2>1. page' \in View \cup {NULL} /\ disabled' \in BOOLEAN
    BY <1>0, <1>b, <1>m DEF Rendered, TypeInv
  <2>2. TypeInv'
    BY <1>m, <1>t, <2>1 DEF Rendered
  <2>3. ButtonInv'
    BY <1>a, <1>m, RenderKeepsButton
  <2> QED BY <2>2, <2>3 DEF PageInv
<1>5. ASSUME NEW i \in Tasks, SchemaArrives(i) PROVE PageInv'
  <2>1. Continue(i) /\ UNCHANGED page
    BY <1>5 DEF Continue, SchemaArrives
  <2>2. page' \in View \cup {NULL}
    BY <1>0, <2>1 DEF TypeInv
  <2> QED BY <1>0, <1>5, <1>r, <1>w, <2>1, <2>2, SchemaIs
<1>6. ASSUME NEW i \in Tasks, ViewArrives(i) PROVE PageInv'
  <2>1. Continue(i) /\ Return(i)
    BY <1>6 DEF Continue, ViewArrives
  <2>2. PICK q : q = task[i]
    OBVIOUS
  <2>3. q.pc = "view" /\ q \in Task /\ q.role # NULL /\ q.who # NULL
    BY <1>0, <1>6, <2>2 DEF ViewArrives, Arrives, TypeInv, Running, Fits
  <2>4. [role |-> q.role, who |-> q.who] \in View
    BY <2>3 DEF Task, View
  <2>5. page' \in View \cup {NULL}
    BY <1>0, <1>6, <2>2, <2>4 DEF ViewArrives, TypeInv
  <2> QED BY <1>r, <2>1, <2>5
<1>7. ASSUME NEW i \in Tasks, RuleArrives(i) PROVE PageInv'
  <2>1. Continue(i)
    BY <1>7 DEF Continue
  <2>2. task[i].kind \in {"edit", "delete", "template", "save"}
    BY <1>0, <1>7 DEF RuleArrives, Arrives, TypeInv, Running, Fits
  <2>3. UNCHANGED page => page' \in View \cup {NULL}
    BY <1>0 DEF TypeInv
  <2>4. ASSUME Put(i, NULL), UNCHANGED <<page, disabled>> PROVE PageInv'
    <3>1. TypeInv'
      BY <1>b, <1>t, <2>1, <2>3, <2>4
    <3>2. ButtonInv'
      BY <2>2, <2>4, SwapKeepsButton DEF Replays
    <3> QED BY <3>1, <3>2 DEF PageInv
  <2>5. RuleOutcome(i)
    BY <1>0, <1>7, RuleIs
  <2>6. CASE Return(i) /\ UNCHANGED <<feed, page, tray>>
    BY <2>6, <2>1, <2>3, <1>r
  <2>7. ASSUME NEW t, Waits(i, t), t.kind # "replay", UNCHANGED <<feed, page, tray>>
        PROVE  PageInv'
    BY <2>1, <2>2, <2>7, <1>w
  <2>8. ASSUME NEW t, Rendered(i, "edit", identity, t) PROVE PageInv'
    BY <2>1, <2>2, <2>8, <1>m
  <2> QED BY <2>2, <2>4, <2>5, <2>6, <2>7, <2>8 DEF RuleOutcome
<1>8. ASSUME NEW i \in Tasks, ReplayArrives(i) PROVE PageInv'
  <2>1. Continue(i) /\ UNCHANGED page /\ task[i].kind = "replay"
    BY <1>0, <1>8 DEF Continue, ReplayArrives, Arrives, TypeInv, Running, Fits
  <2>2. page' \in View \cup {NULL}
    BY <1>0, <2>1 DEF TypeInv
  <2>3. CASE task[i].reply = "ok"
    <3>1. Await(i, "replay", "digest", NULL, NULL) /\ UNCHANGED disabled
      BY <1>8, <2>3 DEF ReplayArrives
    <3>2. PICK t : Waits(i, t) /\ t.kind = "replay"
      BY <3>1, AwaitWaits DEF Waits
    <3> QED BY <1>w, <2>1, <3>2
  <2>4. CASE task[i].reply # "ok"
    BY <1>8, <1>r, <2>1, <2>2, <2>4 DEF ReplayArrives
  <2> QED BY <2>3, <2>4
<1>9. ASSUME NEW i \in Tasks, DigestArrives(i) PROVE PageInv'
  <2>1. Continue(i) /\ UNCHANGED page /\ task[i].kind = "replay"
    BY <1>0, <1>9 DEF Continue, DigestArrives, Arrives, TypeInv, Running, Fits
  <2>2. Await(i, "replay", "org", NULL, NULL) /\ UNCHANGED disabled
    BY <1>9 DEF DigestArrives
  <2>3. PICK t : Waits(i, t) /\ t.kind = "replay"
    BY <2>2, AwaitWaits DEF Waits
  <2> QED BY <1>w, <2>1, <2>3
<1>10. ASSUME NEW i \in Tasks, OrgWideArrives(i) PROVE PageInv'
  <2>1. Continue(i) /\ RenderMain(i, task[i].kind, identity)
    BY <1>10 DEF Continue, OrgWideArrives
  <2>2. PICK caller : caller = task[i].kind
    OBVIOUS
  <2>3. PICK t : Rendered(i, caller, identity, t)
    BY <1>0, <2>1, <2>2, RenderMainIs DEF TypeInv
  <2> QED BY <1>m, <2>1, <2>2, <2>3
<1>11. CASE UNCHANGED <<task, disabled, identity, page, calm, failed, schema, missed,
                        lastReplay>> /\ run' \in {run, NULL}
  BY <1>0, <1>11 DEF PageInv, TypeInv, ButtonInv, OneReplayPerPage, Replays
<1>12. CASE OpenTray \/ CloseTray \/ Restart
  BY <1>11, <1>12 DEF OpenTray, CloseTray, Restart, stripVars
<1>13. CASE UNCHANGED browserVars
  BY <1>11, <1>13 DEF browserVars
<1> QED
  BY <1>1, <1>2, <1>3, <1>4, <1>5, <1>6, <1>7, <1>8, <1>9, <1>10, <1>12, <1>13
  DEF BrowserNext, Continue

LEMMA PageInvHolds == BrowserSpec => []PageInv
BY PageInit, PageStep, PTL DEF BrowserSpec

\* The replay button is off exactly while a replay's handler is in progress, on
\* every path through the handler and whatever other handlers do.
THEOREM ButtonFollowsReplay == BrowserSpec => []OneReplayPerPage
<1>1. PageInv => OneReplayPerPage
  BY DEF PageInv, ButtonInv
<1> QED BY <1>1, PageInvHolds, PTL

-----------------------------------------------------------------------------
(* A person who waits: one handler at a time. *)

OneTask == calm => \A i, j \in Tasks : task[i] # NULL /\ task[j] # NULL => i = j

\* What is on the screen is the selected persona's.
Own ==
  /\ feed = identity
  /\ identity = NULL <=> page = NULL
  /\ page # NULL => page = [role |-> RoleOf[identity], who |-> identity]
  /\ tray # NULL => /\ tray.items = identity
                    /\ tray.card => RoleOf[identity] = "hos"

\* A handler that will put the selected persona's feed and view in place.
Loads(t) == /\ t # NULL
            /\ \/ t.pc = "schema"
               \/ t.pc = "view" /\ t.kind \in {"main", "replay"}

\* A handler loads for the persona that is selected, and the two that call
\* their view directly were started from that view.
LoadsOwn(t) ==
  t # NULL =>
    /\ t.pc \in {"schema", "view"} => identity # NULL
    /\ t.pc = "view" => t.who = identity /\ t.role = RoleOf[identity]
    /\ t.kind = "template" => identity # NULL /\ RoleOf[identity] = "lead"
    /\ t.kind = "save" => identity # NULL /\ RoleOf[identity] = "agent"

\* renderMain loads for the persona that is selected, whatever failed before.
MainLoadsOwn(t) ==
  t # NULL /\ t.pc = "view" /\ t.kind \in {"main", "replay"} =>
    identity # NULL /\ t.who = identity /\ t.role = RoleOf[identity]

MainInv == calm => \A i \in Tasks : MainLoadsOwn(task[i])

FeedInv ==
  calm /\ ~failed => /\ Own \/ \E i \in Tasks : Loads(task[i])
                     /\ \A i \in Tasks : LoadsOwn(task[i])

PatientInv == PageInv /\ OneTask

LEMMA OneTaskStep == PatientInv /\ [BrowserNext]_browserVars => OneTask'
<1> SUFFICES ASSUME PatientInv, [BrowserNext]_browserVars PROVE OneTask'
  OBVIOUS
<1>0. TypeInv /\ OneTask
  BY DEF PatientInv, PageInv
<1>1. ASSUME NEW i \in Tasks, NEW t, Put(i, t), calm' => calm,
             calm' => task[i] # NULL \/ Quiet
      PROVE  OneTask'
  <2>1. /\ task'[i] = t
        /\ \A j \in Tasks \ {i} : task'[j] = task[j]
    BY <1>0, <1>1, PutIs
  <2> QED BY <1>0, <1>1, <2>1 DEF OneTask, Quiet
<1>2. ASSUME NEW i \in Tasks, Starts(i) PROVE calm' => calm /\ Quiet
  BY <1>2 DEF Starts
<1>3. ASSUME NEW i \in Tasks, NEW id \in Personas \cup {NULL}, Select(i, id)
      PROVE  OneTask'
  <2>1. PICK t : Rendered(i, "select", id, t)
    BY <1>3, RenderMainIs DEF Select
  <2> QED BY <1>1, <1>2, <1>3, <2>1 DEF Select, Rendered
<1>4. ASSUME NEW i \in Tasks, ClickReplay(i) \/ ClickRule(i) PROVE OneTask'
  <2>1. \E t : Put(i, t)
    BY <1>4, AwaitPuts DEF ClickReplay, ClickRule
  <2> QED BY <1>1, <1>2, <1>4, <2>1 DEF ClickReplay, ClickRule
<1>5. ASSUME NEW i \in Tasks, Answer(i) PROVE OneTask'
  <2>1. PICK t : Answered(i, t)
    BY <1>0, <1>5, AnswerIs
  <2> QED BY <1>1, <2>1 DEF Answered, Waits
<1>6. ASSUME NEW i \in Tasks, Continue(i) PROVE OneTask'
  <2>1. task[i] # NULL /\ calm' = calm
    BY <1>6 DEF Continue, SchemaArrives, ViewArrives, RuleArrives,
                ReplayArrives, DigestArrives, OrgWideArrives, Arrives
  <2>2. Return(i) => Put(i, NULL)
    BY DEF Return, Put
  <2>3. \E t : Put(i, t)
    <3>1. CASE SchemaArrives(i)
      BY <1>0, <2>2, <3>1, SchemaIs DEF Waits
    <3>2. CASE ViewArrives(i)
      BY <2>2, <3>2 DEF ViewArrives
    <3>3. CASE RuleArrives(i)
      BY <1>0, <2>2, <3>3, RuleIs DEF RuleOutcome, Waits, Rendered
    <3>4. CASE ReplayArrives(i)
      BY <2>2, <3>4, AwaitPuts DEF ReplayArrives
    <3>5. CASE DigestArrives(i)
      BY <3>5, AwaitPuts DEF DigestArrives
    <3>6. CASE OrgWideArrives(i)
      BY <1>0, <3>6, RenderMainIs DEF OrgWideArrives, Rendered, TypeInv
    <3> QED BY <1>6, <3>1, <3>2, <3>3, <3>4, <3>5, <3>6 DEF Continue
  <2> QED BY <1>1, <2>1, <2>3
<1>7. CASE UNCHANGED <<task, calm>>
  BY <1>0, <1>7 DEF OneTask
<1>8. CASE OpenTray \/ CloseTray \/ Restart
  BY <1>7, <1>8 DEF OpenTray, CloseTray, Restart
<1>9. CASE UNCHANGED browserVars
  BY <1>7, <1>9 DEF browserVars
<1> QED BY <1>3, <1>4, <1>5, <1>6, <1>8, <1>9 DEF BrowserNext

LEMMA PatientHolds == BrowserSpec => []PatientInv
<1>1. BrowserInit => PatientInv
  BY PageInit DEF PatientInv, OneTask, BrowserInit
<1>2. PatientInv /\ [BrowserNext]_browserVars => PatientInv'
  BY PageStep, OneTaskStep DEF PatientInv
<1> QED BY <1>1, <1>2, PTL DEF BrowserSpec

\* renderMain either has a load to do or has cleared the screen.
LEMMA RenderedOwn ==
  ASSUME PatientInv, calm', NEW i \in Tasks, NEW caller,
         NEW t, Rendered(i, caller, identity', t),
         \A j \in Tasks \ {i} : task[j] = NULL
  PROVE  FeedInv'
<1>0. TypeInv
  BY DEF PatientInv, PageInv
<1>1. /\ task'[i] = t
      /\ \A j \in Tasks \ {i} : task'[j] = task[j]
  BY <1>0, PutIs DEF Rendered
<1>2. CASE t # NULL
  <2>1. /\ Running(t) /\ identity' # NULL
        /\ t.kind \in {"replay", "main"} /\ t.pc \in {"schema", "view"}
        /\ t.pc = "view" => t.role = RoleOf[identity'] /\ t.who = identity'
    BY <1>2 DEF Rendered
  <2>2. Loads(t) /\ LoadsOwn(task[i])'
    BY <1>1, <1>2, <2>1 DEF Loads, LoadsOwn
  <2>3. \A j \in Tasks : LoadsOwn(task[j])'
    BY <1>1, <2>2 DEF LoadsOwn
  <2>4. \E j \in Tasks : Loads(task[j])'
    BY <1>1, <2>2 DEF Loads
  <2> QED BY <2>3, <2>4 DEF FeedInv, Loads
<1>3. CASE t = NULL
  <2>1. identity' = NULL /\ feed' = NULL /\ page' = NULL /\ Refreshed(NULL, NULL)
    BY <1>3 DEF Rendered
  <2>2. Own'
    BY <2>1 DEF Own, Refreshed, TrayFor
  <2>3. \A j \in Tasks : LoadsOwn(task[j])'
    BY <1>1, <1>3 DEF LoadsOwn
  <2> QED BY <2>2, <2>3 DEF FeedInv
<1> QED BY <1>2, <1>3

\* A handler that loads nothing leaves the screen as it was.
LEMMA KeepsOwn ==
  ASSUME PatientInv, FeedInv, calm, ~failed, NEW i \in Tasks, NEW t, Put(i, t),
         \A j \in Tasks \ {i} : task[j] = NULL,
         ~Loads(task[i]), LoadsOwn(t),
         UNCHANGED <<identity, feed, page, tray>>
  PROVE  FeedInv'
<1>1. /\ task'[i] = t
      /\ \A j \in Tasks \ {i} : task'[j] = task[j]
  BY PutIs DEF PatientInv, PageInv
<1>2. Own
  BY DEF FeedInv, Loads
<1>3. Own'
  BY <1>2 DEF Own
<1>4. \A j \in Tasks : LoadsOwn(task[j])'
  BY <1>1 DEF LoadsOwn
<1> QED BY <1>3, <1>4 DEF FeedInv

LEMMA MainStep ==
  PatientInv /\ MainInv /\ [BrowserNext]_browserVars => MainInv'
<1> SUFFICES ASSUME PatientInv, MainInv, [BrowserNext]_browserVars, calm'
             PROVE  MainInv'
  BY DEF MainInv
<1>0. TypeInv /\ OneTask
  BY DEF PatientInv, PageInv
\* The handler of slot i is alone and goes where it loads for the persona.
<1>a. ASSUME NEW i \in Tasks, NEW t, Put(i, t),
             \A j \in Tasks \ {i} : task[j] = NULL, MainLoadsOwn(t)'
      PROVE  MainInv'
  <2>1. /\ task'[i] = t
        /\ \A j \in Tasks \ {i} : task'[j] = NULL
    BY <1>0, <1>a, PutIs
  <2>2. MainLoadsOwn(task[i])'
    BY <1>a, <2>1 DEF MainLoadsOwn
  <2>3. \A j \in Tasks \ {i} : MainLoadsOwn(task[j])'
    BY <2>1 DEF MainLoadsOwn
  <2> QED BY <2>2, <2>3 DEF MainInv
<1>n. MainLoadsOwn(NULL)'
  BY DEF MainLoadsOwn
<1>b. ASSUME NEW i \in Tasks, NEW caller, NEW t, Rendered(i, caller, identity', t),
             \A j \in Tasks \ {i} : task[j] = NULL
      PROVE  MainInv'
  <2>1. Put(i, t)
    BY <1>b DEF Rendered
  <2>2. MainLoadsOwn(t)'
    BY <1>b DEF Rendered, MainLoadsOwn
  <2> QED BY <1>a, <1>b, <2>1, <2>2
<1>s. ASSUME NEW i \in Tasks, Starts(i) PROVE \A j \in Tasks : task[j] = NULL
  BY <1>s DEF Starts, Quiet
<1>c. ASSUME NEW i \in Tasks, NEW pc, Arrives(i, pc)
      PROVE  /\ calm /\ identity' = identity
             /\ task[i] # NULL /\ Running(task[i])
             /\ \A j \in Tasks \ {i} : task[j] = NULL
  BY <1>0, <1>c DEF Arrives, OneTask, TypeInv
<1>r. ASSUME NEW i \in Tasks, Return(i) PROVE Put(i, NULL)
  BY <1>r DEF Return, Put
<1>1. ASSUME NEW i \in Tasks, NEW id \in Personas \cup {NULL}, Select(i, id)
      PROVE  MainInv'
  <2>1. PICK t : Rendered(i, "select", id, t)
    BY <1>1, RenderMainIs DEF Select
  <2>2. identity' = id /\ Starts(i)
    BY <1>1 DEF Select
  <2> QED BY <1>b, <1>s, <2>1, <2>2
<1>2. ASSUME NEW i \in Tasks, ClickReplay(i) \/ ClickRule(i) PROVE MainInv'
  <2>1. Starts(i)
    BY <1>2 DEF ClickReplay, ClickRule
  <2>2. ASSUME NEW t, Put(i, t), t.pc \in {"post", "rule"} PROVE MainInv'
    BY <1>a, <1>s, <2>1, <2>2 DEF MainLoadsOwn
  <2>3. ClickReplay(i) => MainInv'
    BY <2>2, AwaitWaits DEF ClickReplay
  <2>4. ASSUME NEW b \in {"edit", "delete", "template", "save"},
               Await(i, b, "rule", NULL, NULL)
        PROVE  MainInv'
    <3>1. PICK t : Put(i, t) /\ t.pc = "rule"
      BY <2>4, AwaitWaits
    <3> QED BY <2>2, <3>1
  <2>5. page # NULL => page.role \in {"lead", "hos", "agent"}
    BY <1>0 DEF TypeInv, View, Roles
  <2>6. ClickRule(i) => MainInv'
    BY <2>4, <2>5 DEF ClickRule, Buttons, LeadButtons, HosButtons, AgentButtons
  <2> QED BY <1>2, <2>3, <2>6
<1>3. ASSUME NEW i \in Tasks, Answer(i) PROVE MainInv'
  <2>1. PICK t : Answered(i, t)
    BY <1>0, <1>3, AnswerIs
  <2>2. /\ Put(i, t) /\ t # NULL /\ task[i] # NULL
        /\ t.kind = task[i].kind /\ t.pc = task[i].pc
        /\ t.role = task[i].role /\ t.who = task[i].who
        /\ UNCHANGED <<identity, calm>>
    BY <2>1 DEF Answered, Waits
  <2>3. \A j \in Tasks \ {i} : task[j] = NULL
    BY <1>0, <2>2 DEF OneTask
  <2>4. MainLoadsOwn(t)'
    BY <2>2 DEF MainLoadsOwn, MainInv
  <2> QED BY <1>a, <2>2, <2>3, <2>4
<1>4. ASSUME NEW i \in Tasks, SchemaArrives(i) PROVE MainInv'
  <2>1. Arrives(i, "schema")
    BY <1>4 DEF SchemaArrives
  <2>2. ASSUME NEW t, Put(i, t), identity # NULL,
               t.role = RoleOf[identity], t.who = identity
        PROVE  MainInv'
    BY <1>a, <1>c, <2>1, <2>2 DEF MainLoadsOwn
  <2>3. Return(i) => MainInv'
    BY <1>a, <1>c, <1>n, <1>r, <2>1
  <2> QED BY <1>0, <1>4, <2>2, <2>3, SchemaIs DEF Waits
<1>5. ASSUME NEW i \in Tasks, ViewArrives(i) PROVE MainInv'
  BY <1>5, <1>a, <1>c, <1>n, <1>r DEF ViewArrives
<1>6. ASSUME NEW i \in Tasks, RuleArrives(i) PROVE MainInv'
  <2>1. Arrives(i, "rule") /\ RuleOutcome(i)
    BY <1>0, <1>6, RuleIs DEF RuleArrives
  <2>2. ASSUME NEW t, Put(i, t), t.kind = "delete" \/ t.kind \in {"template", "save"}
        PROVE  MainInv'
    BY <1>a, <1>c, <2>1, <2>2 DEF MainLoadsOwn
  <2>3. ASSUME NEW t, Rendered(i, "edit", identity, t) PROVE MainInv'
    BY <1>b, <1>c, <2>1, <2>3
  <2>4. Put(i, NULL) => MainInv'
    BY <1>a, <1>c, <1>n, <2>1
  <2> QED BY <1>r, <2>1, <2>2, <2>3, <2>4 DEF RuleOutcome, Waits
<1>7. ASSUME NEW i \in Tasks, ReplayArrives(i) PROVE MainInv'
  <2>1. Arrives(i, "post")
    BY <1>7 DEF ReplayArrives
  <2>2. PICK t : Put(i, t) /\ (t = NULL \/ t.pc = "digest")
    BY <1>7, <1>r, AwaitWaits DEF ReplayArrives
  <2> QED BY <1>a, <1>c, <2>1, <2>2 DEF MainLoadsOwn
<1>8. ASSUME NEW i \in Tasks, DigestArrives(i) PROVE MainInv'
  <2>1. Arrives(i, "digest")
    BY <1>8 DEF DigestArrives
  <2>2. PICK t : Put(i, t) /\ t.pc = "org"
    BY <1>8, AwaitWaits DEF DigestArrives
  <2> QED BY <1>a, <1>c, <2>1, <2>2 DEF MainLoadsOwn
<1>9. ASSUME NEW i \in Tasks, OrgWideArrives(i) PROVE MainInv'
  <2>1. Arrives(i, "org") /\ RenderMain(i, task[i].kind, identity)
    BY <1>9 DEF OrgWideArrives
  <2>2. PICK caller : caller = task[i].kind
    OBVIOUS
  <2>3. PICK t : Rendered(i, caller, identity, t)
    BY <1>0, <2>1, <2>2, RenderMainIs DEF TypeInv
  <2> QED BY <1>b, <1>c, <2>1, <2>3
<1>10. UNCHANGED <<identity, task, calm>> => MainInv'
  BY DEF MainInv, MainLoadsOwn
<1>11. CASE OpenTray \/ CloseTray \/ Restart \/ UNCHANGED browserVars
  BY <1>10, <1>11 DEF OpenTray, CloseTray, Restart, browserVars
<1> QED
  BY <1>1, <1>2, <1>3, <1>4, <1>5, <1>6, <1>7, <1>8, <1>9, <1>11
  DEF BrowserNext, Continue

LEMMA FeedStep ==
  PatientInv /\ MainInv /\ FeedInv /\ [BrowserNext]_browserVars => FeedInv'
<1> SUFFICES ASSUME PatientInv, MainInv, FeedInv, [BrowserNext]_browserVars,
                    calm', ~failed'
             PROVE  FeedInv'
  BY DEF FeedInv
<1>0. TypeInv /\ OneTask
  BY DEF PatientInv, PageInv
<1>s. ASSUME NEW i \in Tasks, Starts(i)
      PROVE  /\ calm /\ ~failed /\ \A j \in Tasks : task[j] = NULL
             /\ \A j \in Tasks : ~Loads(task[j])
             /\ Own
  <2>1. calm /\ Quiet /\ ~failed
    BY <1>s DEF Starts
  <2> QED BY <2>1 DEF Quiet, FeedInv, Loads
<1>1. ASSUME NEW i \in Tasks, NEW id \in Personas \cup {NULL}, Select(i, id)
      PROVE  FeedInv'
  <2>1. PICK t : Rendered(i, "select", id, t)
    BY <1>1, RenderMainIs DEF Select
  <2>2. identity' = id /\ Starts(i)
    BY <1>1 DEF Select
  <2> QED BY <1>s, <2>1, <2>2, RenderedOwn
<1>2. ASSUME NEW i \in Tasks, ClickReplay(i) PROVE FeedInv'
  <2>1. PICK t : Put(i, t) /\ t.kind = "replay" /\ t.pc = "post"
    BY <1>2, AwaitWaits DEF ClickReplay
  <2>2. LoadsOwn(t)
    BY <2>1 DEF LoadsOwn
  <2>3. Starts(i) /\ UNCHANGED <<identity, feed, page, tray>>
    BY <1>2 DEF ClickReplay
  <2> QED BY <1>s, <2>1, <2>2, <2>3, KeepsOwn
<1>3. ASSUME NEW i \in Tasks, ClickRule(i) PROVE FeedInv'
  <2>1. Starts(i) /\ page # NULL /\ UNCHANGED <<identity, feed, page, tray>>
    BY <1>3 DEF ClickRule
  <2>2. Own
    BY <1>s, <2>1
  <2>3. identity # NULL /\ page.role = RoleOf[identity] /\ identity \in Personas
    BY <1>0, <2>1, <2>2 DEF Own, TypeInv
  <2>4. page.role \in {"lead", "hos", "agent"}
    BY <2>3, RolesGiven DEF Roles
  <2>5. PICK b \in {"edit", "delete", "template", "save"} :
          /\ Await(i, b, "rule", NULL, NULL)
          /\ b = "template" => page.role = "lead"
          /\ b = "save" => page.role = "agent"
    BY <1>3, <2>4 DEF ClickRule, Buttons, LeadButtons, HosButtons, AgentButtons
  <2>6. PICK t : Put(i, t) /\ t.kind = b /\ t.pc = "rule"
    BY <2>5, AwaitWaits
  <2>7. LoadsOwn(t)
    BY <2>3, <2>5, <2>6 DEF LoadsOwn
  <2> QED BY <1>s, <2>1, <2>6, <2>7, KeepsOwn
<1>4. ASSUME NEW i \in Tasks, Answer(i) PROVE FeedInv'
  <2>1. PICK t : Answered(i, t)
    BY <1>0, <1>4, AnswerIs
  <2>2. /\ Put(i, t) /\ t # NULL /\ task[i] # NULL
        /\ t.kind = task[i].kind /\ t.pc = task[i].pc
        /\ t.role = task[i].role /\ t.who = task[i].who
        /\ UNCHANGED <<identity, feed, page, tray, calm, failed>>
    BY <2>1 DEF Answered, Waits
  <2>3. /\ task'[i] = t
        /\ \A j \in Tasks \ {i} : task'[j] = task[j]
    BY <1>0, <2>2, PutIs
  <2>4. \A j \in Tasks : Loads(task[j])' <=> Loads(task[j])
    BY <2>2, <2>3 DEF Loads
  <2>5. \A j \in Tasks : LoadsOwn(task[j]) => LoadsOwn(task[j])'
    BY <2>2, <2>3 DEF LoadsOwn
  <2>6. Own => Own'
    BY <2>2 DEF Own
  <2> QED BY <2>2, <2>4, <2>5, <2>6 DEF FeedInv
\* The one handler in progress goes on.
<1>a. ASSUME NEW i \in Tasks, Continue(i), ViewArrives(i) => ~failed
      PROVE  /\ calm /\ ~failed /\ identity' = identity
             /\ task[i] # NULL /\ Running(task[i]) /\ LoadsOwn(task[i])
             /\ \A j \in Tasks \ {i} : task[j] = NULL
             /\ Own \/ Loads(task[i])
  <2>a. \E pc : Arrives(i, pc)
    BY <1>a DEF Continue, SchemaArrives, ViewArrives, RuleArrives,
                ReplayArrives, DigestArrives, OrgWideArrives
  <2>b. \/ failed' = failed \/ failed' = (failed \/ task[i].reply = "error")
        \/ ViewArrives(i)
    BY <1>a DEF Continue, SchemaArrives, RuleArrives, ReplayArrives,
                DigestArrives, OrgWideArrives
  <2>c. task[i] # NULL /\ identity' = identity /\ calm' = calm
    BY <2>a DEF Arrives
  <2>d. calm
    BY <2>c
  <2>e. ~failed
    BY <1>a, <2>b
  <2>1. task[i] # NULL /\ calm /\ ~failed /\ identity' = identity
    BY <2>c, <2>d, <2>e
  <2>2. \A j \in Tasks \ {i} : task[j] = NULL
    BY <1>0, <2>1 DEF OneTask
  <2> QED BY <1>0, <2>1, <2>2 DEF FeedInv, Loads, TypeInv
<1>v. ASSUME NEW i \in Tasks, ViewArrives(i) PROVE task[i].pc = "view"
  BY <1>v DEF ViewArrives, Arrives
<1>k. ASSUME NEW i \in Tasks, Continue(i), NEW t, Put(i, t),
             task[i].pc \notin {"schema", "view"}, LoadsOwn(t),
             UNCHANGED <<feed, page, tray>>
      PROVE  FeedInv'
  <2>1. ~Loads(task[i])
    BY <1>k DEF Loads
  <2> QED BY <1>a, <1>k, <1>v, <2>1, KeepsOwn
<1>n. LoadsOwn(NULL)
  BY DEF LoadsOwn
<1>5. ASSUME NEW i \in Tasks, SchemaArrives(i) PROVE FeedInv'
  <2>1. Continue(i) /\ task[i].pc = "schema" /\ task[i].reply # "error"
    BY <1>5 DEF Continue, SchemaArrives, Arrives
  <2>a. ~ViewArrives(i)
    BY <1>v, <2>1
  <2>2. identity # NULL
    BY <1>a, <2>1, <2>a DEF LoadsOwn
  <2>3. PICK t : /\ Waits(i, t) /\ t.kind \in {"main", "replay"}
                 /\ t.pc = "view" /\ t.role = RoleOf[identity]
                 /\ t.who = identity
    BY <1>0, <1>5, <2>1, <2>2, SchemaIs
  <2>4. /\ task'[i] = t
        /\ \A j \in Tasks \ {i} : task'[j] = task[j]
    BY <1>0, <2>3, PutIs DEF Waits
  <2>5. Loads(task[i])'
    BY <2>3, <2>4 DEF Loads, Waits
  <2>6. \A j \in Tasks : LoadsOwn(task[j])'
    BY <1>a, <2>1, <2>a, <2>2, <2>3, <2>4 DEF LoadsOwn
  <2> QED BY <2>5, <2>6 DEF FeedInv, Loads
<1>6. ASSUME NEW i \in Tasks, ViewArrives(i) PROVE FeedInv'
  <2>1. Continue(i) /\ Put(i, NULL) /\ task[i].pc = "view"
    BY <1>6 DEF Continue, ViewArrives, Return, Put, Arrives
  <2>a. /\ calm /\ identity' = identity
        /\ task[i] # NULL /\ Running(task[i])
        /\ \A j \in Tasks \ {i} : task[j] = NULL
    BY <1>0, <1>6 DEF ViewArrives, Arrives, OneTask, TypeInv
  <2>b. ~failed \/ task[i].kind \notin {"template", "save"}
    BY <1>6 DEF ViewArrives
  <2>c. /\ identity # NULL
        /\ task[i].who = identity /\ task[i].role = RoleOf[identity]
    <3>1. CASE ~failed
      BY <2>1, <2>a, <3>1 DEF FeedInv, LoadsOwn
    <3>2. CASE task[i].kind \notin {"template", "save"}
      <4>1. task[i].kind \in {"main", "replay"}
        BY <2>1, <2>a, <3>2 DEF Running, Fits
      <4> QED BY <2>1, <2>a, <4>1 DEF MainInv, MainLoadsOwn
    <3> QED BY <2>b, <3>1, <3>2
  <2>2. task[i].reply = "ok"
    BY <1>6, <2>1, <2>a DEF ViewArrives, Arrives, Running, Fits
  <2>3. /\ feed' = identity
        /\ page' = [role |-> RoleOf[identity], who |-> identity]
        /\ identity # NULL /\ identity' = identity
    BY <1>6, <2>2, <2>a, <2>c DEF ViewArrives
  <2>4. page' # NULL
    <3>1. RoleOf[identity] \in Roles /\ identity \in Personas
      BY <1>0, <2>3, RolesGiven DEF TypeInv
    <3>2. page' \in View
      BY <2>3, <3>1 DEF View
    <3> QED BY <3>2, NullIsNoState
  <2>5. tray' # NULL => /\ tray'.items = identity
                        /\ tray'.card => RoleOf[identity] = "hos"
    <3>1. CASE task[i].kind \in {"template", "save"}
      <4>1. Own /\ UNCHANGED tray
        BY <1>6, <1>a, <2>1, <2>2, <2>b, <3>1 DEF ViewArrives, Loads
      <4> QED BY <4>1 DEF Own
    <3>2. CASE task[i].kind \notin {"template", "save"}
      <4>1. Refreshed(identity, feed')
        BY <1>6, <2>2, <3>2 DEF ViewArrives
      <4>2. PICK f : f = feed'
        OBVIOUS
      <4>3. tray' = NULL \/ tray' = TrayFor(identity, f)
        BY <4>1, <4>2 DEF Refreshed
      <4>4. TrayFor(identity, f).items = identity
        BY <2>3, <4>2 DEF TrayFor
      <4>5. TrayFor(identity, f).card => RoleOf[identity] = "hos"
        BY <2>3 DEF TrayFor
      <4> QED BY <4>3, <4>4, <4>5
    <3> QED BY <3>1, <3>2
  <2>6. Own'
    BY <2>3, <2>4, <2>5 DEF Own
  <2>7. \A j \in Tasks : task'[j] = NULL
    BY <1>0, <2>1, <2>a, PutIs
  <2> QED BY <2>6, <2>7 DEF FeedInv, LoadsOwn
<1>7. ASSUME NEW i \in Tasks, RuleArrives(i) PROVE FeedInv'
  <2>1. Continue(i) /\ task[i].pc = "rule"
    BY <1>7 DEF Continue, RuleArrives, Arrives
  <2>2. RuleOutcome(i)
    BY <1>0, <1>7, RuleIs
  <2>3. ASSUME Put(i, NULL), UNCHANGED <<feed, page, tray>> PROVE FeedInv'
    BY <1>k, <1>n, <2>1, <2>3
  <2>4. Return(i) => Put(i, NULL)
    BY DEF Return, Put
  <2>5. ASSUME NEW t, Put(i, t), t.kind = "delete", t.pc = "org",
               UNCHANGED <<feed, page, tray>>
        PROVE  FeedInv'
    <3>1. LoadsOwn(t)
      BY <2>5 DEF LoadsOwn
    <3> QED BY <1>k, <2>1, <2>5, <3>1
  <2>6. ASSUME NEW t, Rendered(i, "edit", identity, t) PROVE FeedInv'
    BY <1>a, <1>v, <2>1, <2>6, RenderedOwn
  <2>7. ASSUME NEW t, Put(i, t), identity # NULL,
               task[i].kind \in {"template", "save"}, t.kind = task[i].kind,
               t.pc = "view", t.who = identity,
               t.role = (IF t.kind = "template" THEN "lead" ELSE "agent"),
               UNCHANGED <<feed, page, tray>>
        PROVE  FeedInv'
    <3>1. LoadsOwn(t)
      BY <1>a, <1>v, <2>1, <2>7 DEF LoadsOwn
    <3> QED BY <1>k, <2>1, <2>7, <3>1
  <2> QED BY <2>2, <2>3, <2>4, <2>5, <2>6, <2>7 DEF RuleOutcome, Waits
<1>8. ASSUME NEW i \in Tasks, ReplayArrives(i) PROVE FeedInv'
  <2>1. Continue(i) /\ task[i].pc = "post" /\ UNCHANGED <<feed, page, tray>>
    BY <1>8 DEF Continue, ReplayArrives, Arrives
  <2>2. CASE task[i].reply = "ok"
    <3>1. PICK t : Put(i, t) /\ t.kind = "replay" /\ t.pc = "digest"
      BY <1>8, <2>2, AwaitWaits DEF ReplayArrives
    <3>2. LoadsOwn(t)
      BY <3>1 DEF LoadsOwn
    <3> QED BY <1>k, <2>1, <3>1, <3>2
  <2>3. CASE task[i].reply # "ok"
    BY <1>8, <1>k, <1>n, <2>1, <2>3 DEF ReplayArrives, Return, Put
  <2> QED BY <2>2, <2>3
<1>9. ASSUME NEW i \in Tasks, DigestArrives(i) PROVE FeedInv'
  <2>1. Continue(i) /\ task[i].pc = "digest" /\ UNCHANGED <<feed, page, tray>>
    BY <1>9 DEF Continue, DigestArrives, Arrives
  <2>2. PICK t : Put(i, t) /\ t.kind = "replay" /\ t.pc = "org"
    BY <1>9, AwaitWaits DEF DigestArrives
  <2>3. LoadsOwn(t)
    BY <2>2 DEF LoadsOwn
  <2> QED BY <1>k, <2>1, <2>2, <2>3
<1>10. ASSUME NEW i \in Tasks, OrgWideArrives(i) PROVE FeedInv'
  <2>1. /\ Continue(i) /\ RenderMain(i, task[i].kind, identity)
        /\ ~ViewArrives(i)
    BY <1>10, <1>v DEF Continue, OrgWideArrives, Arrives
  <2>2. PICK caller : caller = task[i].kind
    OBVIOUS
  <2>3. PICK t : Rendered(i, caller, identity, t)
    BY <1>0, <2>1, <2>2, RenderMainIs DEF TypeInv
  <2> QED BY <1>a, <2>1, <2>3, RenderedOwn
<1>11. CASE OpenTray
  <2>1. UNCHANGED <<identity, feed, page, task, calm, failed>> /\ tray' = TrayFor(identity, feed)
    BY <1>11 DEF OpenTray
  <2>2. Own => Own'
    BY <2>1 DEF Own, TrayFor
  <2> QED BY <2>1, <2>2 DEF FeedInv, Loads, LoadsOwn
<1>12. CASE CloseTray
  <2>1. UNCHANGED <<identity, feed, page, task, calm, failed>> /\ tray' = NULL
    BY <1>12 DEF CloseTray
  <2>2. Own => Own'
    BY <2>1 DEF Own
  <2> QED BY <2>1, <2>2 DEF FeedInv, Loads, LoadsOwn
<1>13. CASE Restart \/ UNCHANGED browserVars
  BY <1>13 DEF Restart, browserVars, FeedInv, Own, Loads, LoadsOwn
<1> QED
  BY <1>1, <1>2, <1>3, <1>4, <1>5, <1>6, <1>7, <1>8, <1>9, <1>10, <1>11,
     <1>12, <1>13 DEF BrowserNext, Continue

\* A person who waits for each handler to finish, and whose last load succeeded,
\* reads their own entries and no one else's.
THEOREM PatientPersonaReadsOwn == BrowserSpec => []PatientPersonaSeesOwnFeed
<1>1. BrowserInit => FeedInv
  <2> SUFFICES ASSUME BrowserInit PROVE FeedInv
    OBVIOUS
  <2>1. Own
    BY DEF BrowserInit, Own
  <2>2. \A i \in Tasks : task[i] # NULL => task[i].pc = "org" /\ task[i].kind = "boot"
    BY DEF BrowserInit
  <2> QED BY <2>1, <2>2 DEF FeedInv, LoadsOwn
<1>2. FeedInv => PatientPersonaSeesOwnFeed
  BY DEF FeedInv, PatientPersonaSeesOwnFeed, Quiet, Own, Loads
<1>3. BrowserInit => MainInv
  BY DEF BrowserInit, MainInv, MainLoadsOwn
<1> QED
  BY <1>1, <1>2, <1>3, FeedStep, MainStep, PatientHolds, PTL DEF BrowserSpec

-----------------------------------------------------------------------------
(* The status strip. *)

\* A handler that may have changed the run, or will read it for the strip.
Reloads(t) ==
  /\ t # NULL
  /\ \/ t.pc \in {"post", "digest", "org"}
     \/ t.pc = "rule" /\ t.kind = "delete"

\* An answer for the strip is about the run as it still is.
ReadsRun(t) ==
  t # NULL /\ t.pc = "org" /\ t.reply \notin {NULL, "error"} => t.reply = run

StripInv ==
  /\ calm /\ ~missed /\ lastReplay /\ run # NULL =>
       strip = run \/ \E i \in Tasks : Reloads(task[i])
  /\ calm /\ run # NULL => \A i \in Tasks : ReadsRun(task[i])

\* A handler starts or ends, or goes on to another request, and the strip stays.
LEMMA StripKept ==
  ASSUME PatientInv, StripInv, calm, NEW i \in Tasks, NEW t, Put(i, t),
         t # NULL => t.reply = NULL \/ t.pc # "org", run' = run,
         \/ UNCHANGED <<strip, lastReplay>> /\ (~missed' => ~missed)
            /\ (Reloads(task[i]) /\ ~missed' => Reloads(t))
         \/ Reloads(t)
  PROVE  StripInv'
<1>1. /\ task'[i] = t
      /\ \A j \in Tasks \ {i} : task'[j] = task[j]
  BY PutIs DEF PatientInv, PageInv
<1>2. run # NULL => \A j \in Tasks : ReadsRun(task[j])'
  BY <1>1 DEF StripInv, ReadsRun
<1>3. \A j \in Tasks : Reloads(task[j])' <=> IF j = i THEN Reloads(t) ELSE Reloads(task[j])
  BY <1>1 DEF Reloads
<1> QED BY <1>2, <1>3 DEF StripInv

LEMMA StripStep ==
  PatientInv /\ StripInv /\ [BrowserNext]_browserVars => StripInv'
<1> SUFFICES ASSUME PatientInv, StripInv, [BrowserNext]_browserVars, calm'
             PROVE  StripInv'
  BY DEF StripInv
<1>0. TypeInv /\ OneTask
  BY DEF PatientInv, PageInv
\* A handler starts in a free slot.
<1>s. ASSUME NEW i \in Tasks, Starts(i), NEW t, Put(i, t),
             t # NULL => t.reply = NULL \/ t.pc # "org"
      PROVE  StripInv'
  <2>1. /\ calm /\ run' = run /\ UNCHANGED <<strip, lastReplay>>
        /\ ~missed' => ~missed
        /\ task[i] = NULL
    BY <1>s DEF Starts
  <2> QED BY <1>s, <2>1, StripKept DEF Reloads
<1>1. ASSUME NEW i \in Tasks, NEW id \in Personas \cup {NULL}, Select(i, id)
      PROVE  StripInv'
  <2>1. PICK t : Rendered(i, "select", id, t)
    BY <1>1, RenderMainIs DEF Select
  <2> QED BY <1>1, <1>s, <2>1 DEF Select, Rendered
<1>2. ASSUME NEW i \in Tasks, ClickReplay(i) PROVE StripInv'
  <2>1. PICK t : Put(i, t) /\ t.reply = NULL
    BY <1>2, AwaitWaits DEF ClickReplay
  <2> QED BY <1>2, <1>s, <2>1 DEF ClickReplay
<1>3. ASSUME NEW i \in Tasks, ClickRule(i) PROVE StripInv'
  <2>1. page \in View /\ page.role \in {"lead", "hos", "agent"}
    BY <1>0, <1>3 DEF ClickRule, TypeInv, View, Roles
  <2>2. PICK b \in {"edit", "delete", "template", "save"} :
          Await(i, b, "rule", NULL, NULL)
    BY <1>3, <2>1 DEF ClickRule, Buttons, LeadButtons, HosButtons, AgentButtons
  <2>3. PICK t : Put(i, t) /\ t.reply = NULL
    BY <2>2, AwaitWaits
  <2> QED BY <1>3, <1>s, <2>3 DEF ClickRule
<1>4. ASSUME NEW i \in Tasks, Answer(i) PROVE StripInv'
  <2>1. PICK t : Answered(i, t)
    BY <1>0, <1>4, AnswerIs
  <2>2. /\ Put(i, t) /\ t # NULL /\ task[i] # NULL
        /\ t.kind = task[i].kind /\ t.pc = task[i].pc
        /\ t.pc = "org" => t.reply \in {"error", run}
        /\ run' = run \/ t.pc = "post" \/ (t.pc = "rule" /\ t.kind = "delete")
        /\ UNCHANGED <<calm, strip, lastReplay, missed>>
    BY <2>1 DEF Answered, Waits, stripVars
  <2>3. /\ task'[i] = t
        /\ \A j \in Tasks \ {i} : task'[j] = task[j] /\ task[j] = NULL
    BY <1>0, <2>2, PutIs DEF OneTask
  <2>4. \A j \in Tasks : ReadsRun(task[j])'
    BY <2>2, <2>3 DEF ReadsRun
  <2>5. \A j \in Tasks : Reloads(task[j])' <=> Reloads(task[j])
    BY <2>2, <2>3 DEF Reloads
  <2>6. run' = run \/ Reloads(task[i])'
    BY <2>2, <2>3 DEF Reloads
  <2> QED BY <2>2, <2>4, <2>5, <2>6 DEF StripInv
\* The one handler in progress goes on.
<1>a. ASSUME NEW i \in Tasks, NEW pc, Arrives(i, pc)
      PROVE  /\ calm /\ run' = run /\ task[i] # NULL /\ task[i].pc = pc
             /\ task[i].reply # NULL /\ Fits(task[i])
  BY <1>0, <1>a DEF Arrives, TypeInv, Running
<1>n. ASSUME NEW i \in Tasks, Return(i) PROVE Put(i, NULL)
  BY <1>n DEF Return, Put
<1>5. ASSUME NEW i \in Tasks, SchemaArrives(i) PROVE StripInv'
  <2>1. /\ calm /\ run' = run /\ ~Reloads(task[i])
        /\ UNCHANGED <<strip, lastReplay, missed>>
    BY <1>5, <1>a DEF SchemaArrives, Reloads, stripVars
  <2>2. PICK t : Put(i, t) /\ (t # NULL => t.pc = "view")
    BY <1>0, <1>5, <1>n, SchemaIs DEF Waits
  <2> QED BY <2>1, <2>2, StripKept
<1>6. ASSUME NEW i \in Tasks, ViewArrives(i) PROVE StripInv'
  <2>1. /\ calm /\ run' = run /\ ~Reloads(task[i])
        /\ UNCHANGED <<strip, lastReplay, missed>>
    BY <1>6, <1>a DEF ViewArrives, Reloads, stripVars
  <2>2. Put(i, NULL)
    BY <1>6, <1>n DEF ViewArrives
  <2> QED BY <2>1, <2>2, StripKept
<1>7. ASSUME NEW i \in Tasks, RuleArrives(i) PROVE StripInv'
  <2>1. /\ calm /\ run' = run /\ task[i].pc = "rule"
        /\ UNCHANGED <<strip, lastReplay>>
        /\ ~missed' => ~missed
        /\ task[i].reply = "error" /\ task[i].kind = "delete" => missed'
    BY <1>7, <1>a DEF RuleArrives
  <2>2. RuleOutcome(i)
    BY <1>0, <1>7, RuleIs
  <2>3. Reloads(task[i]) => task[i].kind = "delete"
    BY <2>1 DEF Reloads
  <2>4. ASSUME Return(i), task[i].reply = "error" PROVE StripInv'
    <3>1. Put(i, NULL)
      BY <1>n, <2>4
    <3> QED BY <2>1, <2>3, <2>4, <3>1, StripKept
  <2>5. ASSUME NEW t, Put(i, t), t # NULL, t.pc = "org", t.reply = NULL
        PROVE  StripInv'
    <3>1. Reloads(t)
      BY <2>5 DEF Reloads
    <3> QED BY <2>1, <2>5, <3>1, StripKept
  <2>6. ASSUME NEW t, Put(i, t), task[i].kind # "delete",
               t # NULL => t.pc # "org"
        PROVE  StripInv'
    BY <2>1, <2>3, <2>6, StripKept
  <2> QED BY <2>2, <2>4, <2>5, <2>6 DEF RuleOutcome, Waits, Rendered
<1>8. ASSUME NEW i \in Tasks, ReplayArrives(i) PROVE StripInv'
  <2>1. calm /\ run' = run /\ Arrives(i, "post")
    BY <1>8, <1>a DEF ReplayArrives
  <2>2. CASE task[i].reply = "ok"
    <3>1. PICK t : Put(i, t) /\ t # NULL /\ t.pc = "digest" /\ t.reply = NULL
      BY <1>8, <2>2, AwaitWaits DEF ReplayArrives
    <3>2. Reloads(t)
      BY <3>1 DEF Reloads
    <3> QED BY <2>1, <3>1, <3>2, StripKept
  <2>3. CASE task[i].reply # "ok"
    <3>1. task[i].reply = "error"
      BY <1>a, <2>1, <2>3 DEF Fits
    <3>2. missed' /\ strip' = strip /\ lastReplay' = lastReplay
      BY <1>0, <1>8, <2>1, <3>1 DEF ReplayArrives, TypeInv
    <3>3. Put(i, NULL)
      BY <1>8, <1>n, <2>3 DEF ReplayArrives
    <3> QED BY <2>1, <3>2, <3>3, StripKept
  <2> QED BY <2>2, <2>3
<1>9. ASSUME NEW i \in Tasks, DigestArrives(i) PROVE StripInv'
  <2>1. calm /\ run' = run
    BY <1>9, <1>a DEF DigestArrives
  <2>2. PICK t : Put(i, t) /\ t # NULL /\ t.pc = "org" /\ t.reply = NULL
    BY <1>9, AwaitWaits DEF DigestArrives
  <2>3. Reloads(t)
    BY <2>2 DEF Reloads
  <2> QED BY <2>1, <2>2, <2>3, StripKept
<1>10. ASSUME NEW i \in Tasks, OrgWideArrives(i) PROVE StripInv'
  <2>1. /\ Arrives(i, "org") /\ strip' = StripOf(task[i].reply)
        /\ missed' = (calm /\ task[i].reply = "error")
        /\ lastReplay' = lastReplay
        /\ RenderMain(i, task[i].kind, identity)
    BY <1>10 DEF OrgWideArrives
  <2>2. PICK t : Put(i, t) /\ (t # NULL => t.pc # "org")
    BY <1>0, <2>1, RenderMainIs DEF Rendered, TypeInv
  <2>3. /\ task'[i] = t
        /\ \A j \in Tasks \ {i} : task'[j] = task[j]
    BY <1>0, <2>2, PutIs
  <2>4. calm /\ run' = run /\ task[i] # NULL /\ task[i].pc = "org"
        /\ task[i].reply \in {"error", "open", "clear"}
        /\ task[i].reply # NULL
    BY <1>a, <2>1 DEF Fits
  <2>5. ASSUME ~missed', lastReplay', run' # NULL PROVE strip' = run'
    <3>1. task[i].reply # "error"
      BY <2>1, <2>4, <2>5
    <3>2. task[i].reply = run
      BY <2>4, <2>5, <3>1 DEF StripInv, ReadsRun
    <3>3. strip' = task[i].reply
      BY <2>1, <2>5, <3>1 DEF StripOf
    <3> QED BY <2>4, <3>2, <3>3
  <2>6. run' # NULL => \A j \in Tasks : ReadsRun(task[j])'
    BY <2>2, <2>3, <2>4 DEF StripInv, ReadsRun
  <2> QED BY <2>5, <2>6 DEF StripInv
<1>11. CASE Restart
  BY <1>11 DEF Restart, StripInv
<1>12. CASE UNCHANGED <<task, run, calm, strip, lastReplay, missed>>
  BY <1>12 DEF StripInv, Reloads, ReadsRun
<1>13. CASE OpenTray \/ CloseTray
  BY <1>12, <1>13 DEF OpenTray, CloseTray, stripVars
<1>14. CASE UNCHANGED browserVars
  BY <1>12, <1>14 DEF browserVars
<1> QED
  BY <1>1, <1>2, <1>3, <1>4, <1>5, <1>6, <1>7, <1>8, <1>9, <1>10, <1>11,
     <1>13, <1>14 DEF BrowserNext, Continue

\* For a person who waits, the strip says what the server's run says, after
\* replays, deletes and restarts in any order, unless a load it is made from
\* failed.
THEOREM PatientStripFollowsRun == BrowserSpec => []PatientStripIsCurrent
<1>1. BrowserInit => StripInv
  <2> SUFFICES ASSUME BrowserInit PROVE StripInv
    OBVIOUS
  <2>1. ~lastReplay /\ \A i \in Tasks : task[i] # NULL => task[i].reply = NULL
    BY DEF BrowserInit
  <2> QED BY <2>1 DEF StripInv, ReadsRun
<1>2. StripInv => PatientStripIsCurrent
  BY DEF StripInv, PatientStripIsCurrent, Quiet, Reloads
<1> QED BY <1>1, <1>2, StripStep, PatientHolds, PTL DEF BrowserSpec
=============================================================================
