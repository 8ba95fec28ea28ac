------------------------- MODULE RuleServiceProofs -------------------------
(***************************************************************************)
(* Proofs about RuleService, for any number of requests in progress, any   *)
(* drafts, patches and default rules of the declared shape, and any replay *)
(* whatsoever unless a theorem says otherwise.                             *)
(***************************************************************************)
EXTENDS RuleService, TLAPS

-----------------------------------------------------------------------------
(* What a rule is made of. *)

\* A rule the table may hold.
Good(rule) == RuleTyped(rule) /\ ValidRule(rule)

LEMMA MergeTyped ==
  ASSUME NEW existing, RuleTyped(existing),
         NEW p \in Patches, NullsAllowed(p)
  PROVE  RuleTyped(Merge(existing, p))
<1> DEFINE merged == Merge(existing, p)
           given == [f \in {g \in DOMAIN p : p[g] # NULL} |-> p[f]]
<1>1. DOMAIN p \subseteq RuleFields /\ FieldsTyped(given)
  BY PatchesTyped
<1>2. DOMAIN existing = RuleFields /\ FieldsTyped(existing)
  BY DEF RuleTyped
<1>3. /\ DOMAIN merged = RuleFields
      /\ \A f \in RuleFields :
           merged[f] = IF f \in DOMAIN p THEN p[f] ELSE existing[f]
  BY <1>2 DEF Merge
<1>4. \A f \in {"entity_type", "enabled"} :
        /\ f \in RuleFields
        /\ f \in DOMAIN p => f \in DOMAIN given /\ given[f] = p[f]
  BY DEF NullsAllowed, RuleFields
<1> HIDE DEF merged, given
<1>5. merged["entity_type"] \in {"queue", "agent"}
  <2>1. CASE "entity_type" \in DOMAIN p
    BY <2>1, <1>1, <1>3, <1>4 DEF FieldsTyped
  <2>2. CASE "entity_type" \notin DOMAIN p
    BY <2>2, <1>2, <1>3, <1>4 DEF FieldsTyped
  <2> QED BY <2>1, <2>2
<1>6. merged["enabled"] \in BOOLEAN
  <2>1. CASE "enabled" \in DOMAIN p
    BY <2>1, <1>1, <1>3, <1>4 DEF FieldsTyped
  <2>2. CASE "enabled" \notin DOMAIN p
    BY <2>2, <1>2, <1>3, <1>4 DEF FieldsTyped
  <2> QED BY <2>1, <2>2
<1>7. RuleTyped(merged)
  BY <1>3, <1>5, <1>6 DEF RuleTyped, FieldsTyped
<1> QED BY <1>7 DEF merged

LEMMA TemplateGood == Good(Template)
<1> DEFINE Named(i) == i \in DOMAIN DefaultRules /\ DefaultRules[i].id = "adherence_10m"
<1>1. PICK i : i = CHOOSE j \in DOMAIN DefaultRules :
                     DefaultRules[j].id = "adherence_10m"
  OBVIOUS
<1>2. i \in DOMAIN DefaultRules
  BY <1>1, TemplateGiven
<1>3. Template = DefaultRules[i].rule
  BY <1>1 DEF Template
<1> QED BY <1>2, <1>3, DefaultsValid DEF Good

LEMMA PersonalGood == ASSUME NEW a PROVE Good(Personal(Template, a))
<1>1. PICK t : t = Template
  OBVIOUS
<1>2. DOMAIN t = RuleFields /\ FieldsTyped(t) /\ ValidRule(t)
  BY <1>1, TemplateGood DEF Good, RuleTyped
<1> DEFINE p == Personal(t, a)
<1>3. /\ DOMAIN p = RuleFields
      /\ p["recipients"] = {"agent:self", "team_lead"}
      /\ p["escalate_after_sec"] = NULL
      /\ p["enabled"] = TRUE
      /\ p["entity_type"] = t["entity_type"]
      /\ p["conditions"] = t["conditions"]
      /\ p["sustained_for_sec"] = t["sustained_for_sec"]
      /\ p["cooldown_sec"] = t["cooldown_sec"]
  BY <1>2 DEF Personal, RuleFields
<1> HIDE DEF p
<1>4. RuleTyped(p)
  BY <1>2, <1>3 DEF RuleTyped, FieldsTyped
<1>5. ValidRule(p)
  BY <1>2, <1>3 DEF ValidRule, NoiseControlsOK
<1> QED BY <1>1, <1>4, <1>5 DEF Good, p

-----------------------------------------------------------------------------
(* The inductive invariant: the table, the process, and what each request  *)
(* carries from its check to its effect.                                   *)

TableInv == \A id \in Rows : Good(table[id])

ProcessInv == /\ server \in {"down", "seeding", "up"}
              /\ seeded \in 0..Len(DefaultRules)
              /\ server = "seeding" => seeded < Len(DefaultRules)
              /\ server # "seeding" => seeded = 0

StoresInv == /\ stores \in Seq(Seq(StoreEntry))
             /\ last_run \in [notifier : DOMAIN stores \cup {NULL},
                              digest : {NULL} \cup SUBSET Alerts]

\* A PATCH and a create carry a rule they have validated, a DELETE the alerts
\* it found, by their places in the store it looked at, a replay the store it
\* published and then the digest it computed.
CarriesRule(r) == Good(r.rule)

CarriesAlerts(r) ==
  /\ r = [step |-> "close", id |-> r.id, notifier |-> r.notifier,
          todo |-> r.todo]
  /\ r.id \in RuleIds
  /\ r.notifier = NULL => r.todo = {}
  /\ r.notifier # NULL => /\ r.notifier \in DOMAIN stores
                          /\ r.todo \subseteq DOMAIN stores[r.notifier]

RequestInv ==
  /\ DOMAIN request = Clients
  /\ \A c \in Clients :
       /\ In(c, "update") => CarriesRule(request[c])
       /\ In(c, "insert") => CarriesRule(request[c])
       /\ In(c, "find") => request[c].id \in RuleIds
       /\ In(c, "close") => CarriesAlerts(request[c])
       /\ In(c, "build") => request[c].notifier \in DOMAIN stores
       /\ In(c, "digest") => request[c].digest \subseteq Alerts

ServiceInv == TableInv /\ ProcessInv /\ StoresInv /\ RequestInv

LEMMA ServiceInitInv == ServiceInit => ServiceInv
<1> SUFFICES ASSUME ServiceInit PROVE ServiceInv
  OBVIOUS
<1>1. TableInv
  BY DEF ServiceInit, TableInv, Rows
<1>2. ProcessInv
  BY DefaultsValid, ReplayStoreTyped DEF ServiceInit, ProcessInv
<1>3. StoresInv
  BY DEF ServiceInit, StoresInv
<1>4. RequestInv
  BY DEF ServiceInit, RequestInv, In
<1> QED BY <1>1, <1>2, <1>3, <1>4 DEF ServiceInv

\* Where a request of one client moves, the others stay.
LEMMA GotoIs ==
  ASSUME DOMAIN request = Clients, NEW c \in Clients, NEW r, Goto(c, r)
  PROVE  /\ DOMAIN request' = Clients
         /\ request'[c] = r
         /\ \A d \in Clients \ {c} : request'[d] = request[d]
BY DEF Goto

\* A request that carries nothing to its next step, and stores that stay.
LEMMA RequestsKept ==
  ASSUME RequestInv, NEW c \in Clients, NEW r, Goto(c, r),
         UNCHANGED stores,
         r # NULL => \/ r.step \in {"update", "insert"} /\ CarriesRule(r)
                     \/ r.step = "close" /\ CarriesAlerts(r)
                     \/ r.step = "find" /\ r.id \in RuleIds
                     \/ r.step = "publish"
                     \/ r.step = "digest" /\ r.digest \subseteq Alerts
  PROVE  RequestInv'
<1>1. /\ DOMAIN request' = Clients
      /\ request'[c] = r
      /\ \A d \in Clients \ {c} : request'[d] = request[d]
  BY GotoIs DEF RequestInv
<1>2. ASSUME NEW d \in Clients
      PROVE  /\ In(d, "update")' => CarriesRule(request'[d])
             /\ In(d, "insert")' => CarriesRule(request'[d])
             /\ In(d, "find")' => request'[d].id \in RuleIds
             /\ In(d, "close")' => CarriesAlerts(request[d])'
             /\ In(d, "build")' => request'[d].notifier \in DOMAIN stores'
             /\ In(d, "digest")' => request'[d].digest \subseteq Alerts
  <2>1. CASE d = c
    BY <2>1, <1>1 DEF In, CarriesAlerts
  <2>2. CASE d # c
    <3>1. request'[d] = request[d]
      BY <2>2, <1>1
    <3> QED BY <3>1 DEF In, CarriesAlerts, RequestInv
  <2> QED BY <2>1, <2>2
<1> QED BY <1>1, <1>2 DEF RequestInv

LEMMA InsertKeepsTable ==
  ASSUME TableInv, NEW id, NEW rule, Good(rule), Insert(id, rule)
  PROVE  TableInv'
<1>1. /\ Rows' = Rows \cup {id}
      /\ \A i \in Rows' : table'[i] = IF i \in Rows THEN table[i] ELSE rule
  BY DEF Insert, Rows
<1> QED BY <1>1 DEF TableInv

\* A store that grows keeps what was there.
LEMMA Grows ==
  ASSUME StoresInv, NEW n \in DOMAIN stores, NEW e \in StoreEntry,
         stores' = [stores EXCEPT ![n] = Append(@, e)]
  PROVE  /\ stores' \in Seq(Seq(StoreEntry))
         /\ DOMAIN stores' = DOMAIN stores
         /\ stores'[n] = Append(stores[n], e)
         /\ \A m \in DOMAIN stores \ {n} : stores'[m] = stores[m]
         /\ \A m \in DOMAIN stores : DOMAIN stores[m] \subseteq DOMAIN stores'[m]
<1>1. stores \in Seq(Seq(StoreEntry)) /\ stores[n] \in Seq(StoreEntry)
  BY DEF StoresInv
<1>2. PICK s : s = Append(stores[n], e)
  OBVIOUS
<1>3. s \in Seq(StoreEntry) /\ DOMAIN stores[n] \subseteq DOMAIN s
  BY <1>1, <1>2
<1>4. stores' = [stores EXCEPT ![n] = s]
  BY <1>2
<1> QED BY <1>1, <1>2, <1>3, <1>4

LEMMA OngoingAreAlerts ==
  ASSUME NEW store \in Seq(StoreEntry)
  PROVE  Ongoing(store) \subseteq Alerts
<1>1. \A i \in DOMAIN store : store[i] \in StoreEntry
  OBVIOUS
<1> QED BY <1>1 DEF Ongoing, Alerts, StoreEntry

LEMMA ServiceStepInv == ServiceInv /\ [ServiceNext]_serviceVars => ServiceInv'
<1> SUFFICES ASSUME ServiceInv, [ServiceNext]_serviceVars PROVE ServiceInv'
  OBVIOUS
<1>0. TableInv /\ ProcessInv /\ StoresInv /\ RequestInv
  BY DEF ServiceInv
<1>a. UNCHANGED table => TableInv'
  BY <1>0 DEF TableInv, Rows
<1>b. SameProcess => ProcessInv'
  BY <1>0 DEF SameProcess, ProcessInv
<1>c. UNCHANGED <<stores, last_run>> => StoresInv'
  BY <1>0 DEF StoresInv
<1>d. UNCHANGED <<stores, request>> => RequestInv'
  BY <1>0 DEF RequestInv, In, CarriesAlerts
<1>1. CASE Start
  <2>1. Len(DefaultRules) > 0
    BY DefaultsValid
  <2>2. ProcessInv'
    BY <1>0, <1>1, <2>1 DEF Start, ProcessInv
  <2> QED BY <1>1, <1>a, <1>c, <1>d, <2>2 DEF Start, ServiceInv
<1>2. CASE SeedRule
  <2>1. server = "seeding" /\ seeded + 1 \in DOMAIN DefaultRules
    BY <1>0, <1>2, DefaultsValid DEF SeedRule, ProcessInv
  <2>2. Good(DefaultRules[seeded + 1].rule)
    BY <2>1, DefaultsValid DEF Good
  <2>3. TableInv'
    BY <1>0, <1>2, <2>2, InsertKeepsTable DEF SeedRule
  <2>4. ProcessInv'
    BY <1>0, <1>2, <2>1 DEF SeedRule, ProcessInv
  <2> QED BY <1>2, <1>c, <1>d, <2>3, <2>4 DEF SeedRule, ServiceInv
<1>3. CASE Crash
  <2>1. ProcessInv' /\ StoresInv'
    BY <1>3, <1>0 DEF Crash, ProcessInv, StoresInv
  <2>2. RequestInv'
    BY <1>3 DEF Crash, RequestInv, In
  <2> QED BY <1>3, <1>a, <2>1, <2>2 DEF Crash, ServiceInv
<1>4. ASSUME NEW c \in Clients, NEW id \in RuleIds, NEW p \in Patches,
             BeginPatch(c, id, p)
      PROVE  ServiceInv'
  <2>1. PICK merged : merged = Merge(table[id], p)
    OBVIOUS
  <2>2. Good(merged)
    BY <1>0, <1>4, <2>1, MergeTyped DEF BeginPatch, TableInv, Good
  <2>3. PICK r : r = [step |-> "update", id |-> id, rule |-> merged,
                      provided |-> p]
    OBVIOUS
  <2>4. Goto(c, r) /\ UNCHANGED table /\ SameProcess /\ SameRun
    BY <1>4, <2>1, <2>3 DEF BeginPatch
  <2>5. RequestInv'
    BY <1>0, <2>2, <2>3, <2>4, RequestsKept DEF CarriesRule, SameRun
  <2> QED BY <1>a, <1>b, <1>c, <2>4, <2>5 DEF ServiceInv, SameRun
<1>5. ASSUME NEW c \in Clients, FinishPatch(c) PROVE ServiceInv'
  <2>1. Good(request[c].rule)
    BY <1>0, <1>5 DEF FinishPatch, RequestInv, CarriesRule
  <2>2. TableInv'
    BY <1>0, <1>5, <2>1 DEF FinishPatch, TableInv, Rows
  <2>3. RequestInv'
    BY <1>0, <1>5, RequestsKept DEF FinishPatch, Answer, SameRun
  <2> QED BY <1>5, <1>b, <1>c, <2>2, <2>3 DEF FinishPatch, ServiceInv, SameRun
<1>6. ASSUME NEW c \in Clients, NEW d \in Drafts, BeginCreate(c, d)
      PROVE  ServiceInv'
  <2>1. Good(d.rule)
    BY <1>6, DraftsTyped DEF BeginCreate, Good
  <2>2. PICK id : Goto(c, [step |-> "insert", id |-> id, rule |-> d.rule])
    BY <1>6 DEF BeginCreate
  <2>3. UNCHANGED table /\ SameProcess /\ SameRun
    BY <1>6 DEF BeginCreate
  <2>4. RequestInv'
    BY <1>0, <2>1, <2>2, <2>3, RequestsKept DEF CarriesRule, SameRun
  <2> QED BY <1>a, <1>b, <1>c, <2>3, <2>4 DEF ServiceInv, SameRun
<1>7. ASSUME NEW c \in Clients, NEW a \in Agents, BeginVisit(c, a)
      PROVE  ServiceInv'
  <2>1. PICK r : r = [step |-> "insert", id |-> AdherenceId[a],
                      rule |-> Personal(Template, a)]
    OBVIOUS
  <2>2. CarriesRule(r)
    BY <2>1, PersonalGood DEF CarriesRule
  <2>3. Goto(c, r) /\ UNCHANGED table /\ SameProcess /\ SameRun
    BY <1>7, <2>1 DEF BeginVisit
  <2>4. RequestInv'
    BY <1>0, <2>1, <2>2, <2>3, RequestsKept DEF SameRun
  <2> QED BY <1>a, <1>b, <1>c, <2>3, <2>4 DEF ServiceInv, SameRun
<1>8. ASSUME NEW c \in Clients, FinishCreate(c) PROVE ServiceInv'
  <2>1. Good(request[c].rule)
    BY <1>0, <1>8 DEF FinishCreate, RequestInv, CarriesRule
  <2>2. TableInv'
    BY <1>0, <1>8, <2>1, InsertKeepsTable DEF FinishCreate
  <2>3. RequestInv'
    BY <1>0, <1>8, RequestsKept DEF FinishCreate, Answer, SameRun
  <2> QED BY <1>8, <1>b, <1>c, <2>2, <2>3 DEF FinishCreate, ServiceInv, SameRun
<1>9. ASSUME NEW c \in Clients, NEW id \in RuleIds, BeginDelete(c, id)
      PROVE  ServiceInv'
  <2>1. RequestInv'
    BY <1>0, <1>9, RequestsKept DEF BeginDelete, SameRun
  <2> QED BY <1>9, <1>a, <1>b, <1>c, <2>1 DEF BeginDelete, ServiceInv, SameRun
<1>10. ASSUME NEW c \in Clients, FindOpen(c) PROVE ServiceInv'
  <2>1. PICK n : n = last_run.notifier
    OBVIOUS
  <2>2. PICK todo : todo = IF n = NULL THEN {}
                           ELSE OpenFor(stores[n], request[c].id)
    OBVIOUS
  <2>3. PICK r : r = [step |-> "close", id |-> request[c].id, notifier |-> n,
                      todo |-> todo]
    OBVIOUS
  <2>4. Goto(c, r) /\ UNCHANGED table /\ SameProcess /\ SameRun
    BY <1>10, <2>1, <2>2, <2>3 DEF FindOpen
  <2>5. n # NULL => n \in DOMAIN stores
    BY <1>0, <2>1 DEF StoresInv
  <2>6. CarriesAlerts(r)
    BY <1>0, <1>10, <2>2, <2>3, <2>5
    DEF CarriesAlerts, OpenFor, FindOpen, RequestInv
  <2>7. RequestInv'
    BY <1>0, <2>3, <2>4, <2>6, RequestsKept DEF SameRun
  <2> QED BY <1>a, <1>b, <1>c, <2>4, <2>7 DEF ServiceInv, SameRun
<1>11. ASSUME NEW c \in Clients, CloseOne(c) PROVE ServiceInv'
  <2>1. PICK q, n : q = request[c] /\ n = request[c].notifier
    OBVIOUS
  <2>2. PICK i \in q.todo :
          /\ stores' = [stores EXCEPT ![n] =
               Append(@, [stores[n][i] EXCEPT !.kind = "resolved",
                                              !.suppressed = FALSE])]
          /\ Goto(c, [q EXCEPT !.todo = @ \ {i}])
    BY <1>11, <2>1 DEF CloseOne
  <2>3. CarriesAlerts(q)
    BY <1>0, <1>11, <2>1 DEF CloseOne, RequestInv
  <2>4. n \in DOMAIN stores /\ i \in DOMAIN stores[n]
    BY <2>1, <2>2, <2>3 DEF CarriesAlerts
  <2>5. stores[n][i] \in StoreEntry
    BY <1>0, <2>4 DEF StoresInv
  <2>6. PICK e : e = [stores[n][i] EXCEPT !.kind = "resolved",
                                          !.suppressed = FALSE]
    OBVIOUS
  <2>7. e \in StoreEntry
    BY <2>5, <2>6 DEF StoreEntry
  <2>8. /\ stores' \in Seq(Seq(StoreEntry))
        /\ DOMAIN stores' = DOMAIN stores
        /\ \A m \in DOMAIN stores : DOMAIN stores[m] \subseteq DOMAIN stores'[m]
    BY <1>0, <2>2, <2>4, <2>6, <2>7, Grows
  <2>9. UNCHANGED table /\ UNCHANGED last_run /\ SameProcess
    BY <1>11 DEF CloseOne
  <2>10. StoresInv'
    BY <1>0, <2>8, <2>9 DEF StoresInv
  <2>11. PICK todo : todo = q.todo \ {i}
    OBVIOUS
  <2>12. PICK r : r = [step |-> "close", id |-> q.id, notifier |-> n, todo |-> todo]
    OBVIOUS
  <2>13. [q EXCEPT !.todo = @ \ {i}] = r
    BY <2>1, <2>3, <2>11, <2>12 DEF CarriesAlerts
  <2>14. /\ DOMAIN request' = Clients
         /\ request'[c] = r
         /\ \A d \in Clients \ {c} : request'[d] = request[d]
    BY <1>0, <2>2, <2>13, GotoIs DEF RequestInv
  <2>15. ASSUME NEW d \in Clients
         PROVE  /\ In(d, "update")' => CarriesRule(request'[d])
                /\ In(d, "insert")' => CarriesRule(request'[d])
                /\ In(d, "find")' => request'[d].id \in RuleIds
                /\ In(d, "close")' => CarriesAlerts(request[d])'
                /\ In(d, "build")' => request'[d].notifier \in DOMAIN stores'
                /\ In(d, "digest")' => request'[d].digest \subseteq Alerts
    <3>1. CASE d = c
      <4>1. CarriesAlerts(request[d])'
        BY <3>1, <2>1, <2>3, <2>4, <2>8, <2>11, <2>12, <2>14 DEF CarriesAlerts
      <4>2. request'[d].step = "close"
        BY <3>1, <2>12, <2>14
      <4> QED BY <4>1, <4>2 DEF In
    <3>2. CASE d # c
      <4>1. request'[d] = request[d]
        BY <3>2, <2>14
      <4>2. CarriesAlerts(request[d]) => CarriesAlerts(request[d])'
        BY <4>1, <2>8 DEF CarriesAlerts
      <4> QED BY <1>0, <4>1, <4>2, <2>8 DEF In, RequestInv
    <3> QED BY <3>1, <3>2
  <2>16. RequestInv'
    BY <2>14, <2>15 DEF RequestInv
  <2> QED BY <1>a, <1>b, <2>9, <2>10, <2>16 DEF ServiceInv
<1>12. ASSUME NEW c \in Clients, FinishDelete(c) PROVE ServiceInv'
  <2>1. TableInv'
    BY <1>0, <1>12 DEF FinishDelete, TableInv, Rows, Restrict
  <2>2. RequestInv'
    BY <1>0, <1>12, RequestsKept DEF FinishDelete, Answer, SameRun
  <2> QED BY <1>12, <1>b, <1>c, <2>1, <2>2 DEF FinishDelete, ServiceInv, SameRun
<1>13. ASSUME NEW c \in Clients, BeginReplay(c) PROVE ServiceInv'
  <2>1. RequestInv'
    BY <1>0, <1>13, RequestsKept DEF BeginReplay
  <2> QED BY <1>13, <1>a, <1>b, <1>c, <2>1 DEF BeginReplay, ServiceInv
<1>14. ASSUME NEW c \in Clients, PublishNotifier(c) PROVE ServiceInv'
  <2>1. /\ stores' = Append(stores, ReplayStore)
        /\ last_run' = [last_run EXCEPT !.notifier = Len(stores')]
        /\ Goto(c, [step |-> "build", notifier |-> Len(stores')])
        /\ UNCHANGED table /\ SameProcess
    BY <1>14 DEF PublishNotifier
  <2>2. PICK k : k = Len(stores')
    OBVIOUS
  <2>3. /\ stores' \in Seq(Seq(StoreEntry))
        /\ k \in DOMAIN stores'
        /\ DOMAIN stores \subseteq DOMAIN stores'
        /\ \A m \in DOMAIN stores : stores'[m] = stores[m]
    BY <1>0, <2>1, <2>2, ReplayStoreTyped DEF StoresInv
  <2>4. StoresInv'
    BY <1>0, <2>1, <2>2, <2>3 DEF StoresInv
  <2>5. PICK r : r = [step |-> "build", notifier |-> k]
    OBVIOUS
  <2>6. /\ DOMAIN request' = Clients
        /\ request'[c] = r
        /\ \A d \in Clients \ {c} : request'[d] = request[d]
    BY <1>0, <2>1, <2>2, <2>5, GotoIs DEF RequestInv
  <2>7. ASSUME NEW d \in Clients
        PROVE  /\ In(d, "update")' => CarriesRule(request'[d])
               /\ In(d, "insert")' => CarriesRule(request'[d])
               /\ In(d, "find")' => request'[d].id \in RuleIds
               /\ In(d, "close")' => CarriesAlerts(request[d])'
               /\ In(d, "build")' => request'[d].notifier \in DOMAIN stores'
               /\ In(d, "digest")' => request'[d].digest \subseteq Alerts
    <3>1. CASE d = c
      <4>1. r.step = "build" /\ r.notifier = k
        BY <2>5
      <4> QED BY <3>1, <4>1, <2>3, <2>6 DEF In
    <3>2. CASE d # c
      <4>1. request'[d] = request[d]
        BY <3>2, <2>6
      <4>2. CarriesAlerts(request[d]) => CarriesAlerts(request[d])'
        BY <4>1, <2>3 DEF CarriesAlerts
      <4> QED BY <1>0, <4>1, <4>2, <2>3 DEF In, RequestInv
    <3> QED BY <3>1, <3>2
  <2>8. RequestInv'
    BY <2>6, <2>7 DEF RequestInv
  <2> QED BY <1>a, <1>b, <2>1, <2>4, <2>8 DEF ServiceInv
<1>15. ASSUME NEW c \in Clients, BuildDigest(c) PROVE ServiceInv'
  <2>1. PICK n : n = request[c].notifier
    OBVIOUS
  <2>2. n \in DOMAIN stores /\ stores[n] \in Seq(StoreEntry)
    BY <1>0, <1>15, <2>1 DEF BuildDigest, RequestInv, StoresInv
  <2>3. PICK names : names = Ongoing(stores[n])
    OBVIOUS
  <2>4. names \subseteq Alerts
    BY <2>2, <2>3, OngoingAreAlerts
  <2>5. PICK r : r = [step |-> "digest", digest |-> names]
    OBVIOUS
  <2>6. Goto(c, r) /\ UNCHANGED table /\ SameProcess /\ SameRun
    BY <1>15, <2>1, <2>3, <2>5 DEF BuildDigest
  <2>7. RequestInv'
    BY <1>0, <2>4, <2>5, <2>6, RequestsKept DEF SameRun
  <2> QED BY <1>a, <1>b, <1>c, <2>6, <2>7 DEF ServiceInv, SameRun
<1>16. ASSUME NEW c \in Clients, PublishDigest(c) PROVE ServiceInv'
  <2>1. request[c].digest \subseteq Alerts
    BY <1>0, <1>16 DEF PublishDigest, RequestInv
  <2>2. StoresInv'
    BY <1>0, <1>16, <2>1 DEF PublishDigest, StoresInv
  <2>3. RequestInv'
    BY <1>0, <1>16, RequestsKept DEF PublishDigest, Answer
  <2> QED BY <1>16, <1>a, <1>b, <2>2, <2>3 DEF PublishDigest, ServiceInv
<1>17. CASE UNCHANGED serviceVars
  BY <1>17, <1>a, <1>b, <1>c, <1>d DEF serviceVars, ServiceInv, SameProcess
<1> QED
  BY <1>1, <1>2, <1>3, <1>4, <1>5, <1>6, <1>7, <1>8, <1>9, <1>10, <1>11,
     <1>12, <1>13, <1>14, <1>15, <1>16, <1>17 DEF ServiceNext

LEMMA ServiceInvHolds == ServiceSpec => []ServiceInv
BY ServiceInitInv, ServiceStepInv, PTL DEF ServiceSpec

\* What a reader of the table, the stores or the last run finds there has the
\* shape the code relies on.
THEOREM ServiceIsTyped == ServiceSpec => []ServiceTypeOK
<1>1. ServiceInv => ServiceTypeOK
  BY DEF ServiceInv, ServiceTypeOK, TableInv, ProcessInv, StoresInv, Good,
         ValidRule
<1> QED BY <1>1, ServiceInvHolds, PTL

\* Every stored rule is valid as a whole, however requests overlap: what a
\* PATCH or a create writes was validated, and each write is a whole row.
THEOREM StoredRulesAreValid == ServiceSpec => []RowsValid
<1>1. ServiceInv => RowsValid
  BY DEF ServiceInv, RowsValid, TableInv, Good
<1> QED BY <1>1, ServiceInvHolds, PTL

-----------------------------------------------------------------------------
(* How rows come and go. *)

\* A row appears, changes or vanishes only by the request, or the seeding, that
\* is there to do it: an insert never overwrites, an update never revives.
THEOREM RowsLiveByRequests == ServiceSpec => RowLife
<1> DEFINE Life ==
      /\ \A id \in Rows' \ Rows : Due(id, "insert") \/ server = "seeding"
      /\ \A id \in Rows \ Rows' : Due(id, "close")
      /\ \A id \in Rows \cap Rows' : table'[id] # table[id] => Due(id, "update")
<1>1. ServiceInv /\ [ServiceNext]_serviceVars => Life
  <2> SUFFICES ASSUME ServiceInv, [ServiceNext]_serviceVars PROVE Life
    OBVIOUS
  <2>0. DOMAIN request = Clients
    BY DEF ServiceInv, RequestInv
  <2>a. UNCHANGED table => Life
    BY DEF Rows
  <2>1. CASE SeedRule
    <3>1. PICK next : next = DefaultRules[seeded + 1]
      OBVIOUS
    <3>2. server = "seeding" /\ Insert(next.id, next.rule)
      BY <2>1, <3>1 DEF SeedRule
    <3> QED BY <3>2 DEF Insert, Rows
  <2>2. ASSUME NEW c \in Clients, FinishPatch(c) PROVE Life
    <3>1. In(c, "update") /\ request'[c] = NULL
      BY <2>0, <2>2, GotoIs DEF FinishPatch, Answer
    <3>2. /\ Rows' = Rows
          /\ \A id \in Rows : table'[id] # table[id] => id = request[c].id
      BY <2>2 DEF FinishPatch, Rows
    <3> QED BY <3>1, <3>2 DEF Due
  <2>3. ASSUME NEW c \in Clients, FinishCreate(c) PROVE Life
    <3>1. In(c, "insert") /\ request'[c] = NULL
      BY <2>0, <2>3, GotoIs DEF FinishCreate, Answer
    <3>2. /\ Rows' = Rows \cup {request[c].id}
          /\ \A id \in Rows : table'[id] = table[id]
      BY <2>3 DEF FinishCreate, Insert, Rows
    <3> QED BY <3>1, <3>2 DEF Due
  <2>4. ASSUME NEW c \in Clients, FinishDelete(c) PROVE Life
    <3>1. In(c, "close") /\ request'[c] = NULL
      BY <2>0, <2>4, GotoIs DEF FinishDelete, Answer
    <3>2. /\ Rows' = Rows \ {request[c].id}
          /\ \A id \in Rows' : table'[id] = table[id]
      BY <2>4 DEF FinishDelete, Restrict, Rows
    <3> QED BY <3>1, <3>2 DEF Due
  <2>5. UNCHANGED table \/ SeedRule
        \/ \E c \in Clients : FinishPatch(c) \/ FinishCreate(c) \/ FinishDelete(c)
    BY DEF ServiceNext, serviceVars, Start, Crash, BeginPatch, BeginCreate,
           BeginVisit, BeginDelete, FindOpen, CloseOne, BeginReplay,
           PublishNotifier, BuildDigest, PublishDigest, SameRun
  <2> QED BY <2>a, <2>1, <2>2, <2>3, <2>4, <2>5
<1>2. ServiceInv /\ [ServiceNext]_serviceVars =>
        [/\ \A id \in Rows' \ Rows : Due(id, "insert") \/ server = "seeding"
         /\ \A id \in Rows \ Rows' : Due(id, "close")
         /\ \A id \in Rows \cap Rows' :
              table'[id] # table[id] => Due(id, "update")]_serviceVars
  BY <1>1
<1> QED BY <1>2, ServiceInvHolds, PTL DEF ServiceSpec, RowLife

-----------------------------------------------------------------------------
(* The last run and its digest. *)

LEMMA OpenAreOngoing ==
  ASSUME NEW store, NEW id, NEW i \in OpenFor(store, id)
  PROVE  <<id, store[i].entity>> \in Ongoing(store)
BY DEF OpenFor, Ongoing

\* A RESOLVED takes an alert out of the ongoing ones and puts none in.
LEMMA ResolvedEnds ==
  ASSUME NEW store \in Seq(StoreEntry), NEW e \in StoreEntry,
         e.kind = "resolved", NEW new, new = Append(store, e)
  PROVE  Ongoing(new) \subseteq Ongoing(store)
<1>1. PICK last : last = Len(store) + 1
  OBVIOUS
<1>2. /\ new[last] = e
      /\ DOMAIN new = DOMAIN store \cup {last}
      /\ \A j \in DOMAIN store : new[j] = store[j]
  BY <1>1
<1> QED BY <1>2 DEF Ongoing, SameAlert

\* What the digest names lies between what is open now in the last run and what
\* was open when its replay ended.
Names(digest) ==
  /\ last_run.notifier \in DOMAIN stores
  /\ Ongoing(stores[last_run.notifier]) \subseteq digest
  /\ digest \subseteq Ongoing(ReplayStore)

\* A store only loses open alerts.  In a process whose replays never overlapped
\* the one replay in progress, if any, is about the run it published, and its
\* digest is not there between its two publications only.
DigestInv ==
  /\ \A n \in DOMAIN stores : Ongoing(stores[n]) \subseteq Ongoing(ReplayStore)
  /\ ~overlapped =>
       /\ \A c, d \in Clients : Replaying(c) /\ Replaying(d) => c = d
       /\ \A c \in Clients :
            /\ In(c, "build") => request[c].notifier = last_run.notifier
            /\ In(c, "digest") => Names(request[c].digest)
       /\ (\A c \in Clients : ~In(c, "build") /\ ~In(c, "digest")) =>
            \/ last_run.notifier = NULL /\ last_run.digest = NULL
            \/ Names(last_run.digest)

LEMMA DigestStep ==
  ServiceInv /\ DigestInv /\ [ServiceNext]_serviceVars => DigestInv'
<1> SUFFICES ASSUME ServiceInv, DigestInv, [ServiceNext]_serviceVars
             PROVE  DigestInv'
  OBVIOUS
<1>0. /\ DOMAIN request = Clients /\ StoresInv
      /\ \A c \in Clients : In(c, "build") => request[c].notifier \in DOMAIN stores
  BY DEF ServiceInv, RequestInv
<1> DEFINE Shrink == /\ DOMAIN stores' = DOMAIN stores
                     /\ \A n \in DOMAIN stores :
                          Ongoing(stores'[n]) \subseteq Ongoing(stores[n])
\* A request that does not replay moves.
<1>a. ASSUME NEW c \in Clients, NEW r, Goto(c, r), ~Replaying(c),
             r # NULL => r.step \notin {"publish", "build", "digest"},
             UNCHANGED <<last_run, overlapped>>, Shrink
      PROVE  DigestInv'
  <2>1. \A d \in Clients : /\ In(d, "build")' = In(d, "build")
                           /\ In(d, "digest")' = In(d, "digest")
                           /\ Replaying(d)' = Replaying(d)
                           /\ Replaying(d) => request'[d] = request[d]
    BY <1>0, <1>a, GotoIs DEF In, Replaying
  <2>2. \A digest : Names(digest) => Names(digest)'
    BY <1>a DEF Names
  <2>3. \A n \in DOMAIN stores' : Ongoing(stores'[n]) \subseteq Ongoing(ReplayStore)
    BY <1>a DEF DigestInv
  <2>4. ASSUME NEW d \in Clients, In(d, "digest")', ~overlapped'
        PROVE  Names(request[d].digest)'
    <3>1. In(d, "digest") /\ request'[d] = request[d] /\ ~overlapped
      BY <1>a, <2>1, <2>4 DEF Replaying
    <3>2. Names(request[d].digest)
      BY <3>1 DEF DigestInv
    <3> QED BY <1>a, <3>1, <3>2 DEF Names
  <2>5. Names(last_run.digest) => Names(last_run.digest)'
    BY <1>a DEF Names
  <2>6. ASSUME NEW d \in Clients, In(d, "build")', ~overlapped'
        PROVE  request'[d].notifier = last_run'.notifier
    <3>1. In(d, "build") /\ request'[d] = request[d] /\ ~overlapped
      BY <1>a, <2>1, <2>6 DEF Replaying
    <3> QED BY <1>a, <3>1 DEF DigestInv
  <2> QED BY <1>a, <2>1, <2>3, <2>4, <2>5, <2>6 DEF DigestInv
<1>b. UNCHANGED <<request, last_run, overlapped, stores>> => DigestInv'
  BY DEF DigestInv, In, Replaying, Names
<1>c. UNCHANGED stores => Shrink
  OBVIOUS
<1>1. CASE Start
  BY <1>1, <1>b DEF Start
<1>2. CASE SeedRule
  BY <1>2, <1>b DEF SeedRule
<1>3. CASE Crash
  BY <1>3 DEF Crash, DigestInv, In, Replaying
<1>4. ASSUME NEW c \in Clients, NEW id \in RuleIds, NEW p \in Patches,
             BeginPatch(c, id, p)
      PROVE  DigestInv'
  <2>1. PICK r : r = [step |-> "update", id |-> id, rule |-> Merge(table[id], p),
                      provided |-> p]
    OBVIOUS
  <2>2. /\ Goto(c, r) /\ SameRun
        /\ request[c] = NULL
    BY <1>4, <2>1 DEF BeginPatch, Idle
  <2> HIDE DEF Shrink
  <2> QED BY <1>a, <1>c, <2>1, <2>2 DEF SameRun, Replaying, In
<1> HIDE DEF Shrink
<1>5. ASSUME NEW c \in Clients, FinishPatch(c) PROVE DigestInv'
  BY <1>5, <1>a, <1>c DEF FinishPatch, Answer, SameRun, Replaying, In
<1>6. ASSUME NEW c \in Clients, NEW d \in Drafts, BeginCreate(c, d)
      PROVE  DigestInv'
  <2>1. PICK id : Goto(c, [step |-> "insert", id |-> id, rule |-> d.rule])
    BY <1>6 DEF BeginCreate
  <2>2. SameRun /\ request[c] = NULL
    BY <1>6 DEF BeginCreate, Idle
  <2> QED BY <1>a, <1>c, <2>1, <2>2 DEF SameRun, Replaying, In
<1>7. ASSUME NEW c \in Clients, NEW a \in Agents, BeginVisit(c, a)
      PROVE  DigestInv'
  <2>1. PICK r : r = [step |-> "insert", id |-> AdherenceId[a],
                      rule |-> Personal(Template, a)]
    OBVIOUS
  <2>2. Goto(c, r) /\ SameRun /\ request[c] = NULL
    BY <1>7, <2>1 DEF BeginVisit, Idle
  <2> QED BY <1>a, <1>c, <2>1, <2>2 DEF SameRun, Replaying, In
<1>8. ASSUME NEW c \in Clients, FinishCreate(c) PROVE DigestInv'
  BY <1>8, <1>a, <1>c DEF FinishCreate, Answer, SameRun, Replaying, In
<1>9. ASSUME NEW c \in Clients, NEW id \in RuleIds, BeginDelete(c, id)
      PROVE  DigestInv'
  BY <1>9, <1>a, <1>c DEF BeginDelete, Idle, SameRun, Replaying, In
<1>10. ASSUME NEW c \in Clients, FindOpen(c) PROVE DigestInv'
  <2>1. PICK r : r.step = "close" /\ Goto(c, r)
    BY <1>10 DEF FindOpen
  <2> QED BY <1>10, <2>1, <1>a, <1>c DEF FindOpen, SameRun, Replaying, In
<1>11. ASSUME NEW c \in Clients, CloseOne(c) PROVE DigestInv'
  <2>1. PICK q, n : q = request[c] /\ n = request[c].notifier
    OBVIOUS
  <2>2. PICK i \in q.todo :
          /\ stores' = [stores EXCEPT ![n] =
               Append(@, [stores[n][i] EXCEPT !.kind = "resolved",
                                              !.suppressed = FALSE])]
          /\ Goto(c, [q EXCEPT !.todo = @ \ {i}])
    BY <1>11, <2>1 DEF CloseOne
  <2>3. CarriesAlerts(q)
    BY <1>11, <2>1 DEF CloseOne, ServiceInv, RequestInv
  <2>4. /\ q = [step |-> "close", id |-> q.id, notifier |-> q.notifier,
                todo |-> q.todo]
        /\ n \in DOMAIN stores /\ i \in DOMAIN stores[n]
    BY <2>1, <2>2, <2>3 DEF CarriesAlerts
  <2>5. [q EXCEPT !.todo = @ \ {i}].step = "close"
    BY <2>4
  <2>6. stores[n] \in Seq(StoreEntry) /\ stores[n][i] \in StoreEntry
    BY <1>0, <2>4 DEF StoresInv
  <2>7. PICK e : e = [stores[n][i] EXCEPT !.kind = "resolved",
                                          !.suppressed = FALSE]
    OBVIOUS
  <2>8. e \in StoreEntry /\ e.kind = "resolved"
    BY <2>6, <2>7 DEF StoreEntry
  <2>9. Ongoing(Append(stores[n], e)) \subseteq Ongoing(stores[n])
    BY <2>6, <2>8, ResolvedEnds
  <2>10. /\ DOMAIN stores' = DOMAIN stores
         /\ stores'[n] = Append(stores[n], e)
         /\ \A m \in DOMAIN stores \ {n} : stores'[m] = stores[m]
    BY <1>0, <2>2, <2>4, <2>7, <2>8, Grows
  <2>11. Shrink
    BY <2>9, <2>10 DEF Shrink
  <2> QED BY <1>11, <2>2, <2>5, <2>11, <1>a DEF CloseOne, Replaying, In
<1>12. ASSUME NEW c \in Clients, FinishDelete(c) PROVE DigestInv'
  BY <1>12, <1>a, <1>c DEF FinishDelete, Answer, SameRun, Replaying, In
<1>13. ASSUME NEW c \in Clients, BeginReplay(c) PROVE DigestInv'
  <2>1. /\ UNCHANGED <<last_run, stores>>
        /\ Goto(c, [step |-> "publish"])
        /\ overlapped' = (overlapped \/ \E d \in Clients : Replaying(d))
    BY <1>13 DEF BeginReplay
  <2>2. CASE overlapped'
    BY <2>1, <2>2 DEF DigestInv
  <2>3. CASE ~overlapped'
    <3>1. ~overlapped /\ \A d \in Clients : ~Replaying(d)
      BY <2>1, <2>3
    <3>2. \A d \in Clients : /\ ~In(d, "build")' /\ ~In(d, "digest")'
                             /\ Replaying(d)' => d = c
      BY <1>0, <2>1, <3>1, GotoIs DEF In, Replaying
    <3>3. Names(last_run.digest) => Names(last_run.digest)'
      BY <2>1 DEF Names
    <3>4. \A d \in Clients : ~In(d, "build") /\ ~In(d, "digest")
      BY <3>1 DEF Replaying
    <3> QED BY <2>1, <3>1, <3>2, <3>3, <3>4 DEF DigestInv
  <2> QED BY <2>2, <2>3
<1>14. ASSUME NEW c \in Clients, PublishNotifier(c) PROVE DigestInv'
  <2>1. PICK k : k = Len(stores')
    OBVIOUS
  <2>2. /\ In(c, "publish") /\ overlapped' = overlapped
        /\ stores' = Append(stores, ReplayStore)
        /\ last_run' = [last_run EXCEPT !.notifier = k]
        /\ Goto(c, [step |-> "build", notifier |-> k])
    BY <1>14, <2>1 DEF PublishNotifier
  <2>3. last_run'.notifier = k
    BY <1>0, <2>2 DEF StoresInv
  <2>4. /\ k \in Nat
        /\ DOMAIN stores' = DOMAIN stores \cup {k}
        /\ stores'[k] = ReplayStore
        /\ \A n \in DOMAIN stores : stores'[n] = stores[n]
    BY <1>0, <2>1, <2>2, ReplayStoreTyped DEF StoresInv
  <2>5. \A n \in DOMAIN stores' : Ongoing(stores'[n]) \subseteq Ongoing(ReplayStore)
    BY <2>4 DEF DigestInv
  <2>6. PICK r : r = [step |-> "build", notifier |-> k]
    OBVIOUS
  <2>7. r # NULL /\ r.step = "build" /\ r.notifier = k
    BY <2>4, <2>6, NullIsNoRequest
  <2>8. /\ request'[c] = r
        /\ \A d \in Clients \ {c} : request'[d] = request[d]
    BY <1>0, <2>2, <2>6, GotoIs
  <2>9. ASSUME ~overlapped
        PROVE  /\ In(c, "build")' /\ ~In(c, "digest")'
               /\ \A d \in Clients : Replaying(d)' => d = c
    <3>1. \A d \in Clients \ {c} : ~Replaying(d)
      BY <2>2, <2>9 DEF DigestInv, Replaying
    <3> QED BY <2>7, <2>8, <3>1 DEF In, Replaying
  <2>10. \A d \in Clients : In(d, "digest")' => Replaying(d)'
    BY DEF In, Replaying
  <2>11. \A d \in Clients : In(d, "build")' => Replaying(d)'
    BY DEF In, Replaying
  <2> QED BY <2>2, <2>3, <2>5, <2>7, <2>8, <2>9, <2>10, <2>11 DEF DigestInv
<1>15. ASSUME NEW c \in Clients, BuildDigest(c) PROVE DigestInv'
  <2>1. PICK n : n = request[c].notifier
    OBVIOUS
  <2>2. PICK names : names = Ongoing(stores[n])
    OBVIOUS
  <2>3. PICK r : r = [step |-> "digest", digest |-> names]
    OBVIOUS
  <2>4. /\ In(c, "build") /\ UNCHANGED <<stores, last_run, overlapped>>
        /\ Goto(c, r)
    BY <1>15, <2>1, <2>2, <2>3 DEF BuildDigest, SameRun
  <2>5. n \in DOMAIN stores /\ stores[n] \in Seq(StoreEntry)
    BY <1>0, <2>1, <2>4 DEF StoresInv
  <2>6. names \subseteq Alerts
    BY <2>2, <2>5, OngoingAreAlerts
  <2>7. r # NULL /\ r.step = "digest" /\ r.digest = names
    BY <2>3, <2>6, NullIsNoRequest
  <2>8. /\ request'[c] = r
        /\ \A d \in Clients \ {c} : request'[d] = request[d]
    BY <1>0, <2>4, GotoIs
  <2>9. ASSUME ~overlapped
        PROVE  /\ Names(names)'
               /\ In(c, "digest")' /\ ~In(c, "build")'
               /\ \A d \in Clients : Replaying(d)' => d = c
    <3>1. \A d \in Clients \ {c} : ~Replaying(d)
      BY <2>4, <2>9 DEF DigestInv, Replaying
    <3>2. n = last_run.notifier
      BY <2>1, <2>4, <2>9 DEF DigestInv
    <3>3. Names(names)'
      BY <2>2, <2>4, <2>5, <3>2 DEF Names, DigestInv
    <3> QED BY <2>7, <2>8, <3>1, <3>3 DEF In, Replaying
  <2>10. \A d \in Clients : In(d, "digest")' => Replaying(d)'
    BY DEF In, Replaying
  <2>11. \A d \in Clients : In(d, "build")' => Replaying(d)'
    BY DEF In, Replaying
  <2>12. Names(names)' => Names(request[c].digest)'
    BY <2>7, <2>8 DEF Names
  <2>13. \A m \in DOMAIN stores' : Ongoing(stores'[m]) \subseteq Ongoing(ReplayStore)
    BY <2>4 DEF DigestInv
  <2> QED BY <2>4, <2>9, <2>10, <2>11, <2>12, <2>13 DEF DigestInv
<1>16. ASSUME NEW c \in Clients, PublishDigest(c) PROVE DigestInv'
  <2>1. /\ In(c, "digest") /\ UNCHANGED <<stores, overlapped>>
        /\ last_run' = [last_run EXCEPT !.digest = request[c].digest]
        /\ Goto(c, NULL)
    BY <1>16 DEF PublishDigest, Answer
  <2>2. /\ last_run'.digest = request[c].digest
        /\ last_run'.notifier = last_run.notifier
    BY <1>0, <2>1 DEF StoresInv
  <2>3. Names(request[c].digest) => Names(last_run.digest)'
    BY <2>1, <2>2 DEF Names
  <2>4. ASSUME ~overlapped
        PROVE  \A d \in Clients : ~Replaying(d)'
    <3>1. \A d \in Clients \ {c} : ~Replaying(d)
      BY <2>1, <2>4 DEF DigestInv, Replaying
    <3> QED BY <1>0, <2>1, <3>1, GotoIs DEF In, Replaying
  <2>5. \A d \in Clients : In(d, "digest")' \/ In(d, "build")' => Replaying(d)'
    BY DEF In, Replaying
  <2> QED BY <2>1, <2>3, <2>4, <2>5 DEF DigestInv
<1>17. CASE UNCHANGED serviceVars
  BY <1>17, <1>b DEF serviceVars
<1> QED
  BY <1>1, <1>2, <1>3, <1>4, <1>5, <1>6, <1>7, <1>8, <1>9, <1>10, <1>11,
     <1>12, <1>13, <1>14, <1>15, <1>16, <1>17 DEF ServiceNext

\* In a process whose replays never overlapped, and while none is in progress,
\* the digest names every alert that is open in the notifications of the last
\* run and none that was closed when its replay ended, whatever the replay
\* gave and however many replays, DELETEs and crashes went before.
THEOREM DigestFollowsTheRun == ServiceSpec => []DigestNamesOpenAlerts
<1>1. ServiceInit => DigestInv
  BY DEF ServiceInit, DigestInv, Replaying, In
<1>2. ServiceInv /\ DigestInv => DigestNamesOpenAlerts
  <2> SUFFICES ASSUME DigestInv, ~overlapped,
                      ~(\E c \in Clients : Replaying(c))
               PROVE  \/ last_run.notifier = NULL /\ last_run.digest = NULL
                      \/ /\ last_run.notifier \in DOMAIN stores
                         /\ LET store == stores[last_run.notifier]
                            IN  \A id \in RuleIds : \A i \in OpenFor(store, id) :
                                  <<id, store[i].entity>> \in last_run.digest
                         /\ last_run.digest \subseteq Ongoing(ReplayStore)
    BY DEF DigestNamesOpenAlerts
  <2>1. \/ last_run.notifier = NULL /\ last_run.digest = NULL
        \/ Names(last_run.digest)
    BY DEF DigestInv, Replaying
  <2> QED BY <2>1, OpenAreOngoing DEF Names
<1> QED BY <1>1, <1>2, DigestStep, ServiceInvHolds, PTL DEF ServiceSpec

-----------------------------------------------------------------------------
(* Which alerts a DELETE closes. *)

\* Whoever reads the fire at i also reads its recovery.
Told(store, i) ==
  \E j \in DOMAIN store :
    /\ j > i /\ SameAlert(store, i, j)
    /\ store[j].kind = "resolved"
    /\ store[i].to \subseteq store[j].to
    /\ store[j].suppressed => store[i].suppressed

Fires(store, id) ==
  {i \in DOMAIN store : store[i].rule = id /\ store[i].kind = "fired"}

\* No later fire of the same alert: a fire a DELETE may have to close.
LastFire(store, j) ==
  /\ j \in DOMAIN store /\ store[j].kind = "fired"
  /\ \A m \in DOMAIN store :
       m > j /\ SameAlert(store, j, m) => store[m].kind # "fired"

ToldOrOpen(store) ==
  \A id \in RuleIds : \A i \in Fires(store, id) :
    Told(store, i) \/ i \in OpenFor(store, id)

\* What a DELETE has found stays all there is to close in the store it looked
\* at, whatever other requests append to it.
ClosesTheRest(q) ==
  /\ \A j \in q.todo : LastFire(stores[q.notifier], j)
  /\ \A i \in Fires(stores[q.notifier], q.id) :
       Told(stores[q.notifier], i) \/ i \in q.todo

CloseInv ==
  /\ \A n \in DOMAIN stores : ToldOrOpen(stores[n])
  /\ \A c \in Clients :
       In(c, "close") /\ request[c].notifier # NULL => ClosesTheRest(request[c])

\* new is store with the alert of the fire at i over, for those it went to.
OnlyCloses(store, i, new) ==
  /\ Told(new, i)
  /\ \A id \in RuleIds : Fires(new, id) = Fires(store, id)
  /\ \A j \in DOMAIN store : Told(store, j) => Told(new, j)
  /\ \A j \in DOMAIN store : LastFire(store, j) => LastFire(new, j)
  /\ \A id \in RuleIds : \A j \in OpenFor(store, id) :
       j # i => j \in OpenFor(new, id)

\* The RESOLVED of one alert tells its readers and leaves every other alert of
\* the store as it was.
LEMMA ClosingOne ==
  ASSUME NEW store \in Seq(StoreEntry), NEW i, LastFire(store, i),
         NEW e, e = [store[i] EXCEPT !.kind = "resolved", !.suppressed = FALSE],
         NEW new, new = Append(store, e)
  PROVE  OnlyCloses(store, i, new)
<1> DEFINE L == Len(store)
<1>1. i \in DOMAIN store /\ store[i] \in StoreEntry /\ store[i].kind = "fired"
  BY DEF LastFire
<1>2. /\ e.kind = "resolved" /\ e.suppressed = FALSE
      /\ e.rule = store[i].rule /\ e.entity = store[i].entity
      /\ e.to = store[i].to
  BY <1>1 DEF StoreEntry
<1>3. e \in StoreEntry
  BY <1>1 DEF StoreEntry
<1>4. /\ L \in Nat /\ DOMAIN store = 1..L /\ DOMAIN new = 1..(L + 1)
      /\ \A j \in 1..L : new[j] = store[j]
      /\ new[L + 1] = e
  BY <1>3
<1> HIDE DEF L
<1>5. /\ DOMAIN new = DOMAIN store \cup {L + 1}
      /\ \A j \in DOMAIN store : j \in Nat /\ j < L + 1 /\ new[j] = store[j]
  BY <1>4
<1>6. Told(new, i)
  BY <1>1, <1>2, <1>4, <1>5 DEF Told, SameAlert
<1>7. \A id \in RuleIds : Fires(new, id) = Fires(store, id)
  BY <1>2, <1>4, <1>5 DEF Fires
<1>8. \A j \in DOMAIN store : Told(store, j) => Told(new, j)
  BY <1>5 DEF Told, SameAlert
<1>9. \A j \in DOMAIN store : LastFire(store, j) => LastFire(new, j)
  BY <1>2, <1>4, <1>5 DEF LastFire, SameAlert
<1>10. ASSUME NEW id \in RuleIds, NEW j \in OpenFor(store, id), j # i
       PROVE  j \in OpenFor(new, id)
  <2>1. /\ j \in DOMAIN store /\ store[j].rule = id /\ store[j].kind = "fired"
        /\ \A m \in DOMAIN store :
             m > j /\ SameAlert(store, j, m) => store[m].kind = "escalated"
    BY DEF OpenFor
  <2>2. ~SameAlert(store, j, i)
    <3> SUFFICES ASSUME SameAlert(store, j, i) PROVE FALSE
      OBVIOUS
    <3>1. CASE i > j
      BY <3>1, <1>1, <2>1
    <3>2. CASE j > i
      BY <3>2, <2>1 DEF LastFire, SameAlert
    <3> QED BY <1>1, <1>5, <1>10, <2>1, <3>1, <3>2
  <2>3. ~SameAlert(new, j, L + 1)
    BY <1>2, <1>4, <1>5, <2>1, <2>2 DEF SameAlert
  <2> QED BY <1>5, <2>1, <2>3 DEF OpenFor, SameAlert
<1> QED BY <1>6, <1>7, <1>8, <1>9, <1>10 DEF OnlyCloses

LEMMA OpenAreLast ==
  ASSUME NEW store, NEW id, NEW j \in OpenFor(store, id)
  PROVE  LastFire(store, j)
BY DEF OpenFor, LastFire

LEMMA CloseStep ==
  ASSUME ToldOrOpen(ReplayStore)
  PROVE  ServiceInv /\ CloseInv /\ [ServiceNext]_serviceVars => CloseInv'
<1> SUFFICES ASSUME ServiceInv, CloseInv, [ServiceNext]_serviceVars
             PROVE  CloseInv'
  OBVIOUS
<1>0. /\ DOMAIN request = Clients /\ StoresInv
      /\ \A c \in Clients : In(c, "close") => CarriesAlerts(request[c])
      /\ \A c \in Clients : In(c, "find") => request[c].id \in RuleIds
  BY DEF ServiceInv, RequestInv
\* The stores stay, and one request goes somewhere else than to "close".
<1>a. ASSUME UNCHANGED stores, NEW c \in Clients, NEW r, Goto(c, r),
             r # NULL => r.step # "close"
      PROVE  CloseInv'
  <2>1. \A d \in Clients : In(d, "close")' =>
          In(d, "close") /\ request'[d] = request[d]
    BY <1>0, <1>a, GotoIs DEF In
  <2>2. \A d \in Clients :
          request'[d] = request[d] =>
            (ClosesTheRest(request[d])' <=> ClosesTheRest(request[d]))
    BY <1>a DEF ClosesTheRest
  <2> QED BY <1>a, <2>1, <2>2 DEF CloseInv
<1>b. UNCHANGED <<request, stores>> => CloseInv'
  BY DEF CloseInv, ClosesTheRest, In
<1>1. CASE Start
  BY <1>1, <1>b DEF Start
<1>2. CASE SeedRule
  BY <1>2, <1>b DEF SeedRule
<1>3. CASE Crash
  BY <1>3 DEF Crash, CloseInv, In
<1>4. ASSUME NEW c \in Clients, NEW id \in RuleIds, NEW p \in Patches,
             BeginPatch(c, id, p)
      PROVE  CloseInv'
  <2>1. PICK r : r = [step |-> "update", id |-> id, rule |-> Merge(table[id], p),
                      provided |-> p]
    OBVIOUS
  <2>2. Goto(c, r) /\ UNCHANGED stores
    BY <1>4, <2>1 DEF BeginPatch, SameRun
  <2> QED BY <1>a, <2>1, <2>2
<1>5. ASSUME NEW c \in Clients, FinishPatch(c) PROVE CloseInv'
  BY <1>5, <1>a DEF FinishPatch, Answer, SameRun
<1>6. ASSUME NEW c \in Clients, NEW d \in Drafts, BeginCreate(c, d)
      PROVE  CloseInv'
  <2>1. PICK id : Goto(c, [step |-> "insert", id |-> id, rule |-> d.rule])
    BY <1>6 DEF BeginCreate
  <2>2. UNCHANGED stores
    BY <1>6 DEF BeginCreate, SameRun
  <2> QED BY <1>a, <2>1, <2>2
<1>7. ASSUME NEW c \in Clients, NEW a \in Agents, BeginVisit(c, a)
      PROVE  CloseInv'
  <2>1. PICK r : r = [step |-> "insert", id |-> AdherenceId[a],
                      rule |-> Personal(Template, a)]
    OBVIOUS
  <2>2. Goto(c, r) /\ UNCHANGED stores
    BY <1>7, <2>1 DEF BeginVisit, SameRun
  <2> QED BY <1>a, <2>1, <2>2
<1>8. ASSUME NEW c \in Clients, FinishCreate(c) PROVE CloseInv'
  BY <1>8, <1>a DEF FinishCreate, Answer, SameRun
<1>9. ASSUME NEW c \in Clients, NEW id \in RuleIds, BeginDelete(c, id)
      PROVE  CloseInv'
  BY <1>9, <1>a DEF BeginDelete, SameRun
<1>10. ASSUME NEW c \in Clients, FindOpen(c) PROVE CloseInv'
  <2>1. PICK n, id : n = last_run.notifier /\ id = request[c].id
    OBVIOUS
  <2>2. PICK todo : todo = IF n = NULL THEN {} ELSE OpenFor(stores[n], id)
    OBVIOUS
  <2>3. PICK r : r = [step |-> "close", id |-> id, notifier |-> n, todo |-> todo]
    OBVIOUS
  <2>4. Goto(c, r) /\ UNCHANGED stores
    BY <1>10, <2>1, <2>2, <2>3 DEF FindOpen, SameRun
  <2>5. id \in RuleIds /\ (n # NULL => n \in DOMAIN stores)
    BY <1>0, <1>10, <2>1 DEF FindOpen, StoresInv
  <2>6. n # NULL => ClosesTheRest(r)
    <3> SUFFICES ASSUME n # NULL PROVE ClosesTheRest(r)
      OBVIOUS
    <3>1. /\ r.id = id /\ r.notifier = n /\ r.todo = OpenFor(stores[n], id)
          /\ ToldOrOpen(stores[n])
      BY <2>2, <2>3, <2>5 DEF CloseInv
    <3> QED BY <2>5, <3>1, OpenAreLast DEF ClosesTheRest, ToldOrOpen
  <2>7. \A d \in Clients : request'[d] = IF d = c THEN r ELSE request[d]
    BY <1>0, <2>4, GotoIs
  <2>8. ASSUME NEW d \in Clients, In(d, "close")', request'[d].notifier # NULL
        PROVE  ClosesTheRest(request[d])'
    <3>1. CASE d = c
      <4>1. request'[d] = r /\ r.notifier = n
        BY <3>1, <2>3, <2>7
      <4> QED BY <4>1, <2>4, <2>6, <2>8 DEF ClosesTheRest
    <3>2. CASE d # c
      <4>1. request'[d] = request[d] /\ In(d, "close")
        BY <3>2, <2>7, <2>8 DEF In
      <4>2. ClosesTheRest(request[d])
        BY <4>1, <2>8 DEF CloseInv
      <4> QED BY <4>1, <4>2, <2>4 DEF ClosesTheRest
    <3> QED BY <3>1, <3>2
  <2> QED BY <2>4, <2>8 DEF CloseInv
<1>11. ASSUME NEW c \in Clients, CloseOne(c) PROVE CloseInv'
  <2>1. PICK q, n : q = request[c] /\ n = request[c].notifier
    OBVIOUS
  <2>2. PICK i \in q.todo :
          /\ stores' = [stores EXCEPT ![n] =
               Append(@, [stores[n][i] EXCEPT !.kind = "resolved",
                                              !.suppressed = FALSE])]
          /\ Goto(c, [q EXCEPT !.todo = @ \ {i}])
    BY <1>11, <2>1 DEF CloseOne
  <2>3. CarriesAlerts(q) /\ In(c, "close")
    BY <1>0, <1>11, <2>1 DEF CloseOne
  <2>4. n # NULL /\ n \in DOMAIN stores /\ i \in DOMAIN stores[n]
    BY <2>1, <2>2, <2>3 DEF CarriesAlerts
  <2>5. PICK store : store = stores[n]
    OBVIOUS
  <2>6. store \in Seq(StoreEntry) /\ store[i] \in StoreEntry
    BY <1>0, <2>4, <2>5 DEF StoresInv
  <2>7. PICK e : e = [store[i] EXCEPT !.kind = "resolved", !.suppressed = FALSE]
    OBVIOUS
  <2>8. PICK new : new = Append(store, e)
    OBVIOUS
  <2>9. e \in StoreEntry
    BY <2>6, <2>7 DEF StoreEntry
  <2>10. /\ DOMAIN stores' = DOMAIN stores
         /\ stores'[n] = new
         /\ \A m \in DOMAIN stores \ {n} : stores'[m] = stores[m]
    BY <1>0, <2>2, <2>4, <2>5, <2>7, <2>8, <2>9, Grows
  <2>11. ClosesTheRest(q)
    BY <2>1, <2>3, <2>4 DEF CloseInv
  <2>12. LastFire(store, i)
    BY <2>1, <2>2, <2>5, <2>11 DEF ClosesTheRest
  <2>a. OnlyCloses(store, i, new)
    BY <2>6, <2>7, <2>8, <2>12, ClosingOne
  <2>13. /\ Told(new, i)
         /\ \A id \in RuleIds : Fires(new, id) = Fires(store, id)
         /\ \A j \in DOMAIN store : Told(store, j) => Told(new, j)
         /\ \A j \in DOMAIN store : LastFire(store, j) => LastFire(new, j)
         /\ \A id \in RuleIds : \A j \in OpenFor(store, id) :
              j # i => j \in OpenFor(new, id)
    BY <2>a DEF OnlyCloses
  <2>14. \A id \in RuleIds : Fires(store, id) \subseteq DOMAIN store
    BY DEF Fires
  <2>15. ToldOrOpen(store)
    BY <2>4, <2>5 DEF CloseInv
  <2>16. ToldOrOpen(new)
    BY <2>13, <2>14, <2>15 DEF ToldOrOpen
  <2>17. \A m \in DOMAIN stores : ToldOrOpen(stores'[m])
    BY <2>10, <2>16 DEF CloseInv
  <2>18. PICK todo : todo = q.todo \ {i}
    OBVIOUS
  <2>19. PICK r : r = [step |-> "close", id |-> q.id, notifier |-> n, todo |-> todo]
    OBVIOUS
  <2>20. [q EXCEPT !.todo = @ \ {i}] = r
    BY <2>1, <2>3, <2>18, <2>19 DEF CarriesAlerts
  <2>21. \A d \in Clients : request'[d] = IF d = c THEN r ELSE request[d]
    <3>1. Goto(c, r)
      BY <2>2, <2>20
    <3>2. DOMAIN request = Clients
      BY <1>0
    <3>3. request'[c] = r /\ \A d \in Clients \ {c} : request'[d] = request[d]
      BY <3>1, <3>2, GotoIs
    <3> QED BY <3>3
  <2>22. ASSUME NEW d \in Clients, In(d, "close")', request'[d].notifier # NULL
         PROVE  ClosesTheRest(request[d])'
    <3>1. CASE d = c
      <4>1. /\ request'[d] = r /\ r.notifier = n /\ r.id = q.id
            /\ r.todo = q.todo \ {i} /\ q.id \in RuleIds
        BY <3>1, <2>3, <2>18, <2>19, <2>21 DEF CarriesAlerts
      <4>2. q.todo \subseteq DOMAIN store
        BY <2>1, <2>3, <2>4, <2>5 DEF CarriesAlerts
      <4>3. /\ \A j \in q.todo : LastFire(store, j)
            /\ \A j \in Fires(store, q.id) : Told(store, j) \/ j \in q.todo
        BY <2>1, <2>5, <2>11 DEF ClosesTheRest
      <4>4. \A j \in r.todo : LastFire(new, j)
        BY <4>1, <4>2, <4>3, <2>13
      <4>5. \A j \in Fires(new, q.id) : Told(new, j) \/ j \in r.todo
        BY <4>1, <4>3, <2>13, <2>14
      <4> QED BY <4>1, <4>4, <4>5, <2>10 DEF ClosesTheRest
    <3>2. CASE d # c
      <4>1. PICK p, m : p = request[d] /\ m = request[d].notifier
        OBVIOUS
      <4>2. request'[d] = p /\ In(d, "close") /\ m # NULL
        BY <3>2, <4>1, <2>21, <2>22 DEF In
      <4>3. CarriesAlerts(p) /\ ClosesTheRest(p)
        BY <1>0, <4>1, <4>2 DEF CloseInv
      <4>4. p.id \in RuleIds /\ m \in DOMAIN stores /\ p.todo \subseteq DOMAIN stores[m]
        BY <4>1, <4>2, <4>3 DEF CarriesAlerts
      <4>5. /\ \A j \in p.todo : LastFire(stores[m], j)
            /\ \A j \in Fires(stores[m], p.id) : Told(stores[m], j) \/ j \in p.todo
        BY <4>1, <4>3 DEF ClosesTheRest
      <4>6. /\ \A j \in p.todo : LastFire(stores'[m], j)
            /\ \A j \in Fires(stores'[m], p.id) : Told(stores'[m], j) \/ j \in p.todo
        <5>1. CASE m = n
          BY <5>1, <4>4, <4>5, <2>5, <2>10, <2>13, <2>14
        <5>2. CASE m # n
          BY <5>2, <4>4, <4>5, <2>10
        <5> QED BY <5>1, <5>2
      <4> QED BY <4>1, <4>2, <4>6 DEF ClosesTheRest
    <3> QED BY <3>1, <3>2
  <2> QED BY <2>10, <2>17, <2>22 DEF CloseInv
<1>12. ASSUME NEW c \in Clients, FinishDelete(c) PROVE CloseInv'
  BY <1>12, <1>a DEF FinishDelete, Answer, SameRun
<1>13. ASSUME NEW c \in Clients, BeginReplay(c) PROVE CloseInv'
  BY <1>13, <1>a DEF BeginReplay
<1>14. ASSUME NEW c \in Clients, PublishNotifier(c) PROVE CloseInv'
  <2>1. PICK k : k = Len(stores')
    OBVIOUS
  <2>2. PICK r : r = [step |-> "build", notifier |-> k]
    OBVIOUS
  <2>3. Goto(c, r) /\ stores' = Append(stores, ReplayStore)
    BY <1>14, <2>1, <2>2 DEF PublishNotifier
  <2>4. /\ DOMAIN stores' = DOMAIN stores \cup {k}
        /\ stores'[k] = ReplayStore
        /\ \A m \in DOMAIN stores : stores'[m] = stores[m]
    BY <1>0, <2>1, <2>3, ReplayStoreTyped DEF StoresInv
  <2>5. \A m \in DOMAIN stores' : ToldOrOpen(stores'[m])
    BY <2>4 DEF CloseInv
  <2>6. r.step = "build"
    BY <2>2
  <2>7. ASSUME NEW d \in Clients, In(d, "close")', request'[d].notifier # NULL
        PROVE  ClosesTheRest(request[d])'
    <3>1. d # c /\ request'[d] = request[d] /\ In(d, "close")
      BY <1>0, <2>3, <2>6, <2>7, GotoIs DEF In
    <3>2. ClosesTheRest(request[d]) /\ request[d].notifier \in DOMAIN stores
      BY <1>0, <2>7, <3>1 DEF CloseInv, CarriesAlerts
    <3> QED BY <2>4, <3>1, <3>2 DEF ClosesTheRest
  <2> QED BY <2>5, <2>7 DEF CloseInv
<1>15. ASSUME NEW c \in Clients, BuildDigest(c) PROVE CloseInv'
  <2>1. PICK r : r.step = "digest" /\ Goto(c, r)
    BY <1>15 DEF BuildDigest
  <2> QED BY <1>15, <1>a, <2>1 DEF BuildDigest, SameRun
<1>16. ASSUME NEW c \in Clients, PublishDigest(c) PROVE CloseInv'
  BY <1>16, <1>a DEF PublishDigest, Answer
<1>17. CASE UNCHANGED serviceVars
  BY <1>17, <1>b DEF serviceVars
<1> QED
  BY <1>1, <1>2, <1>3, <1>4, <1>5, <1>6, <1>7, <1>8, <1>9, <1>10, <1>11,
     <1>12, <1>13, <1>14, <1>15, <1>16, <1>17 DEF ServiceNext

\* A call that was closing alerts and is over, in a process that lives, is a
\* DELETE that had none left to close.
LEMMA DeleteEnds ==
  ASSUME ServiceInv, [ServiceNext]_serviceVars, NEW c \in Clients,
         In(c, "close"), request'[c] = NULL, server' = "up"
  PROVE  request[c].todo = {}
<1>0. /\ DOMAIN request = Clients /\ request[c] # NULL
      /\ request[c].step = "close" /\ CarriesAlerts(request[c]) /\ StoresInv
  BY DEF ServiceInv, RequestInv, In
<1>1. CASE CloseOne(c)
  <2>1. PICK q, n : q = request[c] /\ n = request[c].notifier
    OBVIOUS
  <2>2. PICK i \in q.todo : Goto(c, [q EXCEPT !.todo = @ \ {i}])
    BY <1>1, <2>1 DEF CloseOne
  <2>3. /\ q = [step |-> "close", id |-> q.id, notifier |-> n, todo |-> q.todo]
        /\ q.id \in RuleIds /\ n \in DOMAIN stores
        /\ q.todo \subseteq DOMAIN stores[n]
    BY <1>0, <2>1, <2>2 DEF CarriesAlerts
  <2>4. stores \in Seq(Seq(StoreEntry)) /\ stores[n] \in Seq(StoreEntry)
    BY <1>0, <2>3 DEF StoresInv
  <2>5. n \in Nat /\ q.todo \in SUBSET Nat
    BY <2>3, <2>4
  <2>6. PICK todo : todo = q.todo \ {i}
    OBVIOUS
  <2>7. [q EXCEPT !.todo = @ \ {i}]
          = [step |-> "close", id |-> q.id, notifier |-> n, todo |-> todo]
    BY <2>3, <2>6
  <2>8. todo \in SUBSET Nat
    BY <2>5, <2>6
  <2>9. [q EXCEPT !.todo = @ \ {i}] # NULL
    BY <2>3, <2>5, <2>7, <2>8, NullIsNoRequest
  <2> QED BY <1>0, <2>2, <2>9, GotoIs
<1>2. CASE FinishDelete(c)
  BY <1>2 DEF FinishDelete
<1>3. ASSUME NEW d \in Clients, NEW r, Goto(d, r),
             Idle(d) \/ \E step \in {"update", "insert", "find", "publish",
                                       "build", "digest"} :
                          In(d, step)
      PROVE  FALSE
  BY <1>0, <1>3, GotoIs DEF Idle, In
<1>4. ASSUME NEW d \in Clients \ {c}, NEW r, Goto(d, r) PROVE FALSE
  BY <1>0, <1>4, GotoIs
<1>5. ~UNCHANGED request /\ ~Start /\ ~SeedRule /\ ~Crash
  BY <1>0 DEF Start, SeedRule, Crash
<1>6. ASSUME NEW d \in Clients, NEW id \in RuleIds, NEW p \in Patches,
             BeginPatch(d, id, p)
      PROVE  FALSE
  BY <1>3, <1>6 DEF BeginPatch
<1>7. ASSUME NEW d \in Clients, NEW draft \in Drafts, BeginCreate(d, draft)
      PROVE  FALSE
  BY <1>3, <1>7 DEF BeginCreate
<1>8. ASSUME NEW d \in Clients, NEW a \in Agents, BeginVisit(d, a) PROVE FALSE
  BY <1>3, <1>8 DEF BeginVisit
<1>9. ASSUME NEW d \in Clients, NEW id \in RuleIds, BeginDelete(d, id) PROVE FALSE
  BY <1>3, <1>9 DEF BeginDelete
<1>10. ASSUME NEW d \in Clients,
              \/ FinishPatch(d) \/ FinishCreate(d) \/ FindOpen(d)
              \/ BeginReplay(d) \/ PublishNotifier(d) \/ BuildDigest(d)
              \/ PublishDigest(d)
       PROVE  FALSE
  BY <1>3, <1>10 DEF FinishPatch, FinishCreate, FindOpen, BeginReplay,
                     PublishNotifier, BuildDigest, PublishDigest, Answer
<1>11. ASSUME NEW d \in Clients \ {c}, CloseOne(d) \/ FinishDelete(d) PROVE FALSE
  BY <1>4, <1>11 DEF CloseOne, FinishDelete, Answer
<1> QED
  BY <1>1, <1>2, <1>5, <1>6, <1>7, <1>8, <1>9, <1>10, <1>11
  DEF ServiceNext, serviceVars

\* When a DELETE is done, whoever was told of an alert of its rule in the run
\* it looked at can read that it is over, whatever other requests did
\* meanwhile.  The assumption is about the run: it told the readers of a fire
\* of its recovery, as the engine does as long as an agent keeps its queues
\* (who a recovery goes to is resolved when it is delivered).  It holds of the
\* notifications that events.jsonl gives.
THEOREM DeletedRulesLeaveNothingOpen ==
  ASSUME ToldOrOpen(ReplayStore)
  PROVE  ServiceSpec => DeleteClosesAlerts
<1> DEFINE Closed ==
      \A id \in RuleIds, c \in Clients :
        /\ In(c, "close") /\ request'[c] = NULL /\ server' = "up"
        /\ request[c].id = id /\ request[c].notifier # NULL
        => LET store == stores[request[c].notifier]
           IN  \A r \in Readers(store), loud \in BOOLEAN :
                 ~Dangling(store, Listed(store, loud, r), id)
<1>1. ServiceInit => CloseInv
  BY DEF ServiceInit, CloseInv, In
<1>2. ServiceInv /\ CloseInv /\ [ServiceNext]_serviceVars => Closed
  <2> SUFFICES ASSUME ServiceInv, CloseInv, [ServiceNext]_serviceVars,
                      NEW id \in RuleIds, NEW c \in Clients,
                      In(c, "close"), request'[c] = NULL, server' = "up",
                      request[c].id = id, request[c].notifier # NULL,
                      NEW r, NEW loud \in BOOLEAN
               PROVE  LET store == stores[request[c].notifier]
                      IN  ~Dangling(store, Listed(store, loud, r), id)
    OBVIOUS
  <2>1. PICK store : store = stores[request[c].notifier]
    OBVIOUS
  <2>2. request[c].todo = {}
    BY DeleteEnds
  <2>3. \A i \in Fires(store, id) : Told(store, i)
    BY <2>1, <2>2 DEF CloseInv, ClosesTheRest
  <2>4. ~Dangling(store, Listed(store, loud, r), id)
    BY <2>3 DEF Dangling, Listed, Fires, Told
  <2> QED BY <2>1, <2>4
<1>3. ServiceInv /\ CloseInv /\ [ServiceNext]_serviceVars =>
        [\A id \in RuleIds, c \in Clients :
           /\ In(c, "close") /\ request'[c] = NULL /\ server' = "up"
           /\ request[c].id = id /\ request[c].notifier # NULL
           => LET store == stores[request[c].notifier]
              IN  \A r \in Readers(store), loud \in BOOLEAN :
                    ~Dangling(store, Listed(store, loud, r), id)]_serviceVars
  BY <1>2
<1> QED
  BY <1>1, <1>3, CloseStep, ServiceInvHolds, PTL DEF ServiceSpec, DeleteClosesAlerts
=============================================================================
