--------------------------- MODULE ContractProofs ---------------------------
(***************************************************************************)
(* Engine implements AlertContract: what a subscriber reads off the store  *)
(* obeys the promise of the noise controls, for every set of rules,        *)
(* entities and events and every tick interval.                            *)
(*                                                                         *)
(* The refinement mapping reads the notifications alone, while the engine  *)
(* decides by its AlertState.  So the invariant ties the two together pair *)
(* by pair (Mirrors), each branch of an evaluation is one action of the    *)
(* contract for its pair, and a pass of the engine is one Pass.            *)
(***************************************************************************)
EXTENDS EngineProofs

-----------------------------------------------------------------------------
(* One pair. *)

\* The pings of a store have a last one, if there are any.
HasLastPing(l) ==
  Pings(l) # {} => \E i \in Pings(l) : \A j \in Pings(l) : j <= i

\* The AlertState remembers what the store shows of the current episode.
Mirrors(st, l) ==
  /\ HasLastPing(l)
  /\ PingOf(l) = st.last_audible_activity
  /\ st.status = "FIRING" => /\ st.firing_since \in Int
                             /\ SinceOf(l) = st.firing_since

\* What the engine itself would answer when asked for the phase.
PhaseIn(st) ==
  IF st.status # "FIRING" THEN "quiet"
  ELSE IF st.escalated THEN "escalated"
  ELSE IF st.fire_was_suppressed THEN "muted" ELSE "audible"

\* The phase read off the store is the engine's, and a quiet pair has no start.
LEMMA PhaseShown ==
  ASSUME NEW rule, NEW st \in AlertState, NEW l \in Seq(Notification),
         PairInv(rule, st, l)
  PROVE  /\ PhaseOf(l) = PhaseIn(st)
         /\ st.status # "FIRING" => SinceOf(l) = NULL
<1>1. /\ st.status = "FIRING" <=> Open(l)
      /\ st.escalated <=> EscalatedLast(l)
      /\ Open(l) => st.fire_was_suppressed = l[Len(l)].suppressed
  BY DEF PairInv, Shows
<1> QED
  BY <1>1 DEF PhaseOf, PhaseIn, SinceOf, Open, EscalatedLast

\* A notification the cooldown counts from becomes the last ping.
LEMMA PingAppended ==
  ASSUME NEW l \in Seq(Notification), NEW n \in Notification,
         n.kind # "escalated", ~n.suppressed
  PROVE  HasLastPing(Append(l, n)) /\ PingOf(Append(l, n)) = n.ts
<1> DEFINE m == Append(l, n)
           last == Len(l) + 1
<1>1. /\ DOMAIN m = 1..last /\ m[last] = n /\ Len(l) \in Nat
  BY Appended
<1> HIDE DEF m
<1>2. /\ last \in Pings(m) /\ \A j \in Pings(m) : j \in Int /\ j <= last
  BY <1>1 DEF Pings
<1>3. (CHOOSE i \in Pings(m) : \A j \in Pings(m) : j <= i) = last
  <2> DEFINE c == CHOOSE i \in Pings(m) : \A j \in Pings(m) : j <= i
  <2>1. c \in Pings(m) /\ \A j \in Pings(m) : j <= c
    BY <1>2
  <2> QED BY <1>1, <1>2, <2>1
<1> QED
  BY <1>1, <1>2, <1>3 DEF HasLastPing, PingOf, m

\* Any other notification leaves the pings as they were.
LEMMA PingUnheard ==
  ASSUME NEW l \in Seq(Notification), NEW n \in Notification,
         n.kind = "escalated" \/ n.suppressed, HasLastPing(l)
  PROVE  HasLastPing(Append(l, n)) /\ PingOf(Append(l, n)) = PingOf(l)
<1> DEFINE m == Append(l, n)
<1>1. /\ DOMAIN l = 1..Len(l) /\ Len(l) \in Nat
      /\ DOMAIN m = 1..(Len(l) + 1)
      /\ m[Len(l) + 1] = n /\ \A i \in 1..Len(l) : m[i] = l[i]
  BY Appended
<1> HIDE DEF m
<1>2. Pings(m) = Pings(l) /\ Pings(l) \subseteq 1..Len(l)
  BY <1>1 DEF Pings
<1>3. CASE Pings(l) = {}
  BY <1>2, <1>3 DEF HasLastPing, PingOf, m
<1>4. CASE Pings(l) # {}
  <2> DEFINE c == CHOOSE i \in Pings(l) : \A j \in Pings(l) : j <= i
  <2>1. c \in Pings(l)
    BY <1>4 DEF HasLastPing
  <2>2. m[c] = l[c]
    BY <1>1, <1>2, <2>1
  <2>3. PingOf(l) = l[c].ts
    BY <1>4 DEF PingOf
  <2>4. PingOf(m) = m[c].ts
    BY <1>2, <1>4 DEF PingOf
  <2> QED BY <1>2, <2>2, <2>3, <2>4 DEF HasLastPing, m
<1> QED
  BY <1>3, <1>4

SinceIn(st) == IF st.status = "FIRING" THEN st.firing_since ELSE NULL

\* Everything the mapping reads off a pair's store is in its AlertState.
LEMMA StoreReadsAsState ==
  ASSUME NEW rule, NEW st \in AlertState, NEW l \in Seq(Notification),
         PairInv(rule, st, l), Mirrors(st, l)
  PROVE  /\ PhaseOf(l) = PhaseIn(st) /\ SinceOf(l) = SinceIn(st)
         /\ PingOf(l) = st.last_audible_activity
         /\ st.escalated => st.status = "FIRING" /\ ~st.fire_was_suppressed
<1>1. PhaseOf(l) = PhaseIn(st) /\ (st.status # "FIRING" => SinceOf(l) = NULL)
  BY PhaseShown
<1>2. st.escalated => st.status = "FIRING" /\ ~st.fire_was_suppressed
  <2>1. SUFFICES ASSUME st.escalated
                 PROVE  st.status = "FIRING" /\ ~st.fire_was_suppressed
    OBVIOUS
  <2>2. Open(l) /\ EscalatedLast(l) /\ Len(l) \in DOMAIN l
    BY <2>1 DEF PairInv, Shows, EscalatedLast, Open
  <2> QED BY <2>2 DEF PairInv, Shows, QuietThroughout, EscalatedLast
<1> QED
  BY <1>1, <1>2 DEF Mirrors, SinceIn

\* The store of an open pair starts its episode where the engine says.
LEMMA EvaluateMirrors ==
  ASSUME NEW rule, NEW st \in AlertState, NEW obs, NEW t \in Int,
         NEW l \in Seq(Notification), PairInv(rule, st, l), Mirrors(st, l)
  PROVE  /\ Emits(rule, st, obs, t) = NULL
              => Mirrors(Evaluate(rule, st, obs, t), l)
         /\ \A n \in Notification :
              /\ Emits(rule, st, obs, t) # NULL
              /\ n.kind = Emits(rule, st, obs, t) /\ n.ts = t
              /\ n.suppressed = Suppressed(rule, st, n.kind, t)
              => Mirrors(Evaluate(rule, st, obs, t), Append(l, n))
<1> DEFINE s == Evaluate(rule, st, obs, t)
           kind == Emits(rule, st, obs, t)
<1>0. NULL \notin Kinds
  BY NullIsNoKind
<1>1. CASE Fires(rule, st, obs, t)
  <2>1. /\ s = Fire(rule, st, t) /\ kind = "fired"
    BY <1>1 DEF Evaluate, Emits, Fires, Resolves, Escalates, Pends, Clears
  <2>2. SUFFICES ASSUME NEW n \in Notification, n.kind = "fired", n.ts = t,
                        n.suppressed = InCooldown(rule, st, t)
                 PROVE  Mirrors(Fire(rule, st, t), Append(l, n))
    BY <1>0, <2>1 DEF Kinds, Suppressed, InCooldown
  <2>3. SinceOf(Append(l, n)) = t
    BY <2>2, Appended DEF SinceOf, Open
  <2>4. /\ HasLastPing(Append(l, n))
        /\ PingOf(Append(l, n)) = IF InCooldown(rule, st, t)
                                  THEN st.last_audible_activity ELSE t
    BY <2>2, PingAppended, PingUnheard DEF Mirrors
  <2> QED BY <2>3, <2>4 DEF Mirrors, Fire, AlertState
<1>2. CASE Resolves(st, obs)
  <2>1. /\ s = Resolve(st, t) /\ kind = "resolved"
    BY <1>2 DEF Evaluate, Emits, Fires, Resolves, Escalates, Pends, Clears
  <2>2. SUFFICES ASSUME NEW n \in Notification, n.kind = "resolved", n.ts = t,
                        n.suppressed = st.fire_was_suppressed
                 PROVE  Mirrors(Resolve(st, t), Append(l, n))
    BY <1>0, <2>1 DEF Kinds, Suppressed, AlertState
  <2>3. /\ HasLastPing(Append(l, n))
        /\ PingOf(Append(l, n)) = IF st.fire_was_suppressed
                                  THEN st.last_audible_activity ELSE t
    BY <2>2, PingAppended, PingUnheard DEF Mirrors
  <2> QED BY <2>3 DEF Mirrors, Resolve, AlertState
<1>3. CASE Escalates(rule, st, obs, t)
  <2>1. /\ s = [st EXCEPT !.escalated = TRUE] /\ kind = "escalated"
        /\ st.status = "FIRING" /\ ~st.escalated
    BY <1>3 DEF Evaluate, Emits, Fires, Resolves, Escalates, Pends, Clears
  <2>2. SUFFICES ASSUME NEW n \in Notification, n.kind = "escalated"
                 PROVE  Mirrors([st EXCEPT !.escalated = TRUE], Append(l, n))
    BY <1>0, <2>1 DEF Kinds
  <2>3. HasLastPing(Append(l, n)) /\ PingOf(Append(l, n)) = PingOf(l)
    BY <2>2, PingUnheard DEF Mirrors
  <2>4. SinceOf(Append(l, n)) = SinceOf(l)
    <3>1. Open(l) /\ ~EscalatedLast(l) /\ Len(l) \in 1..Len(l)
      BY <2>1, Appended DEF PairInv, Shows, Open
    <3>2. SinceOf(l) = l[Len(l)].ts
      BY <3>1 DEF SinceOf, EscalatedLast, Open
    <3> QED BY <2>2, <3>1, <3>2, Appended DEF SinceOf, Open
  <2> QED BY <2>1, <2>3, <2>4 DEF Mirrors, AlertState
<1>4. CASE Pends(rule, st, obs, t) \/ Clears(st, obs)
  <2>1. /\ kind = NULL /\ s.status # "FIRING"
        /\ s.last_audible_activity = st.last_audible_activity
    BY <1>4 DEF Evaluate, Emits, Fires, Resolves, Escalates, Pends, Clears,
                Pend, Clear, AlertState
  <2> QED BY <2>1 DEF Mirrors
<1>5. CASE ~ \/ Fires(rule, st, obs, t) \/ Resolves(st, obs)
             \/ Escalates(rule, st, obs, t)
             \/ Pends(rule, st, obs, t) \/ Clears(st, obs)
  BY <1>5 DEF Evaluate, Emits
<1> QED
  BY <1>1, <1>2, <1>3, <1>4, <1>5

-----------------------------------------------------------------------------
(* One evaluation is one action of the contract, or none. *)

\* The contract's actions, said of the AlertState before and after.
Moves(rule, st, s, t) ==
  LET was    == PhaseIn(st)
      rested == \/ st.last_audible_activity = NULL
                \/ t - st.last_audible_activity >= rule.cooldown_sec
      becomes(p, since, ping) == /\ PhaseIn(s) = p /\ SinceIn(s) = since
                                 /\ s.last_audible_activity = ping
  IN  \/ was = "quiet" /\ rested /\ becomes("audible", t, t)
      \/ was = "quiet" /\ ~rested
           /\ becomes("muted", t, st.last_audible_activity)
      \/ /\ was = "audible" /\ rule.escalate_after_sec # NULL
         /\ t - SinceIn(st) >= rule.escalate_after_sec
         /\ becomes("escalated", SinceIn(st), st.last_audible_activity)
      \/ was \in {"audible", "escalated"} /\ becomes("quiet", NULL, t)
      \/ was = "muted" /\ becomes("quiet", NULL, st.last_audible_activity)
      \/ becomes(was, SinceIn(st), st.last_audible_activity)

LEMMA EvaluateMoves ==
  ASSUME NEW rule, NoiseControlsOK(rule), NEW st \in AlertState, NEW obs,
         NEW t \in Int,
         st.escalated => st.status = "FIRING" /\ ~st.fire_was_suppressed
  PROVE  Moves(rule, st, Evaluate(rule, st, obs, t), t)
<1> DEFINE s == Evaluate(rule, st, obs, t)
<1>1. CASE Fires(rule, st, obs, t)
  <2>1. s = Fire(rule, st, t) /\ st.status # "FIRING"
    BY <1>1 DEF Evaluate, Emits, Fires, Resolves, Escalates, Pends, Clears
  <2>2. /\ s.status = "FIRING" /\ s.firing_since = t /\ s.escalated = FALSE
        /\ s.fire_was_suppressed = InCooldown(rule, st, t)
        /\ s.last_audible_activity = IF InCooldown(rule, st, t)
                                     THEN st.last_audible_activity ELSE t
    BY <2>1 DEF Fire, AlertState
  <2>3. InCooldown(rule, st, t) <=>
          ~ \/ st.last_audible_activity = NULL
            \/ t - st.last_audible_activity >= rule.cooldown_sec
    BY NullIsNoNumber DEF InCooldown, AlertState, NoiseControlsOK
  <2> HIDE DEF s
  <2>9. Moves(rule, st, s, t)
    BY <2>1, <2>2, <2>3 DEF Moves, PhaseIn, SinceIn
  <2> QED BY <2>9 DEF s
<1>2. CASE Resolves(st, obs)
  <2>1. s = Resolve(st, t) /\ st.status = "FIRING"
    BY <1>2 DEF Evaluate, Emits, Fires, Resolves, Escalates, Pends, Clears
  <2>2. /\ s.status = "OK"
        /\ s.last_audible_activity = IF st.fire_was_suppressed
                                     THEN st.last_audible_activity ELSE t
    BY <2>1 DEF Resolve, AlertState
  <2> HIDE DEF s
  <2>9. Moves(rule, st, s, t)
    BY <2>1, <2>2 DEF Moves, PhaseIn, SinceIn
  <2> QED BY <2>9 DEF s
<1>3. CASE Escalates(rule, st, obs, t)
  <2>1. /\ s = [st EXCEPT !.escalated = TRUE] /\ st.status = "FIRING"
        /\ rule.escalate_after_sec # NULL
        /\ ~st.escalated /\ ~st.fire_was_suppressed
        /\ t - st.firing_since >= rule.escalate_after_sec
    BY <1>3 DEF Evaluate, Emits, Fires, Resolves, Escalates, Pends, Clears
  <2>2. /\ s.status = "FIRING" /\ s.escalated = TRUE
        /\ s.firing_since = st.firing_since
        /\ s.last_audible_activity = st.last_audible_activity
    BY <2>1 DEF AlertState
  <2> HIDE DEF s
  <2>9. Moves(rule, st, s, t)
    BY <2>1, <2>2 DEF Moves, PhaseIn, SinceIn
  <2> QED BY <2>9 DEF s
<1>4. CASE Pends(rule, st, obs, t) \/ Clears(st, obs)
  <2>1. /\ st.status # "FIRING" /\ s.status # "FIRING"
        /\ s.last_audible_activity = st.last_audible_activity
    BY <1>4 DEF Evaluate, Emits, Fires, Resolves, Escalates, Pends, Clears,
                Pend, Clear, AlertState
  <2> HIDE DEF s
  <2>9. Moves(rule, st, s, t)
    BY <2>1 DEF Moves, PhaseIn, SinceIn
  <2> QED BY <2>9 DEF s
<1>5. CASE ~ \/ Fires(rule, st, obs, t) \/ Resolves(st, obs)
             \/ Escalates(rule, st, obs, t)
             \/ Pends(rule, st, obs, t) \/ Clears(st, obs)
  BY <1>5 DEF Evaluate, Moves, PhaseIn, SinceIn
<1> QED
  BY <1>1, <1>2, <1>3, <1>4, <1>5

-----------------------------------------------------------------------------
(* All pairs, and the clock. *)

MirrorInv == \A k \in Pairs : Mirrors(alert[k], log[k])

\* A pass of the engine, no earlier than the latest one, is a pass of the
\* contract.
LEMMA SweepPasses ==
  ASSUME IInv, MirrorInv, NEW K, NEW w \in WorldState, NEW t \in Int,
         Sweep(K, w, t), IInv',
         clock # NULL => Now \in Int /\ Now <= t, clock' # NULL, Now' = t
  PROVE  MirrorInv' /\ Promise!Pass
<1> DEFINE obs(k)  == Observe(w, Rules[k[1]], k[2], t)
           kind(k) == Emits(Rules[k[1]], alert[k], obs(k), t)
           s(k)    == Evaluate(Rules[k[1]], alert[k], obs(k), t)
           n(k)    == [kind |-> kind(k), ts |-> t,
                       suppressed |-> Suppressed(Rules[k[1]], alert[k], kind(k), t),
                       to |-> Recipients(w, IF kind(k) = "escalated"
                                            THEN Rules[k[1]].escalate_to
                                            ELSE Rules[k[1]].recipients, k[2])]
<1>1. /\ alert' = [k \in Pairs |-> IF k \in K THEN s(k) ELSE alert[k]]
      /\ log' = [k \in Pairs |-> IF k \in K /\ kind(k) # NULL
                                 THEN Append(log[k], n(k)) ELSE log[k]]
  BY DEF Sweep, Deliver
<1> HIDE DEF obs
<1>2. ASSUME NEW k \in Pairs
      PROVE  /\ alert[k] \in AlertState /\ log[k] \in Seq(Notification)
             /\ alert'[k] \in AlertState /\ log'[k] \in Seq(Notification)
             /\ PairInv(Rules[k[1]], alert[k], log[k])
             /\ PairInv(Rules[k[1]], alert'[k], log'[k])
             /\ Mirrors(alert[k], log[k]) /\ NoiseControlsOK(Rules[k[1]])
  BY RulesAdmitted DEF IInv, TypeOK, StoreInv, MirrorInv, Pairs, ValidRule
<1>3. ASSUME NEW k \in Pairs
      PROVE  Mirrors(alert'[k], log'[k])
  <2>1. CASE k \in K /\ kind(k) # NULL
    <3>1. alert'[k] = s(k) /\ log'[k] = Append(log[k], n(k))
      BY <1>1, <2>1
    <3>2. n(k) \in Notification
      <4>1. kind(k) \in Kinds
        BY <2>1 DEF Emits, Kinds
      <4>2. Suppressed(Rules[k[1]], alert[k], kind(k), t) \in BOOLEAN
        BY <1>2 DEF Suppressed, AlertState
      <4>3. n(k).to \subseteq Addressees
        BY RecipientsKnown
      <4> QED BY <4>1, <4>2, <4>3 DEF Notification
    <3> QED BY <1>2, <2>1, <3>1, <3>2, EvaluateMirrors
  <2>2. CASE k \in K /\ kind(k) = NULL
    BY <1>1, <1>2, <2>2, EvaluateMirrors
  <2>3. CASE k \notin K
    BY <1>1, <1>2, <2>3
  <2> QED BY <2>1, <2>2, <2>3
<1>4. ASSUME NEW k \in Pairs
      PROVE  Moves(Rules[k[1]], alert[k], alert'[k], t)
  <2>1. CASE k \in K
    <3>1. alert'[k] = s(k)
      BY <1>1, <2>1
    <3>2. alert[k].escalated => /\ alert[k].status = "FIRING"
                                /\ ~alert[k].fire_was_suppressed
      BY <1>2, StoreReadsAsState
    <3> QED BY <1>2, <3>1, <3>2, EvaluateMoves
  <2>2. CASE k \notin K
    BY <1>1, <2>2 DEF Moves
  <2> QED BY <2>1, <2>2
<1>5. ASSUME NEW k \in Pairs
      PROVE  /\ PhaseOf(log[k]) = PhaseIn(alert[k])
             /\ SinceOf(log[k]) = SinceIn(alert[k])
             /\ PingOf(log[k]) = alert[k].last_audible_activity
             /\ PhaseOf(log'[k]) = PhaseIn(alert'[k])
             /\ SinceOf(log'[k]) = SinceIn(alert'[k])
             /\ PingOf(log'[k]) = alert'[k].last_audible_activity
  BY <1>2, <1>3, StoreReadsAsState
<1>6. ASSUME NEW k \in Pairs
      PROVE  \/ Promise!Announce(k) \/ Promise!Swallow(k)
             \/ Promise!Escalate(k) \/ Promise!Recover(k)
             \/ Promise!Fade(k) \/ Promise!Rest(k)
  BY <1>4, <1>5
     DEF Moves, Promise!Announce, Promise!Swallow, Promise!Escalate,
         Promise!Recover, Promise!Fade, Promise!Rest, Promise!Becomes,
         Promise!Rested
<1>7. Promise!Pass
  BY <1>6, NullIsNoNumber DEF Promise!Pass
<1> QED
  BY <1>3, <1>7 DEF MirrorInv

CInv == IInv /\ MirrorInv

LEMMA ContractStep ==
  CInv /\ [Next]_vars => MirrorInv' /\ [Promise!Pass]_Promise!contract
<1> SUFFICES ASSUME CInv, [Next]_vars
             PROVE  MirrorInv' /\ [Promise!Pass]_Promise!contract
  OBVIOUS
<1>0. /\ ClockTyped /\ ClockInv /\ TypeOK /\ IInv /\ MirrorInv /\ IInv'
  BY StepInv DEF CInv, IInv, TypeOK, ClockTyped
<1>1. ASSUME clock' = clock, lastTick' = lastTick, alert' = alert, log' = log
      PROVE  MirrorInv' /\ UNCHANGED Promise!contract
  BY <1>0, <1>1 DEF MirrorInv, Promise!contract, Now
<1>2. CASE \E e \in Events : Receive(e)
  BY <1>1, <1>2 DEF Receive
<1>3. CASE Tick
  <2>1. /\ NextTick \in Int /\ Now \in Int /\ Now <= NextTick
        /\ clock' # NULL /\ Now' = NextTick
    BY <1>0, <1>3, TickAdvances
  <2>2. Sweep(TickPairs(world), world, NextTick) /\ world \in WorldState
    BY <1>0, <1>3 DEF Tick, TypeOK
  <2> QED BY <1>0, <2>1, <2>2, SweepPasses
<1>4. CASE Settle
  <2>1. /\ inflight # NULL /\ ~TickDue /\ AdvanceClock(inflight)
        /\ inflight' = NULL
        /\ Sweep(EventPairs(inflight), world', ClockAfter(inflight.ts))
    BY <1>4 DEF Settle
  <2>2. /\ ClockAfter(inflight.ts) \in Int /\ clock' # NULL
        /\ Now' = ClockAfter(inflight.ts)
        /\ clock # NULL => Now \in Int /\ Now <= ClockAfter(inflight.ts)
    BY <1>0, <2>1, CallAdvances
  <2>3. world' \in WorldState
    BY <1>0 DEF IInv, TypeOK
  <2> QED BY <1>0, <2>1, <2>2, <2>3, SweepPasses
<1>5. CASE Raise
  <2>1. /\ inflight # NULL /\ ~TickDue /\ AdvanceClock(inflight)
        /\ inflight' = NULL /\ alert' = alert /\ log' = log
    BY <1>5 DEF Raise
  <2>2. /\ ClockAfter(inflight.ts) \in Int /\ clock' # NULL
        /\ Now' = ClockAfter(inflight.ts)
        /\ clock # NULL => Now \in Int /\ Now <= ClockAfter(inflight.ts)
    BY <1>0, <2>1, CallAdvances
  <2>3. MirrorInv'
    BY <1>0, <2>1 DEF MirrorInv
  <2>4. \A k \in Pairs : Promise!Rest(k)
    BY <2>1 DEF Promise!Rest, Promise!Becomes
  <2>5. Promise!Pass
    BY <2>2, <2>4, NullIsNoNumber DEF Promise!Pass
  <2> QED BY <2>3, <2>5
<1>6. CASE UNCHANGED vars
  BY <1>1, <1>6 DEF vars
<1> QED
  BY <1>2, <1>3, <1>4, <1>5, <1>6 DEF Next

LEMMA ContractInit == Init => MirrorInv /\ Promise!CInit
<1> SUFFICES ASSUME Init PROVE MirrorInv /\ Promise!CInit
  OBVIOUS
<1>1. /\ clock = NULL
      /\ \A k \in Pairs : log[k] = <<>> /\ alert[k] = NewAlertState
  BY DEF Init
<1>2. Pings(<<>>) = {} /\ ~Open(<<>>)
  BY DEF Pings, Open
<1>3. PingOf(<<>>) = NULL /\ SinceOf(<<>>) = NULL /\ PhaseOf(<<>>) = "quiet"
  BY <1>2 DEF PingOf, SinceOf, PhaseOf
<1>4. MirrorInv
  BY <1>1, <1>2, <1>3 DEF MirrorInv, Mirrors, HasLastPing, NewAlertState
<1>5. Promise!CInit
  BY <1>1, <1>3 DEF Promise!CInit
<1> QED
  BY <1>4, <1>5

\* The engine keeps the promise of its noise controls: a subscriber who reads
\* only the store sees fires, escalations and recoveries in the order and with
\* the gaps the rule's cooldown and escalation delay promise.
THEOREM EngineKeepsContract == Spec => KeepsContract
<1>1. Init => CInv /\ Promise!CInit
  BY InitInv, ContractInit DEF CInv
<1>2. CInv /\ [Next]_vars => CInv' /\ [Promise!Pass]_Promise!contract
  BY StepInv, ContractStep DEF CInv
<1> QED
  BY <1>1, <1>2, PTL DEF Spec, KeepsContract, Promise!Contract
=============================================================================
