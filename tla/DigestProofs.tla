---------------------------- MODULE DigestProofs ----------------------------
(***************************************************************************)
(* The digest tells what the engine knows, for every set of rules, entities*)
(* and events.                                                             *)
(*                                                                         *)
(* The digest folds over a store of any length, so its value is a matter of*)
(* induction.  The argument is by a least counterexample (LeastNumber):    *)
(* first that the recursive function has a value (Computed), then that a   *)
(* longer store has the digests of its beginning (Beginning).  What is left*)
(* is one equation (DigestGrows), and the rest is an invariant of Engine.  *)
(***************************************************************************)
EXTENDS Digest, WorldProofs, WellFoundedInduction

-----------------------------------------------------------------------------
(* The fold. *)

\* A set of natural numbers has a least one.
LEMMA LeastNumber ==
  ASSUME NEW T, T \subseteq Nat, T # {}
  PROVE  \E m \in T : \A k \in T : m <= k
<1>1. PICK R : R = OpToRel(<, Nat)
  OBVIOUS
<1>2. IsWellFoundedOn(R, Nat)
  BY <1>1, NatLessThanWellFounded
<1>3. PICK m \in T : \A y \in T : ~ (<<y, m>> \in R)
  BY <1>2, WFMin
<1>4. \A x, y \in Nat : <<y, x>> \in R <=> y < x
  BY <1>1 DEF OpToRel
<1>5. \A k \in T : k \in Nat /\ m \in Nat /\ ~(k < m)
  BY <1>3, <1>4
<1>6. \A k \in T : m <= k
  BY <1>5
<1> QED
  BY <1>6

\* f holds the accumulator after each of the first m entries of l.
Steps(l, m, f) ==
  f = [n \in 0..m |-> IF n = 0 THEN NoDigest ELSE DigestEntry(f[n - 1], l[n])]

LEMMA StepsExist ==
  ASSUME NEW l, NEW m \in Nat
  PROVE  \E f : Steps(l, m, f)
<1> DEFINE T == {n \in Nat : ~\E f : Steps(l, n, f)}
<1> SUFFICES ASSUME T # {} PROVE FALSE
  OBVIOUS
<1>1. PICK n \in T : \A k \in T : n <= k
  BY LeastNumber
<1>2. CASE n = 0
  <2>1. Steps(l, 0, [k \in 0..0 |-> NoDigest])
    BY DEF Steps
  <2> QED BY <1>1, <1>2, <2>1
<1>3. CASE n # 0
  <2>1. n \in Nat /\ n - 1 \in Nat /\ n - 1 \notin T
    BY <1>1, <1>3
  <2>2. PICK g : Steps(l, n - 1, g)
    BY <2>1
  <2> DEFINE f == [k \in 0..n |-> IF k = n THEN DigestEntry(g[n - 1], l[n])
                                           ELSE g[k]]
  <2>3. \A k \in 0..(n - 1) :
          g[k] = IF k = 0 THEN NoDigest ELSE DigestEntry(g[k - 1], l[k])
    BY <2>2 DEF Steps
  <2>4. \A k \in 0..n :
          f[k] = IF k = 0 THEN NoDigest ELSE DigestEntry(f[k - 1], l[k])
    BY <2>1, <2>3, <1>3
  <2>5. f = [k \in 0..n |-> f[k]]
    OBVIOUS
  <2> HIDE DEF f
  <2>6. Steps(l, n, f)
    BY <2>4, <2>5 DEF Steps
  <2> QED BY <1>1, <2>6
<1> QED
  BY <1>2, <1>3

\* The recursive function is what its definition says.
LEMMA Computed ==
  ASSUME NEW l, Len(l) \in Nat
  PROVE  /\ Digests(l)[0] = NoDigest
         /\ \A n \in 1..Len(l) :
              Digests(l)[n] = DigestEntry(Digests(l)[n - 1], l[n])
<1>1. \E f : Steps(l, Len(l), f)
  BY StepsExist
<1>2. Digests(l) = CHOOSE f : Steps(l, Len(l), f)
  BY DEF Digests, Steps
<1>3. Steps(l, Len(l), Digests(l))
  BY <1>1, <1>2
<1>4. \A n \in 0..Len(l) :
        Digests(l)[n] = IF n = 0 THEN NoDigest
                        ELSE DigestEntry(Digests(l)[n - 1], l[n])
  BY <1>3 DEF Steps
<1> QED
  BY <1>4

\* What is appended to a store changes no digest of its beginning.
LEMMA Beginning ==
  ASSUME NEW S, NEW l \in Seq(S), NEW e \in S, NEW n \in 0..Len(l)
  PROVE  Digests(Append(l, e))[n] = Digests(l)[n]
<1> DEFINE m == Append(l, e)
           T == {k \in 0..Len(l) : Digests(m)[k] # Digests(l)[k]}
<1>1. /\ Len(l) \in Nat /\ Len(m) = Len(l) + 1 /\ Len(m) \in Nat
      /\ \A i \in 1..Len(l) : m[i] = l[i]
  BY Appended
<1> HIDE DEF m
<1> SUFFICES ASSUME T # {} PROVE FALSE
  BY DEF m
<1>2. PICK k \in T : \A j \in T : k <= j
  <2>1. T \subseteq Nat
    BY <1>1
  <2> HIDE DEF T
  <2> QED BY <2>1, LeastNumber
<1>3. k # 0
  <2>1. Digests(m)[0] = NoDigest /\ Digests(l)[0] = NoDigest
    BY <1>1, Computed
  <2> QED BY <2>1
<1>4. k \in 1..Len(l) /\ k \in 1..Len(m) /\ k - 1 \in 0..Len(l)
  BY <1>1, <1>3
<1>5. k - 1 \notin T
  BY <1>2, <1>4
<1>6. Digests(m)[k - 1] = Digests(l)[k - 1]
  BY <1>4, <1>5
<1>7. /\ Digests(m)[k] = DigestEntry(Digests(m)[k - 1], m[k])
      /\ Digests(l)[k] = DigestEntry(Digests(l)[k - 1], l[k])
  BY <1>1, <1>4, Computed
<1> QED
  BY <1>1, <1>4, <1>6, <1>7

\* The digest of a longer store follows from the digest of the shorter one.
LEMMA DigestGrows ==
  ASSUME NEW S, NEW l \in Seq(S), NEW e \in S
  PROVE  DigestOf(Append(l, e)) = DigestEntry(DigestOf(l), e)
<1> DEFINE m == Append(l, e)
<1>1. /\ Len(l) \in Nat /\ Len(m) = Len(l) + 1 /\ Len(m) \in Nat
      /\ m[Len(l) + 1] = e
  BY Appended
<1>2. Digests(m)[Len(l)] = Digests(l)[Len(l)]
  BY <1>1, Beginning
<1> HIDE DEF m
<1>3. Digests(m)[Len(m)] = DigestEntry(Digests(m)[Len(m) - 1], m[Len(m)])
  BY <1>1, Computed
<1>4. Digests(m)[Len(m)] = DigestEntry(Digests(l)[Len(l)], e)
  BY <1>1, <1>2, <1>3
<1> QED
  BY <1>4 DEF DigestOf, m

LEMMA DigestOfNothing == DigestOf(<<>>) = NoDigest
  BY Computed DEF DigestOf

-----------------------------------------------------------------------------
(* One pair: DigestMatchesEngine, with the shape of the accumulator. *)

Tells(d, st) ==
  /\ d \in [open : Int \cup {NULL}, escalations : Nat, closed : Seq(Int)]
  /\ d.open = st.firing_since
  /\ st.escalated => d.escalations > 0
  /\ \A i \in DOMAIN d.closed : d.closed[i] >= 0

LEMMA EvaluateTells ==
  ASSUME NEW rule, NEW st \in AlertState, NEW obs, NEW t \in Int,
         st.status = "FIRING" => st.firing_since \in Int /\ st.firing_since <= t,
         NEW d, Tells(d, st)
  PROVE  /\ Emits(rule, st, obs, t) = NULL
              => Tells(d, Evaluate(rule, st, obs, t))
         /\ \A n \in Notification :
              /\ Emits(rule, st, obs, t) # NULL
              /\ n.kind = Emits(rule, st, obs, t) /\ n.ts = t
              => Tells(DigestEntry(d, n), Evaluate(rule, st, obs, t))
<1> DEFINE s == Evaluate(rule, st, obs, t)
           kind == Emits(rule, st, obs, t)
<1>0. /\ NULL \notin Kinds
      /\ d \in [open : Int \cup {NULL}, escalations : Nat, closed : Seq(Int)]
      /\ d.open = st.firing_since
      /\ st.escalated => d.escalations > 0
      /\ \A i \in DOMAIN d.closed : d.closed[i] >= 0
  BY NullIsNoKind DEF Tells
<1>1. CASE Fires(rule, st, obs, t)
  <2>1. s = Fire(rule, st, t) /\ kind = "fired"
    BY <1>1 DEF Evaluate, Emits, Fires, Resolves, Escalates, Pends, Clears
  <2>2. s.firing_since = t /\ s.escalated = FALSE
    BY <2>1 DEF Fire, AlertState
  <2>3. ASSUME NEW n \in Notification, n.kind = "fired", n.ts = t
        PROVE  DigestEntry(d, n) = [d EXCEPT !.open = t]
    BY <2>3 DEF DigestEntry
  <2> HIDE DEF s
  <2>4. Tells([d EXCEPT !.open = t], s)
    BY <1>0, <2>2 DEF Tells
  <2> QED BY <1>0, <2>1, <2>3, <2>4 DEF Kinds, s
<1>2. CASE Resolves(st, obs)
  <2>1. s = Resolve(st, t) /\ kind = "resolved" /\ st.status = "FIRING"
    BY <1>2 DEF Evaluate, Emits, Fires, Resolves, Escalates, Pends, Clears
  <2>2. s.firing_since = NULL /\ s.escalated = FALSE
    BY <2>1 DEF Resolve, AlertState
  <2> DEFINE took == t - d.open
             closed == Append(d.closed, took)
             after == [d EXCEPT !.open = NULL, !.closed = closed]
  <2>3. d.open \in Int /\ took \in Int /\ took >= 0
    BY <1>0, <2>1
  <2>4. d.open # NULL
    BY <2>3, NullIsNoNumber
  <2>5. ASSUME NEW n \in Notification, n.kind = "resolved", n.ts = t
        PROVE  DigestEntry(d, n) = after
    BY <1>0, <2>4, <2>5 DEF DigestEntry
  <2>6. /\ closed \in Seq(Int)
        /\ \A i \in DOMAIN closed : closed[i] >= 0
    <3>1. d.closed \in Seq(Int)
      BY <1>0
    <3> HIDE DEF took
    <3>2. /\ closed \in Seq(Int) /\ DOMAIN closed = 1..(Len(d.closed) + 1)
          /\ DOMAIN d.closed = 1..Len(d.closed) /\ Len(d.closed) \in Nat
          /\ \A i \in 1..Len(d.closed) : closed[i] = d.closed[i]
          /\ closed[Len(d.closed) + 1] = took
      BY <2>3, <3>1, Appended
    <3> HIDE DEF closed
    <3>3. \A i \in 1..Len(d.closed) : closed[i] >= 0
      BY <1>0, <3>2
    <3>4. \A i \in DOMAIN closed : i \in 1..Len(d.closed) \/ i = Len(d.closed) + 1
      BY <3>2
    <3> QED BY <2>3, <3>2, <3>3, <3>4
  <2> HIDE DEF closed, s
  <2>7. /\ after \in [open : Int \cup {NULL}, escalations : Nat, closed : Seq(Int)]
        /\ after.open = NULL /\ after.closed = closed
    BY <1>0, <2>6
  <2> HIDE DEF after
  <2>8. Tells(after, s)
    BY <2>2, <2>6, <2>7 DEF Tells
  <2> QED BY <1>0, <2>1, <2>5, <2>8 DEF Kinds, s
<1>3. CASE Escalates(rule, st, obs, t)
  <2>1. /\ s = [st EXCEPT !.escalated = TRUE] /\ kind = "escalated"
    BY <1>3 DEF Evaluate, Emits, Fires, Resolves, Escalates, Pends, Clears
  <2>2. s.firing_since = st.firing_since
    BY <2>1 DEF AlertState
  <2>3. ASSUME NEW n \in Notification, n.kind = "escalated"
        PROVE  DigestEntry(d, n) = [d EXCEPT !.escalations = @ + 1]
    BY <2>3 DEF DigestEntry
  <2> HIDE DEF s
  <2>4. Tells([d EXCEPT !.escalations = @ + 1], s)
    BY <1>0, <2>2 DEF Tells
  <2> QED BY <1>0, <2>1, <2>3, <2>4 DEF Kinds, s
<1>4. CASE Pends(rule, st, obs, t) \/ Clears(st, obs)
  <2>1. /\ s = Pend(st, t) \/ s = Clear(st)
        /\ kind = NULL
    BY <1>4 DEF Evaluate, Emits, Fires, Resolves, Escalates, Pends, Clears
  <2>2. s.firing_since = st.firing_since /\ s.escalated = st.escalated
    BY <2>1 DEF Pend, Clear, AlertState
  <2> HIDE DEF s
  <2>3. Tells(d, s)
    BY <1>0, <2>2 DEF Tells
  <2> QED BY <2>1, <2>3 DEF s
<1>5. CASE ~ \/ Fires(rule, st, obs, t) \/ Resolves(st, obs)
             \/ Escalates(rule, st, obs, t)
             \/ Pends(rule, st, obs, t) \/ Clears(st, obs)
  BY <1>5 DEF Evaluate, Emits
<1> QED
  BY <1>1, <1>2, <1>3, <1>4, <1>5

-----------------------------------------------------------------------------
(* All pairs. *)

TellsInv == \A k \in Pairs : Tells(DigestOf(log[k]), alert[k])

LEMMA SweepTells ==
  ASSUME EvalInv, TellsInv, NEW K, NEW w \in WorldState, NEW t \in Int,
         Sweep(K, w, t), clock # NULL => Now \in Int /\ Now <= t
  PROVE  TellsInv'
<1> SUFFICES ASSUME NEW k \in Pairs
             PROVE  Tells(DigestOf(log'[k]), alert'[k])
  BY DEF TellsInv
<1> DEFINE obs  == Observe(w, Rules[k[1]], k[2], t)
           kind == Emits(Rules[k[1]], alert[k], obs, t)
           s    == Evaluate(Rules[k[1]], alert[k], obs, t)
           n    == [kind |-> kind, ts |-> t,
                    suppressed |-> Suppressed(Rules[k[1]], alert[k], kind, t),
                    to |-> Recipients(w, IF kind = "escalated"
                                         THEN Rules[k[1]].escalate_to
                                         ELSE Rules[k[1]].recipients, k[2])]
<1>1. /\ alert'[k] = IF k \in K THEN s ELSE alert[k]
      /\ log'[k] = IF k \in K /\ kind # NULL THEN Append(log[k], n) ELSE log[k]
  BY DEF Sweep, Deliver
<1> HIDE DEF obs
<1>2. /\ alert[k] \in AlertState /\ log[k] \in Seq(Notification)
      /\ Tells(DigestOf(log[k]), alert[k])
  BY DEF EvalInv, IInv, TypeOK, TellsInv
<1>3. alert[k].status = "FIRING" => /\ alert[k].firing_since \in Int
                                    /\ alert[k].firing_since <= t
  BY DEF EvalInv, TimedInv, Timed
<1>4. /\ kind = NULL => Tells(DigestOf(log[k]), s)
      /\ \A m \in Notification : kind # NULL /\ m.kind = kind /\ m.ts = t
           => Tells(DigestEntry(DigestOf(log[k]), m), s)
  BY <1>2, <1>3, EvaluateTells
<1>5. CASE k \in K /\ kind # NULL
  <2>1. n \in Notification
    <3>1. kind \in Kinds
      BY <1>5 DEF Emits, Kinds
    <3>2. Suppressed(Rules[k[1]], alert[k], kind, t) \in BOOLEAN
      BY <1>2 DEF Suppressed, AlertState
    <3>3. n.to \subseteq Addressees
      BY RecipientsKnown
    <3> QED BY <3>1, <3>2, <3>3 DEF Notification
  <2>2. n.kind = kind /\ n.ts = t
    OBVIOUS
  <2> HIDE DEF n
  <2>3. DigestOf(log'[k]) = DigestEntry(DigestOf(log[k]), n)
    BY <1>1, <1>2, <1>5, <2>1, DigestGrows
  <2> QED BY <1>1, <1>4, <1>5, <2>1, <2>2, <2>3
<1>6. CASE k \in K /\ kind = NULL
  BY <1>1, <1>4, <1>6
<1>7. CASE k \notin K
  BY <1>1, <1>2, <1>7
<1> QED
  BY <1>5, <1>6, <1>7

LEMMA TellsStep == EvalInv /\ TellsInv /\ [Next]_vars => TellsInv'
<1> SUFFICES ASSUME EvalInv, TellsInv, [Next]_vars PROVE TellsInv'
  OBVIOUS
<1>1. CASE \E e \in Events : Receive(e)
  BY <1>1 DEF Receive, TellsInv
<1>2. CASE Tick
  BY <1>2, TickIs, SweepTells
<1>3. CASE Settle
  BY <1>3, SettleIs, SweepTells
<1>4. CASE Raise
  BY <1>4 DEF Raise, TellsInv
<1>5. CASE UNCHANGED vars
  BY <1>5 DEF vars, TellsInv
<1> QED
  BY <1>1, <1>2, <1>3, <1>4, <1>5 DEF Next

\* build_digest, from the store alone: which alerts are open and since when,
\* an escalation for each open alert that escalated, and no episode that ended
\* before it began, for a store of any length.
THEOREM DigestTellsTheEngine == Spec => []DigestMatchesEngine
<1>1. Init => TellsInv
  <2> SUFFICES ASSUME Init, NEW k \in Pairs
               PROVE  Tells(DigestOf(log[k]), alert[k])
    BY DEF TellsInv
  <2>1. log[k] = <<>> /\ alert[k] = NewAlertState
    BY DEF Init
  <2>2. Tells(NoDigest, NewAlertState)
    <3>1. <<>> \in Seq(Int) /\ DOMAIN <<>> = {}
      OBVIOUS
    <3> QED BY <3>1 DEF Tells, NoDigest, NewAlertState
  <2> QED BY <2>1, <2>2, DigestOfNothing
<1>2. EvalInv /\ TellsInv /\ [Next]_vars => TellsInv'
  BY TellsStep
<1>3. TellsInv => DigestMatchesEngine
  BY DEF TellsInv, Tells, DigestMatchesEngine
<1> QED
  BY <1>1, <1>2, <1>3, EveryPairIsEvaluated, PTL DEF Spec
=============================================================================
