----------------------------- MODULE EngineAudit -----------------------------
(***************************************************************************)
(* The engine observed from outside.  Two history variables record, for    *)
(* each pair, since when the evaluations made of it found its condition    *)
(* true: trueSince starts over when one finds it false, steadySince also   *)
(* when one finds it unknown.  They do not look at the AlertState, so what *)
(* the engine's own timers conclude can be judged against them.            *)
(***************************************************************************)
EXTENDS Engine

VARIABLES trueSince, steadySince

auditVars == <<vars, trueSince, steadySince>>

Since(past, obs, reset, now) ==
  CASE obs.active /\ past = NULL -> now
    [] reset                     -> NULL
    [] OTHER                     -> past

\* What an evaluation of the pairs K against w at now lets one see.
Watch(K, w, now) ==
  LET obs(k) == Observe(w, Rules[k[1]], k[2], now)
  IN  /\ trueSince' = [k \in Pairs |->
            IF k \in K
            THEN Since(trueSince[k], obs(k), obs(k).known /\ ~obs(k).active, now)
            ELSE trueSince[k]]
      /\ steadySince' = [k \in Pairs |->
            IF k \in K
            THEN Since(steadySince[k], obs(k), ~obs(k).active, now)
            ELSE steadySince[k]]

Unwatched == UNCHANGED <<trueSince, steadySince>>

AuditInit == /\ Init
             /\ trueSince = [k \in Pairs |-> NULL]
             /\ steadySince = [k \in Pairs |-> NULL]

WatchedTick   == Tick /\ Watch(TickPairs(world), world, NextTick)
WatchedSettle == /\ Settle
                 /\ Watch(EventPairs(inflight), world', ClockAfter(inflight.ts))

AuditNext == \/ \E e \in Events : Receive(e) /\ Unwatched
             \/ WatchedTick
             \/ WatchedSettle
             \/ Raise /\ Unwatched

AuditSpec == AuditInit /\ [][AuditNext]_auditVars

-----------------------------------------------------------------------------
FiresNow(k) == alert[k].status # "FIRING" /\ alert'[k].status = "FIRING"

\* "sustained_for kills one-sample blips": when an alert fires, no evaluation
\* in the sustained_for seconds before it found the condition false, and the
\* first that found it true is that old.
SustainedBeforeFire ==
  [][\A k \in Pairs : FiresNow(k) =>
       /\ trueSince'[k] # NULL
       /\ Now' - trueSince'[k] >= Rules[k[1]].sustained_for_sec]_auditVars

\* The other direction: between two calls, a condition that every evaluation
\* found true for sustained_for and one tick interval has fired.
FiresOnceSustained ==
  inflight = NULL /\ clock # NULL => \A k \in Pairs :
    /\ Forgiving(Rules[k[1]]) /\ steadySince[k] # NULL
    /\ clock - steadySince[k] >= Rules[k[1]].sustained_for_sec + TickInterval
    => alert[k].status = "FIRING"
=============================================================================
