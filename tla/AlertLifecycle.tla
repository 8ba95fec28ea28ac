--------------------------- MODULE AlertLifecycle ---------------------------
(***************************************************************************)
(* The state machine of one (rule, entity) pair in app/engine.py:          *)
(*                                                                         *)
(*   OK --condition true--> PENDING --held sustained_for--> FIRING         *)
(*   FIRING --false against the clear thresholds--> OK                     *)
(*                                                                         *)
(* with cooldown, escalation and resolution notices.  Each branch of       *)
(* Engine._evaluate is a guard and an effect on an AlertState record; obs  *)
(* is World's Observe of the pair at the evaluation time now.              *)
(***************************************************************************)
EXTENDS Models

Statuses == {"OK", "PENDING", "FIRING"}
Kinds    == {"fired", "resolved", "escalated"}

ASSUME NullIsNoKind == NULL \notin Kinds

AlertState == [status                : Statuses,
               pending_since         : Int \cup {NULL},
               firing_since          : Int \cup {NULL},
               last_audible_activity : Int \cup {NULL},
               fire_was_suppressed   : BOOLEAN,
               escalated             : BOOLEAN]

NewAlertState == [status |-> "OK", pending_since |-> NULL,
                  firing_since |-> NULL, last_audible_activity |-> NULL,
                  fire_was_suppressed |-> FALSE, escalated |-> FALSE]

-----------------------------------------------------------------------------
(* The guards: which branch of _evaluate is taken.  Unknown data takes none.*)

\* Mutant: the pending timer restarts with every evaluation.
PendingSinceRestarting(st, now) == now

PendingSince(st, now) == IF st.status = "OK" THEN now ELSE st.pending_since

HeldLongEnough(rule, st, now) ==
  now - PendingSince(st, now) >= rule.sustained_for_sec

Resolves(st, obs) == obs.known /\ st.status = "FIRING" /\ ~obs.still

Escalates(rule, st, obs, now) ==
  /\ obs.known /\ st.status = "FIRING" /\ obs.still
  /\ rule.escalate_after_sec # NULL
  /\ ~st.escalated /\ ~st.fire_was_suppressed
  /\ now - st.firing_since >= rule.escalate_after_sec

Clears(st, obs) == obs.known /\ st.status # "FIRING" /\ ~obs.active

Fires(rule, st, obs, now) ==
  /\ obs.known /\ st.status # "FIRING" /\ obs.active
  /\ HeldLongEnough(rule, st, now)

Pends(rule, st, obs, now) ==
  /\ obs.known /\ st.status # "FIRING" /\ obs.active
  /\ ~HeldLongEnough(rule, st, now)

-----------------------------------------------------------------------------
(* The effects. *)

\* Mutant: a fire exactly cooldown_sec after the anchor is still suppressed.
InCooldownInclusive(rule, st, now) ==
  /\ st.last_audible_activity # NULL
  /\ now - st.last_audible_activity <= rule.cooldown_sec

\* The anchor is the last audible fire or resolve, whichever is later.
InCooldown(rule, st, now) ==
  /\ st.last_audible_activity # NULL
  /\ now - st.last_audible_activity < rule.cooldown_sec

Fire(rule, st, now) ==
  LET quiet == InCooldown(rule, st, now)
  IN  [st EXCEPT !.status = "FIRING", !.firing_since = now,
                 !.pending_since = NULL, !.escalated = FALSE,
                 !.fire_was_suppressed = quiet,
                 !.last_audible_activity = IF quiet THEN @ ELSE now]

\* Mutant: the alert is not taken out of FIRING.
ResolveStillFiring(st, now) == [st EXCEPT !.last_audible_activity = now]

\* Mutant: the escalation flag survives the episode.
ResolveKeepsEscalated(st, now) ==
  [st EXCEPT !.status = "OK", !.firing_since = NULL,
             !.last_audible_activity =
                 IF st.fire_was_suppressed THEN @ ELSE now]

\* Mutant: a recovery does not count as activity, only a fire does.
ResolveNoAnchor(st, now) ==
  [st EXCEPT !.status = "OK", !.firing_since = NULL, !.escalated = FALSE]

Resolve(st, now) ==
  [st EXCEPT !.status = "OK", !.firing_since = NULL, !.escalated = FALSE,
             !.last_audible_activity =
                 IF st.fire_was_suppressed THEN @ ELSE now]

Pend(st, now) ==
  [st EXCEPT !.status = "PENDING", !.pending_since = PendingSince(st, now)]

\* Mutant: a false sample leaves a pending alert pending.
ClearNothing(st) == st

Clear(st) == [st EXCEPT !.status = "OK", !.pending_since = NULL]

\* Engine._evaluate: the AlertState after one evaluation ...
Evaluate(rule, st, obs, now) ==
  CASE Fires(rule, st, obs, now)     -> Fire(rule, st, now)
    [] Resolves(st, obs)             -> Resolve(st, now)
    [] Escalates(rule, st, obs, now) -> [st EXCEPT !.escalated = TRUE]
    [] Pends(rule, st, obs, now)     -> Pend(st, now)
    [] Clears(st, obs)               -> Clear(st)
    [] OTHER                         -> st

\* ... the kind of notification it hands to the sink, NULL for none ...
Emits(rule, st, obs, now) ==
  CASE Fires(rule, st, obs, now)     -> "fired"
    [] Resolves(st, obs)             -> "resolved"
    [] Escalates(rule, st, obs, now) -> "escalated"
    [] OTHER                         -> NULL

\* Mutant: every resolve is announced.
SuppressedFiresOnly(rule, st, kind, now) ==
  kind = "fired" /\ InCooldown(rule, st, now)

\* ... and whether that notification is recorded as suppressed: a fire in
\* its cooldown, and the resolve of a fire that was.
Suppressed(rule, st, kind, now) ==
  \/ kind = "fired" /\ InCooldown(rule, st, now)
  \/ kind = "resolved" /\ st.fire_was_suppressed
=============================================================================
