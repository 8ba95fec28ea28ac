---------------------------- MODULE AlertContract ----------------------------
(***************************************************************************)
(* What the noise controls of models.py promise a subscriber of each       *)
(* (rule, entity) pair, whatever the data does: how alerts may follow one  *)
(* another, and the least time between them.                               *)
(*                                                                         *)
(* A pair is quiet, or in an episode that was announced (audible, or       *)
(* escalated since) or swallowed (muted).  ping is when the subscriber was *)
(* last told of a fire or a recovery, and since when the episode began.    *)
(***************************************************************************)
EXTENDS Integers

CONSTANTS Subscriptions,      \* the (rule, entity) pairs
          Cooldown,           \* pair -> least gap before an audible fire
          EscalateAfter,      \* pair -> least age of an escalated episode
          Never               \* "not yet"; as EscalateAfter[k], no escalation

VARIABLES now, phase, since, ping

contract == <<now, phase, since, ping>>

CInit == /\ now = Never
         /\ phase = [k \in Subscriptions |-> "quiet"]
         /\ since = [k \in Subscriptions |-> Never]
         /\ ping = [k \in Subscriptions |-> Never]

Rested(k, t) == ping[k] = Never \/ t - ping[k] >= Cooldown[k]

Becomes(k, p, s, g) == phase'[k] = p /\ since'[k] = s /\ ping'[k] = g

Announce(k) == /\ phase[k] = "quiet" /\ Rested(k, now')
               /\ Becomes(k, "audible", now', now')

Swallow(k) == /\ phase[k] = "quiet" /\ ~Rested(k, now')
              /\ Becomes(k, "muted", now', ping[k])

Escalate(k) == /\ phase[k] = "audible" /\ EscalateAfter[k] # Never
               /\ now' - since[k] >= EscalateAfter[k]
               /\ Becomes(k, "escalated", since[k], ping[k])

Recover(k) == /\ phase[k] \in {"audible", "escalated"}
              /\ Becomes(k, "quiet", Never, now')

Fade(k) == phase[k] = "muted" /\ Becomes(k, "quiet", Never, ping[k])

Rest(k) == Becomes(k, phase[k], since[k], ping[k])

\* One evaluation pass: time does not go back, and each pair makes at most
\* one step.
Pass == /\ now' # Never
        /\ now = Never \/ now <= now'
        /\ \A k \in Subscriptions :
             \/ Announce(k)
             \/ Swallow(k)
             \/ Escalate(k)
             \/ Recover(k)
             \/ Fade(k)
             \/ Rest(k)

Contract == CInit /\ [][Pass]_contract
=============================================================================
