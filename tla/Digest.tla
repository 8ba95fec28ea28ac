------------------------------- MODULE Digest -------------------------------
(***************************************************************************)
(* app/routing.py, build_digest: what the head of support is told of the   *)
(* notifications between since and until.  Its sections count escalations, *)
(* closed episodes with their durations, and alerts that are still open.   *)
(*                                                                         *)
(* The code folds over the store sorted by ts, with one accumulator entry  *)
(* per (rule, entity); the sort is stable and the log of a pair is in ts   *)
(* order, so the fold is taken pair by pair.  Grouping by rule, truncation *)
(* to three names and the wording are left out.                            *)
(***************************************************************************)
EXTENDS Engine

\* The accumulator for one pair: open_fired[key], and the key's part of
\* escalations and of groups[rule_id]["closed"].
NoDigest == [open |-> NULL, escalations |-> 0, closed |-> <<>>]

\* Mutant: an escalation is filed like a fire.
DigestEntryEscalates(d, n) ==
  CASE n.kind \in {"fired", "escalated"} -> [d EXCEPT !.open = n.ts]
    [] OTHER -> [d EXCEPT !.open = NULL,
                          !.closed = Append(@, IF d.open = NULL THEN 0
                                               ELSE n.ts - d.open)]

DigestEntry(d, n) ==
  CASE n.kind = "escalated" -> [d EXCEPT !.escalations = @ + 1]
    [] n.kind = "fired"     -> [d EXCEPT !.open = n.ts]
    [] n.kind = "resolved"  ->
         [d EXCEPT !.open = NULL,
                   !.closed = Append(@, IF d.open = NULL THEN 0
                                        ELSE n.ts - d.open)]

\* The accumulator after each entry of a store: the loop of build_digest.
Digests(l) ==
  LET d[n \in 0..Len(l)] == IF n = 0 THEN NoDigest
                                      ELSE DigestEntry(d[n - 1], l[n])
  IN  d

DigestOf(l) == Digests(l)[Len(l)]

-----------------------------------------------------------------------------
\* The digest tells the head of support what the engine knows, from the store
\* alone: the alerts that are open and since when, suppressed ones included,
\* an escalation for each open alert that escalated, and no episode that
\* resolved without having fired or before it did.
DigestMatchesEngine ==
  \A k \in Pairs :
    LET d == DigestOf(log[k])
    IN  /\ d.open = alert[k].firing_since
        /\ alert[k].escalated => d.escalations > 0
        /\ \A i \in DOMAIN d.closed : d.closed[i] >= 0
=============================================================================
