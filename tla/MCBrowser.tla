----------------------------- MODULE MCBrowser -----------------------------
(***************************************************************************)
(* A team lead and an agent and two handlers in progress at once, which is *)
(* enough for any handler to overlap any other; and the head of support in *)
(* place of the lead, for the digest card.                                 *)
(***************************************************************************)
EXTENDS Browser

MCPersonas == {"lead_priya", "a_07"}
MCDigestPersonas == {"hos_dana", "a_07"}
MCRoleOf == [lead_priya |-> "lead", hos_dana |-> "hos", a_07 |-> "agent"]
MCTasks == {1, 2}
=============================================================================
