--------------------------- MODULE MCAgentPresence --------------------------
(* A small instance of AgentPresence. *)
EXTENDS AgentPresence, TLC

CONSTANTS n1, n2, p1, p2
MCNetworks == {n1, n2}
MCProcs == {p1, p2}
MCSymmetry == Permutations(MCNetworks) \cup Permutations(MCProcs)
=============================================================================
