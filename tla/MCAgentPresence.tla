-------------------------- MODULE MCAgentPresence --------------------------
(* Two agents of one session; agents are interchangeable. *)
EXTENDS AgentPresence, TLC

AgentSymmetry == Permutations(Agents)
=============================================================================
