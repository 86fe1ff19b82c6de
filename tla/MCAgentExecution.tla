-------------------------- MODULE MCAgentExecution --------------------------
(* Small instances of AgentExecution for TLC. *)
EXTENDS AgentExecution, TLC

Symmetric == Permutations(Workers) \cup Permutations(Requests)
=============================================================================
