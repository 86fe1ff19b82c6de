-------------------------- MODULE MCAgentApproval --------------------------
(* Small instances of AgentApproval for TLC. *)
EXTENDS AgentApproval, TLC

Symmetric == Permutations(Calls) \cup Permutations(Lineages) \cup Permutations(Inputs)
             \cup Permutations(Workers) \cup Permutations(Scanners)
=============================================================================
