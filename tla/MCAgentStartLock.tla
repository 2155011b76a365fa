-------------------------- MODULE MCAgentStartLock --------------------------
(* Instances of AgentStartLock for TLC.                                     *)
EXTENDS AgentStartLock, TLC

\* Agents and requests are interchangeable.
Symmetry == Permutations(Agents) \cup Permutations(Callers)

=============================================================================
