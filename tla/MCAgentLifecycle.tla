-------------------------- MODULE MCAgentLifecycle --------------------------
(* Instances of AgentLifecycle for TLC.                                     *)
EXTENDS AgentLifecycle, TLC

\* Handlers are interchangeable, and so are runs.
Symmetry == Permutations(Users) \cup Permutations(Runs)

=============================================================================
