------------------------- MODULE MCBudgetEnforcement -------------------------
(* Instances of BudgetEnforcement for TLC.                                  *)
EXTENDS BudgetEnforcement, TLC

OneAgentsRuns == [r \in Runs |-> CHOOSE a \in Agents : TRUE]

\* Requests are interchangeable, and so are the runs of one agent.
Symmetry == Permutations(Calls) \cup Permutations(Runs)

=============================================================================
