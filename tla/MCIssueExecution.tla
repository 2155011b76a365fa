-------------------------- MODULE MCIssueExecution --------------------------
(* Instances of IssueExecution for TLC: agents and issues are model values, *)
(* each configuration names the features it turns on.                       *)
EXTENDS IssueExecution, TLC

Symmetry == Permutations(Agents) \cup Permutations(Callers)
=============================================================================
