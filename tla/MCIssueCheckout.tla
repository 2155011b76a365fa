--------------------------- MODULE MCIssueCheckout --------------------------
(* Instances of IssueCheckout for TLC.                                      *)
EXTENDS IssueCheckout, TLC

Patch(s, a, u) == [status |-> s, agent |-> a, user |-> u]

\* A new status, or a new assignee named by both columns as the UI does.
StatusOrAssignee ==
  {Patch(s, Keep, Keep) : s \in {"in_progress", "done"}}
    \cup {Patch(Keep, a, None) : a \in Agents}
    \cup {Patch(Keep, None, u) : u \in Users}

\* Two runs of one agent; one run of every other agent.
CONSTANT First
SomeRuns == {<<a, k>> \in Agents \X {1, 2} : k = 2 => a = First}

Symmetry == Permutations(Agents) \cup Permutations(Board)

=============================================================================
