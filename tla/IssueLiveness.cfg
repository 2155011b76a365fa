\* What the scheduling owes: cancellations and comments, three runs.
SPECIFICATION FairSpec
CONSTANTS
  a1 = a1
  a2 = a2
  i1 = i1
  c1 = c1
  p1 = p1
  None = None
  Agents = {a1, a2}
  Issues = {i1}
  Callers = {c1}
  Reapers = {p1}
  MaxRuns = 3
  MaxSlots = 1
  MaxCrashes = 0
  Outcomes = {"succeeded"}
  Features = {"comment", "cancel"}
CHECK_DEADLOCK FALSE
PROPERTIES
  DeferredIsServed
  QueuedRunMoves
