\* Two wakeup calls at a time, pauses and late failures on one issue.  The bounds
\* let every call and run end: stopping is no deadlock.
SPECIFICATION Spec
CONSTANTS
  a1 = a1
  a2 = a2
  i1 = i1
  c1 = c1
  c2 = c2
  p1 = p1
  None = None
  Agents = {a1, a2}
  Issues = {i1}
  Callers = {c1, c2}
  Reapers = {p1}
  MaxRuns = 3
  MaxSlots = 1
  MaxCrashes = 0
  Outcomes = {"succeeded"}
  Features = {"pause", "lateThrow"}
CHECK_DEADLOCK FALSE
SYMMETRY Symmetry
INVARIANTS
  TypeOK
  OneActiveRunPerIssue
  NoStrandedRequest
  CoalescedIntoOwnRun
PROPERTIES
  FinishedStaysFinished
