\* One restart, process-loss retries, detached children, mentions, timer runs that
\* check the issue out, adoption of stale checkouts.  Runs and calls end: stopping
\* is no deadlock.
SPECIFICATION Spec
CONSTANTS
  a1 = a1
  a2 = a2
  i1 = i1
  c1 = c1
  p1 = p1
  None = None
  Agents = {a1, a2}
  Issues = {i1}
  Callers = {c1}
  Reapers = {p1}
  MaxRuns = 3
  MaxSlots = 1
  MaxCrashes = 1
  Outcomes = {"succeeded"}
  Features = {"mention", "timer", "reap", "retry", "detach", "checkout", "adopt"}
CHECK_DEADLOCK FALSE
SYMMETRY Symmetry
INVARIANTS
  RetriedOnce
  
  DeferredBehindLock
