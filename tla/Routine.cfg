\* Two handlers, two cron instants, two routine runs, one key and one crash.  The
\* pool has a connection more than there are handlers.
\* Deadlock: at the bounds nothing may be left to do.
SPECIFICATION Spec
CONSTANTS
  p1 = p1
  p2 = p2
  k1 = k1
  None = None
  Procs = {p1, p2}
  Keys = {k1}
  Policy = "coalesce_if_active"
  CatchUp = "enqueue_missed_with_cap"
  Cap = 2
  Fires = {1, 2}
  Connections = 3
  MaxTime = 2
  MaxRuns = 2
  MaxCrashes = 1
SYMMETRY Symmetry
CHECK_DEADLOCK FALSE
INVARIANTS
  OneLiveExecution
  OneRunPerKey
  

  
