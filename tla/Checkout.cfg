\* Two runs of one agent, one of another and a board user, two calls at a time.  The
\* runs are used up and the calls end: stopping is no deadlock.
SPECIFICATION Spec
CONSTANTS
  a1 = a1
  a2 = a2
  First = a1
  u1 = u1
  b1 = b1
  None = None
  Keep = Keep
  Agents = {a1, a2}
  Users = {u1}
  Board = {b1}
  Runs <- SomeRuns
  MaxCalls = 2
  Expected = {{"todo", "in_progress"}}
  Patches <- StatusOrAssignee
CHECK_DEADLOCK FALSE
INVARIANTS
  TypeOK
  HolderHasLock
PROPERTIES
  LeaseSpec
