\* A budget stop while an agent's next run is being started.
SPECIFICATION LockFairSpec
CONSTANTS
  a1 = a1
  c1 = c1
  c2 = c2
  Driver = Driver
  None = None
  Agents = {a1}
  Callers = {c1, c2}
  MaxRuns = 2
  MaxSlots = 1
  Features = {"budget"}
CHECK_DEADLOCK FALSE
PROPERTIES
  QueuedRunMoves
