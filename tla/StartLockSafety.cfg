\* Cancellations, pauses and budget stops on one agent with one slot, two requests
\* at a time, and promotions, which here queue a run of the same agent.  The calls
\* end and the runs are used up, or the calls wait for each other: stopping is no
\* deadlock.
SPECIFICATION LockSpec
CONSTANTS
  a1 = a1
  c1 = c1
  c2 = c2
  Driver = Driver
  None = None
  Agents = {a1}
  Callers = {c1, c2}
  MaxRuns = 2
  MaxSlots = 1
  Features = {"cancel", "pause", "budget", "promote"}
CHECK_DEADLOCK FALSE
SYMMETRY Symmetry
INVARIANTS
  SlotLimit
  
PROPERTIES
  NeverRevived
  
