\* Four processes: a worker crashes twice in a row, is given up, restarted by an
\* operator and crashes again.  Two calls.  No symmetry: liveness is checked.
\* Deadlock: at the bounds nothing may be left to do.
SPECIFICATION FairSpec
CONSTANTS
  c1 = c1
  c2 = c2
  Calls = {c1, c2}
  MaxConsecutiveCrashes = 1
  MaxProcs = 4
CHECK_DEADLOCK FALSE
INVARIANTS
  OneWorker
PROPERTIES
  ChannelSpec
  OperationEnds
