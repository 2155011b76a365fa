\* Three handlers, two runs, a decision overwritten once, and a crash.
\* Deadlock: at the bounds nothing may be left to do.
SPECIFICATION Spec
CONSTANTS
  u1 = u1
  u2 = u2
  u3 = u3
  r1 = r1
  r2 = r2
  Users = {u1, u2, u3}
  Runs = {r1, r2}
  MaxReopen = 1
  MaxCrashes = 1
SYMMETRY Symmetry
CHECK_DEADLOCK FALSE
INVARIANTS
  DecidedOnce
  
PROPERTIES
  OnlyLateWritesRevive
