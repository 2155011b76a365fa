\* A company with one agent and one run of it, two requests at a time, two cost
\* events: both policies can be exceeded by either.  Calls stop at the bounds.
SPECIFICATION Spec
CONSTANTS
  a1 = a1
  r1 = r1
  c1 = c1
  c2 = c2
  Company = Company
  Agents = {a1}
  Runs = {r1}
  AgentOf <- OneAgentsRuns
  Calls = {c1, c2}
  Amounts = {0, 2}
  WarnPercent = 50
  MaxSpent = 2
  MaxMonth = 1
  MaxIncidents = 2
CHECK_DEADLOCK FALSE
SYMMETRY Symmetry
INVARIANTS
  TypeOK
  OneLiveIncident
  
  StopIsAnnounced

  
