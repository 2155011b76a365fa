\* Two runs share a service with an idle timer and one that ends with its last run, and
\* take them in opposite orders; one has an ephemeral service too.  One process dies or
\* one write fails.  Runs end: stopping is no deadlock.
SPECIFICATION FairSpec
CONSTANTS
  r1 = r1
  r2 = r2
  web = web
  preview = preview
  tool = tool
  w1 = w1
  None = None
  Runs = {r1, r2}
  Specs = {web, preview, tool}
  Ephemeral = {tool}
  Policy <- SomePolicy
  Wants <- SomeWants
  Stoppers = {w1}
  Inside = {r1}
  MaxFaults = 1
CHECK_DEADLOCK FALSE
INVARIANTS
  LeasesAgree
  SharedIsFound
  ProcessesAreHeld
PROPERTIES
  LeasedIsNotStopped
  UnleasedStops
