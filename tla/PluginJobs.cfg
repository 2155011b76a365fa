\* Two jobs under a limit of one, two runs and one process, which starts, dies and
\* takes its calls with it at any time.  No symmetry: liveness is checked.
\* The cron searches run over a calendar of nine days of two hours of three minutes,
\* with every schedule and from every minute.
\* Deadlock: at the bounds nothing may be left to do.
SPECIFICATION JobFairSpec
CONSTANTS
  r1 = r1
  r2 = r2
  j1 = j1
  j2 = j2
  Calls = {r1, r2}
  Jobs = {j1, j2}
  Procs = {1}
  MaxConcurrentJobs = 1
  MinutesPerHour = 3
  HoursPerDay = 2
  LastDay = 9
  Calendar <- MCCalendar
  MidnightHour = 0
CHECK_DEADLOCK FALSE

  
  
PROPERTIES
  TickIsOver
