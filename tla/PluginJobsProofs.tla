-------------------------- MODULE PluginJobsProofs --------------------------
(***************************************************************************)
(* PluginJobs for every set of jobs, runs and processes: a tick waits for  *)
(* all it has dispatched, so that the jobs it has not looked at yet have   *)
(* no scheduled run under way.                                             *)
(*                                                                         *)
(* And CronSchedule for every schedule, any length of hours and days, and  *)
(* any calendar whose months are runs of days: what one turn of            *)
(* nextCronTick's loop does, and that the two searches agree.  A recursive *)
(* function is the CHOOSE of a solution of its equation: one is given, and *)
(* that any one finds the next match follows from the last date at which   *)
(* it would not.                                                           *)
(***************************************************************************)
EXTENDS MCPluginJobs, WellFoundedInduction, TLAPS

Scheduled(r) == work[r].by = "tick" /\ work[r].pc \notin {"none", "done"}

\* Scheduled runs are under way during a tick only, for jobs it has looked at, and
\* one for each job.
TickWaits ==
  /\ \A r \in Runs : Scheduled(r) => tick.on /\ work[r].job \notin tick.jobs
  /\ \A r, q \in Runs : Scheduled(r) /\ Scheduled(q) /\ work[r].job = work[q].job => r = q

Inv == JobTypeOK /\ TickWaits

Pcs == {"none", "check", "create", "mark", "call", "wait", "leave", "advance", "done"}
Works == [pc : Pcs, job : Jobs, by : {"tick", "request"}]

LEMMA UnusedType == Unused \in Works /\ Unused.pc = "none" /\ Unused.by = "tick"
BY JobsAssumption DEF Unused, Works, Pcs

\* What the next step of a run and the start of one change.
LEMMA Steps ==
  ASSUME JobTypeOK, NEW r \in Runs, NEW from \in Pcs, NEW to \in Pcs, Step(r, from, to)
  PROVE  /\ work' \in [Runs -> Works]
         /\ work[r].pc = from /\ work'[r].pc = to
         /\ work'[r].job = work[r].job /\ work'[r].by = work[r].by
         /\ \A q \in Runs : q # r => work'[q] = work[q]
BY DEF JobTypeOK, Step, Now, Works, Pcs

LEMMA Begins ==
  ASSUME JobTypeOK, NEW r \in Runs, NEW pc \in Pcs, NEW j \in Jobs,
         NEW by \in {"tick", "request"}, Begin(r, pc, j, by)
  PROVE  /\ work' \in [Runs -> Works]
         /\ work[r].pc = "none"
         /\ work'[r].pc = pc /\ work'[r].job = j /\ work'[r].by = by
         /\ \A q \in Runs : q # r => work'[q] = work[q]
BY UnusedType DEF JobTypeOK, Begin, Works, Pcs

Rows == {"absent", "queued", "running", "succeeded", "failed", "cancelled"}

\* A row that is written stays there.
LEMMA RowWritten ==
  ASSUME JobTypeOK, NEW r \in Runs, NEW st \in Rows \ {"absent"}, SetRow(r, st)
  PROVE  /\ row' \in [Runs -> Rows] /\ row'[r] # "absent"
         /\ \A q \in Runs : row[q] # "absent" => row'[q] # "absent"
BY DEF JobTypeOK, SetRow, Rows

\* A step of a run keeps the types if it leaves the tick alone and the run has its
\* row from its creation on.
LEMMA StepTyped ==
  ASSUME JobTypeOK, NEW r \in Runs, NEW from \in Pcs, NEW to \in Pcs, Step(r, from, to),
         due' \subseteq Jobs, active' \subseteq Jobs, UNCHANGED <<tick, cancelling, leaving>>,
         row' \in [Runs -> Rows],
         \A q \in Runs : row[q] # "absent" => row'[q] # "absent",
         to \in {"mark", "call", "wait", "leave"} => row'[r] # "absent"
  PROVE  JobTypeOK'
<1>1. /\ work' \in [Runs -> Works]
      /\ work'[r].pc = to
      /\ \A q \in Runs : q # r => work'[q] = work[q]
  BY Steps
<1>2. \A q \in Runs : work'[q].pc \in {"mark", "call", "wait", "leave"} => row'[q] # "absent"
  BY <1>1 DEF JobTypeOK
<1>3. /\ tick' \in [on : BOOLEAN, jobs : SUBSET Jobs] /\ (tick'.jobs # {} => tick'.on)
      /\ cancelling' \subseteq Runs /\ leaving' \in BOOLEAN
  BY DEF JobTypeOK
<1> QED
  BY <1>1, <1>2, <1>3 DEF JobTypeOK, Works, Pcs, Rows

\* So does one that leaves the rows alone.
LEMMA QuietStepTyped ==
  ASSUME JobTypeOK, NEW r \in Runs, NEW from \in Pcs, NEW to \in Pcs, Step(r, from, to),
         due' \subseteq Jobs, active' \subseteq Jobs, UNCHANGED <<tick, cancelling, leaving, row>>,
         to \in {"mark", "call", "wait", "leave"} => from \in {"mark", "call", "wait", "leave"}
  PROVE  JobTypeOK'
<1>1. work[r].pc = from
  BY Steps
<1>2. /\ row' \in [Runs -> Rows]
      /\ to \in {"mark", "call", "wait", "leave"} => row'[r] # "absent"
  BY <1>1 DEF JobTypeOK, Rows
<1> QED
  BY <1>2, StepTyped

\* The start of a run does, since its first steps need no row.
LEMMA BeginTyped ==
  ASSUME JobTypeOK, NEW r \in Runs, NEW pc \in {"check", "create"}, NEW j \in Jobs,
         NEW by \in {"tick", "request"}, Begin(r, pc, j, by),
         active' \subseteq Jobs, UNCHANGED <<due, cancelling, leaving, row>>,
         tick' \in [on : BOOLEAN, jobs : SUBSET Jobs], tick'.jobs # {} => tick'.on
  PROVE  JobTypeOK'
<1>1. pc \in Pcs
  BY DEF Pcs
<1>2. /\ work' \in [Runs -> Works]
      /\ work'[r].pc = pc
      /\ \A q \in Runs : q # r => work'[q] = work[q]
  BY <1>1, Begins
<1>3. \A q \in Runs : work'[q].pc \in {"mark", "call", "wait", "leave"} => row'[q] # "absent"
  BY <1>2 DEF JobTypeOK
<1> QED
  BY <1>2, <1>3 DEF JobTypeOK, Works, Pcs

LEMMA TypeStep == JobTypeOK /\ [JobNext]_vars => JobTypeOK'
<1> SUFFICES ASSUME JobTypeOK, [JobNext]_vars PROVE JobTypeOK'
  OBVIOUS
<1>1. CASE ChannelStep
  BY <1>1 DEF ChannelStep, jobVars, JobTypeOK
<1>2. ASSUME NEW j \in Jobs, ComesDue(j)
      PROVE  JobTypeOK'
  BY <1>2 DEF ComesDue, JobTypeOK
<1>3. ASSUME NEW j \in Jobs, Look(j)
      PROVE  JobTypeOK'
  <2>1. /\ tick' \in [on : BOOLEAN, jobs : SUBSET Jobs] /\ (tick'.jobs # {} => tick'.on)
        /\ UNCHANGED <<due, cancelling, leaving, row>>
    BY <1>3 DEF Look, JobTypeOK
  <2>2. CASE UNCHANGED <<work, active>>
    BY <2>1, <2>2 DEF JobTypeOK
  <2>3. ASSUME NEW r \in Runs, Begin(r, "create", j, "tick"), active' = active \cup {j}
        PROVE  JobTypeOK'
    <3>1. active' \subseteq Jobs
      BY <2>3 DEF JobTypeOK
    <3> QED
      BY <2>1, <2>3, <3>1, BeginTyped
  <2> QED
    BY <1>3, <2>2, <2>3 DEF Look
<1>4. ASSUME NEW j \in Jobs, NEW r \in Runs, Trigger(r, j)
      PROVE  JobTypeOK'
  <2>1. /\ Begin(r, "check", j, "request") /\ active' \subseteq Jobs
        /\ UNCHANGED <<due, cancelling, leaving, row>>
        /\ tick' \in [on : BOOLEAN, jobs : SUBSET Jobs] /\ (tick'.jobs # {} => tick'.on)
    BY <1>4 DEF Trigger, JobTypeOK
  <2> QED
    BY <2>1, BeginTyped
<1>5. CASE Tick
  BY <1>5 DEF Tick, MayTick, JobTypeOK
<1>6. CASE TickEnds
  BY <1>6 DEF TickEnds, AllSettled, JobTypeOK
<1>7. ASSUME NEW r \in Runs, CheckRows(r)
      PROVE  JobTypeOK'
  <2>1. /\ \E to \in {"create", "done"} : Step(r, "check", to)
        /\ due' \subseteq Jobs /\ active' \subseteq Jobs
        /\ UNCHANGED <<tick, cancelling, leaving, row>>
    BY <1>7 DEF CheckRows, JobTypeOK
  <2> QED
    BY <2>1, QuietStepTyped DEF Pcs
<1>8. ASSUME NEW r \in Runs, CreateRun(r)
      PROVE  JobTypeOK'
  <2>1. /\ Step(r, "create", "mark") /\ SetRow(r, "queued")
        /\ UNCHANGED <<due, tick, cancelling, leaving>>
        /\ work[r].job \in Jobs /\ active' = active \cup {work[r].job}
    BY <1>8 DEF CreateRun, JobTypeOK
  <2>2. due' \subseteq Jobs /\ active' \subseteq Jobs
    BY <2>1 DEF JobTypeOK
  <2> QED
    BY <2>1, <2>2, RowWritten, StepTyped DEF Pcs, Rows
<1>9. ASSUME NEW r \in Runs, MarkRunning(r)
      PROVE  JobTypeOK'
  <2>1. /\ Step(r, "mark", "call") /\ SetRow(r, "running")
        /\ UNCHANGED <<tick, cancelling, leaving>>
        /\ due' \subseteq Jobs /\ active' \subseteq Jobs
    BY <1>9 DEF MarkRunning, JobTypeOK
  <2> QED
    BY <2>1, RowWritten, StepTyped DEF Pcs, Rows
<1>10. ASSUME NEW r \in Runs, CallWorker(r)
       PROVE  JobTypeOK'
  <2>1. /\ Step(r, "call", "wait")
        /\ UNCHANGED <<tick, cancelling, leaving, row>>
        /\ due' \subseteq Jobs /\ active' \subseteq Jobs
    BY <1>10 DEF CallWorker, JobTypeOK
  <2> QED
    BY <2>1, QuietStepTyped DEF Pcs
<1>11. ASSUME NEW r \in Runs, CompleteRun(r)
       PROVE  JobTypeOK'
  <2>1. /\ Step(r, "wait", "leave")
        /\ \E st \in {"succeeded", "failed"} : SetRow(r, st)
        /\ UNCHANGED <<tick, cancelling, leaving>>
        /\ due' \subseteq Jobs /\ active' \subseteq Jobs
    BY <1>11 DEF CompleteRun, JobTypeOK
  <2> QED
    BY <2>1, RowWritten, StepTyped DEF Pcs, Rows
<1>12. ASSUME NEW r \in Runs, Leave(r)
       PROVE  JobTypeOK'
  <2>1. /\ \E to \in {"advance", "done"} : Step(r, "leave", to)
        /\ UNCHANGED <<tick, cancelling, leaving, row>>
        /\ due' \subseteq Jobs /\ active' \subseteq Jobs
    BY <1>12 DEF Leave, JobTypeOK
  <2> QED
    BY <2>1, QuietStepTyped DEF Pcs
<1>13. ASSUME NEW r \in Runs, AdvanceSchedulePointer(r)
       PROVE  JobTypeOK'
  <2>1. /\ Step(r, "advance", "done")
        /\ UNCHANGED <<tick, cancelling, leaving, row>>
        /\ due' \subseteq Jobs /\ active' \subseteq Jobs
    BY <1>13 DEF AdvanceSchedulePointer, JobTypeOK
  <2> QED
    BY <2>1, QuietStepTyped DEF Pcs
<1>14. ASSUME NEW r \in Runs, CancelRun(r)
       PROVE  JobTypeOK'
  <2>1. /\ SetRow(r, "cancelled") /\ cancelling' \subseteq Runs
        /\ UNCHANGED <<due, active, tick, work, leaving>>
    BY <1>14 DEF CancelRun, JobTypeOK
  <2>2. /\ row' \in [Runs -> Rows]
        /\ \A q \in Runs : row[q] # "absent" => row'[q] # "absent"
    BY <2>1, RowWritten DEF Rows
  <2> QED
    BY <2>1, <2>2 DEF JobTypeOK, Rows
<1>15. CASE Unregister
  BY <1>15 DEF Unregister, JobTypeOK
<1>16. CASE Unregistered
  BY <1>16 DEF Unregistered, JobTypeOK
<1>17. CASE Register
  BY <1>17 DEF Register, JobTypeOK
<1>18. CASE UNCHANGED vars
  BY <1>18 DEF vars, jobVars, JobTypeOK
<1> QED
  BY <1>1, <1>2, <1>3, <1>4, <1>5, <1>6, <1>7, <1>8, <1>9,
     <1>10, <1>11, <1>12, <1>13, <1>14, <1>15, <1>16, <1>17, <1>18 DEF JobNext, JobStep

-----------------------------------------------------------------------------
(* The tick *)

\* Whatever leaves the tick alone and schedules nothing keeps the relation.
LEMMA Kept ==
  ASSUME TickWaits, UNCHANGED tick,
         \A q \in Runs : Scheduled(q)' => Scheduled(q) /\ work'[q].job = work[q].job
  PROVE  TickWaits'
<1>1. ASSUME NEW r \in Runs, Scheduled(r)'
      PROVE  tick'.on /\ work'[r].job \notin tick'.jobs
  BY <1>1 DEF TickWaits
<1>2. ASSUME NEW r \in Runs, NEW q \in Runs, Scheduled(r)', Scheduled(q)', work'[r].job = work'[q].job
      PROVE  r = q
  BY <1>2 DEF TickWaits
<1> QED
  BY <1>1, <1>2 DEF TickWaits

\* A step of a run that is under way is of that kind.
LEMMA StepKept ==
  ASSUME Inv, UNCHANGED tick, NEW r \in Runs, NEW from \in Pcs \ {"none", "done"},
         NEW to \in Pcs, Step(r, from, to)
  PROVE  TickWaits'
<1>1. /\ work[r].pc = from
      /\ work'[r].job = work[r].job /\ work'[r].by = work[r].by
      /\ \A q \in Runs : q # r => work'[q] = work[q]
  BY Steps DEF Inv
<1>2. ASSUME NEW q \in Runs, Scheduled(q)'
      PROVE  Scheduled(q) /\ work'[q].job = work[q].job
  BY <1>1, <1>2 DEF Scheduled
<1> QED
  BY <1>2, Kept DEF Inv

LEMMA RunStepKept ==
  ASSUME Inv, NEW r \in Runs, JobStep(r)
  PROVE  TickWaits'
<1>1. /\ UNCHANGED tick
      /\ \/ \E to \in {"create", "done"} : Step(r, "check", to)
         \/ Step(r, "create", "mark") \/ Step(r, "mark", "call") \/ Step(r, "call", "wait")
         \/ Step(r, "wait", "leave") \/ Step(r, "advance", "done")
         \/ \E to \in {"advance", "done"} : Step(r, "leave", to)
  BY DEF JobStep, CheckRows, CreateRun, MarkRunning, CallWorker, CompleteRun, Leave,
         AdvanceSchedulePointer
<1> QED
  BY <1>1, StepKept DEF Pcs

LEMMA TickStep == Inv /\ [JobNext]_vars => TickWaits'
<1> SUFFICES ASSUME Inv, [JobNext]_vars PROVE TickWaits'
  OBVIOUS
<1>1. JobTypeOK /\ TickWaits
  BY DEF Inv
<1>2. CASE UNCHANGED <<tick, work>>
  BY <1>1, <1>2, Kept DEF Scheduled
<1>3. ASSUME NEW j \in Jobs, Look(j)
      PROVE  TickWaits'
  <2>1. /\ tick.on /\ tick'.on /\ tick'.jobs = tick.jobs \ {j} /\ j \in tick.jobs
    BY <1>1, <1>3 DEF Look, JobTypeOK
  <2>2. CASE UNCHANGED work
    BY <1>1, <2>1, <2>2 DEF TickWaits, Scheduled
  <2>3. ASSUME NEW r \in Runs, Begin(r, "create", j, "tick")
        PROVE  TickWaits'
    <3>1. /\ work[r].pc = "none" /\ work'[r].job = j
          /\ \A q \in Runs : q # r => work'[q] = work[q]
      BY <1>1, <2>3, Begins DEF Pcs
    <3>2. \A q \in Runs : q # r /\ Scheduled(q)' => Scheduled(q) /\ work'[q].job # j
      BY <1>1, <2>1, <3>1 DEF Scheduled, TickWaits
    <3>3. ASSUME NEW q \in Runs, Scheduled(q)'
          PROVE  tick'.on /\ work'[q].job \notin tick'.jobs
      BY <1>1, <2>1, <3>1, <3>2, <3>3 DEF TickWaits
    <3>4. ASSUME NEW p \in Runs, NEW q \in Runs, Scheduled(p)', Scheduled(q)',
                 work'[p].job = work'[q].job
          PROVE  p = q
      BY <1>1, <3>1, <3>2, <3>4 DEF TickWaits
    <3> QED
      BY <3>3, <3>4 DEF TickWaits
  <2> QED
    BY <1>3, <2>2, <2>3 DEF Look
<1>4. ASSUME NEW j \in Jobs, NEW r \in Runs, Trigger(r, j)
      PROVE  TickWaits'
  <2>1. /\ UNCHANGED tick /\ work'[r].by = "request"
        /\ \A q \in Runs : q # r => work'[q] = work[q]
    BY <1>1, <1>4, Begins DEF Trigger, Pcs
  <2>2. ASSUME NEW q \in Runs, Scheduled(q)'
        PROVE  Scheduled(q) /\ work'[q].job = work[q].job
    BY <2>1, <2>2 DEF Scheduled
  <2> QED
    BY <1>1, <2>1, <2>2, Kept
<1>5. CASE Tick
  <2>1. ~tick.on /\ UNCHANGED work
    BY <1>5 DEF Tick, MayTick
  <2> QED
    BY <1>1, <2>1 DEF TickWaits, Scheduled
<1>6. CASE TickEnds
  <2>1. UNCHANGED work /\ \A r \in Runs : ~Scheduled(r)
    BY <1>6 DEF TickEnds, AllSettled, Scheduled
  <2> QED
    BY <1>1, <2>1 DEF TickWaits, Scheduled
<1>7. ASSUME NEW r \in Runs, JobStep(r)
      PROVE  TickWaits'
  BY <1>7, RunStepKept
<1>8. ASSUME \/ ChannelStep \/ Unregister \/ Unregistered \/ Register \/ UNCHANGED vars
             \/ \E j \in Jobs : ComesDue(j)
             \/ \E r \in Runs : CancelRun(r)
      PROVE  UNCHANGED <<tick, work>>
  BY <1>8 DEF ChannelStep, ComesDue, CancelRun, Unregister, Unregistered, Register, vars, jobVars
<1> QED
  BY <1>2, <1>3, <1>4, <1>5, <1>6, <1>7, <1>8 DEF JobNext

LEMMA InvInit == JobInit => Inv
<1> SUFFICES ASSUME JobInit PROVE Inv
  OBVIOUS
<1>1. work \in [Runs -> Works] /\ \A r \in Runs : work[r].pc = "none"
  BY UnusedType DEF JobInit
<1>2. tick \in [on : BOOLEAN, jobs : SUBSET Jobs] /\ tick.jobs = {} /\ leaving \in BOOLEAN
  BY DEF JobInit
<1>3. row \in [Runs -> {"absent", "queued", "running", "succeeded", "failed", "cancelled"}]
  BY DEF JobInit
<1>4. due = {} /\ active = {} /\ cancelling = {}
  BY DEF JobInit
<1> QED
  BY <1>1, <1>2, <1>3, <1>4 DEF Inv, JobTypeOK, TickWaits, Scheduled, Works, Pcs

LEMMA Invariance == JobSpec => []Inv
<1>1. Inv /\ [JobNext]_vars => Inv'
  BY TypeStep, TickStep DEF Inv
<1> QED
  BY <1>1, InvInit, PTL DEF JobSpec

-----------------------------------------------------------------------------
(* Theorems *)

\* Every reachable state is well typed.
THEOREM TypeCorrect == JobSpec => []JobTypeOK
<1>1. Inv => JobTypeOK
  BY DEF Inv
<1> QED
  BY <1>1, Invariance, PTL

\* The schedule never runs a job beside itself.
THEOREM NoOverlap == JobSpec => []ScheduledRunsDontOverlap
<1>1. Inv => ScheduledRunsDontOverlap
  BY DEF Inv, TickWaits, Scheduled, ScheduledRunsDontOverlap, Dispatched
<1> QED
  BY <1>1, Invariance, PTL

-----------------------------------------------------------------------------
(* nextCronTick *)

\* A set of numbers that is not empty has a least one (findNext on a sorted array).
LEMMA LeastIsLeast ==
  ASSUME NEW S, S \subseteq Nat, S # {}
  PROVE  Least(S) \in S /\ \A w \in S : Least(S) <= w
<1>1. PICK x \in S : \A y \in S : ~ (<<y, x>> \in OpToRel(<, Nat))
  BY WFMin, NatLessThanWellFounded, Zenon
<1>2. \A y \in S : x <= y
  <2> SUFFICES ASSUME NEW y \in S, ~ (x <= y) PROVE FALSE
    OBVIOUS
  <2>1. <<y, x>> \in OpToRel(<, Nat)
    BY DEF OpToRel
  <2> QED BY <1>1, <2>1
<1> QED BY <1>1, <1>2 DEF Least

\* The values of a schedule are numbers, those of its times within their bounds.
LEMMA FieldsTyped ==
  ASSUME NEW cron \in ParsedCron
  PROVE  cron.hours \subseteq Hours /\ cron.minutes \subseteq Minutes
BY DEF ParsedCron

\* The parts of a time are numbers.
LEMMA PartsTyped ==
  /\ LastDay \in Nat
  /\ \A t \in Instants : t.day \in 1..LastDay /\ t.hour \in Nat /\ t.minute \in Nat
BY CalendarAssumption DEF Instants, Hours, Minutes

\* Midnight of a day is the first minute of it.
LEMMA MidnightTyped ==
  ASSUME NEW d \in 1..LastDay + 1
  PROVE  Midnight(d) \in Dates
BY CalendarAssumption DEF Midnight, Dates, Hours, Minutes

\* What is not before t and before the next day's midnight is on t's day.
LEMMA UntilNextDay ==
  ASSUME NEW t \in Instants
  PROVE  /\ NextDay(t) \in Dates /\ Before(t, NextDay(t))
         /\ \A u \in Instants : ~Before(u, t) /\ Before(u, NextDay(t)) => u.day = t.day
<1>1. NextDay(t) \in Dates
  BY CalendarAssumption, MidnightTyped, t.day + 1 \in 1..LastDay + 1 DEF NextDay, Instants
<1>2. Before(t, NextDay(t))
  BY CalendarAssumption DEF NextDay, Midnight, Before, Instants
<1>3. ASSUME NEW u \in Instants, ~Before(u, t), Before(u, NextDay(t))
      PROVE  u.day = t.day
  <2>1. NextDay(t).day = t.day + 1 /\ NextDay(t).hour = 0 /\ NextDay(t).minute = 0
    BY DEF NextDay, Midnight
  <2>2. /\ u.day \in Nat /\ u.hour \in Nat /\ u.minute \in Nat
        /\ t.day \in Nat
    BY PartsTyped
  <2>3. u.day < t.day + 1
    BY <1>3, <2>1, <2>2 DEF Before
  <2>4. t.day <= u.day
    BY <1>3, <2>2 DEF Before
  <2> QED BY <2>2, <2>3, <2>4
<1> QED BY <1>1, <1>2, <1>3

\* Every day between t's and the start of the next month that the schedule has is
\* of a month that it has not.
LEMMA MonthPassed ==
  ASSUME NEW cron \in ParsedCron, NEW t \in Instants, ~InMonth(cron, t)
  PROVE  /\ NextMonth(cron, t) \in Dates /\ Before(t, NextMonth(cron, t))
         /\ \A u \in Instants :
              ~Before(u, t) /\ Before(u, NextMonth(cron, t)) => ~InMonth(cron, u)
<1> DEFINE starts == MonthStarts(cron, t.day)
           end == IF starts = {} THEN LastDay + 1 ELSE Least(starts)
<1>1. starts \subseteq 1..LastDay /\ \A d \in starts : d > t.day
  BY DEF MonthStarts
<1>2. /\ end \in 1..LastDay + 1 /\ end > t.day
      /\ \A d \in starts : end <= d
  <2>1. CASE starts = {}
    BY <2>1, CalendarAssumption DEF Instants
  <2>2. CASE starts # {}
    <3>1. Least(starts) \in starts /\ \A w \in starts : Least(starts) <= w
      BY <1>1, <2>2, LeastIsLeast
    <3>2. end = Least(starts)
      BY <2>2
    <3>3. LastDay \in Nat
      BY PartsTyped
    <3> HIDE DEF end, starts
    <3>4. end \in 1..LastDay /\ end > t.day
      BY <1>1, <3>1, <3>2
    <3>5. \A d \in starts : end <= d
      BY <3>1, <3>2
    <3>6. end \in 1..LastDay + 1
      BY <3>3, <3>4
    <3> QED BY <3>4, <3>5, <3>6
  <2> QED BY <2>1, <2>2
<1>3. NextMonth(cron, t) = Midnight(end)
  BY DEF NextMonth
<1> HIDE DEF starts, end
<1>4. NextMonth(cron, t) \in Dates
  BY <1>2, <1>3, MidnightTyped
<1>5. Before(t, NextMonth(cron, t))
  BY <1>2, <1>3, CalendarAssumption DEF Midnight, Before, Instants
<1>6. ASSUME NEW u \in Instants, ~Before(u, t), Before(u, NextMonth(cron, t)), InMonth(cron, u)
      PROVE  FALSE
  <2> DEFINE first == u.day - Calendar[u.day].date + 1
  <2>1. u.day \in 1..LastDay /\ t.day \in 1..LastDay
    BY DEF Instants
  <2>2. t.day <= u.day /\ u.day < end
    <3>1. NextMonth(cron, t).day = end /\ NextMonth(cron, t).hour = 0 /\ NextMonth(cron, t).minute = 0
      BY <1>3 DEF Midnight
    <3>2. u.hour \in Nat /\ u.minute \in Nat /\ end \in Nat
      BY <1>2, PartsTyped
    <3> QED BY <1>6, <2>1, <3>1, <3>2, PartsTyped DEF Before
  <2>3. Calendar[u.day].date \in Nat \ {0}
    BY <2>1, CalendarAssumption
  <2>4. CASE first <= t.day
    <3>1. t.day <= u.day /\ u.day - t.day < Calendar[u.day].date
      BY <2>1, <2>2, <2>3, <2>4
    <3>2. Calendar[t.day].month = Calendar[u.day].month
      BY <2>1, <3>1, CalendarAssumption
    <3> QED BY <1>6, <3>2 DEF InMonth
  <2>5. CASE first > t.day
    <3>1. first \in 1..LastDay /\ first <= u.day /\ u.day - first < Calendar[u.day].date
      BY <2>1, <2>2, <2>3, <2>5, PartsTyped
    <3>2. /\ Calendar[first].month = Calendar[u.day].month
          /\ Calendar[first].date = Calendar[u.day].date - (u.day - first)
      BY <2>1, <3>1, CalendarAssumption
    <3>3. Calendar[first].date = 1
      BY <2>1, <2>3, <3>2
    <3>4. first \in starts
      BY <1>6, <2>5, <3>1, <3>2, <3>3 DEF starts, MonthStarts, InMonth
    <3> QED BY <1>2, <2>1, <2>2, <2>3, <3>1, <3>4, CalendarAssumption
  <2> QED BY <2>1, <2>3, <2>4, <2>5
<1> QED BY <1>4, <1>5, <1>6

\* No hour of the schedule is left between t's hour and the one skipped to.
LEMMA HoursPassed ==
  ASSUME NEW cron \in ParsedCron, NEW t \in Instants, t.hour \notin cron.hours
  PROVE  /\ SkipHours(cron, t) \in Dates /\ Before(t, SkipHours(cron, t))
         /\ \A u \in Instants :
              ~Before(u, t) /\ Before(u, SkipHours(cron, t)) => u.hour \notin cron.hours
<1> DEFINE later == Above(cron.hours, t.hour)
<1>1. later \subseteq Hours /\ \A h \in later : h > t.hour
  BY FieldsTyped DEF Above
<1>2. CASE later = {}
  <2>1. SkipHours(cron, t) = NextDay(t)
    BY <1>2 DEF SkipHours
  <2>2. ASSUME NEW u \in Instants, ~Before(u, t), Before(u, NextDay(t)), u.hour \in cron.hours
        PROVE  FALSE
    <3>1. u.day = t.day
      BY <2>2, UntilNextDay
    <3>2. u.hour > t.hour
      BY <2>2, <3>1, CalendarAssumption DEF Before, Instants, Hours, Minutes
    <3> QED BY <1>2, <2>2, <3>2 DEF Above
  <2> QED BY <2>1, <2>2, UntilNextDay
<1>3. CASE later # {}
  <2> DEFINE h == Least(later)
  <2>1. h \in later /\ \A w \in later : h <= w
    BY <1>1, <1>3, LeastIsLeast, CalendarAssumption DEF Hours
  <2>2. h \in Hours /\ h > t.hour
    BY <1>1, <2>1
  <2>3. SkipHours(cron, t) = [t EXCEPT !.hour = h, !.minute = 0]
    BY <1>3 DEF SkipHours
  <2> HIDE DEF h
  <2>4. SkipHours(cron, t) = [day |-> t.day, hour |-> h, minute |-> 0]
    BY <2>3 DEF Instants
  <2>5. SkipHours(cron, t) \in Dates /\ Before(t, SkipHours(cron, t))
    BY <2>2, <2>4, CalendarAssumption DEF Dates, Instants, Before, Hours, Minutes
  <2>6. ASSUME NEW u \in Instants, ~Before(u, t), Before(u, SkipHours(cron, t)),
               u.hour \in cron.hours
        PROVE  FALSE
    <3>1. t.hour <= u.hour /\ u.hour < h
      BY <2>2, <2>4, <2>6, CalendarAssumption DEF Before, Instants, Hours, Minutes
    <3>2. u.hour \in later
      BY <2>6, <3>1, CalendarAssumption DEF Above, Instants, Hours
    <3> QED BY <2>1, <2>2, <3>1, <3>2, CalendarAssumption DEF Instants, Hours
  <2> QED BY <2>5, <2>6
<1> QED BY <1>2, <1>3

\* What is not before t and before the next hour is within t's hour.
LEMMA UntilNextHour ==
  ASSUME NEW t \in Instants
  PROVE  /\ NextHour(t) \in Dates /\ Before(t, NextHour(t))
         /\ \A u \in Instants :
              ~Before(u, t) /\ Before(u, NextHour(t)) => u.day = t.day /\ u.hour = t.hour
<1>1. CASE t.hour + 1 \in Hours
  <2>1. NextHour(t) = [day |-> t.day, hour |-> t.hour + 1, minute |-> 0]
    BY <1>1 DEF NextHour, Instants
  <2>2. 0 \in Minutes /\ t.hour \in Nat /\ t.minute \in Nat
    BY CalendarAssumption, PartsTyped DEF Minutes
  <2>3. t.day \in 1..LastDay + 1
    BY PartsTyped
  <2>4. NextHour(t) \in Dates
    BY <1>1, <2>1, <2>2, <2>3 DEF Dates
  <2>5. /\ NextHour(t).day = t.day /\ NextHour(t).hour = t.hour + 1
        /\ NextHour(t).minute = 0
    BY <2>1
  <2>6. Before(t, NextHour(t))
    BY <2>2, <2>5 DEF Before
  <2>7. ASSUME NEW u \in Instants, ~Before(u, t), Before(u, NextHour(t))
        PROVE  u.day = t.day /\ u.hour = t.hour
    <3>1. /\ u.day \in Nat /\ u.hour \in Nat /\ u.minute \in Nat /\ t.day \in Nat
      BY PartsTyped
    <3>2. u.day = t.day
      BY <2>5, <2>7, <3>1 DEF Before
    <3> QED BY <2>2, <2>5, <2>7, <3>1, <3>2 DEF Before
  <2> QED BY <2>4, <2>6, <2>7
<1>2. CASE t.hour + 1 \notin Hours
  <2>1. NextHour(t) = NextDay(t)
    BY <1>2 DEF NextHour
  <2>2. ASSUME NEW u \in Instants, ~Before(u, t), Before(u, NextDay(t))
        PROVE  u.day = t.day /\ u.hour = t.hour
    <3>1. u.day = t.day
      BY <2>2, UntilNextDay
    <3>2. u.hour \in Hours /\ t.hour \in Hours
      BY DEF Instants
    <3>3. u.hour >= t.hour
      BY <2>2, <3>1, PartsTyped DEF Before
    <3> QED BY <1>2, <3>1, <3>2, <3>3, CalendarAssumption DEF Hours
  <2> QED BY <2>1, <2>2, UntilNextDay
<1> QED BY <1>1, <1>2

\* No minute of the schedule is left between t and the minute skipped to.
LEMMA MinutesPassed ==
  ASSUME NEW cron \in ParsedCron, NEW t \in Instants, t.minute \notin cron.minutes
  PROVE  /\ SkipMinutes(cron, t) \in Dates /\ Before(t, SkipMinutes(cron, t))
         /\ \A u \in Instants : ~Before(u, t) /\ Before(u, SkipMinutes(cron, t)) =>
              u.minute \notin cron.minutes
<1> DEFINE later == Above(cron.minutes, t.minute)
<1>1. later \subseteq Minutes /\ \A m \in later : m > t.minute
  BY FieldsTyped DEF Above
<1>2. CASE later = {}
  <2>1. SkipMinutes(cron, t) = NextHour(t)
    BY <1>2 DEF SkipMinutes
  <2>2. /\ NextHour(t) \in Dates /\ Before(t, NextHour(t))
        /\ \A u \in Instants :
             ~Before(u, t) /\ Before(u, NextHour(t)) => u.day = t.day /\ u.hour = t.hour
    BY UntilNextHour
  <2>3. ASSUME NEW u \in Instants, ~Before(u, t), Before(u, NextHour(t)),
               u.minute \in cron.minutes
        PROVE  FALSE
    <3>1. u.minute > t.minute
      <4>1. u.day = t.day /\ u.hour = t.hour
        BY <2>2, <2>3
      <4>2. u.minute \in Nat /\ t.minute \in Nat /\ u.minute # t.minute
        BY <2>3, PartsTyped
      <4> QED BY <2>3, <4>1, <4>2 DEF Before
    <3> QED BY <1>2, <2>3, <3>1 DEF Above
  <2> QED BY <2>1, <2>2, <2>3
<1>3. CASE later # {}
  <2> DEFINE m == Least(later)
  <2>1. m \in later /\ \A w \in later : m <= w
    BY <1>1, <1>3, LeastIsLeast, CalendarAssumption DEF Minutes
  <2>2. m \in Minutes /\ m > t.minute
    BY <1>1, <2>1
  <2>3. SkipMinutes(cron, t) = [t EXCEPT !.minute = m]
    BY <1>3 DEF SkipMinutes
  <2> HIDE DEF m
  <2>4. SkipMinutes(cron, t) = [day |-> t.day, hour |-> t.hour, minute |-> m]
    BY <2>3 DEF Instants
  <2>5. SkipMinutes(cron, t) \in Dates /\ Before(t, SkipMinutes(cron, t))
    BY <2>2, <2>4, CalendarAssumption DEF Dates, Instants, Before
  <2>6. ASSUME NEW u \in Instants, ~Before(u, t), Before(u, SkipMinutes(cron, t)),
               u.minute \in cron.minutes
        PROVE  FALSE
    <3>1. t.minute <= u.minute /\ u.minute < m
      BY <2>2, <2>4, <2>6, CalendarAssumption DEF Before, Instants, Hours, Minutes
    <3>2. u.minute \in later
      BY <2>6, <3>1, CalendarAssumption DEF Above, Instants, Minutes
    <3> QED BY <2>1, <2>2, <3>1, <3>2, CalendarAssumption DEF Instants, Minutes
  <2> QED BY <2>5, <2>6
<1> QED BY <1>2, <1>3

\* A turn of nextCronTick's loop goes on to a later date, and passes over no minute that
\* matches: what SchedulersAgree checks of whole searches on a small calendar follows
\* turn by turn on any calendar.
THEOREM SkipPassesNoMatch ==
  ASSUME NEW cron \in ParsedCron, NEW t \in Instants, ~Matches(cron, t)
  PROVE  /\ Skip(cron, t) \in Dates /\ Before(t, Skip(cron, t))
         /\ \A u \in Instants :
              ~Before(u, t) /\ Before(u, Skip(cron, t)) => ~Matches(cron, u)
<1>1. CASE ~InMonth(cron, t)
  <2>1. Skip(cron, t) = NextMonth(cron, t)
    BY <1>1 DEF Skip
  <2> QED BY <1>1, <2>1, MonthPassed DEF Matches
<1>2. CASE InMonth(cron, t) /\ ~OnDay(cron, t)
  <2>1. Skip(cron, t) = NextDay(t)
    BY <1>2 DEF Skip
  <2>2. ASSUME NEW u \in Instants, u.day = t.day
        PROVE  ~OnDay(cron, u)
    BY <1>2, <2>2 DEF OnDay
  <2> QED BY <2>1, <2>2, UntilNextDay DEF Matches
<1>3. CASE InMonth(cron, t) /\ OnDay(cron, t) /\ t.hour \notin cron.hours
  <2>1. Skip(cron, t) = SkipHours(cron, t)
    BY <1>3 DEF Skip
  <2> QED BY <1>3, <2>1, HoursPassed DEF Matches
<1>4. CASE InMonth(cron, t) /\ OnDay(cron, t) /\ t.hour \in cron.hours
  <2>1. Skip(cron, t) = SkipMinutes(cron, t) /\ t.minute \notin cron.minutes
    BY <1>4 DEF Skip, Matches
  <2> QED BY <2>1, MinutesPassed DEF Matches
<1> QED BY <1>1, <1>2, <1>3, <1>4

-----------------------------------------------------------------------------
(* The two searches as a whole.  Each is a recursive function on dates whose  *)
(* recursion goes forward, and ends at the end of the calendar.               *)

CalendarEnd == Midnight(LastDay + 1)

\* Dates are ordered.
LEMMA DatesOrdered ==
  /\ \A t \in Dates : t.day \in 1..LastDay + 1 /\ t.hour \in Nat /\ t.minute \in Nat
  /\ Instants = {t \in Dates : ~Past(t)}
  /\ \A s, t \in Dates : s = t \/ Before(s, t) \/ Before(t, s)
  /\ \A s, t \in Dates : ~(Before(s, t) /\ Before(t, s))
  /\ \A s, t, u \in Dates : Before(s, t) /\ Before(t, u) => Before(s, u)
<1>1. \A t \in Dates : t.day \in 1..LastDay + 1 /\ t.hour \in Nat /\ t.minute \in Nat
  BY CalendarAssumption DEF Dates, Hours, Minutes
<1>2. Instants = {t \in Dates : ~Past(t)}
  <2>1. \A d \in 1..LastDay + 1 : d \in 1..LastDay <=> ~(d > LastDay)
    BY CalendarAssumption
  <2>2. 1..LastDay \subseteq 1..LastDay + 1
    BY CalendarAssumption
  <2>3. \A t \in Instants : t \in Dates /\ t.day \in 1..LastDay
    BY <2>2 DEF Instants, Dates
  <2>4. \A t \in Dates : t.day \in 1..LastDay => t \in Instants
    BY DEF Instants, Dates
  <2> QED BY <1>1, <2>1, <2>3, <2>4 DEF Past
<1>3. \A t \in Dates : t.day \in Nat
  BY <1>1, CalendarAssumption
<1>4. ASSUME NEW s \in Dates, NEW t \in Dates
      PROVE  s = t \/ Before(s, t) \/ Before(t, s)
  <2>1. s = [day |-> s.day, hour |-> s.hour, minute |-> s.minute]
    BY DEF Dates
  <2>2. t = [day |-> t.day, hour |-> t.hour, minute |-> t.minute]
    BY DEF Dates
  <2>3. (s.day = t.day /\ s.hour = t.hour /\ s.minute = t.minute) \/ Before(s, t) \/ Before(t, s)
    BY <1>1, <1>3 DEF Before
  <2> QED BY <2>1, <2>2, <2>3
<1>5. \A s, t \in Dates : ~(Before(s, t) /\ Before(t, s))
  BY <1>1, <1>3 DEF Before
<1>6. \A s, t, u \in Dates : Before(s, t) /\ Before(t, u) => Before(s, u)
  BY <1>1, <1>3 DEF Before
<1> QED BY <1>1, <1>2, <1>4, <1>5, <1>6

\* Bounded numbers have a greatest one.
LEMMA Greatest ==
  ASSUME NEW n \in Nat, NEW S \in SUBSET (0..n), S # {}
  PROVE  \E m \in S : \A k \in S : k <= m
<1> DEFINE Rest == {n - k : k \in S}
<1>1. Rest \subseteq Nat /\ Rest # {}
  <2>1. \A k \in S : n - k \in Nat
    OBVIOUS
  <2> QED BY <2>1
<1>2. Least(Rest) \in Rest /\ \A w \in Rest : Least(Rest) <= w
  BY <1>1, LeastIsLeast
<1>3. PICK m \in S : Least(Rest) = n - m
  BY <1>2
<1>4. \A k \in S : n - m <= n - k
  BY <1>2, <1>3
<1> QED BY <1>3, <1>4

\* So a set of dates has a last one.
LEMMA LastOfDates ==
  ASSUME NEW S \in SUBSET Dates, S # {}
  PROVE  \E t \in S : \A u \in S : ~Before(t, u)
<1>1. /\ LastDay + 1 \in Nat /\ HoursPerDay \in Nat /\ MinutesPerHour \in Nat
      /\ \A t \in S : /\ t.day \in 0..LastDay + 1 /\ t.hour \in 0..HoursPerDay
                      /\ t.minute \in 0..MinutesPerHour
  BY CalendarAssumption DEF Dates, Hours, Minutes
<1> DEFINE days == {t.day : t \in S}
<1>2. PICK d \in days : \A k \in days : k <= d
  BY <1>1, Greatest, days \in SUBSET (0..LastDay + 1), days # {}
<1> DEFINE hours == {t.hour : t \in {u \in S : u.day = d}}
<1>3. PICK h \in hours : \A k \in hours : k <= h
  BY <1>1, <1>2, Greatest, hours \in SUBSET (0..HoursPerDay), hours # {}
<1> DEFINE minutes == {t.minute : t \in {u \in S : u.day = d /\ u.hour = h}}
<1>4. PICK m \in minutes : \A k \in minutes : k <= m
  BY <1>1, <1>3, Greatest, minutes \in SUBSET (0..MinutesPerHour), minutes # {}
<1>5. PICK t \in S : t.day = d /\ t.hour = h /\ t.minute = m
  BY <1>4
<1>6. \A u \in S : /\ u.day <= d /\ (u.day = d => u.hour <= h)
                   /\ (u.day = d /\ u.hour = h => u.minute <= m)
  BY <1>2, <1>3, <1>4
<1> HIDE DEF days, hours, minutes
<1>7. \A u \in S : /\ u.day \in Nat /\ u.hour \in Nat /\ u.minute \in Nat
  BY <1>1
<1> QED BY <1>5, <1>6, <1>7 DEF Before

\* Nothing is left between a minute and the next.
LEMMA UntilNextMinute ==
  ASSUME NEW t \in Instants
  PROVE  /\ NextMinute(t) \in Dates /\ Before(t, NextMinute(t))
         /\ \A u \in Instants : ~Before(u, t) /\ Before(u, NextMinute(t)) => u = t
<1>0. /\ t = [day |-> t.day, hour |-> t.hour, minute |-> t.minute]
      /\ t.minute \in Minutes /\ t \in Dates
  BY CalendarAssumption DEF Instants, Dates
<1>1. CASE t.minute + 1 \in Minutes
  <2>1. NextMinute(t) = [day |-> t.day, hour |-> t.hour, minute |-> t.minute + 1]
    BY <1>0, <1>1 DEF NextMinute
  <2>2. NextMinute(t) \in Dates
    BY <1>0, <1>1, <2>1 DEF Dates
  <2>3. Before(t, NextMinute(t))
    BY <2>1, PartsTyped DEF Before
  <2>4. ASSUME NEW u \in Instants, ~Before(u, t), Before(u, NextMinute(t)) PROVE u = t
    <3>1. u = [day |-> u.day, hour |-> u.hour, minute |-> u.minute]
      BY DEF Instants
    <3>2. u.day \in Nat /\ u.hour \in Nat /\ u.minute \in Nat
      BY PartsTyped
    <3>3. t.day \in Nat /\ t.hour \in Nat /\ t.minute \in Nat
      BY PartsTyped
    <3>4. u.day = t.day /\ u.hour = t.hour /\ u.minute = t.minute
      BY <2>1, <2>4, <3>2, <3>3 DEF Before
    <3> QED BY <1>0, <3>1, <3>4
  <2> QED BY <2>2, <2>3, <2>4
<1>2. CASE t.minute + 1 \notin Minutes
  <2>1. NextMinute(t) = NextHour(t)
    BY <1>2 DEF NextMinute
  <2>2. ASSUME NEW u \in Instants, ~Before(u, t), Before(u, NextHour(t)) PROVE u = t
    <3>1. u.day = t.day /\ u.hour = t.hour
      BY <2>2, UntilNextHour
    <3>2. u.minute \in Minutes
      BY DEF Instants
    <3>3. u.minute >= t.minute
      BY <2>2, <3>1, PartsTyped DEF Before
    <3>4. u.minute = t.minute
      BY <1>0, <1>2, <3>2, <3>3, CalendarAssumption DEF Minutes
    <3>5. u = [day |-> u.day, hour |-> u.hour, minute |-> u.minute]
      BY DEF Instants
    <3> QED BY <1>0, <3>1, <3>4, <3>5
  <2> QED BY <2>1, <2>2, UntilNextHour
<1> QED BY <1>1, <1>2

\* What goes beyond the calendar goes to the midnight at its end.
LEMMA BeyondIsEnd ==
  ASSUME NEW cron \in ParsedCron, NEW t \in Instants
  PROVE  /\ Past(Skip(cron, t)) => Skip(cron, t) = CalendarEnd
         /\ Past(NextMinute(t)) => NextMinute(t) = CalendarEnd
<1>0. LastDay \in Nat /\ t.day \in 1..LastDay
  BY PartsTyped
<1>1. Past(NextDay(t)) => NextDay(t) = CalendarEnd
  <2>1. t.day + 1 > LastDay => t.day = LastDay
    BY <1>0
  <2>2. NextDay(t).day = t.day + 1
    BY DEF NextDay, Midnight
  <2> QED BY <2>1, <2>2 DEF NextDay, Past, CalendarEnd
<1>2. Past(NextMonth(cron, t)) => NextMonth(cron, t) = CalendarEnd
  <2> DEFINE starts == MonthStarts(cron, t.day)
  <2>1. starts \subseteq 1..LastDay
    BY DEF MonthStarts
  <2>2. CASE starts = {}
    BY <2>2 DEF NextMonth, CalendarEnd
  <2>3. CASE starts # {}
    <3>1. Least(starts) \in starts
      BY <2>1, <2>3, LeastIsLeast
    <3>2. NextMonth(cron, t).day = Least(starts)
      BY <2>3 DEF NextMonth, Midnight
    <3> QED BY <1>0, <2>1, <3>1, <3>2 DEF Past
  <2> QED BY <2>2, <2>3
<1>3. \A u : u.day = t.day => ~Past(u)
  BY <1>0 DEF Past
<1>4. Past(NextHour(t)) => NextHour(t) = CalendarEnd
  BY <1>1, <1>3 DEF NextHour, Instants
<1>5. Past(NextMinute(t)) => NextMinute(t) = CalendarEnd
  BY <1>3, <1>4 DEF NextMinute, Instants
<1>6. Past(SkipHours(cron, t)) => SkipHours(cron, t) = CalendarEnd
  BY <1>1, <1>3 DEF SkipHours, Instants
<1>7. Past(SkipMinutes(cron, t)) => SkipMinutes(cron, t) = CalendarEnd
  BY <1>3, <1>4 DEF SkipMinutes, Instants
<1> QED BY <1>1, <1>2, <1>5, <1>6, <1>7 DEF Skip

\* u is where a search for Stops from t on ends.
Found(Stops, t, u) ==
  /\ u \in Dates /\ ~Before(u, t) /\ (Past(u) \/ u \in Stops)
  /\ \A v \in Stops : ~Before(v, t) => ~Before(v, u)

\* Two such searches end together.
LEMMA FoundOnce ==
  ASSUME NEW Stops \in SUBSET Instants, NEW t \in Dates, NEW u, Found(Stops, t, u),
         NEW w, Found(Stops, t, w)
  PROVE  u = w \/ (Past(u) /\ Past(w))
<1>1. ASSUME NEW x \in Stops, NEW y \in Dates, Past(y) PROVE Before(x, y)
  <2>1. x.day \in 1..LastDay /\ y.day \in 1..LastDay + 1
    BY PartsTyped, DatesOrdered
  <2> QED BY <1>1, <2>1, PartsTyped DEF Past, Before
<1>2. CASE u \in Stops /\ w \in Stops
  BY <1>2, DatesOrdered DEF Found
<1>3. CASE u \in Stops /\ Past(w)
  BY <1>1, <1>3 DEF Found
<1>4. CASE w \in Stops /\ Past(u)
  BY <1>1, <1>4 DEF Found
<1> QED BY <1>2, <1>3, <1>4 DEF Found

\* A search whose turns go forward, pass over no stop, and leave the calendar at its
\* end only, is defined on all dates and finds the next stop.
LEMMA SearchFinds ==
  ASSUME NEW Stops \in SUBSET Instants, NEW next,
         \A t \in Instants \ Stops :
           /\ next[t] \in Dates /\ Before(t, next[t])
           /\ \A u \in Instants : ~Before(u, t) /\ Before(u, next[t]) => u \notin Stops
           /\ Past(next[t]) => next[t] = CalendarEnd
  PROVE  /\ \E g : g = [t \in Dates |-> IF Past(t) \/ t \in Stops THEN t ELSE g[next[t]]]
         /\ \A g : g = [t \in Dates |-> IF Past(t) \/ t \in Stops THEN t ELSE g[next[t]]] =>
              \A t \in Dates : Found(Stops, t, g[t])
<1> DEFINE From(t) == {u \in Stops : ~Before(u, t)}
           first(t) == CHOOSE u \in From(t) : \A v \in From(t) : ~Before(v, u)
           goal(t) == IF Past(t) THEN t ELSE IF From(t) = {} THEN CalendarEnd ELSE first(t)
           g0 == [t \in Dates |-> goal(t)]
<1>0. Instants \subseteq Dates
  BY DatesOrdered
<1>1. ASSUME NEW t \in Instants \ Stops
      PROVE  goal(t) = goal(next[t])
  <2>1. t \in Dates /\ ~Past(t) /\ next[t] \in Dates /\ Before(t, next[t])
    BY DatesOrdered
  <2>2. From(next[t]) = From(t)
    <3>1. ASSUME NEW u \in Stops, ~Before(u, t) PROVE ~Before(u, next[t])
      BY <3>1
    <3>2. ASSUME NEW u \in Stops, Before(u, t) PROVE Before(u, next[t])
      BY <1>0, <2>1, <3>2, DatesOrdered
    <3> QED BY <3>1, <3>2
  <2>3. CASE Past(next[t])
    <3>1. ASSUME NEW u \in Stops PROVE Before(u, next[t])
      <4>1. u.day \in 1..LastDay /\ next[t].day \in 1..LastDay + 1
        BY <2>1, PartsTyped, DatesOrdered
      <4> QED BY <2>3, <4>1, PartsTyped DEF Past, Before
    <3>2. From(t) = {}
      BY <2>2, <3>1
    <3>3. goal(t) = CalendarEnd /\ goal(next[t]) = next[t]
      BY <2>1, <2>3, <3>2
    <3> QED BY <2>3, <3>3
  <2>4. CASE ~Past(next[t])
    <3>1. first(t) = first(next[t])
      BY <2>2
    <3> HIDE DEF first, From
    <3> QED BY <2>1, <2>2, <2>4, <3>1
  <2> QED BY <2>3, <2>4
<1>2. ASSUME NEW t \in Stops PROVE goal(t) = t
  <2>1. t \in Dates /\ ~Past(t)
    BY DatesOrdered
  <2>2. t \in From(t)
    BY <2>1, DatesOrdered
  <2>3. \A v \in From(t) : ~Before(v, t)
    OBVIOUS
  <2>4. first(t) \in From(t) /\ \A v \in From(t) : ~Before(v, first(t))
    BY <2>2, <2>3
  <2>5. first(t) \in Dates /\ ~Before(t, first(t)) /\ ~Before(first(t), t)
    BY <1>0, <2>2, <2>4
  <2>6. first(t) = t
    BY <2>1, <2>5, DatesOrdered
  <2> HIDE DEF first, From
  <2> QED BY <2>1, <2>2, <2>6
<1>3. g0 = [t \in Dates |-> IF Past(t) \/ t \in Stops THEN t ELSE g0[next[t]]]
  <2> SUFFICES ASSUME NEW t \in Dates
               PROVE  goal(t) = IF Past(t) \/ t \in Stops THEN t ELSE g0[next[t]]
    <3>1. g0 = [t \in Dates |-> goal(t)]
      OBVIOUS
    <3> HIDE DEF g0, goal
    <3> QED BY <3>1
  <2>1. CASE Past(t)
    BY <2>1
  <2>2. CASE t \in Stops
    BY <1>2, <2>2
  <2>3. CASE ~Past(t) /\ t \notin Stops
    <3>1. t \in Instants \ Stops
      BY <2>3, DatesOrdered
    <3>2. goal(t) = goal(next[t]) /\ next[t] \in Dates
      BY <1>1, <3>1
    <3>3. g0[next[t]] = goal(next[t])
      BY <3>2
    <3> HIDE DEF goal, g0
    <3> QED BY <2>3, <3>2, <3>3
  <2> QED BY <2>1, <2>2, <2>3
<1>4. ASSUME NEW g, g = [t \in Dates |-> IF Past(t) \/ t \in Stops THEN t ELSE g[next[t]]]
      PROVE  \A t \in Dates : Found(Stops, t, g[t])
  <2> DEFINE Bad == {t \in Dates : ~Found(Stops, t, g[t])}
  <2> SUFFICES ASSUME Bad # {} PROVE FALSE
    OBVIOUS
  <2>1. PICK t \in Bad : \A u \in Bad : ~Before(t, u)
    BY LastOfDates
  <2>2. t \in Dates /\ g[t] = IF Past(t) \/ t \in Stops THEN t ELSE g[next[t]]
    <3>1. t \in Dates
      OBVIOUS
    <3> HIDE DEF Bad
    <3> QED BY <1>4, <3>1
  <2>3. CASE Past(t) \/ t \in Stops
    BY <2>2, <2>3, DatesOrdered DEF Found
  <2>4. CASE ~Past(t) /\ t \notin Stops
    <3>1. t \in Instants \ Stops
      BY <2>2, <2>4, DatesOrdered
    <3>2. next[t] \in Dates /\ Before(t, next[t])
      BY <3>1
    <3>3. Found(Stops, next[t], g[next[t]])
      BY <2>1, <3>2
    <3>4. g[t] = g[next[t]]
      BY <2>2, <2>4
    <3>5. ~Before(g[t], t)
      BY <2>2, <3>2, <3>3, <3>4, DatesOrdered DEF Found
    <3>6. \A v \in Stops : ~Before(v, t) => ~Before(v, g[t])
      BY <1>0, <3>1, <3>3, <3>4 DEF Found
    <3> QED BY <3>3, <3>4, <3>5, <3>6 DEF Found
  <2> QED BY <2>3, <2>4
<1> HIDE DEF g0
<1> QED BY <1>3, <1>4

\* nextCronTick's loop ends at the next match, or at the end of the calendar.
LEMMA NextCronTickFinds ==
  ASSUME NEW cron \in ParsedCron, NEW after \in Instants
  PROVE  Found({t \in Instants : Matches(cron, t)}, NextMinute(after),
               NextCronTick(cron, after))
<1> DEFINE Stops == {t \in Instants : Matches(cron, t)}
           next == [t \in Dates |-> Skip(cron, t)]
           Solves(g) == g = [t \in Dates |-> IF Past(t) \/ Matches(cron, t) THEN t
                                             ELSE g[Skip(cron, t)]]
<1>0. \A t \in Dates : ~Past(t) => t \in Instants
  BY DatesOrdered
<1>1. \A t \in Instants \ Stops :
        /\ next[t] \in Dates /\ Before(t, next[t])
        /\ \A u \in Instants : ~Before(u, t) /\ Before(u, next[t]) => u \notin Stops
        /\ Past(next[t]) => next[t] = CalendarEnd
  <2> SUFFICES ASSUME NEW t \in Instants, ~Matches(cron, t)
               PROVE  /\ next[t] \in Dates /\ Before(t, next[t])
                      /\ \A u \in Instants : ~Before(u, t) /\ Before(u, next[t]) =>
                           u \notin Stops
                      /\ Past(next[t]) => next[t] = CalendarEnd
    OBVIOUS
  <2>1. next[t] = Skip(cron, t)
    BY DatesOrdered
  <2> HIDE DEF next
  <2> QED BY <2>1, SkipPassesNoMatch, BeyondIsEnd
<1>2. \A g : Solves(g) <=>
        g = [t \in Dates |-> IF Past(t) \/ t \in Stops THEN t ELSE g[next[t]]]
  <2>1. ASSUME NEW g, NEW t \in Dates
        PROVE  (IF Past(t) \/ Matches(cron, t) THEN t ELSE g[Skip(cron, t)])
                 = IF Past(t) \/ t \in Stops THEN t ELSE g[next[t]]
    BY <1>0
  <2> HIDE DEF next, Stops
  <2> QED BY <2>1
<1> HIDE DEF next, Stops
<1>3. /\ \E g : Solves(g)
      /\ \A g : Solves(g) => \A t \in Dates : Found(Stops, t, g[t])
  <2>1. Stops \in SUBSET Instants
    BY DEF Stops
  <2> HIDE DEF Solves
  <2>2. /\ \E g : g = [t \in Dates |-> IF Past(t) \/ t \in Stops THEN t ELSE g[next[t]]]
        /\ \A g : g = [t \in Dates |-> IF Past(t) \/ t \in Stops THEN t ELSE g[next[t]]] =>
             \A t \in Dates : Found(Stops, t, g[t])
    BY <1>1, <2>1, SearchFinds, Zenon
  <2> QED BY <1>2, <2>2, Zenon
<1>4. NextCronTick(cron, after) = (CHOOSE g : Solves(g))[NextMinute(after)]
  BY DEF NextCronTick
<1>5. Solves(CHOOSE g : Solves(g))
  <2> HIDE DEF Solves
  <2> QED BY <1>3
<1> HIDE DEF Solves
<1>6. NextMinute(after) \in Dates
  BY UntilNextMinute
<1> QED BY <1>3, <1>4, <1>5, <1>6 DEF Stops

\* And so does the scan of every minute, where midnight is printed as hour 0.
LEMMA ScanFinds ==
  ASSUME MidnightHour = 0, NEW cron \in ParsedCron, NEW after \in Instants
  PROVE  Found({t \in Instants : Matches(cron, t)}, NextMinute(after),
               NextCronTickInTimeZone(cron, after))
<1> DEFINE Stops == {t \in Instants : Matches(cron, t)}
           next == [t \in Dates |-> NextMinute(t)]
           Solves(g) == g = [t \in Dates |-> IF Past(t) \/ MatchesZoned(cron, t) THEN t
                                             ELSE g[NextMinute(t)]]
<1>0. /\ \A t \in Dates : ~Past(t) => t \in Instants
      /\ \A t \in Instants : MatchesZoned(cron, t) <=> Matches(cron, t)
  BY DatesOrdered DEF MatchesZoned, Matches, ZonedHour
<1>1. \A t \in Instants \ Stops :
        /\ next[t] \in Dates /\ Before(t, next[t])
        /\ \A u \in Instants : ~Before(u, t) /\ Before(u, next[t]) => u \notin Stops
        /\ Past(next[t]) => next[t] = CalendarEnd
  <2> SUFFICES ASSUME NEW t \in Instants, t \notin Stops
               PROVE  /\ next[t] \in Dates /\ Before(t, next[t])
                      /\ \A u \in Instants : ~Before(u, t) /\ Before(u, next[t]) =>
                           u \notin Stops
                      /\ Past(next[t]) => next[t] = CalendarEnd
    OBVIOUS
  <2>1. next[t] = NextMinute(t)
    BY DatesOrdered
  <2> HIDE DEF next, Stops
  <2> QED BY <2>1, UntilNextMinute, BeyondIsEnd
<1>2. \A g : Solves(g) <=>
        g = [t \in Dates |-> IF Past(t) \/ t \in Stops THEN t ELSE g[next[t]]]
  <2>1. ASSUME NEW g, NEW t \in Dates
        PROVE  (IF Past(t) \/ MatchesZoned(cron, t) THEN t ELSE g[NextMinute(t)])
                 = IF Past(t) \/ t \in Stops THEN t ELSE g[next[t]]
    BY <1>0
  <2> HIDE DEF next, Stops
  <2> QED BY <2>1
<1> HIDE DEF next, Stops
<1>3. /\ \E g : Solves(g)
      /\ \A g : Solves(g) => \A t \in Dates : Found(Stops, t, g[t])
  <2>1. Stops \in SUBSET Instants
    BY DEF Stops
  <2> HIDE DEF Solves
  <2>2. /\ \E g : g = [t \in Dates |-> IF Past(t) \/ t \in Stops THEN t ELSE g[next[t]]]
        /\ \A g : g = [t \in Dates |-> IF Past(t) \/ t \in Stops THEN t ELSE g[next[t]]] =>
             \A t \in Dates : Found(Stops, t, g[t])
    BY <1>1, <2>1, SearchFinds, Zenon
  <2> QED BY <1>2, <2>2, Zenon
<1>4. NextCronTickInTimeZone(cron, after) = (CHOOSE g : Solves(g))[NextMinute(after)]
  BY DEF NextCronTickInTimeZone
<1>5. Solves(CHOOSE g : Solves(g))
  <2> HIDE DEF Solves
  <2> QED BY <1>3
<1> HIDE DEF Solves
<1>6. NextMinute(after) \in Dates
  BY UntilNextMinute
<1> QED BY <1>3, <1>4, <1>5, <1>6 DEF Stops

\* The schedulers of plugins and of routines agree on every schedule, at every minute, for
\* any length of hours and days and any calendar, where Intl prints midnight as hour 0;
\* and both return a time later than the one asked from.
THEOREM SearchesAgree ==
  ASSUME MidnightHour = 0
  PROVE  SchedulersAgree
<1> SUFFICES ASSUME NEW cron \in ParsedCron, NEW after \in Instants
             PROVE  /\ Before(after, NextCronTick(cron, after))
                    /\ \/ NextCronTick(cron, after) = NextCronTickInTimeZone(cron, after)
                       \/ /\ Past(NextCronTick(cron, after))
                          /\ Past(NextCronTickInTimeZone(cron, after))
  BY DEF SchedulersAgree
<1> DEFINE Stops == {t \in Instants : Matches(cron, t)}
<1>1. /\ Found(Stops, NextMinute(after), NextCronTick(cron, after))
      /\ Found(Stops, NextMinute(after), NextCronTickInTimeZone(cron, after))
  BY NextCronTickFinds, ScanFinds
<1>2. Stops \in SUBSET Instants /\ NextMinute(after) \in Dates /\ after \in Dates
  BY UntilNextMinute, DatesOrdered
<1> HIDE DEF Stops
<1>3. Before(after, NextCronTick(cron, after))
  <2>1. NextCronTick(cron, after) \in Dates /\ ~Before(NextCronTick(cron, after), NextMinute(after))
    BY <1>1 DEF Found
  <2> QED BY <1>2, <2>1, UntilNextMinute, DatesOrdered
<1>4. QED
  BY <1>1, <1>2, <1>3, FoundOnce

\* So the pointer of a job that has run is later than now, and the one that routines
\* compute, however the job's runs, triggers and worker interleave.
THEOREM Pointers ==
  ASSUME MidnightHour = 0
  PROVE  JobSpec => []PointersAgree
<1>1. PointersAgree
  BY SearchesAgree DEF PointersAgree
<1> QED
  BY <1>1, PTL

=============================================================================
