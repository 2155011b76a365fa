---------------------------- MODULE MCPluginJobs ----------------------------
(* Instances of PluginJobs and CronSchedule for TLC.                        *)
EXTENDS PluginJobs, CronSchedule

\* Months of one, three and two days, and weeks of two.
MCCalendar ==
  LET Day(m, d, w) == [month |-> m, date |-> d, weekday |-> w] IN
  <<Day(1, 1, 0), Day(2, 1, 1), Day(2, 2, 0), Day(2, 3, 1), Day(3, 1, 0), Day(3, 2, 1),
    Day(1, 1, 0), Day(2, 1, 1), Day(2, 2, 0)>>

\* When a scheduled run is over and advanceSchedulePointer computes the job's next time,
\* then on whatever schedule and at whatever minute, it is later than now, so that the job
\* is not due again at once, and the one that routines.ts computes for the schedule.
PointersAgree == \A r \in Runs : Now(r, "advance") => SchedulersAgree

=============================================================================
