---------------------------- MODULE CronSchedule ----------------------------
(***************************************************************************)
(* The next time of a cron schedule, which the server computes twice:      *)
(* nextCronTick (server/src/services/cron.ts), for the jobs of plugins,    *)
(* skips months, days and hours; nextCronTickInTimeZone (routines.ts), for *)
(* routines, looks at every minute, and reads it as Intl prints it.  Here  *)
(* the time zone is UTC, and both search to the end of the calendar.       *)
(***************************************************************************)
EXTENDS Integers

CONSTANTS
  MinutesPerHour, HoursPerDay,  \* 60 and 24
  LastDay,                      \* bound: days are numbered from 1 to LastDay
  Calendar,                     \* the month, date and weekday of each day
  MidnightHour                  \* the hour that Intl prints for midnight

\* The days of a month follow each other from its first one on.
ASSUME CalendarAssumption ==
  /\ MinutesPerHour \in Nat \ {0} /\ HoursPerDay \in Nat \ {0} /\ LastDay \in Nat
  /\ MidnightHour \in {0, HoursPerDay}
  /\ Calendar \in [1..LastDay -> [month : Nat, date : Nat \ {0}, weekday : Nat]]
  /\ \A d, e \in 1..LastDay : e <= d /\ d - e < Calendar[d].date =>
       /\ Calendar[e].month = Calendar[d].month
       /\ Calendar[e].date = Calendar[d].date - (d - e)

Hours   == 0..HoursPerDay - 1
Minutes == 0..MinutesPerHour - 1

\* A Date of whole minutes; the last one is past the calendar.
Instants == [day : 1..LastDay, hour : Hours, minute : Minutes]
Dates    == [day : 1..LastDay + 1, hour : Hours, minute : Minutes]
Past(t)  == t.day > LastDay

\* What parseCron returns: every field has values, and within its bounds.
ParsedCron ==
  LET Some(S) == SUBSET S \ {{}} IN
  [months      : Some({Calendar[d].month : d \in 1..LastDay}),
   daysOfMonth : Some({Calendar[d].date : d \in 1..LastDay}),
   daysOfWeek  : Some({Calendar[d].weekday : d \in 1..LastDay}),
   hours       : Some(Hours),
   minutes     : Some(Minutes)]

InMonth(cron, t) == Calendar[t.day].month \in cron.months
OnDay(cron, t)   == /\ Calendar[t.day].date \in cron.daysOfMonth
                    /\ Calendar[t.day].weekday \in cron.daysOfWeek

Matches(cron, t) ==
  /\ InMonth(cron, t) /\ OnDay(cron, t)
  /\ t.hour \in cron.hours /\ t.minute \in cron.minutes

-----------------------------------------------------------------------------
(* The setters of Date, which carry into the next hour and day.               *)

Midnight(day) == [day |-> day, hour |-> 0, minute |-> 0]

\* Mistake: the day is advanced and the time of day kept.
SameTimeNextDay(t) == [t EXCEPT !.day = @ + 1]
NextDay(t) == Midnight(t.day + 1)

NextHour(t) ==
  IF t.hour + 1 \in Hours THEN [t EXCEPT !.hour = @ + 1, !.minute = 0] ELSE NextDay(t)

NextMinute(t) ==
  IF t.minute + 1 \in Minutes THEN [t EXCEPT !.minute = @ + 1] ELSE NextHour(t)

-----------------------------------------------------------------------------
(* nextCronTick *)

\* findNext: the least of the values above one, if there is any.
Above(values, v) == {w \in values : w > v}
Least(values) == CHOOSE v \in values : \A w \in values : v <= w

\* advanceToNextMonth
MonthStarts(cron, day) ==
  {d \in 1..LastDay : d > day /\ Calendar[d].date = 1 /\ Calendar[d].month \in cron.months}

NextMonth(cron, t) ==
  LET starts == MonthStarts(cron, t.day) IN
  Midnight(IF starts = {} THEN LastDay + 1 ELSE Least(starts))

SkipHours(cron, t) ==
  LET later == Above(cron.hours, t.hour) IN
  IF later = {} THEN NextDay(t) ELSE [t EXCEPT !.hour = Least(later), !.minute = 0]

SkipMinutes(cron, t) ==
  LET later == Above(cron.minutes, t.minute) IN
  IF later = {} THEN NextHour(t) ELSE [t EXCEPT !.minute = Least(later)]

\* One turn of the loop, for a date that does not match.
Skip(cron, t) ==
  IF ~InMonth(cron, t) THEN NextMonth(cron, t)
  ELSE IF ~OnDay(cron, t) THEN NextDay(t)
  ELSE IF t.hour \notin cron.hours THEN SkipHours(cron, t)
  ELSE SkipMinutes(cron, t)

NextCronTick(cron, after) ==
  LET search[t \in Dates] == IF Past(t) \/ Matches(cron, t) THEN t ELSE search[Skip(cron, t)]
  IN  search[NextMinute(after)]

-----------------------------------------------------------------------------
(* nextCronTickInTimeZone, in UTC *)

\* getZonedMinuteParts: hour12: false may mean the hours 1 to 24.
ZonedHour(t) == IF t.hour = 0 THEN MidnightHour ELSE t.hour

\* matchesCronMinute
MatchesZoned(cron, t) ==
  /\ InMonth(cron, t) /\ OnDay(cron, t)
  /\ ZonedHour(t) \in cron.hours /\ t.minute \in cron.minutes

NextCronTickInTimeZone(cron, after) ==
  LET scan[t \in Dates] == IF Past(t) \/ MatchesZoned(cron, t) THEN t ELSE scan[NextMinute(t)]
  IN  scan[NextMinute(after)]

-----------------------------------------------------------------------------
(* Properties *)

Before(s, t) ==
  \/ s.day < t.day
  \/ s.day = t.day /\ s.hour < t.hour
  \/ s.day = t.day /\ s.hour = t.hour /\ s.minute < t.minute

\* The two schedulers of the server agree on every schedule, and a job whose pointer
\* was advanced is not due: skipping months, days and hours passes over no minute that
\* the scan would have stopped at, also at the ends of hours, days and months, and
\* never goes back.
SchedulersAgree ==
  \A cron \in ParsedCron, after \in Instants :
    LET skipped == NextCronTick(cron, after)
        scanned == NextCronTickInTimeZone(cron, after)
    IN  Before(after, skipped) /\ (skipped = scanned \/ (Past(skipped) /\ Past(scanned)))

=============================================================================
