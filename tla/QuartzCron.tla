----------------------------- MODULE QuartzCron -----------------------------
(***************************************************************************)
(* The preview of the scheduler job form: the next times a Quartz          *)
(* expression fires (core/utils/quartz-cron), by the tenant's wall clock   *)
(* as it was last read.                                                    *)
(*                                                                         *)
(* An expression is modelled as it is parsed: its lists as ranges with a   *)
(* step, its day field as one of six kinds of rule.  The times of day are  *)
(* a set of small numbers.                                                 *)
(***************************************************************************)
EXTENDS Naturals, Sequences, FiniteSets

CONSTANTS
  DayRules,      \* the day fields typed
  MonthRanges,   \* the month fields: [start, end, step]
  TimesOfDay,    \* the times of day a job may fire at
  Clock,         \* the moments the clock shows, from 2023 on: year, month, day, time
  YearsAhead,    \* YEARS_AHEAD
  PreviewCount   \* PREVIEW_COUNT

FirstYear == 2023

\* parseDayOfMonth(), parseDayOfWeek(): what they read of a field.
DayRule ==
  [kind : {"monthDays"}, days : SUBSET (1..31)]
    \cup [kind : {"lastDay"}, offset : 0..30, weekday : BOOLEAN]
    \cup [kind : {"nearestWeekday"}, day : 1..31]
    \cup [kind : {"weekdays"}, start : 1..7, end : 1..7]
    \cup [kind : {"lastWeekday"}, day : 1..7]
    \cup [kind : {"nthWeekday"}, day : 1..7, nth : 1..5]

ASSUME CronAssumption ==
  /\ {YearsAhead, PreviewCount} \subseteq Nat
  /\ TimesOfDay \subseteq Nat /\ IsFiniteSet(TimesOfDay)
  /\ DayRules \subseteq DayRule
  /\ MonthRanges \subseteq [start : 1..12, end : 1..12, step : 1..12]
  /\ Clock \subseteq [year : Nat \ 0..(FirstYear - 1), month : 1..12, day : 1..31, time : Nat]

\* The years that a preview looks at.
Years == {x.year + ahead : x \in Clock, ahead \in 0..YearsAhead}

VARIABLE
  cron           \* the schedule in the form, if there is one, and `now`

cronVars == cron

Schedules == [days : DayRules, months : MonthRanges, times : SUBSET TimesOfDay \ {{}}]

CronTypeOK ==
  cron \in [schedule : {{}} \cup {{s} : s \in Schedules}, now : Clock]

\* The form opens with an empty expression.
CronInit == cron \in [schedule : {{}}, now : Clock]

-----------------------------------------------------------------------------
(* The calendar, by Date.UTC *)

Leap(y) == (y % 4 = 0 /\ y % 100 # 0) \/ y % 400 = 0

DaysInMonth(y, m) ==
  IF m = 2 THEN IF Leap(y) THEN 29 ELSE 28
  ELSE IF m \in {4, 6, 9, 11} THEN 30 ELSE 31

\* From the first of FirstYear to the first of the month: the days of the years between,
\* their leap days, and the days of the months before it.
DaysBefore(y, m) ==
  365 * (y - FirstYear) + Cardinality({x \in FirstYear..(y - 1) : Leap(x)})
    + Cardinality({x \in (1..(m - 1)) \X (1..31) : x[2] <= DaysInMonth(y, x[1])})

\* 1 is Sunday, as the first day of 2023 was.
Weekday ==
  [y \in Years |-> [m \in 1..12 |-> [d \in 1..31 |-> ((DaysBefore(y, m) + d - 1) % 7) + 1]]]

WeekdayOf(y, m, d) == Weekday[y][m][d]

-----------------------------------------------------------------------------
(* The parser *)

\* Mutation: a range that runs backwards does not wrap.
ExpandRange_Plain(start, end, step, max) ==
  {i \in start..end : (i - start) % step = 0}

\* expandRange(), of a field that counts from 1.
ExpandRange(start, end, step, max) ==
  LET stop == IF end < start THEN end + max ELSE end IN
  {IF i > max THEN i - max ELSE i :
     i \in {j \in start..stop : (j - start) % step = 0}}

-----------------------------------------------------------------------------
(* matchingDays *)

\* Mutation: the month's edges are not looked at.
NearestWeekday_Across(y, m, day, lastDay) ==
  CASE WeekdayOf(y, m, day) = 7 -> day - 1
    [] WeekdayOf(y, m, day) = 1 -> day + 1
    [] OTHER -> day

NearestWeekday(y, m, day, lastDay) ==
  CASE WeekdayOf(y, m, day) = 7 -> IF day = 1 THEN 3 ELSE day - 1
    [] WeekdayOf(y, m, day) = 1 -> IF day = lastDay THEN day - 2 ELSE day + 1
    [] OTHER -> day

MatchingDays(rule, y, m) ==
  LET lastDay == DaysInMonth(y, m)
      all == 1..lastDay IN
  CASE rule.kind = "monthDays" -> all \cap rule.days
    [] rule.kind = "lastDay" ->
         IF lastDay - rule.offset < 1 THEN {}
         ELSE {IF rule.weekday THEN NearestWeekday(y, m, lastDay - rule.offset, lastDay)
               ELSE lastDay - rule.offset}
    [] rule.kind = "nearestWeekday" ->
         IF rule.day > lastDay THEN {} ELSE {NearestWeekday(y, m, rule.day, lastDay)}
    [] rule.kind = "weekdays" ->
         {d \in all : WeekdayOf(y, m, d) \in ExpandRange(rule.start, rule.end, 1, 7)}
    [] rule.kind = "lastWeekday" ->
         {d \in all : d > lastDay - 7 /\ WeekdayOf(y, m, d) = rule.day}
    [] rule.kind = "nthWeekday" ->
         {d \in all : (d + 6) \div 7 = rule.nth /\ WeekdayOf(y, m, d) = rule.day}

-----------------------------------------------------------------------------
(* nextFireTimes *)

DayKey(x) == (x.year * 100 + x.month) * 100 + x.day

\* daysFrom(): the days from now's on that match, up to the horizon.
DaysFrom(schedule, now) ==
  LET months == ExpandRange(schedule.months.start, schedule.months.end,
                            schedule.months.step, 12) IN
  {x \in UNION {{[year |-> y, month |-> m, day |-> d] :
                   d \in MatchingDays(schedule.days, y, m)} :
                y \in now.year..(now.year + YearsAhead), m \in months} :
     DayKey(x) >= DayKey(now)}

\* Mutation: the time of the first day is held against every day.
TimesAfter_EveryDay(schedule, day, now) == {t \in schedule.times : t > now.time}

\* timesAfter(): every time of a later day, those to come of this one.
TimesAfter(schedule, day, now) ==
  {t \in schedule.times : DayKey(day) = DayKey(now) => t > now.time}

Moment(day, time) == [year |-> day.year, month |-> day.month, day |-> day.day,
                      time |-> time]
Before(x, y) == DayKey(x) < DayKey(y) \/ (DayKey(x) = DayKey(y) /\ x.time < y.time)

\* The first of what is found, earliest first.
NextFireTimes(schedule, now) ==
  LET found == UNION {{Moment(x, t) : t \in TimesAfter(schedule, x, now)} :
                      x \in DaysFrom(schedule, now)}
      nth == [x \in found |-> Cardinality({y \in found : Before(y, x)}) + 1]
      count == IF Cardinality(found) < PreviewCount THEN Cardinality(found)
               ELSE PreviewCount IN
  [i \in 1..count |-> CHOOSE x \in found : nth[x] = i]

-----------------------------------------------------------------------------
\* cronCheck: no expression, no runs.
NextRuns ==
  IF cron.schedule = {} THEN <<>>
  ELSE NextFireTimes(CHOOSE s \in cron.schedule : TRUE, cron.now)

\* What is loaded or typed.
TypeCron(typed) == cron' = [cron EXCEPT !.schedule = typed]

\* The interval of the form: the clock is read again.
ClockRead(t) == Before(cron.now, t) /\ cron' = [cron EXCEPT !.now = t]

CronNext ==
  \/ TypeCron({}) \/ \E s \in Schedules : TypeCron({s})
  \/ \E t \in Clock : ClockRead(t)

CronSpec == CronInit /\ [][CronNext]_cronVars

-----------------------------------------------------------------------------
(***************************************************************************)
(* Properties.  What an expression says, said otherwise than it is         *)
(* computed.                                                               *)
(***************************************************************************)

\* v is met going round from start to end by steps.
OnTheWay(v, start, end, step, max) ==
  LET at == (v + max - start) % max IN
  at % step = 0 /\ at <= (end + max - start) % max

Distance(d, e) == IF d < e THEN e - d ELSE d - e

\* d is the working day of the month that is nearest to `wanted`.
Nearest(y, m, d, wanted) ==
  LET working == {e \in 1..DaysInMonth(y, m) : WeekdayOf(y, m, e) \notin {1, 7}} IN
  d \in working /\ \A e \in working : Distance(d, wanted) <= Distance(e, wanted)

DayHolds(rule, y, m, d) ==
  LET last == DaysInMonth(y, m)
      same == {e \in 1..last : WeekdayOf(y, m, e) = WeekdayOf(y, m, d)} IN
  CASE rule.kind = "monthDays" -> d \in rule.days
    [] rule.kind = "lastDay" ->
         /\ rule.offset < last
         /\ IF rule.weekday THEN Nearest(y, m, d, last - rule.offset)
            ELSE d + rule.offset = last
    [] rule.kind = "nearestWeekday" -> rule.day <= last /\ Nearest(y, m, d, rule.day)
    [] rule.kind = "weekdays" ->
         OnTheWay(WeekdayOf(y, m, d), rule.start, rule.end, 1, 7)
    [] rule.kind = "lastWeekday" ->
         WeekdayOf(y, m, d) = rule.day /\ \A e \in same : e <= d
    [] rule.kind = "nthWeekday" ->
         WeekdayOf(y, m, d) = rule.day /\ Cardinality({e \in same : e < d}) = rule.nth - 1

\* Every moment that schedule s means, after now and within the horizon.
ToCome(s) ==
  LET days == {x \in [year : cron.now.year..(cron.now.year + YearsAhead),
                      month : {m \in 1..12 : OnTheWay(m, s.months.start, s.months.end,
                                                     s.months.step, 12)},
                      day : 1..31] :
                 /\ x.day <= DaysInMonth(x.year, x.month)
                 /\ DayHolds(s.days, x.year, x.month, x.day)} IN
  {x \in {Moment(d, t) : d \in days, t \in s.times} : Before(cron.now, x)}

\* The preview is "the point of the screen" (scheduler-job-form.component.ts:62): what
\* it lists is in order, to come by the clock, meant by the expression, and nothing the
\* expression means is left out before its last entry; it is short only if there is
\* no more.
NextRunsAreNext ==
  \A s \in cron.schedule :
    LET runs == NextRuns
        listed == {runs[i] : i \in DOMAIN runs}
        meant == ToCome(s) IN
    /\ \A i, j \in DOMAIN runs : i < j => Before(runs[i], runs[j])
    /\ listed \subseteq meant
    /\ \A x \in meant \ listed :
         Len(runs) = PreviewCount /\ \A y \in listed : Before(y, x)
=============================================================================
