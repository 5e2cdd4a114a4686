--------------------------------- MODULE Cron ---------------------------------
(***************************************************************************)
(* Cron expressions and calendars: which dates a cron trigger names, and   *)
(* the search for the next one.  The lengths of the units are constants,   *)
(* so that the ends of minutes, hours, days, months and years all happen   *)
(* in a few dozen seconds; dates are counted in seconds, in UTC.           *)
(***************************************************************************)
EXTENDS Integers, Sequences, FiniteSets, SequencesExt

CONSTANTS
  SecondsPerMinute, MinutesPerHour, HoursPerDay, DaysPerWeek,
  MonthLengths   \* the number of days of each month of a year

ASSUME UnitsAssumption ==
  /\ {SecondsPerMinute, MinutesPerHour, HoursPerDay, DaysPerWeek} \subseteq Nat \ {0}
  /\ MonthLengths \in Seq(Nat \ {0}) /\ Len(MonthLengths) > 0

\* The value of a missing number in an expression, and of an invalid date.
None == -1

Greatest(S) == CHOOSE x \in S : \A y \in S : y <= x

SecondsPerHour == SecondsPerMinute * MinutesPerHour
SecondsPerDay == SecondsPerHour * HoursPerDay
Months == DOMAIN MonthLengths
DaysBefore[m \in 1 .. Len(MonthLengths) + 1] ==
  IF m = 1 THEN 0 ELSE DaysBefore[m - 1] + MonthLengths[m - 1]
DaysPerYear == DaysBefore[Len(MonthLengths) + 1]

Day(t) == t \div SecondsPerDay
Month(day) == Greatest({m \in Months : DaysBefore[m] <= day % DaysPerYear})
DayOfMonth(day) == 1 + (day % DaysPerYear) - DaysBefore[Month(day)]
DayOfWeek(day) == day % DaysPerWeek
Hour(t) == (t % SecondsPerDay) \div SecondsPerHour
Minute(t) == (t % SecondsPerHour) \div SecondsPerMinute
Second(t) == t % SecondsPerMinute

\* A calendar is the sequence of its rules; a bound that is None is infinite.
Rule(begin, end, include) == [begin |-> begin, end |-> end, include |-> include]
Always(include) == Rule(None, None, include)

\* The calendar of a sequence of written rules: when they all include, the
\* remaining days are excluded, unless the last rule already includes them all.
Calendar(rules) ==
  IF rules # <<>> /\ rules[Len(rules)] # Always(TRUE) /\ \A i \in DOMAIN rules : rules[i].include
    THEN Append(rules, Always(FALSE))
    ELSE rules

\* The first rule whose two bounds are not after the day decides: the end of
\* a rule is compared the wrong way.
IsIncluded(calendar, day) ==
  LET matching == {i \in DOMAIN calendar :
                     /\ calendar[i].begin # None => calendar[i].begin <= day
                     /\ calendar[i].end # None => calendar[i].end <= day}
  IN IF matching = {} THEN calendar = <<>>
     ELSE calendar[CHOOSE i \in matching : \A j \in matching : i <= j].include

\* A step of a field is written start-stop/modulo, each part being optional; it
\* is ignored when one of its bounds is out of the range of the field.
RangeStep(start, stop, modulo) == [start |-> start, stop |-> stop, modulo |-> modulo]
Star == <<RangeStep(None, None, None)>>
At(n) == <<RangeStep(n, None, None)>>

StopOf(step) == IF step.stop # None THEN step.stop
                ELSE IF step.modulo = None THEN step.start ELSE None

StepValues(start, stop, modulo, min, max) ==
  LET first == IF start = None THEN min ELSE start
      final == IF stop = None THEN max ELSE stop
      stride == IF modulo < 1 THEN 1 ELSE modulo
  IN IF first \in min .. max /\ final \in min .. max
       THEN {i \in first .. final : (i - first) % stride = 0}
       ELSE {}

Field(steps, min, max) ==
  UNION {StepValues(steps[i].start, StopOf(steps[i]), steps[i].modulo, min, max) : i \in DOMAIN steps}

\* Days of week are taken modulo the length of the week.
Wrapped(n) == IF n = None THEN None ELSE n % DaysPerWeek
WeekField(steps) ==
  UNION {StepValues(Wrapped(steps[i].start), Wrapped(StopOf(steps[i])), steps[i].modulo,
                    0, DaysPerWeek - 1) : i \in DOMAIN steps}

\* A parsed expression.
Parse(e) ==
  [seconds |-> Field(e.seconds, 0, SecondsPerMinute - 1),
   minutes |-> Field(e.minutes, 0, MinutesPerHour - 1),
   hours |-> Field(e.hours, 0, HoursPerDay - 1),
   days |-> Field(e.days, 1, Greatest({MonthLengths[m] : m \in Months})),
   months |-> Field(e.months, 1, Len(MonthLengths)),
   daysofweek |-> WeekField(e.daysofweek)]

IsValid(cron) == \A field \in DOMAIN cron : cron[field] # {}

\* The canonical form of a field: a star, or its runs of consecutive values.
CanonicalField(values, min, max) ==
  LET ends(first) == {n \in values : n >= first /\ first .. n \subseteq values}
      starts == {n \in values : n - 1 \notin values}
      run(first) == RangeStep(first, IF ends(first) = {first} THEN None ELSE Greatest(ends(first)), None)
      sorted == SetToSortSeq(starts, LAMBDA x, y : x < y)
  IN IF values = min .. max THEN Star ELSE [i \in DOMAIN sorted |-> run(sorted[i])]

Canonical(cron) ==
  [seconds |-> CanonicalField(cron.seconds, 0, SecondsPerMinute - 1),
   minutes |-> CanonicalField(cron.minutes, 0, MinutesPerHour - 1),
   hours |-> CanonicalField(cron.hours, 0, HoursPerDay - 1),
   days |-> CanonicalField(cron.days, 1, Greatest({MonthLengths[m] : m \in Months})),
   months |-> CanonicalField(cron.months, 1, Len(MonthLengths)),
   daysofweek |-> CanonicalField(cron.daysofweek, 0, DaysPerWeek - 1)]

DayMatches(cron, calendar, day) ==
  /\ DayOfMonth(day) \in cron.days
  /\ DayOfWeek(day) \in cron.daysofweek
  /\ IsIncluded(calendar, day)

IsTriggering(cron, calendar, t) ==
  /\ Month(Day(t)) \in cron.months
  /\ DayMatches(cron, calendar, Day(t))
  /\ Hour(t) \in cron.hours
  /\ Minute(t) \in cron.minutes
  /\ Second(t) \in cron.seconds

\* The search: from the second that follows base, skip to the start of the next
\* month, day, hour, minute or second as long as that field is not set.
StartOfNextMonth(day) ==
  (day - (day % DaysPerYear) + DaysBefore[Month(day) + 1]) * SecondsPerDay

NextTriggering(cron, calendar, base, max) ==
  LET search[t \in Nat] ==
        IF t > max THEN None
        ELSE IF Month(Day(t)) \notin cron.months THEN search[StartOfNextMonth(Day(t))]
        ELSE IF ~DayMatches(cron, calendar, Day(t)) THEN search[(Day(t) + 1) * SecondsPerDay]
        ELSE IF Hour(t) \notin cron.hours THEN search[(t \div SecondsPerHour + 1) * SecondsPerHour]
        ELSE IF Minute(t) \notin cron.minutes THEN search[(t \div SecondsPerMinute + 1) * SecondsPerMinute]
        ELSE IF Second(t) \notin cron.seconds THEN search[t + 1]
        ELSE t
  IN IF IsValid(cron) THEN search[base + 1] ELSE None
==============================================================================
