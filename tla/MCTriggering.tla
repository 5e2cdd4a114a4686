---------------------------- MODULE MCTriggering ----------------------------
EXTENDS TriggeringProperties

\* Every field that is not null is told by its canonical form, which parses back
\* to it (CronField::toString).
ASSUME CanonicalParsesBack ==
  \A min \in 0 .. 1 : \A values \in SUBSET (min .. min + 6) \ {{}} :
    Field(CanonicalField(values, min, min + 6), min, min + 6) = values

\* Two seconds a minute, one minute an hour, one hour a day, weeks of three
\* days, a month of two days and a month of three.
MCMonths == <<2, 3>>
MCShifts == {0, -1}

EverySecond == [seconds |-> Star, minutes |-> Star, hours |-> Star, days |-> Star,
        months |-> Star, daysofweek |-> Star]
Trig(expression, calendar) == [expression |-> expression, calendar |-> calendar]

\* The last day of the longest month; a week day given modulo the week; every
\* two seconds from the first.
MonthEnd == [EverySecond EXCEPT !.seconds = At(1), !.days = At(3), !.months = At(2)]
WeekDay == [EverySecond EXCEPT !.seconds = At(0), !.daysofweek = At(4)]
Often == [EverySecond EXCEPT !.seconds = <<RangeStep(None, None, 2)>>]
FromDayTwo == Calendar(<<Rule(2, None, TRUE)>>)

\* The dates of MonthEnd are too far apart for a timer.
MCConfig ==
  [c1 |-> [t1 |-> [cron |-> <<Trig(WeekDay, <<>>), Trig(Often, <<>>)>>, notices |-> {}],
           t2 |-> [cron |-> <<>>, notices |-> {"n"}]],
   c2 |-> [t1 |-> [cron |-> <<Trig(WeekDay, <<>>)>>, notices |-> {}],
           t3 |-> [cron |-> <<Trig(MonthEnd, FromDayTwo)>>, notices |-> {}]]]

-----------------------------------------------------------------------------
\* The search with all its units: the date it returns is the least one that the
\* trigger names, wherever it starts (CronTriggerData::nextTriggering).
Clock == INSTANCE Cron WITH SecondsPerMinute <- 2, MinutesPerHour <- 2, HoursPerDay <- 2

Every == [seconds |-> 0 .. 1, minutes |-> 0 .. 1, hours |-> 0 .. 1, days |-> 1 .. 3,
          months |-> 1 .. 2, daysofweek |-> 0 .. 2]
Crons ==
  {[Every EXCEPT !.seconds = {s}, !.minutes = {m}, !.hours = h, !.days = d, !.months = n, !.daysofweek = w] :
     s \in 0 .. 1, m \in 0 .. 1, h \in {{1}, 0 .. 1}, d \in {{2}, {3}, 1 .. 3}, n \in {{2}, 1 .. 2},
     w \in {{1}, 0 .. 2}}

ASSUME SearchIsExact ==
  \A cron \in Crons, base \in 0 .. 40 :
    LET dates == {t \in base + 1 .. base + 160 : Clock!IsTriggering(cron, <<>>, t)}
    IN Clock!NextTriggering(cron, <<>>, base, base + 160) =
         IF dates = {} THEN None ELSE CHOOSE t \in dates : \A u \in dates : t <= u

ASSUME ProofHypotheses == AlwaysDated /\ SetBack
=============================================================================
