------------------------- MODULE TriggeringProperties -------------------------
EXTENDS Triggering

IsDate(x, u) == IsTriggering(Cron[x], CalendarOf[x], u)

\* The types of the variables, with the live data of active tasks only.
TriggeringTypeOK ==
  /\ clock \in StartTime .. MaxTime /\ shift \in Shifts
  /\ active \in ConfigIds \cup {NoConfigId}
  /\ \A x \in Triggers : last[x] \in Nat \cup {None} /\ next[x] \in Nat \cup {None}
  /\ timers \subseteq Tasks \X Nat
  /\ \A t \in Tasks : copies[t].copied => t \in ActiveTasks

\* The cached date is the next one: a date of the trigger, later than the last
\* time it was triggered, with none between.  nextTriggering() finds it by
\* skipping months, days, hours, minutes and seconds.
NextIsNextDate ==
  \A x \in Triggers : next[x] # None =>
    /\ IsDate(x, next[x])
    /\ last[x] # None => \A u \in last[x] + 1 .. next[x] - 1 : ~IsDate(x, u)

\* checkTrigger() plans no new timer when one is planned at the date announced
\* for the task, and timers survive the configuration that planned them: as
\* long as the system time is not changed and the dates are close enough for a
\* timer, each known date of an active trigger has a timer to notice it.
Frequent == {t \in Tasks :
  \A x \in Triggers : x[2] = t => \A u \in StartTime .. MaxTime :
    \E v \in u + 1 .. u + IntMax - 1 : IsDate(x, v)}

TimerAwaitsDate ==
  shift = 0 => \A x \in Triggers :
    IsActive(x) /\ next[x] # None /\ x[2] \in Frequent =>
      checkQueued \/ \E timer \in timers : timer[1] = x[2] /\ timer[2] <= next[x]

\* A cron trigger plans its task only when one of its dates was reached since
\* it was last triggered, so that no date is triggered twice, whatever the
\* configurations activated meanwhile and the changes of the system time.
FiresWhenDue ==
  [][\A x \in Triggers : <<x[2], x>> \in planned' =>
       \E u \in last[x] + 1 .. Now : IsDate(x, u) /\ last'[x] >= u]_triggeringVars

\* A date of an active cron trigger is triggered soon after it is reached, or
\* forgotten with its configuration: the next date a trigger waits for is never
\* more than a period of the checks in the past, even when it is too far for a
\* timer or the system time was set back.  (A trigger of a configuration that
\* was just activated again is about to be checked.)
DatesAreTriggered ==
  \A x \in Triggers : IsActive(x) /\ next[x] # None /\ ~checkQueued =>
    Now - next[x] <= Period + MaxLag

\* Hypotheses: the search always finds a date, whenever the trigger was triggered
\* last, and the system time is only set back.
AlwaysDated ==
  \A x \in Triggers, s \in Shifts : \A base, now \in Times :
    base + s <= now => NextAfter[x][base][now] # None
SetBack == \A s \in Shifts : s <= 0
==============================================================================
