SPECIFICATION TriggeringSpec
CONSTANTS
  SecondsPerMinute = 2
  MinutesPerHour = 1
  HoursPerDay = 1
  DaysPerWeek = 3
  MonthLengths <- MCMonths
  Config <- MCConfig
  Notices = {"n"}
  IntMax = 7
  Horizon = 25
  StartTime = 12
  MaxTime = 19
  Period = 2
  MaxLag = 1
  MaxRequests = 3
  Switched = {"t1"}
  Shifts <- MCShifts
INVARIANTS NextIsNextDate TimerAwaitsDate DatesAreTriggered
PROPERTIES FiresWhenDue
CHECK_DEADLOCK FALSE
