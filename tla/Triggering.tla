------------------------------ MODULE Triggering ------------------------------
(***************************************************************************)
(* How the scheduler plans tasks on their cron and notice triggers.        *)
(*                                                                         *)
(* A task is checked when a one-shot timer of its own ends, when all tasks *)
(* are checked after a configuration was activated, and periodically.      *)
(* Configurations stay in the repository and can be activated again: the   *)
(* cron triggers of their tasks, with the dates they cache, are shared by  *)
(* every copy of the configuration, while the live data of a task are      *)
(* copied from the task of the same id of the previous configuration when  *)
(* there is one, and are those of the repository when there is none.       *)
(***************************************************************************)
EXTENDS Cron

CONSTANTS
  Config,        \* for each configuration, its tasks: their cron and notice triggers
  Notices,
  IntMax,        \* the longest time of a timer
  Horizon,       \* how far a next date is searched
  StartTime, MaxTime,   \* bounds on the clock
  Period,        \* of the periodic checks
  MaxLag,        \* bound on how late the event loop delivers a timer
  MaxRequests,   \* bound on the activations and switches of tasks
  Shifts,        \* by how much the system time may have been changed
  Switched       \* tasks that are enabled and disabled one by one

ConfigIds == DOMAIN Config
TasksOf(c) == DOMAIN Config[c]
Tasks == UNION {TasksOf(c) : c \in ConfigIds}
TasksInOrder == [c \in ConfigIds |-> SetToSeq(TasksOf(c))]
NoConfigId == ""

\* The cron triggers in memory.
Triggers ==
  UNION {UNION {{c} \X {t} \X DOMAIN Config[c][t].cron : t \in TasksOf(c)} : c \in ConfigIds}
Cron == [x \in Triggers |-> Parse(Config[x[1]][x[2]].cron[x[3]].expression)]
CanonicalOf == [x \in Triggers |-> Canonical(Cron[x])]
CalendarOf == [x \in Triggers |-> Config[x[1]][x[2]].cron[x[3]].calendar]

\* The results of the search, tabulated: the next date of a trigger after base
\* at a given time.
Times == 0 .. MaxTime + Greatest(Shifts)
NextAfter == [x \in Triggers |-> [base \in Times |-> [now \in Times |->
                NextTriggering(Cron[x], CalendarOf[x], base, now + Horizon)]]]

\* An invalid cron trigger makes the configuration reject its task.
ASSUME TriggersAssumption ==
  /\ \A x \in Triggers : IsValid(Cron[x])
  /\ NoConfigId \notin ConfigIds
  /\ \A c \in ConfigIds : /\ IsFiniteSet(TasksOf(c))
                         /\ \A t \in TasksOf(c) : LET cron == Config[c][t].cron
                                                 IN cron \in Seq(Range(cron))
ASSUME ClockAssumption ==
  /\ {IntMax, Horizon, StartTime, MaxTime, Period, MaxLag, MaxRequests} \subseteq Nat
  /\ StartTime <= MaxTime
  /\ 0 \in Shifts /\ \A s \in Shifts : s \in Int /\ StartTime + s >= 0
  /\ \E m \in Shifts : \A s \in Shifts : s <= m

VARIABLES
  clock,         \* the steady clock timers rely on
  shift,         \* the system time is the clock plus this shift
  active,        \* the active configuration
  last, next,    \* _lastTriggered and _nextTriggering of each cron trigger
  repository,    \* the data of the tasks of the configurations, as loaded
  copies,        \* the data of the active tasks that have been copied
  timers,        \* pending timers: a task and the date of the clock they end at
  periodicCheck, \* when the periodic timer ends
  checkQueued,   \* a check of all tasks is queued on the event loop
  requests,      \* how many activations and switches there were
  planned        \* what the last step planned: tasks and the trigger that did it

triggerVars == <<last, next, repository, copies, timers>>
triggeringVars == <<clock, shift, active, triggerVars, periodicCheck, checkQueued, requests, planned>>

Now == clock + shift
NoCopy == [enabled |-> FALSE, nextExecution |-> None, copied |-> FALSE]
NewData == [enabled |-> TRUE, nextExecution |-> None, copied |-> FALSE]
ActiveTasks == IF active = NoConfigId THEN {} ELSE TasksOf(active)
IsActive(x) == x[1] = active

TriggeringInit ==
  /\ clock = StartTime /\ shift = 0
  /\ active = NoConfigId
  /\ last = [x \in Triggers |-> None]
  /\ next = [x \in Triggers |-> None]
  /\ repository = [c \in ConfigIds |-> [t \in TasksOf(c) |-> NewData]]
  /\ copies = [t \in Tasks |-> NoCopy]
  /\ timers = {} /\ periodicCheck = clock + Period /\ checkQueued = FALSE /\ requests = 0 /\ planned = {}

\* The trigger state as a value, and the data of an active task in it.
Current == [last |-> last, next |-> next, repository |-> repository, copies |-> copies,
            timers |-> timers, planned |-> {}]
Becomes(s) ==
  /\ last' = s.last /\ next' = s.next /\ repository' = s.repository /\ copies' = s.copies
  /\ timers' = s.timers /\ planned' = s.planned

DataOf(s, t) == IF s.copies[t].copied THEN s.copies[t] ELSE s.repository[active][t]
SetData(s, t, data) ==
  IF s.copies[t].copied THEN [s EXCEPT !.copies[t] = data]
                        ELSE [s EXCEPT !.repository[active][t] = data]
SetNextExecution(s, t, date) == SetData(s, t, [DataOf(s, t) EXCEPT !.nextExecution = date])

\* Mutant: the cached date survives the last triggering.
KeepingNext(s, x, date) == [s EXCEPT !.last[x] = date]

\* Mutant: the search always starts now.
NextDateFromNow(s, x) == IF s.next[x] # None THEN s.next[x] ELSE NextAfter[x][Now][Now]

\* nextTriggering(): from the cache, else from the last triggering or from now.
NextDate(s, x) ==
  IF s.next[x] # None THEN s.next[x]
  ELSE NextAfter[x][IF s.last[x] # None THEN s.last[x] ELSE Now][Now]
Cached(s, x) == [s EXCEPT !.next[x] = NextDate(s, x)]

\* setLastTriggered() also forgets the cached date.
SetLastTriggered(s, x, date) == [s EXCEPT !.last[x] = date, !.next[x] = None]

\* planTask() plans nothing when the task is disabled.
PlanTask(s, t, cause) ==
  IF DataOf(s, t).enabled THEN [s EXCEPT !.planned = @ \cup {<<t, cause>>}] ELSE s

Reached(date) == date <= Now   \* an invalid date is before any other
Trigger(s, x) == Cached(SetLastTriggered(PlanTask(s, x[2], x), x, Now), x)

\* Mutant: a check planned for any date will do.
AnyPlanned(s, x) == DataOf(s, x[2]).nextExecution > Now

\* A timer for that date, or earlier, was already planned.
AlreadyPlanned(s, x) ==
  LET date == DataOf(s, x[2]).nextExecution
  IN date # None /\ date <= s.next[x] /\ date > Now

PlanCheck(s, x) ==
  LET ms == s.next[x] - Now
      due == clock + (IF ms < IntMax THEN ms ELSE IntMax)
  IN IF s.next[x] = None THEN SetNextExecution(s, x[2], None)
     ELSE SetNextExecution([s EXCEPT !.timers = @ \cup {<<x[2], due>>}], x[2], s.next[x])

CheckTrigger(s, x) ==
  LET known == Cached(s, x)
  IN IF Reached(known.next[x]) THEN PlanCheck(Trigger(known, x), x)
     ELSE IF AlreadyPlanned(known, x) THEN known
     ELSE PlanCheck(known, x)

CheckTriggersForTask(s, t) ==
  LET count == Len(Config[active][t].cron)
      after[k \in 0 .. count] ==
        IF k = 0 THEN s ELSE CheckTrigger(after[k - 1], <<active, t, k>>)
  IN IF t \notin ActiveTasks THEN s ELSE after[count]

CheckTask(s, t) ==
  IF Config[active][t].cron = <<>> THEN SetNextExecution(s, t, None) ELSE CheckTriggersForTask(s, t)

CheckTriggersForAllTasks(s) ==
  LET order == TasksInOrder[active]
      after[k \in 0 .. Len(order)] == IF k = 0 THEN s ELSE CheckTask(after[k - 1], order[k])
  IN after[Len(order)]

-----------------------------------------------------------------------------
\* The event loop is late by at most MaxLag, and by less than a second for an
\* event that is already queued.
Tick ==
  /\ clock < MaxTime
  /\ ~checkQueued /\ clock - periodicCheck < MaxLag
  /\ \A timer \in timers : clock - timer[2] < MaxLag
  /\ clock' = clock + 1 /\ planned' = {}
  /\ UNCHANGED <<shift, active, triggerVars, periodicCheck, checkQueued, requests>>

\* The system time is changed, once.
ChangeTime ==
  /\ shift = 0
  /\ shift' \in Shifts \ {0} /\ planned' = {}
  /\ UNCHANGED <<clock, active, triggerVars, periodicCheck, checkQueued, requests>>

TimerEnds ==
  \E timer \in timers :
    /\ timer[2] <= clock
    /\ Becomes(CheckTriggersForTask([Current EXCEPT !.timers = @ \ {timer}], timer[1]))
    /\ UNCHANGED <<clock, shift, active, periodicCheck, checkQueued, requests>>

QueuedCheck ==
  /\ checkQueued /\ checkQueued' = FALSE
  /\ Becomes(CheckTriggersForAllTasks(Current))
  /\ UNCHANGED <<clock, shift, active, periodicCheck, requests>>

\* Mutant: the periodic checks end without checking triggers.
PeriodicChecksOnly ==
  /\ periodicCheck <= clock /\ periodicCheck' = clock + Period
  /\ Becomes(Current)
  /\ UNCHANGED <<clock, shift, active, checkQueued, requests>>

PeriodicChecks ==
  /\ periodicCheck <= clock /\ periodicCheck' = clock + Period
  /\ IF active = NoConfigId THEN Becomes(Current) ELSE Becomes(CheckTriggersForAllTasks(Current))
  /\ UNCHANGED <<clock, shift, active, checkQueued, requests>>

\* The live data of an active task that has a task of the same id in the old
\* configuration: its own, as loaded, but for the ones that are copied.
CopiedTask(c, t) ==
  [repository[c][t] EXCEPT !.enabled = DataOf(Current, t).enabled, !.copied = TRUE]

\* The old trigger with the same canonical expression, the last one when there
\* are several.
SameTrigger(x) ==
  LET same == {k \in DOMAIN Config[active][x[2]].cron : CanonicalOf[<<active, x[2], k>>] = CanonicalOf[x]}
  IN IF same = {} THEN {} ELSE {<<active, x[2], Greatest(same)>>}

CopyLiveAttributes(c) ==
  LET kept == {x \in Triggers : x[1] = c /\ x[2] \in ActiveTasks /\ SameTrigger(x) # {}}
      old(x) == CHOOSE y \in SameTrigger(x) : TRUE
  IN /\ copies' = [t \in Tasks |-> IF t \in TasksOf(c) \cap ActiveTasks THEN CopiedTask(c, t) ELSE NoCopy]
     /\ last' = [x \in Triggers |-> IF x \in kept THEN last[old(x)] ELSE last[x]]
     /\ next' = [x \in Triggers |-> IF x \in kept THEN None ELSE next[x]]

Request == requests < MaxRequests /\ requests' = requests + 1

ActivateTriggers(c) ==
  /\ CopyLiveAttributes(c)
  /\ Request
  /\ active' = c
  /\ checkQueued' = TRUE /\ planned' = {}
  /\ UNCHANGED <<clock, shift, repository, timers, periodicCheck>>

\* Each notice trigger of a task plans it.
PostNotice(n) ==
  /\ active # NoConfigId
  /\ planned' = {<<t, <<n>>>> : t \in {t \in ActiveTasks : /\ n \in Config[active][t].notices
                                                         /\ DataOf(Current, t).enabled}}
  /\ UNCHANGED <<clock, shift, active, triggerVars, periodicCheck, checkQueued, requests>>

EnableTask(t, enable) ==
  /\ Request
  /\ t \in ActiveTasks
  /\ Becomes(SetData(Current, t, [DataOf(Current, t) EXCEPT !.enabled = enable]))
  /\ UNCHANGED <<clock, shift, active, periodicCheck, checkQueued>>

EnableAllTasks(enable) ==
  /\ Request
  /\ active # NoConfigId
  /\ LET switched(data) == [data EXCEPT !.enabled = enable]
         loaded == repository[active]
     IN /\ copies' = [t \in Tasks |-> IF copies[t].copied THEN switched(copies[t]) ELSE copies[t]]
        /\ repository' = [repository EXCEPT ![active] =
             [t \in TasksOf(active) |-> IF copies[t].copied THEN loaded[t] ELSE switched(loaded[t])]]
  /\ planned' = {}
  /\ UNCHANGED <<clock, shift, active, last, next, timers, periodicCheck, checkQueued>>

TriggeringNext ==
  \/ Tick \/ ChangeTime
  \/ TimerEnds \/ QueuedCheck \/ PeriodicChecks
  \/ \E c \in ConfigIds : ActivateTriggers(c)
  \/ \E n \in Notices : PostNotice(n)
  \/ \E t \in Switched, enable \in BOOLEAN : EnableTask(t, enable)
  \/ \E enable \in BOOLEAN : EnableAllTasks(enable)

TriggeringSpec == TriggeringInit /\ [][TriggeringNext]_triggeringVars
==============================================================================
