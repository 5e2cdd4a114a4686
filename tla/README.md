# A TLA+ model of libqron

libqron is the library behind the qron job scheduler: it plans *task instances*,
queues them, starts them on hosts with a bounded pool of *executors*, lets them
plan further instances in their *herd* (workflow), and raises *alerts*. This
directory is a verification project for that code: TLA+ modules translated from
the C++ sources, TLC runs that check them on small configurations, and proofs,
checked by TLAPS, that the most important properties hold for every
configuration. `src/` stands for the root of the repository; `scheduler.cpp:999`
means line 999 of `src/sched/scheduler.cpp`.

1. [Inventory](#1-inventory)
2. [Modules, and how they correspond to the code](#2-modules-and-how-they-correspond-to-the-code)
3. [Runs](#3-runs)
4. [Proofs](#4-proofs)
5. [What the code was found to do](#5-what-the-code-was-found-to-do)
6. [Not modelled](#6-not-modelled)
7. [Plan](#7-plan)

To check a run, `tlc -config Lone.cfg MCScheduler.tla`; to check the proofs of a
module, `tlapm SchedulerProofs.tla`.

## 1. Inventory

The repository has about 14,500 lines of C++ and 4,500 of headers. Its core logic
is in `src/sched` (scheduler, executors, instances), `src/condition`, `src/alert`,
`src/config`, `src/configmgt` and `src/trigger`.

Threads: the **scheduler**, the **alerter**, the **mail channel** and each
**executor** live in a `QThread` of their own with an event loop; gridboards are
updated by one thread and read by any. They call each other by queued signals and
posted lambdas (first in, first out between two threads), by direct reads of
implicitly shared objects (`TaskInstance`, `Task`, `Host`), whose setters are
atomic, and by two bounded circular buffers (alerter to gridboards, output of tasks
to event threads).

### Components

| component | state | operations | modelled |
|---|---|---|---|
| **Scheduler** (`src/sched/scheduler.cpp`) | unfinished instances, three indexes of herds, dirty herds, executor pool, consumed resources, shutdown flag | plan, enqueue and deduplicate, evaluate conditions, start, cancel, abort, finish, enable, shut down, check triggers, activate a configuration | partly: `Scheduler`, `Triggering` |
| **Task instances** (`taskinstance.cpp`) | four timestamps, success, target, herd, children, conditions | setters called by the scheduler thread and by executor threads; derived `status()` | partly: `TaskInstance`, `HerdDiagram` |
| **Task wait conditions** (`src/condition`) | none (pure) | count watched instances, evaluate an operator, guess the conjugate operator | partly: `TaskWaitCondition`, `TaskWait` |
| **Executor** (`executor.cpp`) | current instance, remaining tries, abort flags, two timers, process, reply | execute, try, pause, abort, poll status, end of process or reply, stop | partly: `Executor`; seen from the scheduler, inside `Scheduler` |
| **Event thread** (`eventthread.cpp`) | bounded circular buffer | match output lines with subscriptions, emit | no |
| **Host monitor** (`hostmonitor.cpp`) | availability of hosts, processes of checks | periodic health checks with a timeout | `Configuration`; seen from the scheduler, inside `Scheduler` |
| **Actions, event subscriptions** (`src/action`, `eventsubscription.cpp`) | none | `plantask`, `emitalert`, `paramset`... | partly: `plantask`, inside `Scheduler`; what is read and written, in `ConfigDocument` |
| **Task, host, cluster configuration** (`src/config`) | enabled flag, counts, attributes | reading, inheritance, live setters, edits, writing | partly: `ConfigDocument`, `Configuration`, `Scheduler`, `Triggering` |
| **Scheduler configuration** (`schedulerconfig.cpp`, `qronconfigdocumentmanager.cpp`) | items by id, foreign keys | read, activate, edit item by item, write | partly: `ConfigDocument`, `Configuration` |
| **Diagrams** (`diagramsbuilder.cpp`) | none | draw a configuration, or a herd | partly: `Diagrams`, `HerdDiagram` |
| **Alerter** (`alerter.cpp`) | stateful alerts and their dates, one-shot aggregation | raise, cancel (immediately or not), emit, ten-second batch | partly: `Alerter` |
| **Mail channel** (`mailalertchannel.cpp`) | a queue by address, reminders, timers | collect, send, try again, remind, new configuration | `MailAlertChannel` |
| **Other channels** | none | send at once | what they are told: `AlertChannelView` |
| **Gridboards** (`gridboard.cpp`) | buffer of updates, forest of components, indexes | update, merge, clear, copy, render | partly: `Gridboard`; the buffer, inside `Alerter` |
| **Alert configuration** (`alerterconfig.cpp`...) | none | settings and subscriptions of an alert | partly: constants of `Alerter` and `MailAlertChannel` |
| **Configuration repository** (`src/configmgt`) | files, active id, history | open, add, activate, remove | partly: `ConfigRepository` |
| **Triggers, calendars** (`src/trigger`, `calendar.cpp`) | last and next triggering | parse, compute the next triggering | partly: `Cron`, `Triggering` |
| **User interface models** (`src/ui`) | mirrors for display | | partly: the list of configurations, inside `ConfigRepository` |
| Request forms, log files, access control, `src/sysutil` | none | validation, input and output | no |

### How they interact

* A trigger, a user or an action asks the scheduler to plan a task. `planTask()`
  creates an instance, in the herd of its parent or alone in its own, with a
  `queuewhen` and a `cancelwhen` condition on other instances of the herd, and
  triggers its `onplan` actions, which may plan further instances.
* When `queuewhen` is met, the instance is enqueued: the scheduler cancels older
  or newer queued duplicates, or the instance itself. When `cancelwhen` is met it
  is canceled. A posted, coalesced event then makes the scheduler go through the
  queued instances in order and start those that it can: enabled task, a
  free executor, `maxinstances`, an available host with enough resources.
* The executor runs the tries of the instance in its own thread, writes the
  timestamps and the success of the *shared* instance, and signals the stop to
  the scheduler, which gives the executor back to the pool, triggers the finish
  actions, and either finishes the instance or, for a herder, leaves it *waiting*
  for its herd.
* The scheduler emits and raises alerts (an instance fails, an executor or a
  resource lacks...). The alerter delays and aggregates them, tells channels
  directly and gridboards through a buffer. The mail channel collects what it is
  told into one mail by address.
* The document manager holds the configuration that is edited. Its database checks
  foreign keys and triggers; activating a configuration gives it to the scheduler,
  the host monitor and the alerter, and copies what lives in the items (enabled
  flags, last triggerings, availability of hosts) from the former one.
* The repository keeps the configurations on disk. The diagrams read, from another
  thread, the configuration being edited and the instances of a herd.

### What is hard, and what makes each component correct

| component | hard behaviours | correct when |
|---|---|---|
| Scheduler | handlers that call each other recursively on shared indexes; timestamps written by executor threads between any two steps; coalesced and lost wake-ups; cancelations and aborts at any moment; shutdown in a nested event loop | limits are kept and counters exact; no executor lost or given twice; a herder ends after its herd, with the success its policy says; statuses only move along the documented edges; whatever may start or be decided is reevaluated; everything ends |
| Wait conditions | 23 operators written by hand, their conjugates guessed through a table | a condition and its conjugate exclude each other, a verdict is final, one of the two comes |
| Executor | a nested event loop in the pause between tries; ends of processes that are not attributed to a process; crashes signaled twice; timers and aborts that outlive their instance | each instance is executed alone and told once to have stopped, never tried once aborted, never succeeds by the deed of another |
| Alerter | delays checked by a batch every ten seconds, with requests in between; containers changed while iterated; a full buffer | notices alternate, none comes before its delay, each comes in the end, no emission is lost |
| Gridboards | trees merged in place while a copy is rendered; indexes redirected level by level | one tree for each connected component, found by its indexes; each item is shown once, with its last status |
| Mail channel | mails refused, timers that are lost or outlive their queue, addresses that come and go | every notice leaves in one mail, in order, in the end; mails to an address are far enough apart |
| Configuration repository | several files written one after the other, and tidied up at start | after a crash, or when files cannot be tidied up, files, memory and the interface agree, and each operation happened completely or not at all |
| Triggers | ends of months, calendars, cached dates, timers that outlive the configuration that planned them, a clock that jumps | the next triggering is the first date that matches; every date is triggered, once, soon |
| Configuration and edits | copies of an item inside others, renamed keys, a writer and a reader that do not mirror each other | references are followed; what is written is read back |
| Diagrams | several passes, each with its own rules; instances that go on meanwhile | both ends of an edge are drawn; what triggers or is awaited is shown; nothing is missing of a herd that grows while it is drawn |

The hazards are listed one by one, each at the line where it bites and with the
properties that watch it, in `PROJECT.json`.

## 2. Modules, and how they correspond to the code

`PROJECT.json` maps every definition that models code to the lines it models.

| module | what it is |
|---|---|
| `TaskWaitCondition` | the operators of `queuewhen` and `cancelwhen`, the counters they are evaluated on, and the table of conjugates, as pure operators |
| `TaskWait` | one instance waiting for a set of others, evaluated now and then |
| `TaskInstance` | the instances: what identifies them, the timestamps, `Status` |
| `Scheduler`, `SchedulerProperties` | the scheduler thread, its events, the executors as it sees them, operators |
| `HerdDiagram` | the diagram of a herd, drawn by another thread while `Scheduler` goes on |
| `ExecutorView` | what an executor promises to the scheduler |
| `Executor`, `ExecutorProperties` | the executor thread, its processes and replies, the part of the scheduler that drives it |
| `Cron` | cron expressions, calendars, and the search for the next triggering, as pure operators |
| `Triggering`, `TriggeringProperties` | the checks of triggers, their timers, caches and configurations |
| `AlertChannelView` | what a channel is told about a stateful alert |
| `Alerter`, `AlerterProperties` | the alerter thread, its batch, the buffer of the gridboard thread |
| `MailView` | what the mail channel promises |
| `MailAlertChannel`, `MailProperties` | its queues and timers |
| `GridboardView` | what a gridboard promises to its readers |
| `Gridboard`, `GridboardProperties` | the forest of a gridboard, its copies and tables |
| `RepositoryView` | what a configuration repository promises |
| `ConfigRepository` | its files, memory and operations |
| `ConfigDocument` | reading a configuration from a document and writing it, as pure operators |
| `Configuration`, `ConfigurationProperties` | activation, edits, health checks of hosts |
| `Diagrams` | the three diagrams of a configuration, as pure operators |
| `MC*` | the constants of the runs; `MCHerd` composes `MCScheduler` and `HerdDiagram`, with a bound on when diagrams are drawn |
| `*Proofs` | theorems and their proofs |

`Scheduler` extends `TaskInstance`, which extends `TaskWaitCondition`. The
`Executor` module stands beside the scheduler: `Scheduler` only knows that a
started instance stops at some time, once (`ExecutorStop`), and that is what
`Executor` is shown to implement (`ExecutorView`). In the same way `Alerter`
implements the `AlertChannelView` that `MailAlertChannel` starts from: an alert is
raised, then canceled, then raised again. `Triggering` and `Scheduler` meet at
`planTask()`, which the former records and the latter takes as a request.

Definitions whose comment begins with *Mutant* are not part of any model: each
is the plausible bug that shows that a property can fail (section 3).

### Wait conditions

`Counters` counts the watched instances by status, as `evaluate()` does, and
`EvaluateCounters` applies one of the 23 operators to the five counters.
`CancelOperatorFromQueueOperator` is the table of conjugates, row by row that of
the source; `Meaning` says of the instances themselves what each operator's name
says. In
`TaskWait` statuses advance one at a time along the graph of statuses and the
waiting instance may be evaluated at any moment, or much later, as the
scheduler coalesces reevaluations.

### Task instances

A record `info[i]` holds what never changes (task, herd, `force`, conditions,
watched tasks). The four timestamps are the sets `queue`, `start`, `stop` and
`finish` of the instances that have them; `Status` is derived from them as
`TaskInstance::status()` does. Executor threads set the stop timestamp and the
success, the scheduler thread all others. Ids come in order: `newId()` counts,
and its wrap at 10,000 is not modelled.

### Scheduler

The thread handles one event to its end before the next, but its functions call
each other recursively, and executor threads write into the instances they read.
The thread is therefore modelled by its **call stack**: `stack` is a sequence of
frames, one for each call that has still to be done, `Step` does the call on top
and replaces it by the calls it makes, in order. Executors may
act between any two steps, and so may those who enable tasks or change hosts;
other requests are events. Functions in which a call comes in the middle are
split at the call: `taskInstanceStoppedOrCanceled()` is the frames `stopped`, then
`settle` or `herded`, `taskInstanceFinishedOrCanceled()` is `finish`, then
`forget`. A loop is a frame with the ids it has still to visit.

| code (`scheduler.cpp`) | model |
|---|---|
| `planTask()`, `doPlanTask()`, 261-360 | `RequestTask`, `PlanTask`, `Planned`, `HerdOf`, `GuessCancelwhen`, `AppendToHerd` |
| `enqueueTaskInstance()`, 362-447 | `EnqueueTaskInstance`, `Deduplicate`, `Dropped`, `Queue` |
| `cancelTaskInstance()` and what it calls, 449-547 | `CancelTaskInstance`, `CancelTaskInstancesByTaskId`, `DoCancelTaskInstance` |
| `cancelOrAbortHerdedTasks()`, 461-483 | `CancelOrAbortEach` |
| `abortTaskInstance()` and what it calls, 549-609 | `AbortTaskInstance`, `AbortTaskInstanceByTaskId`, `DoAbortTaskInstance`, `Aborted` |
| posting and handling of reevaluations, 739-765 | `ReevaluateQueued`, `ReevaluatePlanned`, `HandleQueuedEvent`, `HandlePlannedEvent`; the events are coalesced, hence two Booleans |
| `enqueueAsManyTaskInstancesAsPossible()`, 779-811 | `EnqueueOrCancelPlanned` |
| `startAsManyTaskInstancesAsPossible()`, `startTaskInstance()`, 813-979 | `LoopEnds`, `StartTaskInstance`, `Prevented`, `ChosenHosts`, `Launch` |
| `taskInstanceStoppedOrCanceled()`, 981-1029 | `HandleTaskInstanceStopped`, `TaskInstanceStoppedOrCanceled`, `Settle`, `Herded` |
| `recomputeHerderSuccess()`, 1031-1068 | `HerderSuccess` |
| `taskInstanceFinishedOrCanceled()`, 1070-1164 | `TaskInstanceFinishedOrCanceled`, `Forget` |
| `enableTask()`, `enableAllTasks()`, 1166-1189 | `EnableTasks` |
| `shutdown()`, `doShutdown()`, 1271-1320 | `Shutdown`; events go on being handled |
| `triggerPlanActions()`..., 1322-1357 | `Trigger` |
| `activateConfig()`, 75-194 | `ActivateConfig`, `ResizePool`, `CopyLiveAttributes`, then `ReplaceTaskOrCancel` for each instance that is not started |
| the objects of the tasks, `copyLiveAttributesFromOldTasks()` | `repository`, `copied`, `Stored`, `CopyLiveAttributes` |
| `HostMonitor::processFinished()` | `HostChanged` |
| an executor: `Executor::stopOrRetry()` | `ExecutorStop` sets the stop timestamp and the success, and posts the signal |

Abstractions. *Resources* are numbers for each host and kind. *Triggers*, users
and the HTTP server are `RequestTask`: any request of the set `Requests`, at any
time. *Posted events* are handled in any order, which includes the order of the
queue. *Iteration order of hashes* is arbitrary, and where the code removes from
a hash it iterates on, what it visits is what the container allows. Taking
an executor from an empty list (line 945) is undefined behaviour: it sets
`crashed`, after which nothing happens, so nothing would end (`Live` shows that
it does not happen there). *Configurations* are given by constants: what each
has in the place of each task (`NullTask` if it has none), the size of its pool and its
`onconfigload` actions; hosts, their resources and the size of the queue are the
same in all of them. Counters and the enabled flag live in a shared `Task` object, which the active configuration has in common
with the one in the repository until it is given a copy, of what its task had in the former configuration. `repository` is what the objects of each
configuration hold, and `copied` the active tasks that are not those objects; a configuration may also be added again, with new
objects. This is kept for the tasks that some configuration has not (`Passing`), as the others are always copied.
As in the code, an instance does not hold its task: `Task` is
read in the active configuration. `ActivateConfig` is one step, up to its
loop; the first activation makes the initial state. `Random` balancing may choose any eligible host.
Parameters, alerts, logs and notices are left out.

`HerdDiagram` adds the thread that draws: `drawing` is what it has read so far. Each pass of
`findRelatedTasks()` that reads instances which go on is an action, and the scheduler may take any number of steps between two of them:
`SelectHerd` copies the list of the herd (484), `EvaluateCondition` reads that list again for the condition of *each* instance
selected (509), `AddPrerequisites` looks up those that were not selected, as line 524 does, and `AddChildren` reads the children of
*each* instance (532). `Shown`, `Causes` and `Conditions` are the nodes and edges of `herdInstanceDiagram()`. Selecting is
one action: a list only grows, and the parents looked up meanwhile were set when the instances were planned.

### Executor

`calls` is the stack of calls of the executor thread. The pause between two tries
(`BlockingTimer`) runs the event loop inside `stopOrRetry()`: the loop takes
events when the stack is empty **or its top is a pause**. Each turn of the loop
handles the posted events in order until none is left (a deferred deletion only
at a depth of the loop no greater than that at which it was posted), then looks
*once* at which processes have ended, then at timers; that is what Qt does, and
what makes the deferred deletion of a process come before the next instance.

| code (`executor.cpp`) | model |
|---|---|
| `execute()`, `executeOneTry()`, 70-119 | `Execute`, `ExecuteOneTry`, one branch for each mean |
| `localMean()`, `sshMean()`, `dockerMean()` | the mean `Local`, `LocalMean` |
| `backgroundStart()`, `pollStatus()`, `backgroundAbort()`, 134-203 | `BackgroundStart`, `PollStatus`, `BackgroundAbort` |
| `execProcess()`, `processError()`, `processFinished()`, 342-480 | `ExecProcess`, `ProcessError`, `ProcessFinished`, `Verdict`, `Deleted` |
| `httpMean()`, `replyHasFinished()`, 574-723 | `HttpMean`, `PerformRequest`, `ReplyHasFinished` |
| `abort()`, 817-876 | `PostedAbort`, `Abort` |
| `stopOrRetry()`, 878-929 | `StopOrRetry`, `Again`, `Retry`, `PauseEnds`, `Stop` |
| `_abortTimer`, `_statusPollingTimer` | `AbortTimerFires`, `StatusPollingTimerFires` |
| `Scheduler`: start, abort, stop signal | `StartTaskInstance`, `AbortTaskInstance`, `TaskInstanceStopped` |

The world is `running` (processes), `requested` (HTTP requests), `ProcessEnds` and
`RequestEnds`. The end of a process is taken for the end of `_process`, whichever
process it is, as in the code. A crash is signaled twice, by an error and by an
end; a failed start once. `FailAtOnce` names the commands whose start may fail
*during the call*, as Qt reports a failed fork. A terminated process may ignore
it. The history variables `tries`, `earned`, `told` and `stops` are only read by
properties.

### Triggers and calendars

`Cron` is arithmetic on dates, counted in seconds. The lengths of minutes, hours,
days, weeks and months are constants: with units of two or three, all the ends that make the search hard fall within a
few dozen seconds. `Field` and `WeekField` are `CronField::parseAndReplace()`,
`CanonicalField` is `toString()`, `NextTriggering` is the loop of `nextTriggering()`,
branch by branch, as a recursive function, and `IsTriggering` its reference: the
date has every field set. `IsIncluded` is that of the code, which compares the end
of a rule the wrong way (section 5).

| code (`scheduler.cpp`) | model |
|---|---|
| `activateConfig()`, 75-194, and the copies of live attributes | `ActivateTriggers`, `CopyLiveAttributes`, `CopiedTask`, `SameTrigger` |
| `checkTriggersForTask()`, `checkTriggersForAllTasks()`, 611-633 | `TimerEnds`, `CheckTriggersForTask`, `CheckTask`, `QueuedCheck`, `CheckTriggersForAllTasks` |
| `checkTrigger()`, 635-690 | `CheckTrigger`, `Trigger`, `AlreadyPlanned`, `PlanCheck` |
| `postNotice()` | `PostNotice` |
| `enableTask()`, `enableAllTasks()` | `EnableTask`, `EnableAllTasks` |
| `periodicChecks()`, 1191-1214 | `PeriodicChecks` |

What matters here is what is shared: a configuration stays in the repository and
may be activated again, with the dates its triggers have cached (`last`, `next`); the
tasks of the active configuration are copied when the former one had a task of the
same id (`copies`), and are those of the repository otherwise. Timers are never
stopped. The system time may jump once (`ChangeTime`); timers rely on a clock that
does not. The event loop may be late by `MaxLag`.

### Alerter

`HandleRequest` is one of the five requests of `Alerter` (`raise`,
`raiseImmediately`, `cancel`, `cancelImmediately`, `emit`), as its thread handles
it; `AsyncProcessing` is the ten-second batch; `UpdateGridboards` is the gridboard
thread; `Tick` makes time pass. `statefulAlerts[a]` and `oneshotAlerts[a]` are the
entries of the two hashes, `NoAlert` and `NoOneshot` standing for no entry. The
batch removes while it iterates: the entries it may skip (`MaySkip`) are any of
those that come after a removal. The windows of an alert (visibility,
acceptability), which are cron triggers, are constants: for each date the first
visible one, and the acceptable dates. `commitChange()` puts into the buffer only
what fits; `unread` remembers the alerts whose last change did not.
`lastRequest`, `lastRaise` and `emitted` are history.

### Mail channel

`queues[a]` is the queue of an address: new alerts, canceled ones, alerts to be
reminded of, the age of the last mail, the date of the next processing. Time goes by
the minute, and dates are ages, so that nothing has to stop the clock.

| code (`mailalertchannel.cpp`) | model |
|---|---|
| `setConfig()`, 69-110 | `SetConfig`, `Removable`; the timers of a deleted queue become `strays` |
| `doNotifyAlert()`, 134-172 | `DoNotifyAlert`, `Notified`, `Reached`: the addresses after the first one are not reached when the notice is not wanted (line 152) |
| `processQueue()`, 174-383 | `ProcessQueue`, called by a timer (`ProcessTimer`, `StrayTimer`) or by the periodic processing; `sent` says whether the server takes the mail |
| `asyncProcessing()`, 385-400 | `AsyncProcessing`: queues that are late, or have reminders and an old mail |

`MailView` has no timer and no processing: notices wait for each address, and one
mail takes them all. `LoseTimer` is a timer that never fires: the periodic processing
is there to make up for it.

### Gridboards

A tree is a map from the paths of its nodes (one value, then two) to their data, in
`trees`, by address; `components` and `indexes` hold addresses, and so does `copy`,
what a reader got from `Alerter::gridboard()`. A tree is freed with the last list that
holds it (`Held`). `Update` is `Gridboard::update()`: find the trees of the values by
the indexes, create one or merge them (`MergeComponents`, `Redirected`), then create the
nodes that lack. `SetConfig` keeps the items when the pattern and the dimensions are
the same, which is what makes values change under the same ids. `ToHtml` is the
table of each tree. There are two dimensions.

### Configuration repository

`op` is the operation that holds the mutex and the step it has come to: the first
write, the row of the history, the changes in memory. When the first write fails the
operation does nothing at all. `Crash` may come between any two of them and may leave a torn row at the
end of the history. Opening reads the files in any order. `OpenFile` loads one whose *base name*, up to its first dot, is the id
of its configuration (79): `<id>.bak` is rightly named, and stays. `OpenMisnamedFile` then `RenameFile` move what has
the right name to the `errors` directory and rename the file; either may fail (90, 94), and the configuration is loaded anyway.
`OpenIncorrectFile` moves what cannot be parsed, or fails to (73); `SkipFile` is a file that cannot be read (104), or was moved
since the directory was listed. What is in `errors` is never read again, so that moving a file there is removing it.
`DropFile` is an administrator who puts a file in the directory while the program is stopped: any content
under any name, but for a configuration under the id of another one.

`RepositoryView` has three operations, and a crash or a restart is none of them. It knows of which configurations
there are copies under other names: a start may tidy them up, and a removal leaves them.

### Configuration, edits and host monitor

A document is a record with a field for each kind of node; an id is the sequence of
the names between its dots. `Load` reads one: `LoadedHosts`, `LoadedClusters`,
`LoadedGroups`, `LoadedTemplates` and `LoadedTasks` follow `SchedulerConfigData`, with
what they reject, which of two items with the same id they keep, and the
inheritance of templates and groups. `Write` is `toPfNode()`. The mean of a task that has none
is what an uninitialized member holds (`task_p.h:77`): any of `Uninitialized`.

Implicitly shared objects matter, for the availability of a host is changed in place:
`data` names the object, `available` is the set of those that are, and an edit that
detaches gives a new one. `Configuration` has an action for each kind of edit
(`EditHost`, `DeleteGroup`, `RenameTask`...), which is the change and what the triggers of the
document manager make of it, or nothing when a foreign key forbids it.
`AsyncProcessing`, `ProcessFinished` and `ProcessError` are the host monitor, which only
knows of activated configurations. `SaveAndReload` writes what was edited and
activates it.

`Diagrams` has one operator for each diagram of a configuration, with one for each of its
passes. Nodes are ids or prefixed names; labels and styles are left out.

## 3. Runs

Twelve runs: eleven that pass, and one that shows a disagreement between the code
and what its documentation says (section 5). Distinct states in brackets.

| run | bounds | what it shows |
|---|---|---|
| `TaskWait` [32,500] | 2 watched instances, all 23 operators, all watched sets | the counters mean what the operators say; a condition that is met stays met; one of it and its conjugate comes |
| `Lone` [1,112,728] | 3 instances of 2 tasks, 2 hosts, at most 2 queued; 2 configurations, with one executor and both tasks, or with two executors and one task | without herds: limits, exact counters, no executor lost, a pool that is large enough, no startable instance forgotten, with forced requests, duplicates of both strategies, a task that plans another one, hosts and a task that come and go, and activations |
| `Herd` [1,433,815] | a herder of each policy and a herd of 2; 2 configurations, with two executors and all the tasks, or with one executor and without one of the herd | the indexes agree, a herder outlives its herd and follows its policy, statuses keep to the documented edges, no planned instance is forgotten or outlives its task, under cancelations, aborts, activations and shutdown at any time; the diagram of the herd is right although instances are planned between its passes |
| `Live` [35,642] | the same with one policy, fair, no symmetry | everything ends, shutdown ends |
| `Executor` [159,825] | 6 instances, one of each mean, up to 3 tries, 3 processes, 2 aborts | an executor executes one instance at a time and stops each once; no try once aborted; no success of another's doing; nothing is left to the next instance; everything but background tasks ends |
| `Alerter` [171,876] | 2 alerts, 4 requests, 3 units of time, a buffer of 1 | notices alternate, come neither early nor never; no emission is lost; boards that have read everything are right |
| `Gridboard` [50,068] | 3 alerts that make two trees, then one; 3 configurations; 4 addresses; 1 unit of time | one tree for each connected component, exact indexes and counters; the last status of each item, once; a copy keeps its items |
| `Mail` [21,670] | 2 addresses, a stateful and a one-shot alert, 2 configurations, ages up to 3 minutes, 1 waiting notice of each kind | no waiting notice without a processing to come; the abstract channel is implemented; every notice leaves |
| `Repository` [610,201] | 2 configurations, a file with any name and one named after the first configuration with a suffix, 1 row kept of 2 | files, memory and interface agree between operations, but for the copies of removed configurations; crashes, restarts, and files that cannot be read, moved or renamed change nothing |
| `Triggering` [220,483] | 2 configurations of 4 cron triggers, 8 units of time, 3 requests, a lag of 1 | the cached date is the next one; it has a timer; it is triggered soon, and once, whatever is activated and though the system time goes back |
| `Configuration` [124,227] | 2 documents, 3 ids of hosts and clusters, 2 groups, 2 names of tasks, 2 edits between activations | references hold; what is written is read back; diagrams are complete |
| `DoubleFinish` | one herder and one herded instance | section 5 |

`MCTriggering` also has TLC evaluate two assumptions: the canonical form of every field
parses back to it, and, for 96 expressions and every second of half a year of two-second
minutes, two-minute hours, two-hour days and months of two and three days, the search
returns the least date that matches. A third one, `ProofHypotheses`, says that the instance
satisfies the hypotheses of section 4.

**Every property has a mutant** (`PROJECT.json`, "mutants"): a plausible bug in a
definition of the model, under which the run finds that property violated.

### Why the bounds are enough

* *Three instances.* A herder and a herd of two is the smallest case in which the
  last of the herd is not the first, one waits for another, and one is canceled
  while another runs. Without herds, a task limited to one instance on two hosts, another
  limited by the resources of its host, and `maxqueuedinstances` 1 reach every limit
  and would exceed it, with two requests and what they, or an activation, plan. Requests and activations are three in `Lone`, two in `Herd`.
* *Two configurations*, activated as often as `MaxRequests` allows: a task that goes and comes back,
  a pool that shrinks while it is busy and grows again, hence a third executor. The counters of a task that came back may
  differ for ever from those it had, hence this bound.
* *No operator while a herd is drawn* (`MCHerd`): once a diagram is being drawn, instances are requested, planned, started and ended, and the scheduler
  goes on, but no command is given, and no diagram is drawn after an instance was canceled, another configuration
  activated or a shutdown begun. These plan no instance in a herd but through actions that ends trigger as well. Diagrams are drawn for two policies: what the other three have differs from
  `AllSuccess` in the success of the herder only, which is not drawn. The theorem `DiagramsAreDrawnRight` has no such bound.
* *One or two executors* for three instances: the pool is empty, partly and entirely
  used. A temporary executor comes with forced instances. With enough executors
  for the herd, `Live` shows that everything ends; with one, it does not
  (section 5). Executors are interchangeable, so `Lone` and `Herd` use their
  symmetry; `Live`, which checks liveness, does not.
* *A buffer of one* instead of ten, *three units of time* with delays of one and
  two: a batch comes before, at and after each delay, and late by one or more.
* *Six instances in one executor*: what one leaves behind (timers, aborts,
  processes, deferred deletions) meets the next, of another mean. The
  abortable background task comes last because a status command that outlasts
  its instance does end the next one (section 5), and `FailAtOnce` holds tries
  only, for the reason given there.
* *Three alerts of a gridboard*: two that share no value and a third that shares one
  with each, so that trees are created, found and merged; a second configuration moves
  the third alert onto the first, a third one changes the pattern. Four addresses
  hold two trees, and those that only a copy holds still. Addresses are interchangeable.
* *Two addresses of mail*: the first, which every notice reaches, and the next ones. One
  configuration forgets the second address and is the one that does not want cancelations.
  Ages stop at three minutes, later than every delay.
* *Two configurations in the repository*: an active one, and one that is added or removed; each of the files with another name may hold any of them,
  or the same as another file. The history is shortened when the program starts.
* *Triggers*: a task whose two triggers are both closer than the longest timer, one whose
  trigger is farther, the same expression in two configurations, one calendar. Eight
  seconds are three dates of the first, and enough for a lost timer to be noticed.
* *Two edits*: the second one meets what the first one left (a host renamed then
  deleted, a group moved under another, a target that became free).
* `MaxId`, `MaxTime`, `Horizon`, `MaxRunning`, `MaxAborts`, `MaxPending`,
  `MaxRows`, `MaxCommands`, `MaxEdits` and `MaxRequests` only bound the environment: they stop requests, activations,
  time, polling and aborts, never a handler.

Deadlock is not checked where a system with nothing to do, or whose requests are
exhausted, may stop; liveness is checked instead where something must happen.

### Fairness, and why the code justifies it

| formula | justification |
|---|---|
| `WF` of `Step` (scheduler, executor) | a thread goes on with the function it is in |
| `WF` of `ExecutorStop(i)` | a command ends, or its executor kills it; this is an assumption on the tasks, not on the code |
| `SF` of the handling of each posted event (scheduler) | the queue of events is first in, first out: an event that is posted is handled whatever is posted after it, though the model may postpone it and the thread is busy again and again |
| `WF` of `HandlePosted`, `PauseEnds` | the loop of the executor goes on; pauses have a duration |
| `WF` of `ProcessEnds`, `RequestEnds` | commands and requests end, an assumption on them |
| `WF` of `AsyncProcessing`, `UpdateGridboards` (alerter) | the timer of the batch fires again and again; the gridboard thread reads |
| `WF` of `ProcessTimer(a)`, `StrayTimer`, `AsyncProcessing`, `SF` of `Tick` (mail) | the loop of the mail thread handles what is due; minutes go by, though the thread is busy again and again |
| `SF` of `TimerSends(a)`, `AsyncSends(a)` (mail) | the mail server takes a mail sooner or later, if it is tried again and again: an assumption on the server |

No fairness is assumed of operators, requests, hosts, aborts, edits or timers of the
executor.

## 4. Proofs

TLC checks a few instances, hosts and alerts; the theorems below hold for **every**
value of the constants that satisfies the named assumptions.

| module | theorem | what is proved |
|---|---|---|
| `SchedulerProofs` | `TypeCorrect` | `TypeOK` of the scheduler: indexes and stack only hold instances that exist |
| | `ExecutorsNeverLost` | `ExecutorsPartitioned`: an executor is available or in charge of exactly one instance, and the pool is at least as large as configured |
| | `ExecutorUntilStopped` | `ExecutorWhileStarted` |
| | `ShutdownIsSafe` | `ShutdownStartsNothing` |
| | `CallsAreKnown` | no call ends an instance that runs; statuses only advance; each call in progress is about an instance that can have it |
| | `LoneInvariant` | without herds, an instance that started is ended once |
| | `CountsKept` | `MaxInstancesRespected` and `RunningCountExact`, without herds |
| | `LimitsKept` | `LimitsRespected`, without herds: nothing exceeds `maxinstances`, `maxqueuedinstances` or the resources of a host |
| | `StatusesFollowGraph` | `StatusFollowsGraph`, with herds: statuses move along the documented edges, and what was reported as canceled never starts |
| `HerdProofs` | `HerdIndexesAgree` | `IndexesAgree`, with herds: between two events the three indexes of herds agree with one another and with the statuses |
| | `HerdersKeepPromise` | `HerderKeepsPromise`: a herder that waits finishes after its whole herd, with the status that its policy gives for theirs |
| | `DiagramsAreDrawnRight` | `HerdDiagramIsFaithful`: however its passes and the scheduler interleave, the diagram of a herd shows the herd that was planned before, joins nothing else but instances that are awaited and were planned since, and tells of each instance what it waits for |
| | `NoWakeupLost` | `NoStartableForgotten`, without herds: no queued instance that could start is left alone |
| | `PlannedAreAttended` | `PlannedAttended`, with herds: no planned instance whose condition is met is forgotten, nor one whose task was removed |
| | `CountersMean` | evaluated on the counters of any finite set, every operator says what its name says |
| | `CountersFaithful`, `VerdictFinal` | `CountersAreFaithful` and `VerdictIsFinal` |
| | `NeverBothHolds` | a condition and its conjugate are never met together |
| `ConfigurationProofs` | `ReferencesAlwaysHold` | `ReferencesHold`: whatever is activated and edited, items are found by their own ids, and no task, cluster or copy refers to an item that was renamed or deleted |
| `AlerterProofs` | `AlerterTypeCorrect` | `TypeOK` of the alerter |
| | `ChannelViewImplemented` | the alerter implements `AlertChannelView` |
| | `NothingIsLost` | `NothingLost`: notices alternate, no emission is lost |
| | `InTime` | `TransitionsInTime`: no notice before its delay |
| | `BoardsAreRight` | `NoGhostOnBoards` |
| `GridboardProofs` | `ForestAlwaysExact` | `ForestIsExact`: one tree for each connected component, exact indexes and counters, each item rendered once |
| | `CopiesKeepItems` | `CopyKeepsItsItems` |
| | `GridboardViewImplemented` | the gridboard implements `GridboardView` |
| `MailProofs` | `MailTypeCorrect` | `TypeOK` of the mail channel |
| | `NoticesAreScheduled` | `WaitingIsScheduled`: a queue with notices is never forgotten |
| | `NeverReminded` | no reminder ever has a date (section 5) |
| | `MailViewImplemented` | the mail channel implements `MailView` |
| `RepositoryProofs` | `MemoryAgrees` | `MemoryAgreesWithDisk` |
| | `RepositoryViewImplemented` | the repository implements `RepositoryView`: each operation happens completely or not at all, whatever crashes or cannot be tidied up |
| | `FirstDateFound` | the search of `nextTriggering()` finds the first date of any expression and calendar, whatever the units of time, or none when there is none |
| | `TriggeringTypeCorrect` | `TriggeringTypeOK` |
| | `NextDates` | `NextIsNextDate`: the cached date is the first one after the last triggering, whatever was activated since it was cached |
| | `TimersAwaitDates` | `TimerAwaitsDate`, though only the date announced for the task gets a timer |
| | `DatesTriggered` | `DatesAreTriggered`: a date waits no longer than a period of the checks |
| | `FiringsAreDue` | `FiresWhenDue`: never twice for a date |
| `ExecutorProofs` | `ExecutorTypeCorrect` | `TypeOK` of the executor |
| | `TriesAreBounded` | `TriesBounded` |
| | `ExecutionImplemented` | the executor implements `ExecutorView`, which `Scheduler` relies on |
| | `OutcomesAreOwn` | `OutcomesAreEarned`: no try once aborted, no success of another's doing |
| | `NothingIsLeft` | `LeavesNothingBehind` |

**Assumptions.** `InstancesAssumption` (watched instances are finitely many),
`ConfigAssumption` (the configurations are well formed), `ExecutorsAssumption` (the
two markers are not executors, which are finitely many and enough for the first pool), `SettingsAssumption` (a visibility window never
makes an alert visible *before* the date it is asked for), `BoundsAssumption`
(dates stay below the horizon), `DocumentsAssumption` and `NamesAssumption` (a document is made of sequences
of nodes, the id of a task in its group has one name, and no id is the empty one),
`UnitsAssumption` (units of time are positive, and a year has months), `TriggersAssumption` (triggers are valid, as
a task with an invalid one is rejected, and tasks are finitely many) and `ClockAssumption` (bounds are natural numbers, and a
change of the system time does not make dates negative). `GridboardProofs`, `MailProofs` and `RepositoryProofs` rest on the
assumptions that say what a configuration is and which names and bounds differ. TLC evaluates
each in the runs.

Several theorems have a hypothesis, stated in the theorem. Each but those said to be for the proof excludes a behaviour that
section 5 describes, for which the theorem would be false, and the run keeps to the same case or to one
in which the behaviour cannot come:

* `NoHerds` (`LoneInvariant`, `NoWakeupLost`, `CountsKept`, `LimitsKept`): no action of a task plans in the herd of
  the instance it is an action of; `Lone` is such a configuration. With herds the run `DoubleFinish` refutes
  `MaxInstancesRespected`, and a herder that waits gives its executor back without waking the queue.
* `SteadyLimits`, `ForcedFree` and `QuietDuplicates` (`LimitsKept` only): all configurations that have a task
  give it the same limits, no action or request forces a task that uses resources, and canceling a duplicate
  triggers nothing. Without the first, an instance gives back what its task needs by then, and a shorter queue is not
  shortened by an activation; without the second, more is given back than was taken; without the third, more instances are
  queued than `maxqueuedinstances`: TLC finds it with one task whose `onfailure` actions plan it. `Lone` satisfies the three.
* `FailureLone` and `FixedTarget` (`StatusesFollowGraph`): `onfailure` and `onnostderr` actions do not plan in the
  herd of their instance, and a task that may find no host has none. Without the first, a canceled herder whose
  `onfailure` actions plan in its herd is left waiting, and may start though its cancelation was reported; TLC finds it
  with one such task. The second is for the proof only: an instance without a target triggers these actions before its
  status changes, and if they plan an instance that replaces it in the queue, its cancelation triggers them once more,
  without end. `MCScheduler` assumes both of every configuration with herds, and TLC evaluates them.
* `HerdersFinishLone` and `SteadyPolicies` (`HerdersKeepPromise`): the finish actions of a task that may head a herd do
  not plan in its herd, and every configuration gives such a task the same herding policy. Without the first, a
  herder whose `onsuccess` actions plan a lone instance, then one in its herd, finishes too early: the lone one
  replaces the last awaited instance in the queue, whose cancelation finishes the herder, and the rest is planned in a
  herd that is over (TLC finds it with two tasks and four instances). Without the second, a herder that did not wait for its herd, or whose
  success was computed for another policy, is judged by a policy that it never had; a configuration that removes the task of a herder does so
  too. The tasks that may head a herd (`Heads`) are those that are requested, and those that
  a configuration or a lone action plans. Here too `MCScheduler` assumes both.
* `PlansOnceStarted`, `StartsUnwatched`, `NoWaitUnwatched` and `RoomInQueue` (`PlannedAreAttended`): `onplan` actions plan nothing in the
  herd of their instance; no instance waits for others of the herd to start; in the herd of a `NoWait` herder nothing waits for
  anything but its parent; no request ever finds the queue full. Without any one of them a planned instance is forgotten, which TLC finds with
  three tasks and three instances at most. `MCScheduler` assumes the first three of every configuration with herds; the fourth is about
  states, hence the theorem says `Spec /\ []RoomInQueue => []PlannedAttended`, and the queue of those runs is long enough for all their
  instances. The theorem also has the two hypotheses of `HerdersKeepPromise`, for the proof only: what a finished herder leaves behind
  follows from its promise.
* `ListedOnce` and `TargetsDeclared` (`ReferencesAlwaysHold`): a cluster of a document lists a host once, and
  a task that is loaded has a declared target. Without the first, the document manager changes one copy of a host that is renamed or
  deleted and leaves the other (`qronconfigdocumentmanager.cpp:94-107`); the second is needed as documents are
  not refused for their targets. `MCConfiguration` assumes both of its documents, and TLC evaluates them.
* `Edited = {}` (repository): a configuration edited in memory is written as an empty file.
* `AlwaysDated` (`FiringsAreDue`): the search always finds a date. An expression that has none within ten years is triggered at
  every check.
* `SetBack` (`DatesTriggered`): the system time is only set back. When it is set forward, a date that was to come may be
  long past until the next periodic check. `MCTriggering` assumes both.
* `OneAddressIfNoCancel` (`MailViewImplemented` only): the loop on addresses returns at the first one that does not
  want a cancelation.
* `NoBackground` (executor): no valid task is a background task, as a status command that outlasts
  its instance ends the next one. In the run a background task comes last; with it the properties are model-checked.
* `CrashIsNoSuccess` (`OutcomesAreOwn` only): the exit code of a crash is not a success code of the task.

**Wait conditions.** Everything follows from what the five counters are: the
cardinalities of a partition of the watched set. A counter is zero, or equal to
the size of the set, exactly when no instance, or every one, has those statuses;
each row of the two tables is then a propositional fact. A verdict is final
because a status only advances into the class its operator looks at.

**Executors of the pool.** `ExecutorsPartitioned` is not inductive: giving an
executor back would break it if the signal came from an instance whose executor
is unknown, or came twice. The invariant is `IndInv == TypeOK /\ ExecutorKnown /\
ExecutorsPartitioned`, where `ExecutorKnown` says that the instances with an
executor are exactly those that run or whose stop signal has still to be handled,
and that an instance whose signal is posted has started and stopped. Most steps
touch neither executors nor those timestamps (`ExecutorsKept`); the others
are `Launch`, `ExecutorStop` and the handling of the signal. That the pool is large
enough (`PoolLargeEnough`) is a fact about cardinalities: a start moves an executor from
the available ones to the busy ones, a stop moves it back, and an activation adds the
difference to the available ones, or removes it as far as there are some (`ResizeInv`). This is also why the
recursion of the handlers cannot disturb the pool, however deep.

**Shutdown.** A handler may be in the middle of anything when it calls others,
but `shutdown()` is an event: it is handled when the stack is empty. `ShutdownInv`
says that from then on every frame is *calm*: none starts or queues, and calm
frames only push calm frames. That argument needs every action of the scheduler,
as any of them could be the exception.

**Instances.** The handlers are recursive, so an invariant of the scheduler must say what the calls
below the one on top have still to do. `CallsInv` says it of every configuration: a call that ends an instance
that started ends one that has stopped (`KnownFrame`), only the event loop starts instances (`StartLast`),
timestamps are set in order (`Timestamps`), each herd is that of a herder (`Herds`), nothing happens to a
herder between its creation and the end of `enqueueTaskInstance()`, whatever its `onplan` actions do (`Fresh`), and the
indexes keep an instance until it is finished (`Remembered`). A step replaces the top of the stack by a few calls and leaves the rest alone: what is proved of
it is one fact about the calls it makes (`Pushes`), and what lies below follows from the invariant.

Without herds (`LoneInv`) each instance that started has at most one call or signal that ends it, and the
call on top is the one the thread was called for (`EndsOnce`). This is what herds break, and what the counts need:
`startTaskInstance()` counts up only if the count is below `maxinstances`, and what counts down does so once
(`CountInv`); a task that is the same in all configurations keeps its count when one is activated.

The resources taken on a host are a set of pairs, an instance and a unit (`Units`), rather than a sum: a start adds
the units of an instance, its end removes them, and there are never more of them than `consumedResources`, itself within the
capacity of the host (`LimitInv`). The queue is bounded by a promise: while a call that queues an instance waits below those that
cancel its duplicates, what will be left of the queue once they are done is less than the limit (`RoomLeft`). The list of duplicates is
made so that it holds (`Deduplicates`), and each cancelation keeps it (`CancelerStep`).

A wakeup is pending, or covered, or nothing is startable (`WakeInv`). It is pending when a reevaluation is posted or
when a call in progress will post one before it returns: those that end an instance do. A
startable instance is covered when the loop that starts instances has still to visit it. The steps of the
invariant that matter are those that make an instance startable: they give back an executor, a count, a
resource, or enable a task, or bring back a host, or queue the instance; each posts or leaves such a call.

**Statuses, with herds.** `StatusFollowsGraph` says that a canceled instance never starts, but the cancelation is
reported before the calls that finish it are made: those of a herder cancel its herd first, one instance after the other,
and each of these triggers actions and tells its herder. `StatusInv` says what keeps the promise
meanwhile. An instance reported as canceled is finished, or a call on the stack will end it (`CanceledEnd`). Below what
cancels a herder that has not started, each instance that it still waits for has a call of its own nearer to the top,
and no call in between plans in that herd (`CancelingHerd`); so it never waits when its turn comes. Nothing of a
herd is queued before its herder starts (`HerdUnqueued`), which is why such an instance is canceled and not aborted. Only the
call on top may mark its instance as a failure (`Marks`), so that nothing happens between that decision and the
change of status, and a finished instance of a herd is removed from it before anything else is done
(`Follows`, `HerdedFinish`). Herds allow an instance to be finished twice (`DoubleFinish`); the second time changes its
status no more.

**Indexes of herds.** `IndexesAgree` is about the moments between two events; during one, each index lags behind
the statuses. `IndexInv` says by what. A herder and its herd are in memory together, whole (`Shelved`). What a herder waits for
is what is not finished, and what is finished but of which a call has still to tell it (`AwaitedExact`): that call comes right
after the one that finishes the instance (`Told`), so that no herder finishes in between. What is finished and in memory
without its herder has a call that will forget it (`Kept`), and a herder whose stop was handled waits for some
instance or has a call that will finish it (`Attended`). The instance that `Queue` puts back in the index is not
finished, as nothing happens to an instance of a herd from the moment its herder has started and it is asked to be queued until
it is (`Ready`): the calls nearer to the top do not touch it, which `Fresh` says of herders. The theorem has no hypothesis:
even a herder that finishes twice leaves the indexes exact.

**The promise of herders.** That a herder finishes last is not inductive: it could be finished while something still plans in its herd.
`PromiseInv` says who plans there, and why the herder waits meanwhile. Nothing of a herd is queued before its herder starts, unless the herder
was canceled (`HerdFollows`), and an instance of a herd has one call that ends it, on top of the stack (`HerdedEndOnce`);
an `onstart` action, or a finish action of an instance of the herd, therefore plans while the herder runs or awaits that
instance. The actions that plan may call a lot before the last of them is done, so `PlansInTime` says of the k-th call of the stack that
none of those above it can end the instance it plans for, or its herder (`Guarded`, `Sheltered`): they neither touch these, nor
tell the herder, nor visit other instances. This holds of every call that a step makes (`NextCall`), of which a
herder told of its last awaited end is the only one to reach further than the instance at hand (`WithinReach`). A herder
finishes only when it awaits none (`HerdersFinish`), which by `AwaitedExact` means that its herd is finished.
Its success is computed then (`PolicyFinish`), and what would change it later does not: its herd is finished
for good, and the mark of a failed start is only for what was queued (`MarkedQueued`). A herder that was canceled keeps the
promise since nothing of its herd ever starts (`HerdNeverStarts`).

**Planned instances.** `PlannedAttended` is about quiet moments, with no call in progress and no event posted; `Noticed` says of any
moment that each planned instance of a herd whose condition is met (`Awaits`) is on someone's list (`Reevaluated`): its herd is
marked and an evaluation is posted, or a call in progress is about to mark it, or decides on the instance now (it is visited by
the loop of the evaluation, or is being queued, or canceled), or has still to tell the herder of an end. That last case is the
delicate one: an end makes a condition true at once, but the herd is marked
only when the herder is told, and only if it awaits something else. It does: the instance whose condition is met is itself
awaited (`HerdAwaits`). A condition comes to be met by the end of another instance only (`MetMeans`), as the default condition is about the parent, which has started if
the instance was planned in its herd (`Planners`, `HerdStarted`), and no other operator is about starts (`WaitsForEnds`); what it says of
ends changes with the end of a watched instance, which is of the same herd. `Removed` says the same of the tasks that an activation removes: each of their instances that has not started has still
to be visited by the activation, or is being canceled.

**Diagrams of herds.** The instances of a herd that are in memory have a condition, a herder has none, and an instance is planned in
the herd of its parent (`Linked`). What a condition watches is then in the list of the herd, or is the parent of the
herder. `DrawingInv` says it of each moment of the drawing: all the instances that the list held when it was copied were selected (`SelectedRight`);
what was evaluated for a condition holds all that it names among them, and else only instances planned since (`EvaluatedRight`); and each instance is found
under its own id, but for those that were planned since and are looked up as the one that awaits them (`InstancesRight`). Steps of the scheduler keep it as lists only grow and
what was planned does not change (`HerdsGrow`, `DrawingKept`). The edges
of conditions are what the scheduler evaluates because, as long as the herder is not finished, the list that the diagram
looks into is the one that the scheduler keeps (`Shelved`, of `IndexInv`). The theorem has no hypothesis.

**References of configurations.** An edit finds an item by its key and replaces what other items say of its id. That this is enough takes
more than `ReferencesHold`, so `Whole` says of a configuration what a document gives it: each item is indexed by
its own id, a cluster holds each host once and only hosts that are declared, the group of a task is declared and begins the id of the
task, and hosts and clusters have no id in common. `Sound` adds that targets exist. Each kind of edit of hosts, clusters, groups and tasks keeps
`Sound`: for hosts, since the first copy that the document manager finds in a cluster is the only one (`CopyIsReplaced`, `CopyIsRemoved`);
for groups, since the tasks that are moved were named after the group they leave (`TasksAreMoved`). A document gives a sound configuration
(`LoadedIsSound`), and what is written is such a document again (`WrittenIsDocument`). The loop that looks up the hosts of a
cluster is a recursive function, `Declared`; what it appends is proved by induction on its index (`LoopExists`,
`DeclaredHosts`).

**Alerter.** `Inv` adds to `TypeOK` that a rising alert becomes visible no earlier
than its rise delay after it rose (`RiseDelayKept`), that a dropping one ends no
earlier than its drop delay after the last request to raise it (`DropDelayKept`),
and that raises are past (`RaisesArePast`). The refinement is proved action by
action: each step, for each alert, is a step of the three-state machine that
channels see or leaves it alone (`StepIsSeen`), and notices are sent exactly in
those steps, hence their balance.

**Gridboards.** Creating a tree, finding it and merging two are proved to have one effect
(`Updates`): the trees that the indexes found become one, with the new item as a leaf, under a root to which
the indexes of all their values lead. The invariant says what a tree is (a leaf has a parent,
a node of the first level has a child, whence the indexes can be trusted to find every node),
that indexes are exact, and that each tree is connected. That two trees share no value then follows from the
indexes, and connectivity from two facts: a connected set with one more linked item is connected, and
two connected sets that meet make one.

**Mail channel.** The invariant is one about each queue (`Good`): its type, that no reminder is
dated, and that if notices wait its processing is scheduled. An age that an `int` cannot hold is read as an
earlier one, never as a later one (`ToIntIsEarlier`), so that a mail may be late but
never too early. The view needs no more: each processing of a queue sends all or nothing.

**Repository.** For each step of an operation the invariant says by what memory and files still differ
(`OperationsDiffer`): the file that it changed first and, for ever, the copies of configurations that were removed. For each step of a start it says
that what was read is in memory and still on disk (`OpeningReads`). A file that has the name of a configuration holds no
other one (`FilesHoldTheirNames`): this is why moving it away, before a copy is renamed, loses nothing, even if that copy cannot be renamed. The steps that change what the view sees are those that
write the first file of an operation, add a file or tidy up a copy; all others stutter, or start and end an operation. The rows of
`ConfigsModel` are those of a loop, `Removed`: what it computes is proved by induction on its index, as a set of naturals
that holds zero and the successor of each of its elements (`Induction`, from the well-foundedness of `<`).

**The search.** A date has a valid second, minute, hour and day, a day that the calendar includes, and so on: the
code tests these fields one after the other, and moves to the next minute, hour, day or month when one is wrong. Each such move skips
instants that have the same wrong field, hence no date: those between an instant and the next multiple of a unit have
the same quotient (`Quotient`), and those of a month the same month (`SkipsNoDate`). The recursive function is the only solution
of its equation, by induction on the distance to the end of the search, and it returns the first date by the same induction.

**Triggers.** A check is a loop on the triggers of a task, called by a loop on tasks, so the invariant is about a state of the
triggers (`Good`) which the check of one trigger keeps wherever the loop has come to: the next date is the first one after
the last (`Right`), close enough for a timer if the task is `Frequent` (`Near`), what was triggered is past
(`Past`), and the date announced for a task, *in each configuration*, has a timer as long as it is not reached (`Scheduled`). That a
trigger has a timer (`HasTimer`) does not follow from the announced date, which is that of another trigger; but once
checked it has one, and no later check takes it away, since timers are never stopped. `Outcome` says what any number of
checks do, and is transitive, whence the loops. `TriggersInv` adds that the triggers of the active configuration were all checked,
unless a check of all is queued, and when the next periodic checks come.

**Executor.** The properties are not inductive: whether the end of a process stops the current
instance depends on which instance it was launched for. `Inv` says what the call stack may hold (at most one
pause, with nothing that launches above it), that no command is pending between two tries (`OneTryAtATime`), that
what is pending belongs to the current instance and what still runs is it or is going to be
deleted (`Owned`), and in which of four phases the executor and its scheduler are (`Phase`): an abort that
reaches the executor late is for the instance that waits behind it, or for none. `Earned` adds that each call which says
that a command has succeeded comes from one that has.

**Only model-checked.** Liveness (`EventuallyDecided`, `EveryInstanceEnds`,
`ShutdownEnds`, `EveryDelayEnds`, `EveryExecutionStops`, `EveryNoticeMailed`), which is
out of the prover's reach; background tasks; and, of configurations, `WrittenIsReadBack` and `DiagramsAreFaithful`, which are about
filtered and flattened sequences that the prover cannot unfold.

## 5. What the code was found to do

### Against its documentation

`DoubleFinish`: the executor thread sets the stop timestamp of a herder before the
scheduler handles its signal. A herded instance handled in between finds its herder
waiting and finishes it; the signal then finishes it again, and the running count goes
down twice (`scheduler.cpp:999`). The run finds `MaxInstancesRespected` violated;
`PROJECT.json`, "findings", quotes the documentation. `MaxInstancesRespected` and the counters are
therefore checked without herds (`Lone`).

### Scheduler and executor

* A herder that stops and has to wait for its herd gives its executor back without
  waking the queue (`scheduler.cpp:1028`). With one executor its herd stays queued for ever;
  `Live` has two.
* Canceling a herder triggers its `onfailure` actions before its status changes. If
  they plan into its herd it is left queued, and may be started, though the
  cancelation was reported (`scheduler.cpp:1006`) where `scheduler.h:93-95`
  promises an error for a request that could not be canceled. The herders of the runs have no `onfailure` action that plans.
* Once a `NoWait` herder has finished, the instances of its herd that wait for one
  another are never evaluated again (`scheduler.cpp:993`). In the runs they do not wait.
* A forced instance takes no resources but gives them back (`scheduler.cpp:918`, `1095`):
  later, more is used than there is. In the runs the task that uses resources is not forced.
* A task that keeps the last of its duplicates and whose `onfailure` actions plan it: canceling a duplicate plans another
  instance before the status of the first one changes (`scheduler.cpp:395`). It finds the same duplicate queued and cancels it
  again, without end, unless the task is disabled meanwhile; then more instances are queued than `maxqueuedinstances`. No run has such a task.
* `_retrying`, which guards `stopOrRetry()` against being called from the pause it makes,
  is never set to true (`executor.cpp:879`). The background task of `Executor` makes one try.
* A planned instance that is denied because the queue is full stays planned, and
  its `queuewhen` condition is only evaluated again if its herd changes
  (`scheduler.cpp:425`).
* Instances planned by `onplan` actions in the herd of an instance that is not
  started yet are not evaluated when it starts unless something else changes: a start does not mark its
  herd (`scheduler.cpp:836`). Neither are those whose condition is about the starts of others of their herd.
* A herder triggers its finish actions before it looks at what it awaits (`scheduler.cpp:1009`). If one of them cancels, as a
  duplicate, the last instance that it awaits, the herder is waiting and finishes at once (999); the actions that
  follow plan into a finished herd, and the herder is finished again (1021).
* A crash of a local command uses two tries: the second signal of the crash is
  taken for the end of the next try.
* A status command of a background task that outlasts its instance ends the next
  one of that executor.
* A status or abort command whose start fails during the call lets a posted
  `pollStatus()` run on a null instance, and a second stop is told.
* `taskInstanceParamAppend()`, called in the scheduler thread, appends twice
  (`scheduler.cpp:1359`).
* `taskInstanceFinishedOrCanceled()` calls the task of the active configuration the
  *requested* one (`scheduler.cpp:1072`), though the comment below says that the two differ
  after a reload. An instance that ends after its task was removed, or changed, does not give
  back the resources it took, and its herding policy is that of no task.
* A task that comes back after an activation without it has the counters and the flag that its object in the repository was left with
  when that configuration was last active, or new ones if the configuration was added again since. If it ran when it was removed, its
  count is too high if its instances ended meanwhile, and may prevent it from ever starting again; with a new object it goes below zero when
  they end. `LimitsRespected` counts the instances of the tasks that are the same in all configurations (`Lasting`).
* A pool that is shrunk while executors are busy, then grown, exceeds its maximum:
  nothing remembers the executors that could not be removed (81-92). `PoolLargeEnough` is only a lower bound.
* A task that is enabled or disabled between the copy of its flag to the new configuration (136)
  and the activation of that (139) keeps its former flag. The model has one step for both.

### Alerts, mails and gridboards

* An alert that is canceled while it rises may be raised by the batch after that
  (`alerter.cpp:270`, `349`), without a notice to gridboards (`alerter.cpp:351`).
* The batch removes the record of a one-shot alert when it sends an aggregated
  notice, so the next emission is notified at once (`alerter.cpp:380`).
* The loop on the addresses of a notice returns when the notice is not wanted
  (`mailalertchannel.cpp:152`, `158`): an alert whose cancelations are not notified is still
  reminded of at the addresses after the first one, once it is canceled. In `Mail` such a
  subscription has one address.
* The date of the last reminder is set by inserting an element in a set that already has it, which
  changes nothing (202): a mail is never made of reminders only.
* The age of the last mail is stored in an `int` (206), which wraps after 24 days.
* Each failed mail adds a timer. `setConfig()` deletes queues with pending timers, and removes
  from the map it iterates on.

### Triggers

* The end of a rule of a calendar is compared the wrong way (`calendar.cpp:113`).
* An expression that has no date within ten years is triggered at every check: an invalid
  date is before now. A range of week days such as `5-7` is parsed to an empty field.
* The date announced for a task is that of the last of its triggers that was checked, which is why a
  date that is too far for a timer is only noticed by the periodic checks, whatever the comment on them says
  (1208-1213); `TimerAwaitsDate` is about closer dates, `DatesAreTriggered` about all.
* A configuration activated again keeps the next dates it had cached. A date that is reached
  just before an activation is lost when the trigger had never been triggered.
* Notice triggers ignore calendars.

### Configurations

* The copy constructor of `SchedulerConfigData` (71-86) does not copy the original text: an
  edited configuration is written in the repository as an empty file. In `Repository` no
  configuration is edited.
* A file named `<id>.bak` that holds configuration `<id>` is not renamed, though "filename must be fixed to match id"
  (`localconfigrepository.cpp:79`), as its base name is the id. `removeConfig()` then deletes the file named `<id>` (240), if there is one, and
  leaves the other: the configuration is gone from memory, and back after the next start, though `configrepository.h:58`
  says "Remove a non-active config from the repository". A copy whose renaming failed (94) does the same.
  `MemoryAgreesWithDisk` and `RepositoryView` say which configurations may come back: those of which another file holds a copy.
* A configuration in a file that has the id of another one makes that other file be moved to `errors`: two files that have each other's
  name lose a configuration. `DropFile` puts no such file.
* The id of a configuration is a hash of what `toPfNode()` writes, which is not everything: task
  groups of tasks, templates, targets of means that need none, planning subscriptions of the
  root, labels, parameters and check intervals of hosts are lost; the abort command is written
  as the status command (`tasktemplate.cpp:406`); subscriptions of tasks are written
  twice. Hence `WrittenIsReadBack` leaves tasks out.
* `maxperhost` detaches every host from its copies in clusters, so that a host that is down
  stays available through them (`host.cpp:76`, `schedulerconfig.cpp:274`,
  `scheduler.cpp:876`); editing a host leaves the host monitor with the former one. `HostsAreShared` says when.
* A cluster that names a host twice keeps a copy of it after it is deleted. A cluster with an invalid balancing is
  inserted as a null one.
* Two concurrent checks of one host are possible once `setConfig()` has forgotten when they
  were made, and the late answer wins.
* The mean of a task is not initialized (`task_p.h:77`).
* An instance that is planned in a herd after its list was copied by the thread that draws it (`diagramsbuilder.cpp:484`), and before a condition of the herd
  is evaluated (509), is awaited and was not selected. The pass for such instances looks up the one that awaits instead (524): the
  diagram has an edge from an instance that it does not show (592), and the children of the waiter are read in its place. `HerdDiagramIsFaithful` excepts
  the instances planned since the drawing began, and no other one is concerned. In this diagram a default condition is evaluated for the herder (509). Nodes of hosts, groups and
  tasks share one namespace. Subscriptions to `onnostderr` are not drawn.

## 6. Not modelled

* **Scheduler**: configurations that change hosts or the size of the queue while instances run, parameters of
  instances, what the periodic checks look at besides triggers, tries and durations shown in
  the interface. In `Scheduler`, a trigger is a request that may come at any time, which is more
  than triggers do.
* **Executor**: how command lines, environments and requests are built, output
  lines, `scatter`. A task that lacks what its mean requires is `~valid`.
* **Wait conditions**: disjunctions of several conditions.
* **Actions** other than `plantask`: they create no instance.
* **Event threads**: their matches only reach the interface or actions that are not modelled.
* **Triggers**: time zones, daylight saving and the text of expressions and dates.
* **Alerter**: caches of settings and of subscriptions, patterns. **Other channels** send at once
  and keep nothing. **Gridboards**: HTML and writing.
* **Configurations**: parameters, variables, access control, log files, request forms, and
  attributes that are only shown.
* **Diagrams**: labels, styles, and the chronogram of instances, a drawing.
* **Configuration repository**: a history log or a directory that cannot be opened, files that an administrator deletes, edits in place,
  or gives the id of another configuration, the dates of the history.
* **User interface models** other than the list of configurations, **system utilities**:
  display, or input and output, without protocol.

## 7. Plan

Modelled: all the components of section 1 that keep a state others depend on. What is left
to model is in section 6, by decreasing interest: disjunctions of conditions and
scattered instances.

Theorems worth proving next: `WrittenIsReadBack` and `DiagramsAreFaithful`, from lemmas on filtered and flattened
sequences.
