------------------------ MODULE SchedulerProperties -------------------------
(***************************************************************************)
(* What must hold of the scheduler, whatever the configuration or, where   *)
(* the comment says so, without herds or without forced requests.          *)
(***************************************************************************)
EXTENDS Scheduler

TypeOK ==
  /\ InstanceTypeOK
  /\ unfinishedTasks \subseteq Created /\ dirtyHerds \subseteq Created
  /\ unfinishedHerds \in [Ids -> SUBSET Created]
  /\ unfinishedHerdedTasks \in [Ids -> SUBSET Created]
  /\ availableExecutors \subseteq Executors
  /\ runningExecutors \in [Ids -> Executors \cup {NoExecutor, Temporary}]
  /\ runningCount \in [Tasks -> Int]
  /\ executionsCount \in [Tasks -> Nat]
  /\ repository \in [Configs -> [Tasks -> LiveAttributes]] /\ copied \subseteq Tasks
  /\ consumedResources \in [Hosts -> [Kinds -> Int]]
  /\ config \in Configs /\ enabled \subseteq Tasks /\ available \subseteq Hosts
  /\ shutingDown \in BOOLEAN /\ crashed \in BOOLEAN
  /\ queuedEvent \in BOOLEAN /\ plannedEvent \in BOOLEAN
  /\ stopped \subseteq Created /\ aborting \subseteq Created
  /\ requests \in Nat /\ cancelReplies \subseteq Created
  /\ stack \in Seq(Frame)

\* The instances that have started and are not finished.
Live(t) == {i \in Created : info[i].task = t /\ i \in start \ finish}

\* The scheduler thread has nothing more to do.
Quiet == Idle /\ ~queuedEvent /\ ~plannedEvent

-----------------------------------------------------------------------------
(* Executors.                                                              *)

\* No executor that has an instance is available, or has a second instance.
ExecutorsExclusive ==
  /\ availableExecutors \cap Busy = {}
  /\ \A i, j \in Ids : runningExecutors[i] = runningExecutors[j] =>
       i = j \/ runningExecutors[i] \in {NoExecutor, Temporary}

\* The pool has, available or busy, at least the executors that the active
\* configuration wants.
PoolLargeEnough ==
  Cardinality(availableExecutors \cup Busy) >= MaxTotalTaskInstances[config]

\* No executor is shared, and none is ever lost, although the pool is resized
\* by activations while executors are busy (activateConfig, startTaskInstance,
\* taskInstanceStoppedOrCanceled).
ExecutorsPartitioned == ExecutorsExclusive /\ PoolLargeEnough

\* An instance has an executor from its start to the handling of its stop
\* signal, and at no other time: the signal the scheduler handles always comes
\* from an executor it knows of.
ExecutorWhileStarted ==
  \A i \in Created :
    runningExecutors[i] # NoExecutor <=>
      i \in stopped \/ (i \in start /\ i \notin stop)

-----------------------------------------------------------------------------
(* Statuses.                                                               *)

\* The edges of doc/taskinstances_statuses.dot; the code goes from running to
\* success or failure through waiting, between the executor and the scheduler.
StatusEdge ==
  { <<"Planned", "Queued">>, <<"Planned", "Canceled">>,
    <<"Queued", "Canceled">>, <<"Queued", "Running">>, <<"Queued", "Failure">>,
    <<"Running", "Waiting">>, <<"Waiting", "Success">>,
    <<"Waiting", "Failure">> }

\* An instance whose cancelation was reported is never started
\* (cancelTaskInstance; enqueueTaskInstance for duplicates).
CanceledNeverStarts == cancelReplies \cap start = {}

\* The status derived from the timestamps only moves along the documented
\* edges, although two threads write them: a finished instance never changes
\* its status again, none runs twice, and none runs once it was said canceled.
StatusFollowsGraph ==
  [][/\ CanceledNeverStarts'
     /\ \A i \in Created : Status(i)' # Status(i) =>
          <<Status(i), Status(i)'>> \in StatusEdge]_<<instanceVars, cancelReplies>>

-----------------------------------------------------------------------------
(* Herds.                                                                  *)

\* Between two events, a herder is in memory as long as its herd is, and waits
\* for exactly the instances of its herd that are not finished.
HerdAwaited ==
  Idle => \A h \in Created : unfinishedHerds[h] # {} =>
    /\ h \in unfinishedTasks
    /\ unfinishedHerds[h] \subseteq unfinishedTasks
    /\ unfinishedHerdedTasks[h] = unfinishedHerds[h] \ finish

\* Between two events, an instance in memory is unfinished, or belongs to the
\* herd of an unfinished herder; and no unfinished one is ever forgotten.
MemoryIsExact ==
  Idle => \A i \in Created :
    i \in unfinishedTasks <=>
      \/ i \notin finish
      \/ ~IsHerder(i) /\ info[i].herdid \in unfinishedTasks
                      /\ i \in unfinishedHerds[info[i].herdid]

\* No herder waits for nothing: between two events, one whose stop has been
\* handled still has an instance to wait for.
HerderNotForgotten ==
  Idle => \A h \in unfinishedTasks :
    Status(h) = "Waiting" /\ h \notin stopped =>
      unfinishedHerdedTasks[h] \ finish # {}

\* Between two events, the three indexes of herds agree with one another and
\* with the statuses, although functions of their own keep each of them
\* (planOrRequestCommonPostProcess, taskInstanceStoppedOrCanceled,
\* taskInstanceFinishedOrCanceled).
IndexesAgree == HerdAwaited /\ MemoryIsExact /\ HerderNotForgotten

\* The instances planned in the herd of h.
Herd(h) == {i \in Created \ {h} : info[i].herdid = h}

\* A herder finishes after every instance of its herd, unless its policy is
\* not to wait (taskInstanceStoppedOrCanceled).
HerderOutlivesHerd ==
  \A h \in finish :
    IsHerder(h) /\ TaskOf(h).herdingPolicy # "NoWait" => Herd(h) \subseteq finish

\* The final status of a herder that was started agrees with its policy and
\* with the final statuses of its herd, however the end of the herder and the
\* ends of its herd interleave (recomputeHerderSuccess).
PolicyHonoured ==
  \A h \in finish \cap start :
    LET policy == TaskOf(h).herdingPolicy
        good == Status(h) = "Success"
    IN  IsHerder(h) /\ Herd(h) # {} =>
          /\ policy = "AllSuccess" /\ good =>
               \A i \in Herd(h) : Status(i) = "Success"
          /\ policy = "NoFailure" /\ good =>
               \A i \in Herd(h) : Status(i) # "Failure"
          /\ policy = "OneSuccess" =>
               (good <=> \E i \in Herd(h) : Status(i) = "Success")

\* A herder keeps its promise: it ends after its herd, with the success that
\* its policy says, whatever was canceled or aborted meanwhile.
HerderKeepsPromise == HerderOutlivesHerd /\ PolicyHonoured

-----------------------------------------------------------------------------
(* Limits.                                                                 *)

\* The tasks that are the same in every configuration.  The counters of a task
\* that is left out by one are lost, and an instance gives back the resources
\* that its task has in the configuration of the moment.
Lasting == {t \in Tasks : \A c \in Configs : TasksOf[c][t] = Task[t]}

\* At most maxinstances instances of a task run, forced ones not counted.
MaxInstancesRespected ==
  \A t \in Lasting :
    Cardinality({i \in Live(t) : ~info[i].force}) <= Task[t].maxInstances

\* Between two events, the running count of a task is the number of its
\* instances that are started and not finished.
RunningCountExact ==
  Idle => \A t \in Lasting : runningCount[t] = Cardinality(Live(t))

\* How many units of a resource the instances running on a host need.
Used(h, k) ==
  LET on == {i \in start \ finish : target[i] = h /\ ~info[i].force}
  IN  Cardinality(UNION {{i} \X (1..TaskOf(i).resources[k]) : i \in on})

\* The instances running on a host, forced ones not counted, never use more
\* of a resource than the host has.
ResourcesRespected ==
  \A h \in Hosts, k \in Kinds : Used(h, k) <= Capacity[h][k]

\* At most maxqueuedinstances instances of a task are queued, forced ones not
\* counted, whichever of the duplicates the strategy keeps.
QueuedInstancesRespected ==
  \A t \in Tasks : Task[t].maxQueuedInstances > 0 =>
    Cardinality({i \in Queued : info[i].task = t /\ ~info[i].force})
      <= Task[t].maxQueuedInstances

\* No limit of the configuration is exceeded in tasks out of herds, though each
\* is kept by a counter updated at several places and copied from a configuration
\* to the next one (enqueueTaskInstance, startTaskInstance,
\* taskInstanceFinishedOrCanceled, copyLiveAttributesFromOldTasks).
LimitsRespected ==
  /\ MaxInstancesRespected /\ RunningCountExact
  /\ ResourcesRespected /\ QueuedInstancesRespected

-----------------------------------------------------------------------------
(* Wakeups.                                                                *)

Startable(i) ==
  /\ Status(i) = "Queued"
  /\ ~Prevented(i)
  /\ TriedHosts(i) = <<>> \/ ChosenHosts(i) # {}

\* Whatever makes a queued instance startable also posts a reevaluation: when
\* the scheduler thread is quiet, no queued instance could be started.
NoStartableForgotten ==
  Idle /\ ~queuedEvent /\ ~shutingDown => \A i \in Queued : ~Startable(i)

\* Whatever makes the queuewhen condition of a planned instance true posts a
\* reevaluation: when the scheduler thread is quiet, no planned instance whose
\* herder has started, and maybe finished, has its queuewhen condition met.
NoPlannedForgotten ==
  Quiet /\ ~shutingDown => \A i \in unfinishedTasks :
    /\ Status(i) = "Planned" /\ ~IsHerder(i)
    /\ Status(info[i].herdid) \notin UnstartedStatus
    => ~Met(info[i].queuewhen, i)

\* Between two events, no instance that is planned or queued is of a task that
\* the configuration does not have, wherever it was when that was activated and
\* whatever was planned or canceled meanwhile (activateConfig).
NoOrphan ==
  Idle => \A i \in unfinishedTasks :
    Status(i) \in UnstartedStatus => info[i].task \in Configured

\* No planned instance waits for an evaluation that nobody will make, nor for a
\* task that was removed.
PlannedAttended == NoPlannedForgotten /\ NoOrphan

-----------------------------------------------------------------------------
(* Liveness.                                                               *)

\* The scheduler thread goes on with the call it is in, every execution ends,
\* and a posted event is handled at last, since those posted before it are
\* handled first and those posted later after it.
Fairness ==
  /\ WF_vars(~crashed /\ Step)
  /\ \A i \in Ids : WF_vars(~crashed /\ ExecutorStop(i))
  /\ SF_vars(~crashed /\ HandleQueuedEvent)
  /\ SF_vars(~crashed /\ HandlePlannedEvent)
  /\ \A i \in Ids : SF_vars(~crashed /\ HandleTaskInstanceStopped(i))

FairSpec == Spec /\ Fairness

\* Every instance that is created ends, unless the scheduler shuts down: its
\* request is neither forgotten in a queue nor waiting for ever for its herd.
EveryInstanceEnds ==
  \A i \in Ids : i \in unfinishedTasks ~> i \in finish \/ shutingDown

\* Shutting down ends: doShutdown() waits until no executor runs, and does not
\* wait for ever (without a deadline).
ShutdownEnds ==
  shutingDown ~> \A i \in Ids : runningExecutors[i] = NoExecutor

\* Once shutdown() was called no instance is started, not even by an event
\* posted earlier, and none is queued.
ShutdownStartsNothing ==
  [][shutingDown => start' \subseteq start /\ queue' = queue]_vars

-----------------------------------------------------------------------------
(* What some theorems suppose of the configurations.                       *)

LoneActions(acts) == \A n \in DOMAIN acts : acts[n].lone

\* The actions of an instance that does not succeed, or writes nothing to its
\* standard error, do not plan in its herd.
FailureLone ==
  \A c \in Configs, t \in Tasks :
    LoneActions(TasksOf[c][t].onfailure) /\ LoneActions(TasksOf[c][t].onnostderr)

\* A task that may find no host to be started on has no such action.
FixedTarget ==
  \A c \in Configs, t \in Tasks :
    \/ TasksOf[c][t].balancing = "Host" /\ TasksOf[c][t].hosts # <<>>
    \/ TasksOf[c][t].onfailure = <<>> /\ TasksOf[c][t].onnostderr = <<>>

\* The actions that the end of an instance triggers, and all those of a task.
EndActions(c, t) ==
  {TasksOf[c][t].onsuccess, TasksOf[c][t].onfailure, TasksOf[c][t].onnostderr}
AllActions(c, t) ==
  EndActions(c, t) \cup {TasksOf[c][t].onplan, TasksOf[c][t].onstart}

\* The tasks of the instances that may head a herd: what is requested, and what
\* is planned by a configuration that is activated or by lone actions.
Heads ==
  {t \in Tasks :
     \/ \E a \in Requests : a.task = t
     \/ \E c \in Configs : \E n \in DOMAIN OnConfigLoad[c] :
          OnConfigLoad[c][n].task = t
     \/ \E c \in Configs, s \in Tasks : \E acts \in AllActions(c, s) :
          \E n \in DOMAIN acts : acts[n].lone /\ acts[n].task = t}

\* The end of a herder plans nothing in its herd: by then the herd may be over,
\* and the herder finished, before the last of these actions is done.
HerdersFinishLone ==
  \A c \in Configs, t \in Heads : \A acts \in EndActions(c, t) : LoneActions(acts)

\* The policy that a herder starts with is the one it ends with.
SteadyPolicies ==
  \A c, d \in Configs, t \in Heads :
    TasksOf[c][t].herdingPolicy = TasksOf[d][t].herdingPolicy

\* An instance plans nothing in its herd before it starts.
PlansOnceStarted == \A c \in Configs, t \in Tasks : LoneActions(TasksOf[c][t].onplan)

\* No instance waits for others to start: a start is no reason to evaluate the
\* conditions of a herd again.  The default condition is about the parent, which
\* has started.
StartsUnwatched ==
  \A c \in Configs, t \in Tasks : \A acts \in AllActions(c, t) : \A n \in DOMAIN acts :
    \/ acts[n].lone
    \/ /\ acts[n].queuewhen # "AnyStarted"
       /\ acts[n].queuewhen = "AllStarted" => acts[n].watch = {}

\* No instance is denied because the queue is full.
RoomInQueue == On("queue") => Cardinality(Queued) < MaxQueuedRequests

\* A set of tasks that holds the herders that do not wait and all that is planned in
\* their herds, where nothing waits for anything but its parent.
Unwatched(S) ==
  /\ \A c \in Configs, t \in Heads : TasksOf[c][t].herdingPolicy = "NoWait" => t \in S
  /\ \A c \in Configs, t \in S : \A acts \in AllActions(c, t) : \A n \in DOMAIN acts :
       \/ acts[n].lone
       \/ acts[n].task \in S /\ acts[n].queuewhen \in {"", "AllStarted"}
NoWaitUnwatched == \E S \in SUBSET Tasks : Unwatched(S)
=============================================================================
